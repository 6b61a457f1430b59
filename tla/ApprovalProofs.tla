--------------------------- MODULE ApprovalProofs ---------------------------
(***************************************************************************)
(* Proofs about ApprovalContract, for any number of sessions, accounts and  *)
(* secrets and for any value of the bounds.  ApprovalInv is the inductive        *)
(* invariant; the safety properties and the refinement follow from it.      *)
(***************************************************************************)
EXTENDS ApprovalContract, TLAPS

-----------------------------------------------------------------------------
(* The hashes have no collisions.                                           *)

\* A commitment and a nullifier each determine the secret they come from.
LEMMA HashesInjective ==
  ASSUME NEW s \in Secrets, NEW t \in Secrets
  PROVE  /\ reviewerKey(s) = reviewerKey(t) => s = t
         /\ reviewerNullifier(s) = reviewerNullifier(t) => s = t
BY DEF reviewerKey, reviewerNullifier

\* No secret value is both absent and somebody's.
LEMMA ReviewerIsASecret ==
  ASSUME TypeOK, NEW s \in Secrets \union {NoSecret}, IsReviewer(ledger, s)
  PROVE  s \in Secrets
<1>1. PICK t \in Secrets : reviewerKey(s) = reviewerKey(t)
  BY DEF TypeOK, LedgerState, IsReviewer, Keys
<1>2. s = t
  BY <1>1 DEF reviewerKey
<1> QED
  BY <1>2

-----------------------------------------------------------------------------
(* What a replayed transcript does to the ledger.                           *)

\* Replaying a transcript proven with a reviewer's secret keeps the ledger
\* well formed, keeps its keys, and counts exactly one more approval.
LEMMA ApplyEffect ==
  ASSUME TypeOK, CountsApprovals,
         NEW tx \in Transactions, Replays(tx, ledger),
         NEW s \in ReviewerSecrets, tx.nullifier = reviewerNullifier(s)
  PROVE  LET next == Apply(tx, ledger)
         IN  /\ next \in LedgerState
             /\ next.reviewerOnePublicKey = ledger.reviewerOnePublicKey
             /\ next.reviewerTwoPublicKey = ledger.reviewerTwoPublicKey
             /\ next.reviewerNullifiers = ledger.reviewerNullifiers \union {reviewerNullifier(s)}
             /\ next.approvalCount = ledger.approvalCount + 1
             /\ next.authorized <=> next.approvalCount = 2
             /\ next.authorized <=> next.authorizationNullifier = authorizationId
<1> DEFINE next == Apply(tx, ledger)
<1>1. ledger \in LedgerState /\ s \in Secrets
  BY DEF TypeOK, ReviewerSecrets
<1>2. /\ ~ledger.authorized
      /\ ledger.approvalCount + 1 = tx.countRead
      /\ ledger.approvalCount \in {0, 1}
  BY <1>1 DEF Replays, CountsApprovals, LedgerState
<1>3. ledger.authorizationNullifier = ZeroBytes
  BY <1>1, <1>2, HashAssumption DEF CountsApprovals, LedgerState
<1>4. /\ next.reviewerOnePublicKey = ledger.reviewerOnePublicKey
      /\ next.reviewerTwoPublicKey = ledger.reviewerTwoPublicKey
      /\ next.reviewerNullifiers = ledger.reviewerNullifiers \union {reviewerNullifier(s)}
      /\ next.approvalCount = ledger.approvalCount + 1
      /\ next.authorizationNullifier = IF tx.countRead = 2 THEN authorizationId ELSE ZeroBytes
  BY <1>1, <1>3 DEF Apply, LedgerState
<1>5. next.authorized \in BOOLEAN /\ (next.authorized <=> tx.countRead = 2)
  BY <1>1, <1>2 DEF Apply, LedgerState
<1>6. ledger.reviewerNullifiers \union {reviewerNullifier(s)} \in SUBSET Nullifiers
  BY <1>1 DEF LedgerState, Nullifiers
<1>7. DOMAIN next = DOMAIN ledger /\ next = [f \in DOMAIN next |-> next[f]]
  BY <1>1 DEF Apply, LedgerState
<1>8. next \in LedgerState
  <2> HIDE DEF next
  <2> QED
    BY <1>1, <1>2, <1>4, <1>5, <1>6, <1>7 DEF LedgerState
<1> QED
  BY <1>2, <1>4, <1>5, <1>8, HashAssumption

-----------------------------------------------------------------------------
(* The invariant holds initially and in every step.                         *)

ChainInv == KeysFixed /\ CountsApprovals /\ IndexerBehind /\ MempoolPending /\ ReceiptsRanked

\* The contract as constructed, with nothing submitted, satisfies ApprovalInv.
LEMMA InitInd == Init => ApprovalInv
<1> SUFFICES ASSUME Init PROVE ApprovalInv
  OBVIOUS
<1>1. PICK one \in Secrets, two \in Secrets :
        Constructor(reviewerKey(one), reviewerKey(two))
  BY DEF Init
<1>2. /\ ledger = [reviewerOnePublicKey   |-> reviewerKey(one),
                   reviewerTwoPublicKey   |-> reviewerKey(two),
                   reviewerNullifiers     |-> {},
                   approvalCount          |-> 0,
                   authorized             |-> FALSE,
                   authorizationNullifier |-> ZeroBytes]
      /\ reviewerKey(one) # reviewerKey(two)
  BY <1>1 DEF Constructor
<1>3. ledger \in LedgerState
  BY <1>2 DEF LedgerState, Keys
<1>4. TypeOK
  BY <1>2, <1>3, BoundsAssumption DEF TypeOK, Init, Receipt, Receipts
<1>5. one \in ReviewerSecrets
  BY <1>2 DEF ReviewerSecrets, IsReviewer
<1>6. CountsApprovals
  BY <1>2, <1>5, HashAssumption DEF CountsApprovals, Approved
<1>7. KeysFixed /\ IndexerBehind
  BY <1>2 DEF KeysFixed, IndexerBehind, Init
<1>8. \A id \in CallIds : receipt[id].status = "unused"
  BY DEF Init, Receipt
<1>9. MempoolPending /\ ReceiptsRanked /\ ResultsFromReceipts /\ RefusalsAreTruthful
  BY <1>8 DEF Init, MempoolPending, ReceiptsRanked, ResultsFromReceipts, RefusalsAreTruthful
<1> QED
  BY <1>4, <1>6, <1>7, <1>9 DEF ApprovalInv

\* A step that leaves the chain and the indexer alone keeps what is said of them.
LEMMA ChainUntouched ==
  ASSUME ApprovalInv, UNCHANGED <<ledger, indexed, mempool, receipt>>
  PROVE  ChainInv'
BY DEF ApprovalInv, ChainInv, KeysFixed, CountsApprovals, IndexerBehind, MempoolPending,
       ReceiptsRanked, ReviewerSecrets, IsReviewer, Approved

\* A session's steps other than Submit: they may end an operation with an
\* error that is true, or with the receipt of the session's transaction.
LEMMA SessionInd ==
  ASSUME ApprovalInv, NEW c \in Sessions, UNCHANGED <<chainVars, indexed>>,
         TypeOK', ResultsFromReceipts', RefusalsAreTruthful'
  PROVE  ApprovalInv'
BY ChainUntouched DEF ApprovalInv, ChainInv, chainVars

\* Every returned result is that of a transaction that is marked applied.
LEMMA AppliedResults ==
  ASSUME ApprovalInv, NEW r \in returned
  PROVE  r.transactionId \in CallIds /\ receipt[r.transactionId].status = "applied"
<1>1. r \in Results /\ receipt[r.transactionId] = Receipt("applied", r)
  BY DEF ApprovalInv, TypeOK, ResultsFromReceipts
<1> QED
  BY <1>1 DEF Results, Receipt

\* A transaction that a block includes keeps the invariant: applied, it adds
\* the one approval its transcript was proven for and takes the next rank;
\* failed, it changes its receipt alone.
LEMMA IncludeInd ==
  ASSUME ApprovalInv, NEW tx \in mempool, Include(tx)
  PROVE  ApprovalInv'
<1>1. /\ tx \in Transactions
      /\ tx.id \in CallIds
      /\ receipt[tx.id].status = "pending"
      /\ receipt \in [CallIds -> Receipts]
      /\ mempool' = mempool \ {tx}
      /\ UNCHANGED <<indexed, privateState, lost, pc, held, fresh, call, outcome, returned, reloads>>
  BY DEF ApprovalInv, TypeOK, MempoolPending, Include, Transactions, sessionVars
<1>2. PICK s \in ReviewerSecrets : tx.nullifier = reviewerNullifier(s)
  BY DEF ApprovalInv, MempoolPending
<1>3. \A ty \in mempool : ty # tx => ty.id # tx.id
  BY DEF ApprovalInv, MempoolPending
<1>4. CASE Replays(tx, ledger)
  <2>1. /\ ledger' = Apply(tx, ledger)
        /\ receipt' = [receipt EXCEPT ![tx.id] = Receipt("applied", ledger')]
    BY <1>4 DEF Include
  <2>2. /\ ledger' \in LedgerState
        /\ ledger'.reviewerOnePublicKey = ledger.reviewerOnePublicKey
        /\ ledger'.reviewerTwoPublicKey = ledger.reviewerTwoPublicKey
        /\ ledger'.reviewerNullifiers = ledger.reviewerNullifiers \union {reviewerNullifier(s)}
        /\ ledger'.approvalCount = ledger.approvalCount + 1
        /\ ledger'.authorized <=> ledger'.approvalCount = 2
        /\ ledger'.authorized <=> ledger'.authorizationNullifier = authorizationId
    BY <1>1, <1>2, <1>4, <2>1, ApplyEffect DEF ApprovalInv
  <2>3. ReviewerSecrets' = ReviewerSecrets
    BY <2>2 DEF ReviewerSecrets, IsReviewer
  <2>4. /\ ~ledger.authorized
        /\ reviewerNullifier(s) \notin ledger.reviewerNullifiers
        /\ ledger.approvalCount \in {0, 1}
        /\ s \in Secrets
    BY <1>2, <1>4 DEF Replays, ApprovalInv, CountsApprovals, TypeOK, LedgerState, ReviewerSecrets
  <2>5. Receipt("applied", ledger') \in Receipts
    BY <2>2 DEF Receipt, Receipts, LedgerState
  <2>6. TypeOK'
    BY <1>1, <2>1, <2>2, <2>5 DEF ApprovalInv, TypeOK
  <2>7. KeysFixed'
    BY <1>1, <2>2 DEF ApprovalInv, KeysFixed
  <2>8. CountsApprovals'
    <3>1. ledger'.reviewerNullifiers \subseteq {reviewerNullifier(t) : t \in ReviewerSecrets}
      BY <1>2, <2>2 DEF ApprovalInv, CountsApprovals
    <3>2. ledger'.reviewerNullifiers # {} /\ ledger'.approvalCount # 0
      BY <2>2, <2>4
    <3>3. CASE ledger.approvalCount = 0
      <4>1. ledger'.reviewerNullifiers = {reviewerNullifier(s)} /\ ledger'.approvalCount = 1
        BY <2>2, <3>3 DEF ApprovalInv, CountsApprovals
      <4>2. PICK t \in ReviewerSecrets : t # s
        BY DEF ApprovalInv, KeysFixed, TypeOK, LedgerState, Keys, ReviewerSecrets, IsReviewer
      <4>3. reviewerNullifier(t) \notin ledger'.reviewerNullifiers
        BY <2>4, <4>1, <4>2, HashesInjective DEF ReviewerSecrets
      <4> QED
        BY <1>2, <2>2, <2>3, <3>1, <3>2, <4>1, <4>2, <4>3 DEF CountsApprovals, Approved
    <3>4. CASE ledger.approvalCount = 1
      <4>1. PICK t \in ReviewerSecrets : ledger.reviewerNullifiers = {reviewerNullifier(t)}
        BY <3>4 DEF ApprovalInv, CountsApprovals
      <4>2. t # s
        BY <2>4, <4>1
      <4>3. /\ s \in Secrets /\ t \in Secrets
            /\ reviewerKey(s) # reviewerKey(t)
            /\ IsReviewer(ledger, s) /\ IsReviewer(ledger, t)
        BY <1>2, <4>1, <4>2, HashesInjective DEF ReviewerSecrets
      <4>4. \A r \in ReviewerSecrets : reviewerKey(r) = reviewerKey(s) \/ reviewerKey(r) = reviewerKey(t)
        BY <4>3 DEF ReviewerSecrets, IsReviewer
      <4>5. \A r \in ReviewerSecrets : r = s \/ r = t
        BY <4>3, <4>4, HashesInjective DEF ReviewerSecrets
      <4>6. \A r \in ReviewerSecrets : reviewerNullifier(r) \in ledger'.reviewerNullifiers
        BY <2>2, <4>1, <4>5
      <4> QED
        BY <2>2, <2>3, <3>1, <3>2, <3>4, <4>6 DEF CountsApprovals, Approved
    <3> QED
      BY <2>4, <3>3, <3>4
  <2>9. IndexerBehind'
    BY <1>1, <2>2, <2>4 DEF ApprovalInv, IndexerBehind
  <2>10. MempoolPending'
    BY <1>1, <1>3, <2>1, <2>3 DEF ApprovalInv, MempoolPending, TypeOK, Transactions
  <2>11. \A id \in CallIds : id # tx.id => receipt'[id] = receipt[id]
    BY <1>1, <2>1
  <2>12. /\ receipt'[tx.id].status = "applied"
         /\ receipt'[tx.id].approvalCount = ledger.approvalCount + 1
         /\ receipt'[tx.id].authorized <=> ledger.approvalCount + 1 = 2
    BY <1>1, <2>1, <2>2 DEF Receipt
  <2>13. ReceiptsRanked'
    <3>1. \A id \in CallIds : id # tx.id /\ receipt'[id].status = "applied" =>
            /\ receipt'[id].approvalCount \in 1..ledger.approvalCount
            /\ receipt'[id].authorized <=> receipt'[id].approvalCount = 2
            /\ \A jd \in CallIds \ {tx.id} :
                  receipt'[jd].status = "applied" /\ receipt'[jd].approvalCount = receipt'[id].approvalCount
                  => jd = id
      BY <2>11 DEF ApprovalInv, ReceiptsRanked
    <3> QED
      BY <2>2, <2>4, <2>12, <3>1 DEF ReceiptsRanked
  <2>14. ResultsFromReceipts'
    BY <1>1, <2>11 DEF ApprovalInv, ResultsFromReceipts, TypeOK, Receipt, Results, CallIds
  <2>15. RefusalsAreTruthful'
    BY <1>1, <2>2, <2>4 DEF ApprovalInv, RefusalsAreTruthful, Approved
  <2> QED
    BY <2>6, <2>7, <2>8, <2>9, <2>10, <2>13, <2>14, <2>15 DEF ApprovalInv
<1>5. CASE ~Replays(tx, ledger)
  <2>1. ledger' = ledger /\ receipt' = [receipt EXCEPT ![tx.id].status = "failed"]
    BY <1>5 DEF Include
  <2>2. /\ receipt' \in [CallIds -> Receipts]
        /\ receipt'[tx.id].status = "failed"
        /\ \A id \in CallIds : id # tx.id => receipt'[id] = receipt[id]
    BY <1>1, <2>1 DEF Receipts
  <2>3. TypeOK' /\ KeysFixed' /\ CountsApprovals' /\ IndexerBehind'
    BY <1>1, <2>1, <2>2
    DEF ApprovalInv, TypeOK, KeysFixed, CountsApprovals, IndexerBehind, ReviewerSecrets,
         IsReviewer, Approved
  <2>4. MempoolPending'
    BY <1>1, <1>3, <2>1, <2>2 DEF ApprovalInv, MempoolPending, TypeOK, Transactions,
         ReviewerSecrets, IsReviewer
  <2>5. ReceiptsRanked'
    BY <1>1, <2>1, <2>2 DEF ApprovalInv, ReceiptsRanked
  <2>6. ResultsFromReceipts'
    BY <1>1, <2>2 DEF ApprovalInv, ResultsFromReceipts, TypeOK, Receipt, Results, CallIds
  <2>7. RefusalsAreTruthful'
    BY <1>1, <2>1 DEF ApprovalInv, RefusalsAreTruthful, Approved
  <2> QED
    BY <2>3, <2>4, <2>5, <2>6, <2>7 DEF ApprovalInv
<1> QED
  BY <1>4, <1>5

\* Losing a transaction or indexing the chain keeps the invariant.
LEMMA EnvironmentInd ==
  ASSUME ApprovalInv, IndexBlocks \/ \E tx \in mempool : Lose(tx)
  PROVE  ApprovalInv'
<1>1. CASE IndexBlocks
  BY <1>1 DEF IndexBlocks, chainVars, sessionVars, ApprovalInv, TypeOK, KeysFixed, CountsApprovals,
       IndexerBehind, MempoolPending, ReceiptsRanked, ResultsFromReceipts, RefusalsAreTruthful,
       ReviewerSecrets, IsReviewer, Approved
<1>2. ASSUME NEW tx \in mempool, Lose(tx) PROVE ApprovalInv'
  <2>1. /\ tx.id \in CallIds
        /\ receipt[tx.id].status = "pending"
        /\ mempool' = mempool \ {tx}
        /\ receipt' = [receipt EXCEPT ![tx.id].status = "lost"]
        /\ UNCHANGED <<ledger, indexed, privateState, pc, held, fresh, call, outcome, returned, reloads>>
    BY <1>2 DEF ApprovalInv, TypeOK, Transactions, MempoolPending, Lose, sessionVars
  <2>2. /\ receipt' \in [CallIds -> Receipts]
        /\ receipt'[tx.id].status = "lost"
        /\ \A id \in CallIds : id # tx.id => receipt'[id] = receipt[id]
    BY <2>1 DEF ApprovalInv, TypeOK, Receipts
  <2>3. lost' \in 0..MaxLost
    BY <1>2, BoundsAssumption DEF Lose, ApprovalInv, TypeOK
  <2>4. TypeOK' /\ KeysFixed' /\ CountsApprovals' /\ IndexerBehind'
    BY <2>1, <2>2, <2>3 DEF ApprovalInv, TypeOK, KeysFixed, CountsApprovals, IndexerBehind,
       ReviewerSecrets, IsReviewer, Approved
  <2>5. MempoolPending'
    BY <2>1, <2>2 DEF ApprovalInv, MempoolPending, TypeOK, Transactions, ReviewerSecrets, IsReviewer
  <2>6. ReceiptsRanked' /\ ResultsFromReceipts' /\ RefusalsAreTruthful'
    BY <2>1, <2>2 DEF ApprovalInv, ReceiptsRanked, ResultsFromReceipts, RefusalsAreTruthful,
       TypeOK, Receipt, Results, CallIds, Approved
  <2> QED
    BY <2>4, <2>5, <2>6 DEF ApprovalInv
<1> QED
  BY <1>1, <1>2

\* Submitting puts a transcript in the mempool that a reviewer's secret was
\* proven for, under an id that nothing else in the mempool has.
LEMMA SubmitInd ==
  ASSUME ApprovalInv, NEW c \in Sessions, NEW i \in 1..MaxCalls, Submit(c, i)
  PROVE  ApprovalInv'
<1> DEFINE secret == privateState[AccountOf[c]]
           id     == <<c, i>>
           tx     == Transcript(id, indexed, secret)
<1>1. /\ id \in CallIds
      /\ receipt[id].status \in {"unused", "failed", "lost"}
      /\ secret \in Secrets \union {NoSecret}
      /\ pc[c] = "checked"
      /\ held' = [held EXCEPT ![c] = secret]
      /\ UNCHANGED <<ledger, indexed, privateState, fresh, returned, lost, reloads>>
  BY SessionsAssumption DEF ApprovalInv, TypeOK, Submit, CallIds
<1>2. CASE ~CircuitAccepts(indexed, secret)
  <2>1. /\ UNCHANGED <<mempool, receipt, call>>
        /\ End(c, "ready", "CALL_REJECTED")
    BY <1>2 DEF Submit
  <2>2. TypeOK'
    BY <1>1, <2>1 DEF ApprovalInv, TypeOK, End
  <2>3. ResultsFromReceipts' /\ RefusalsAreTruthful'
    BY <1>1, <2>1 DEF ApprovalInv, TypeOK, End, ResultsFromReceipts, RefusalsAreTruthful, Approved
  <2> QED
    BY <1>1, <2>1, <2>2, <2>3, SessionInd DEF chainVars
<1>3. CASE CircuitAccepts(indexed, secret)
  <2>1. /\ mempool' = mempool \union {tx}
        /\ receipt' = [receipt EXCEPT ![id].status = "pending"]
        /\ call' = [call EXCEPT ![c] = i]
        /\ End(c, "submitted", "none")
    BY <1>3 DEF Submit
  <2>2. IsReviewer(ledger, secret)
    BY <1>3 DEF CircuitAccepts, ApprovalInv, KeysFixed, IsReviewer
  <2>3. secret \in Secrets /\ secret \in ReviewerSecrets
    BY <1>1, <2>2, ReviewerIsASecret DEF ApprovalInv, ReviewerSecrets
  <2>4. tx.id = id /\ tx.nullifier = reviewerNullifier(secret)
    BY DEF Transcript
  <2>5. tx \in Transactions
    BY <1>1, <2>3 DEF Transcript, Transactions, Nullifiers, ApprovalInv, TypeOK, LedgerState
  <2> HIDE DEF tx, secret
  <2>6. /\ receipt' \in [CallIds -> Receipts]
        /\ receipt'[id].status = "pending"
        /\ \A jd \in CallIds : jd # id => receipt'[jd] = receipt[jd]
    BY <1>1, <2>1 DEF ApprovalInv, TypeOK, Receipts
  <2>7. TypeOK'
    BY <1>1, <2>1, <2>5, <2>6 DEF ApprovalInv, TypeOK, End
  <2>8. KeysFixed' /\ CountsApprovals' /\ IndexerBehind'
    BY <1>1 DEF ApprovalInv, KeysFixed, CountsApprovals, IndexerBehind, ReviewerSecrets,
         IsReviewer, Approved
  <2>9. \A ty \in mempool : ty.id # id
    BY <1>1 DEF ApprovalInv, MempoolPending
  <2>10. MempoolPending'
    <3>1. ReviewerSecrets' = ReviewerSecrets
      BY <1>1 DEF ReviewerSecrets, IsReviewer
    <3>2. \A ty \in mempool : ty.id \in CallIds /\ receipt'[ty.id] = receipt[ty.id]
      BY <2>6, <2>9 DEF ApprovalInv, TypeOK, Transactions
    <3> QED
      BY <2>1, <2>3, <2>4, <2>6, <2>9, <3>1, <3>2 DEF ApprovalInv, MempoolPending
  <2>11. ReceiptsRanked'
    BY <1>1, <2>6 DEF ApprovalInv, ReceiptsRanked
  <2>12. ResultsFromReceipts'
    <3>1. \A r \in returned : r.transactionId \in CallIds /\ receipt[r.transactionId].status = "applied"
      BY AppliedResults
    <3>2. \A r \in returned' : receipt'[r.transactionId] = Receipt("applied", r)
      BY <1>1, <2>6, <3>1 DEF ApprovalInv, ResultsFromReceipts
    <3>3. ASSUME NEW d \in Sessions, pc'[d] = "observing"
          PROVE  receipt'[<<d, call'[d]>>].status = "applied"
      <4>1. d # c /\ pc[d] = "observing" /\ call'[d] = call[d]
        BY <2>1, <3>3 DEF End, ApprovalInv, TypeOK
      <4>2. <<d, call[d]>> \in CallIds /\ <<d, call[d]>> # id
        BY <4>1 DEF CallIds, ApprovalInv, TypeOK
      <4> QED
        BY <2>6, <4>1, <4>2 DEF ApprovalInv, ResultsFromReceipts
    <3> QED
      BY <3>2, <3>3 DEF ResultsFromReceipts
  <2>13. RefusalsAreTruthful'
    BY <1>1, <2>1 DEF ApprovalInv, TypeOK, End, RefusalsAreTruthful, Approved
  <2> QED
    BY <2>7, <2>8, <2>10, <2>11, <2>12, <2>13 DEF ApprovalInv
<1> QED
  BY <1>2, <1>3

\* Joining, checking, waiting, observing and forgetting keep the invariant:
\* each leaves the chain alone, and a refusal is decided on a state that the
\* chain has had.
LEMMA OtherStepsInd ==
  ASSUME ApprovalInv, NEW c \in Sessions,
         \/ \E supplied \in Secrets \union {NoSecret} : BeginJoin(c, supplied)
         \/ FinishJoin(c) \/ CheckApproval(c) \/ AwaitInclusion(c)
         \/ ObserveResult(c) \/ ObserveTimeout(c) \/ Reload(c) \/ GiveUp(c)
  PROVE  ApprovalInv'
<1> DEFINE secret == privateState[AccountOf[c]]
<1>0. /\ secret \in Secrets \union {NoSecret}
      /\ <<c, call[c]>> \in CallIds
      /\ TypeOK /\ ResultsFromReceipts /\ RefusalsAreTruthful
  BY SessionsAssumption DEF ApprovalInv, TypeOK, CallIds
<1> HIDE DEF secret
<1>1. ASSUME NEW supplied \in Secrets \union {NoSecret}, BeginJoin(c, supplied)
      PROVE  ApprovalInv'
  <2>1. UNCHANGED <<chainVars, indexed, privateState, call, returned, reloads>>
    BY <1>1 DEF BeginJoin
  <2>2. \/ /\ End(c, "joining", "none")
           /\ \E v \in Secrets \union {NoSecret}, isNew \in BOOLEAN :
                /\ held' = [held EXCEPT ![c] = v]
                /\ fresh' = [fresh EXCEPT ![c] = isNew]
        \/ End(c, "out", "NP_MIDNIGHT_BAD_PRIVATE_STATE") /\ UNCHANGED <<held, fresh>>
    BY <1>0, <1>1 DEF BeginJoin, secret
  <2>3. TypeOK' /\ ResultsFromReceipts' /\ RefusalsAreTruthful'
    BY <1>0, <2>1, <2>2
    DEF TypeOK, End, ResultsFromReceipts, RefusalsAreTruthful, Approved, chainVars
  <2> QED
    BY <2>1, <2>3, SessionInd
<1>2. CASE FinishJoin(c)
  <2>1. /\ UNCHANGED <<chainVars, indexed, held, fresh, call, returned, reloads>>
        /\ End(c, "ready", "none")
        /\ \/ privateState' = [privateState EXCEPT ![AccountOf[c]] = held[c]]
           \/ privateState' = privateState
    BY <1>2 DEF FinishJoin
  <2>2. TypeOK' /\ ResultsFromReceipts' /\ RefusalsAreTruthful'
    BY <1>0, <2>1, SessionsAssumption
    DEF TypeOK, End, ResultsFromReceipts, RefusalsAreTruthful, Approved, chainVars
  <2> QED
    BY <2>1, <2>2, SessionInd
<1>3. CASE CheckApproval(c)
  <2> DEFINE refusal == Refusal(indexed, secret)
  <2>1. /\ UNCHANGED <<chainVars, indexed, privateState, fresh, call, returned, reloads>>
        /\ End(c, IF refusal = "none" THEN "checked" ELSE "ready", refusal)
        /\ held' = [held EXCEPT ![c] = secret]
    BY <1>3 DEF CheckApproval, secret
  <2>2. /\ refusal \in {"none", "NP_MIDNIGHT_BAD_PRIVATE_STATE",
                        "NP_MIDNIGHT_ALREADY_AUTHORIZED", "NP_MIDNIGHT_ALREADY_APPROVED"}
        /\ refusal = "NP_MIDNIGHT_ALREADY_AUTHORIZED" => indexed.authorized
        /\ refusal = "NP_MIDNIGHT_ALREADY_APPROVED" =>
             reviewerNullifier(secret) \in indexed.reviewerNullifiers
    BY DEF Refusal
  <2> HIDE DEF refusal
  <2>3. TypeOK' /\ ResultsFromReceipts'
    BY <1>0, <2>1, <2>2 DEF TypeOK, End, ResultsFromReceipts, chainVars
  <2>4. RefusalsAreTruthful'
    BY <1>0, <2>1, <2>2
    DEF TypeOK, End, RefusalsAreTruthful, Approved, chainVars, ApprovalInv, IndexerBehind
  <2> QED
    BY <2>1, <2>3, <2>4, SessionInd
<1>4. CASE AwaitInclusion(c)
  <2>1. /\ UNCHANGED <<chainVars, indexed, privateState, held, fresh, call, returned, reloads>>
        /\ \/ End(c, "ready", "CALL_REJECTED")
           \/ receipt[<<c, call[c]>>].status = "applied" /\ End(c, "observing", "none")
    BY <1>4 DEF AwaitInclusion
  <2>2. TypeOK' /\ ResultsFromReceipts' /\ RefusalsAreTruthful'
    BY <1>0, <2>1
    DEF TypeOK, End, ResultsFromReceipts, RefusalsAreTruthful, Approved, chainVars
  <2> QED
    BY <2>1, <2>2, SessionInd
<1>5. CASE ObserveResult(c)
  <2> DEFINE id  == <<c, call[c]>>
             res == [transactionId |-> id, approvalCount |-> receipt[id].approvalCount,
                     authorized |-> receipt[id].authorized]
  <2>1. /\ UNCHANGED <<chainVars, indexed, privateState, held, fresh, call, reloads>>
        /\ End(c, "ready", "returned")
        /\ returned' = returned \union {res}
        /\ receipt[id].status = "applied"
    BY <1>0, <1>5 DEF ObserveResult, ResultsFromReceipts
  <2>2. receipt[id] \in Receipts
    BY <1>0 DEF TypeOK
  <2>3. res \in Results
    BY <1>0, <2>2 DEF Results, Receipts
  <2>4. receipt[id] = Receipt("applied", res)
    BY <2>1, <2>2 DEF Receipt, Receipts
  <2>5. res.transactionId = id
    OBVIOUS
  <2> HIDE DEF res
  <2>6. TypeOK' /\ ResultsFromReceipts' /\ RefusalsAreTruthful'
    BY <1>0, <2>1, <2>3, <2>4, <2>5
    DEF TypeOK, End, ResultsFromReceipts, RefusalsAreTruthful, Approved, chainVars
  <2> QED
    BY <2>1, <2>6, SessionInd
<1>6. CASE ObserveTimeout(c)
  <2>1. /\ UNCHANGED <<chainVars, indexed, privateState, held, fresh, call, returned, reloads>>
        /\ End(c, "ready", "NP_MIDNIGHT_STATE_TIMEOUT")
    BY <1>6 DEF ObserveTimeout
  <2>2. TypeOK' /\ ResultsFromReceipts' /\ RefusalsAreTruthful'
    BY <1>0, <2>1
    DEF TypeOK, End, ResultsFromReceipts, RefusalsAreTruthful, Approved, chainVars
  <2> QED
    BY <2>1, <2>2, SessionInd
<1>7. CASE Reload(c) \/ GiveUp(c)
  <2>1. /\ UNCHANGED <<chainVars, indexed, privateState, fresh, call, returned>>
        /\ End(c, "out", "none")
        /\ held' = [held EXCEPT ![c] = NoSecret]
        /\ reloads' \in 0..MaxReloads
    BY <1>0, <1>7, BoundsAssumption DEF Reload, GiveUp, Forget, TypeOK
  <2>2. TypeOK' /\ ResultsFromReceipts' /\ RefusalsAreTruthful'
    BY <1>0, <2>1
    DEF TypeOK, End, ResultsFromReceipts, RefusalsAreTruthful, Approved, chainVars
  <2> QED
    BY <2>1, <2>2, SessionInd
<1> QED
  BY <1>1, <1>2, <1>3, <1>4, <1>5, <1>6, <1>7

\* Every step keeps the invariant.
LEMMA StepInd == ApprovalInv /\ [Next]_vars => ApprovalInv'
<1> SUFFICES ASSUME ApprovalInv, [Next]_vars PROVE ApprovalInv'
  OBVIOUS
<1>1. ASSUME NEW tx \in mempool, Include(tx) PROVE ApprovalInv'
  BY <1>1, IncludeInd
<1>2. CASE IndexBlocks \/ \E tx \in mempool : Lose(tx)
  BY <1>2, EnvironmentInd
<1>3. ASSUME NEW c \in Sessions, NEW i \in 1..MaxCalls, Submit(c, i) PROVE ApprovalInv'
  BY <1>3, SubmitInd
<1>4. ASSUME NEW c \in Sessions, Step(c), ~\E i \in 1..MaxCalls : Submit(c, i) PROVE ApprovalInv'
  BY <1>4, OtherStepsInd DEF Step
<1>5. CASE UNCHANGED vars
  BY <1>5, ChainUntouched
  DEF vars, ApprovalInv, ChainInv, TypeOK, ResultsFromReceipts, RefusalsAreTruthful, Approved
<1> QED
  BY <1>1, <1>2, <1>3, <1>4, <1>5 DEF Next

-----------------------------------------------------------------------------
(* The theorems.                                                            *)

\* ApprovalInv is an invariant: among its parts, the type invariant, the ranking
\* of the receipts and the truth of the refusals.
THEOREM Inductive == Spec => []ApprovalInv
  BY InitInd, StepInd, PTL DEF Spec

\* The chain and its clients stay in their domains.
THEOREM TypeCorrect == Spec => []TypeOK
<1>1. ApprovalInv => TypeOK
  BY DEF ApprovalInv
<1> QED
  BY <1>1, Inductive, PTL

\* The milestone is authorized exactly when both reviewers have approved,
\* whatever the interleaving of proofs, losses, retries and reloads.
THEOREM AuthorizationIsSound == Spec => []AuthorizedIffBothApproved
<1>1. ApprovalInv => AuthorizedIffBothApproved
  BY DEF ApprovalInv, CountsApprovals, AuthorizedIffBothApproved
<1> QED
  BY <1>1, Inductive, PTL

\* No two approvals are ever told the same count.
THEOREM ResultsAreRanked == Spec => []ResultsRankApprovals
<1>1. ASSUME ApprovalInv PROVE ResultsRankApprovals
  <2>1. ASSUME NEW r \in returned
        PROVE  /\ r.transactionId \in CallIds
               /\ receipt[r.transactionId].status = "applied"
               /\ receipt[r.transactionId].approvalCount = r.approvalCount
               /\ receipt[r.transactionId].authorized = r.authorized
               /\ r \in Results
    <3>1. r \in Results /\ receipt[r.transactionId] = Receipt("applied", r)
      BY <1>1, <2>1 DEF ApprovalInv, TypeOK, ResultsFromReceipts
    <3> QED
      BY <3>1 DEF Results, Receipt
  <2>2. ASSUME NEW r \in returned PROVE r.authorized <=> r.approvalCount = 2
    BY <1>1, <2>1 DEF ApprovalInv, ReceiptsRanked
  <2>3. ASSUME NEW r \in returned, NEW q \in returned, q.approvalCount = r.approvalCount
        PROVE  q = r
    <3>1. q.transactionId = r.transactionId
      BY <1>1, <2>1, <2>3 DEF ApprovalInv, ReceiptsRanked
    <3>2. q.authorized = r.authorized
      BY <2>1, <3>1
    <3> QED
      BY <2>1, <2>3, <3>1, <3>2 DEF Results
  <2> QED
    BY <2>2, <2>3 DEF ResultsRankApprovals
<1> QED
  BY <1>1, Inductive, PTL

\* A client refuses only what the chain really has already.
THEOREM RefusalsAreSound == Spec => []RefusalsAreTruthful
<1>1. ApprovalInv => RefusalsAreTruthful
  BY DEF ApprovalInv
<1> QED
  BY <1>1, Inductive, PTL

\* After authorization the public state never changes again.
THEOREM AuthorizationFinality == Spec => AuthorizationIsFinal
<1>1. ASSUME ApprovalInv, [Next]_vars, ledger.authorized PROVE ledger' = ledger
  <2>1. ASSUME NEW tx \in mempool, Include(tx) PROVE ledger' = ledger
    BY <1>1, <2>1 DEF Include, Replays
  <2>2. ASSUME ~\E tx \in mempool : Include(tx) PROVE ledger' = ledger
    BY <1>1, <2>2 DEF Next, vars, Lose, IndexBlocks, Step, BeginJoin, FinishJoin, CheckApproval,
         Submit, AwaitInclusion, ObserveResult, ObserveTimeout, Reload, GiveUp, Forget, chainVars
  <2> QED
    BY <2>1, <2>2
<1> QED
  BY <1>1, Inductive, PTL DEF Spec, AuthorizationIsFinal

\* A receipt that says applied is never revised.
THEOREM AppliedPermanence == Spec => AppliedIsPermanent
<1> DEFINE Kept == \A id \in CallIds : receipt[id].status = "applied" => receipt'[id] = receipt[id]
<1>1. ASSUME ApprovalInv, [Next]_vars PROVE Kept
  <2>1. ASSUME NEW tx \in mempool, Include(tx) \/ Lose(tx) PROVE Kept
    <3>1. tx.id \in CallIds /\ receipt[tx.id].status = "pending"
      BY <1>1 DEF ApprovalInv, TypeOK, Transactions, MempoolPending
    <3>2. \A id \in CallIds : id # tx.id => receipt'[id] = receipt[id]
      BY <1>1, <2>1, <3>1 DEF Include, Lose, ApprovalInv, TypeOK
    <3> QED
      BY <3>1, <3>2
  <2>2. ASSUME NEW c \in Sessions, NEW i \in 1..MaxCalls, Submit(c, i) PROVE Kept
    <3>1. <<c, i>> \in CallIds /\ receipt[<<c, i>>].status \in {"unused", "failed", "lost"}
      BY <2>2 DEF Submit, CallIds
    <3>2. \A id \in CallIds : id # <<c, i>> => receipt'[id] = receipt[id]
      BY <1>1, <2>2 DEF Submit, ApprovalInv, TypeOK
    <3> QED
      BY <3>1, <3>2
  <2>3. ASSUME UNCHANGED receipt PROVE Kept
    BY <2>3
  <2>4. ASSUME NEW c \in Sessions, Step(c), ~\E i \in 1..MaxCalls : Submit(c, i)
        PROVE  UNCHANGED receipt
    BY <2>4 DEF Step, BeginJoin, FinishJoin, CheckApproval, AwaitInclusion, ObserveResult,
         ObserveTimeout, Reload, GiveUp, Forget, chainVars
  <2>5. ASSUME IndexBlocks \/ UNCHANGED vars PROVE UNCHANGED receipt
    BY <2>5 DEF IndexBlocks, vars, chainVars
  <2> QED
    BY <1>1, <2>1, <2>2, <2>3, <2>4, <2>5 DEF Next
<1> QED
  BY <1>1, Inductive, PTL DEF Spec, AppliedIsPermanent

-----------------------------------------------------------------------------
(* Refinement of MilestoneApproval.                                         *)

\* Only an applied transaction changes the ledger.
LEMMA OtherStepsKeepLedger ==
  ASSUME [Next]_vars, ~\E tx \in mempool : Include(tx)
  PROVE  ledger' = ledger
BY DEF Next, vars, Lose, IndexBlocks, Step, BeginJoin, FinishJoin, CheckApproval, Submit,
     AwaitInclusion, ObserveResult, ObserveTimeout, Reload, GiveUp, Forget, chainVars

\* An applied transaction is one reviewer's first approval.
LEMMA ApplyIsApprove ==
  ASSUME ApprovalInv, ApprovalInv', NEW tx \in mempool, Include(tx), Replays(tx, ledger)
  PROVE  \E name \in ReviewerNames : Approval!Approve(name)
<1>1. PICK s \in ReviewerSecrets : tx.nullifier = reviewerNullifier(s)
  BY DEF ApprovalInv, MempoolPending
<1>2. tx \in Transactions
  BY DEF ApprovalInv, TypeOK
<1>3. /\ ledger'.reviewerOnePublicKey = ledger.reviewerOnePublicKey
      /\ ledger'.reviewerTwoPublicKey = ledger.reviewerTwoPublicKey
      /\ ledger'.reviewerNullifiers = ledger.reviewerNullifiers \union {reviewerNullifier(s)}
      /\ reviewerNullifier(s) \notin ledger.reviewerNullifiers
  BY <1>1, <1>2, ApplyEffect DEF ApprovalInv, Include, Replays
<1>4. PICK name \in ReviewerNames : KeyOf(name) = reviewerKey(s)
  BY <1>1 DEF ReviewerSecrets, IsReviewer, ReviewerNames, KeyOf
<1>5. s \in Secrets
  BY <1>1 DEF ReviewerSecrets
<1>6. \A n \in ReviewerNames : KeyOf(n)' = KeyOf(n) /\ (n # name => KeyOf(n) # KeyOf(name))
  BY <1>3, <1>4 DEF ApprovalInv, KeysFixed, ReviewerNames, KeyOf
<1>7. \A t \in Secrets : Approved(t)' <=> Approved(t) \/ t = s
  BY <1>3, <1>5, HashesInjective DEF Approved
<1>8. name \notin recordedApprovals
  BY <1>3, <1>4, <1>5, HashesInjective DEF recordedApprovals, Approved
<1>9. recordedApprovals' = recordedApprovals \union {name}
  <2>1. \A n \in ReviewerNames : n \in recordedApprovals' <=> n \in recordedApprovals \/ n = name
    BY <1>4, <1>5, <1>6, <1>7, HashesInjective DEF recordedApprovals
  <2> QED
    BY <1>4, <2>1 DEF recordedApprovals
<1>10. ledger'.authorized <=> \A t \in ReviewerSecrets' : Approved(t)'
  BY DEF ApprovalInv, CountsApprovals
<1>11. \A n \in ReviewerNames : \E t \in Secrets : reviewerKey(t) = KeyOf(n)'
  BY DEF ApprovalInv, TypeOK, LedgerState, Keys, ReviewerNames, KeyOf
<1>12. \A t \in Secrets : t \in ReviewerSecrets' <=> \E n \in ReviewerNames : reviewerKey(t) = KeyOf(n)'
  BY DEF ReviewerSecrets, IsReviewer, ReviewerNames, KeyOf
<1>13. recordedApprovals' = ReviewerNames <=> \A t \in ReviewerSecrets' : Approved(t)'
  <2>1. ASSUME recordedApprovals' = ReviewerNames, NEW t \in ReviewerSecrets'
        PROVE  Approved(t)'
    <3>1. t \in Secrets
      BY DEF ReviewerSecrets
    <3>2. PICK n \in ReviewerNames : reviewerKey(t) = KeyOf(n)'
      BY <1>12, <3>1
    <3>3. PICK u \in Secrets : reviewerKey(u) = KeyOf(n)' /\ Approved(u)'
      BY <2>1 DEF recordedApprovals
    <3> QED
      BY <3>1, <3>2, <3>3, HashesInjective
  <2>2. ASSUME \A t \in ReviewerSecrets' : Approved(t)'
        PROVE  recordedApprovals' = ReviewerNames
    BY <1>11, <1>12, <2>2 DEF recordedApprovals
  <2> QED
    BY <2>1, <2>2
<1>14. ledger'.authorized \in BOOLEAN
  BY DEF ApprovalInv, TypeOK, LedgerState
<1>15. ledger'.authorized = (recordedApprovals' = ReviewerNames)
  BY <1>10, <1>13, <1>14
<1> QED
  BY <1>4, <1>8, <1>9, <1>15 DEF Approval!Approve

\* The contract and its clients implement the abstract two-reviewer approval.
THEOREM Refinement == Spec => ImplementsApproval
<1>1. Init => Approval!Init
  <2> SUFFICES ASSUME Init PROVE Approval!Init
    OBVIOUS
  <2>1. ledger.reviewerNullifiers = {} /\ ledger.authorized = FALSE
    BY DEF Init, Constructor
  <2> QED
    BY <2>1 DEF Approval!Init, recordedApprovals, Approved
<1>2. ApprovalInv /\ ApprovalInv' /\ [Next]_vars => [Approval!Next]_<<recordedApprovals, ledger.authorized>>
  <2> SUFFICES ASSUME ApprovalInv, ApprovalInv', [Next]_vars
               PROVE  [Approval!Next]_<<recordedApprovals, ledger.authorized>>
    OBVIOUS
  <2>1. ASSUME UNCHANGED ledger
        PROVE  UNCHANGED <<recordedApprovals, ledger.authorized>>
    BY <2>1 DEF recordedApprovals, Approved, KeyOf
  <2>2. ASSUME NEW tx \in mempool, Include(tx), ledger' # ledger
        PROVE  Approval!Next
    BY <2>2, ApplyIsApprove DEF Include, Approval!Next
  <2> QED
    BY <2>1, <2>2, OtherStepsKeepLedger
<1> QED
  BY <1>1, <1>2, Inductive, PTL DEF Spec, ImplementsApproval, Approval!Spec
=============================================================================
