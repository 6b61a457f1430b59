-------------------------- MODULE ApprovalContract --------------------------
(***************************************************************************)
(* The Midnight side of NightPermit: the Compact contract nightpermit       *)
(* (packages/midnight-contract) and the client sessions that join it and    *)
(* call its approve circuit (packages/midnight-client).                     *)
(*                                                                          *)
(* A call is not executed where it takes effect.  The client runs the       *)
(* circuit on the state its indexer shows, proves it, and submits the       *)
(* public transcript (the values read and the operations done).  The chain  *)
(* replays the transcript on the state it has by then, and takes it only if *)
(* every value read is still the same.  So the state a session checks, the  *)
(* state its circuit runs on and the state its transaction meets can be     *)
(* three different ones.                                                    *)
(*                                                                          *)
(* Covered: several sessions of one account, two reviewers approving at     *)
(* once, an indexer behind the chain, transactions lost on their way,       *)
(* observation timeouts and retries, page reloads, private state that a     *)
(* second session provisions in between.                                    *)
(* Abstracted: bytes, proofs and hashes (a hash is the tuple it hashes, so  *)
(* it has no collisions and its domain tag keeps it apart from others).     *)
(***************************************************************************)
EXTENDS Integers, FiniteSets

CONSTANTS
    Secrets,        \* the 32-byte reviewer secrets that people hold
    Sessions,       \* browser sessions, each a NightPermitAPI object
    Accounts,       \* owners of a private state store
    AccountOf,      \* the account of each session
    SuppliedBy,     \* the secrets the user of an account may type when joining
    Milestone,      \* milestoneId
    Deployment,     \* kernel.self(), the contract's own address
    Terms,          \* the other constructor-fixed payout context
    ZeroBytes,      \* the default value of a Bytes<32> ledger field
    NoSecret,       \* an absent private state
    MaxCalls,       \* bound: transactions of one session alive at a time
    MaxLost,        \* bound: transactions lost before inclusion
    MaxReloads      \* bound: page reloads that nothing forced

ASSUME SessionsAssumption ==
    /\ AccountOf \in [Sessions -> Accounts]
    /\ SuppliedBy \in [Accounts -> SUBSET Secrets]
    /\ NoSecret \notin Secrets

ASSUME BoundsAssumption ==
    MaxCalls \in Nat \ {0} /\ MaxLost \in Nat /\ MaxReloads \in Nat

VARIABLES
    ledger,         \* the contract's public state on the chain
    indexed,        \* that state as the indexer serves it
    mempool,        \* transactions submitted and not yet included
    receipt,        \* what became of each transaction
    privateState,   \* the reviewer secret stored for each account
    pc,             \* where each session is in join or approve
    held,           \* the secret the session last read
    fresh,          \* joining without an existing private state
    call,           \* which of its transactions the session waits for
    outcome,        \* how the session's last join or approve ended
    returned,       \* every result an approve() call has returned
    lost, reloads   \* how much of the bounds is used

vars == <<ledger, indexed, mempool, receipt, privateState, pc, held, fresh,
          call, outcome, returned, lost, reloads>>

sessionVars == <<pc, held, fresh, call, outcome, returned, reloads>>
chainVars   == <<ledger, mempool, receipt, lost>>

-----------------------------------------------------------------------------
(* The pure circuits: domain-separated hashes.                              *)

reviewerKey(secret) == <<"nightpermit:reviewer:v1", secret>>

reviewerNullifier(secret) ==
    <<"nightpermit:approval:v1", Deployment, Milestone, secret>>

authorizationId ==
    <<"nightpermit:authorization:v1", Deployment, Milestone, Terms>>

\* No hash is the zero value that an unset field has.
ASSUME HashAssumption == ZeroBytes # authorizationId

CallIds == Sessions \X (1..MaxCalls)

Keys == {reviewerKey(s) : s \in Secrets}

Nullifiers == {reviewerNullifier(s) : s \in Secrets}

LedgerState ==
    [reviewerOnePublicKey   : Keys,
     reviewerTwoPublicKey   : Keys,
     reviewerNullifiers     : SUBSET Nullifiers,
     approvalCount          : 0..2,
     authorized             : BOOLEAN,
     authorizationNullifier : {ZeroBytes, authorizationId}]

\* The public part of a proven call: the nullifier it inserts and the
\* approval count its circuit read back after the increment.
Transactions ==
    [id        : CallIds,
     nullifier : Nullifiers,
     countRead : 1..3]

Receipts ==
    [status : {"unused", "pending", "applied", "failed", "lost"},
     approvalCount : 0..2, authorized : BOOLEAN]

\* What approve() returns to its caller.
Results == [transactionId : CallIds, approvalCount : 0..2, authorized : BOOLEAN]

Receipt(status, state) ==
    [status        |-> status,
     approvalCount |-> state.approvalCount,
     authorized    |-> state.authorized]

-----------------------------------------------------------------------------
(* The contract.                                                            *)

\* A deliberately wrong variant, as all those named "wrong" below: they are
\* used to see that a property notices.  Here one person is both reviewers.
wrongConstructor(one, two) ==
    ledger = [reviewerOnePublicKey   |-> one,
              reviewerTwoPublicKey   |-> one,
              reviewerNullifiers     |-> {},
              approvalCount          |-> 0,
              authorized             |-> FALSE,
              authorizationNullifier |-> ZeroBytes]

\* The constructor: refuses equal reviewer keys, leaves the rest at zero.
Constructor(one, two) ==
    /\ one # two
    /\ ledger = [reviewerOnePublicKey   |-> one,
                 reviewerTwoPublicKey   |-> two,
                 reviewerNullifiers     |-> {},
                 approvalCount          |-> 0,
                 authorized             |-> FALSE,
                 authorizationNullifier |-> ZeroBytes]

IsReviewer(state, secret) ==
    reviewerKey(secret) \in {state.reviewerOnePublicKey, state.reviewerTwoPublicKey}

\* The three assertions of the approve circuit.
CircuitAccepts(state, secret) ==
    /\ ~state.authorized
    /\ IsReviewer(state, secret)
    /\ reviewerNullifier(secret) \notin state.reviewerNullifiers

\* The transcript of a circuit run: it reads the count after incrementing.
Transcript(id, state, secret) ==
    [id        |-> id,
     nullifier |-> reviewerNullifier(secret),
     countRead |-> state.approvalCount + 1]

\* Wrong: the circuit does not read the count back.
wrongReplaysOtherCount(tx, state) ==
    ~state.authorized /\ tx.nullifier \notin state.reviewerNullifiers

\* Wrong: the circuit reads none of the public state it depends on.
wrongReplaysAnywhere(tx, state) == TRUE

\* The reads that the circuit records: the flag (false), the membership of
\* the nullifier (false) and the count after the increment.  The chain accepts
\* a transcript only if each gives the same value on the state it meets; the
\* reads of sealed fields always do.
Replays(tx, state) ==
    /\ ~state.authorized
    /\ tx.nullifier \notin state.reviewerNullifiers
    /\ state.approvalCount + 1 = tx.countRead

\* Wrong: the nullifier is not recorded.
wrongApplyForgetful(tx, state) ==
    LET authorizes == tx.countRead = 2
    IN  [state EXCEPT
           !.approvalCount          = @ + 1,
           !.authorized             = @ \/ authorizes,
           !.authorizationNullifier = IF authorizes THEN authorizationId ELSE @]

\* The operations of the transcript.  Whether the branch that authorizes was
\* taken was decided by the count the circuit read.
Apply(tx, state) ==
    LET authorizes == tx.countRead = 2
    IN  [state EXCEPT
           !.reviewerNullifiers     = @ \union {tx.nullifier},
           !.approvalCount          = @ + 1,
           !.authorized             = @ \/ authorizes,
           !.authorizationNullifier = IF authorizes THEN authorizationId ELSE @]

-----------------------------------------------------------------------------
(* The chain and its indexer.                                               *)

\* A block includes a transaction: replayed and applied, or failed.
Include(tx) ==
    /\ tx \in mempool
    /\ mempool' = mempool \ {tx}
    /\ IF Replays(tx, ledger)
       THEN /\ ledger' = Apply(tx, ledger)
            /\ receipt' = [receipt EXCEPT ![tx.id] = Receipt("applied", ledger')]
       ELSE /\ ledger' = ledger
            /\ receipt' = [receipt EXCEPT ![tx.id].status = "failed"]
    /\ UNCHANGED <<indexed, privateState, lost, sessionVars>>

\* A submitted transaction never reaches a block.
Lose(tx) ==
    /\ tx \in mempool
    /\ lost < MaxLost
    /\ lost' = lost + 1
    /\ mempool' = mempool \ {tx}
    /\ receipt' = [receipt EXCEPT ![tx.id].status = "lost"]
    /\ UNCHANGED <<ledger, indexed, privateState, sessionVars>>

IndexBlocks ==
    /\ indexed # ledger
    /\ indexed' = ledger
    /\ UNCHANGED <<chainVars, privateState, sessionVars>>

-----------------------------------------------------------------------------
(* joinNightPermit.                                                         *)

End(c, where, code) ==
    /\ pc' = [pc EXCEPT ![c] = where]
    /\ outcome' = [outcome EXCEPT ![c] = code]

\* Reads the private state: what is stored wins over what the user supplies.
\* The secret found must be one of the two reviewers'.
BeginJoin(c, supplied) ==
    LET existing == privateState[AccountOf[c]]
        secret   == IF existing # NoSecret THEN existing ELSE supplied
    IN  /\ pc[c] = "out"
        /\ supplied \in SuppliedBy[AccountOf[c]] \union {NoSecret}
        /\ IF secret # NoSecret /\ IsReviewer(indexed, secret)
           THEN /\ End(c, "joining", "none")
                /\ held' = [held EXCEPT ![c] = secret]
                /\ fresh' = [fresh EXCEPT ![c] = existing = NoSecret]
           ELSE /\ End(c, "out", "NP_MIDNIGHT_BAD_PRIVATE_STATE")
                /\ UNCHANGED <<held, fresh>>
        /\ UNCHANGED <<chainVars, indexed, privateState, call, returned, reloads>>

\* findDeployedContract: stores the secret unless one was already stored when
\* the join began.
FinishJoin(c) ==
    /\ pc[c] = "joining"
    /\ privateState' = IF fresh[c]
                       THEN [privateState EXCEPT ![AccountOf[c]] = held[c]]
                       ELSE privateState
    /\ End(c, "ready", "none")
    /\ UNCHANGED <<chainVars, indexed, held, fresh, call, returned, reloads>>

-----------------------------------------------------------------------------
(* NightPermitAPI.approve.                                                  *)

\* Wrong: takes any recorded approval for the reviewer's own.
wrongRefusalByCount(state, secret) ==
    IF state.authorized THEN "NP_MIDNIGHT_ALREADY_AUTHORIZED"
    ELSE IF ~IsReviewer(state, secret) THEN "NP_MIDNIGHT_BAD_PRIVATE_STATE"
    ELSE IF state.approvalCount > 0 THEN "NP_MIDNIGHT_ALREADY_APPROVED"
    ELSE "none"

\* Why the client refuses before it asks the wallet, in the code's order.
Refusal(state, secret) ==
    IF state.authorized THEN "NP_MIDNIGHT_ALREADY_AUTHORIZED"
    ELSE IF ~IsReviewer(state, secret) THEN "NP_MIDNIGHT_BAD_PRIVATE_STATE"
    ELSE IF reviewerNullifier(secret) \in state.reviewerNullifiers
         THEN "NP_MIDNIGHT_ALREADY_APPROVED"
    ELSE "none"

\* The checks, on the state the indexer shows.
CheckApproval(c) ==
    LET secret  == privateState[AccountOf[c]]
        refusal == Refusal(indexed, secret)
    IN  /\ pc[c] = "ready"
        /\ End(c, IF refusal = "none" THEN "checked" ELSE "ready", refusal)
        /\ held' = [held EXCEPT ![c] = secret]
        /\ UNCHANGED <<chainVars, indexed, privateState, fresh, call, returned, reloads>>

\* callTx.approve: reads state and witness again, runs the circuit, proves
\* and submits; a failed assertion ends the call.
Submit(c, i) ==
    LET secret == privateState[AccountOf[c]]
    IN  /\ pc[c] = "checked"
        /\ receipt[<<c, i>>].status \in {"unused", "failed", "lost"}
        /\ held' = [held EXCEPT ![c] = secret]
        /\ IF CircuitAccepts(indexed, secret)
           THEN /\ mempool' = mempool \union {Transcript(<<c, i>>, indexed, secret)}
                /\ receipt' = [receipt EXCEPT ![<<c, i>>].status = "pending"]
                /\ call' = [call EXCEPT ![c] = i]
                /\ End(c, "submitted", "none")
           ELSE /\ End(c, "ready", "CALL_REJECTED")
                /\ UNCHANGED <<mempool, receipt, call>>
        /\ UNCHANGED <<ledger, indexed, privateState, fresh, returned, lost, reloads>>

\* callTx resolves once the indexer shows the transaction, and throws when
\* the transaction failed on chain.
AwaitInclusion(c) ==
    LET r == receipt[<<c, call[c]>>]
    IN  /\ pc[c] = "submitted"
        /\ \/ /\ r.status = "failed"
              /\ End(c, "ready", "CALL_REJECTED")
           \/ /\ r.status = "applied"
              /\ indexed.approvalCount >= r.approvalCount
              /\ End(c, "observing", "none")
        /\ UNCHANGED <<chainVars, indexed, privateState, held, fresh, call, returned, reloads>>

\* Wrong: the latest state is returned.
wrongObserveLatest(c) ==
    /\ pc[c] = "observing"
    /\ End(c, "ready", "returned")
    /\ returned' = returned \union
         {[transactionId |-> <<c, call[c]>>, approvalCount |-> indexed.approvalCount,
           authorized |-> indexed.authorized]}
    /\ UNCHANGED <<chainVars, indexed, privateState, held, fresh, call, reloads>>

\* The state at exactly this transaction is observed and returned.
ObserveResult(c) ==
    LET r == receipt[<<c, call[c]>>]
    IN  /\ pc[c] = "observing"
        /\ End(c, "ready", "returned")
        /\ returned' = returned \union
             {[transactionId |-> <<c, call[c]>>, approvalCount |-> r.approvalCount,
               authorized |-> r.authorized]}
        /\ UNCHANGED <<chainVars, indexed, privateState, held, fresh, call, reloads>>

\* The exact state is not observed within stateTimeoutMs.
ObserveTimeout(c) ==
    /\ pc[c] = "observing"
    /\ End(c, "ready", "NP_MIDNIGHT_STATE_TIMEOUT")
    /\ UNCHANGED <<chainVars, indexed, privateState, held, fresh, call, returned, reloads>>

-----------------------------------------------------------------------------
(* The page goes away: the session forgets everything, its transactions and *)
(* the account's private state stay.                                        *)

Forget(c) ==
    /\ End(c, "out", "none")
    /\ held' = [held EXCEPT ![c] = NoSecret]
    /\ UNCHANGED <<chainVars, indexed, privateState, fresh, call, returned>>

Reload(c) ==
    /\ pc[c] # "out"
    /\ reloads < MaxReloads
    /\ reloads' = reloads + 1
    /\ Forget(c)

\* A session that waits for a lost transaction waits for ever; the user
\* reloads.
GiveUp(c) ==
    /\ pc[c] = "submitted"
    /\ receipt[<<c, call[c]>>].status = "lost"
    /\ UNCHANGED reloads
    /\ Forget(c)

-----------------------------------------------------------------------------
Init ==
    /\ \E one, two \in Secrets : Constructor(reviewerKey(one), reviewerKey(two))
    /\ indexed = ledger
    /\ mempool = {}
    /\ receipt = [id \in CallIds |-> Receipt("unused", ledger)]
    /\ privateState = [a \in Accounts |-> NoSecret]
    /\ pc = [c \in Sessions |-> "out"]
    /\ held = [c \in Sessions |-> NoSecret]
    /\ fresh = [c \in Sessions |-> FALSE]
    /\ call = [c \in Sessions |-> 1]
    /\ outcome = [c \in Sessions |-> "none"]
    /\ returned = {}
    /\ lost = 0
    /\ reloads = 0

Step(c) ==
    \/ \E supplied \in Secrets \union {NoSecret} : BeginJoin(c, supplied)
    \/ FinishJoin(c)
    \/ CheckApproval(c)
    \/ \E i \in 1..MaxCalls : Submit(c, i)
    \/ AwaitInclusion(c)
    \/ ObserveResult(c)
    \/ ObserveTimeout(c)
    \/ Reload(c)
    \/ GiveUp(c)

Next ==
    \/ \E tx \in mempool : Include(tx) \/ Lose(tx)
    \/ IndexBlocks
    \/ \E c \in Sessions : Step(c)

Spec == Init /\ [][Next]_vars

(* What is assumed to go on.  Blocks include what reaches them and the      *)
(* indexer follows the chain; the program's own continuations run; and the  *)
(* user of a session that is ready approves, joins again after an error and *)
(* reloads a page that waits for a lost transaction.  Losses, reloads for   *)
(* no reason and observation timeouts are never assumed to happen.          *)
Fairness ==
    /\ \A id \in CallIds :
         WF_vars(\E tx \in mempool : tx.id = id /\ Include(tx))
    /\ WF_vars(IndexBlocks)
    /\ \A c \in Sessions :
         /\ \A s \in Secrets : WF_vars(BeginJoin(c, s))
         /\ WF_vars(FinishJoin(c))
         /\ WF_vars(CheckApproval(c))
         /\ WF_vars(\E i \in 1..MaxCalls : Submit(c, i))
         /\ WF_vars(AwaitInclusion(c))
         /\ WF_vars(ObserveResult(c))
         /\ WF_vars(GiveUp(c))

FairSpec == Spec /\ Fairness

-----------------------------------------------------------------------------
(* Properties.                                                              *)

\* Every variable stays in its domain; in particular the count stays 0..2,
\* which publicState in the client requires.
TypeOK ==
    /\ ledger \in LedgerState
    /\ indexed \in LedgerState
    /\ mempool \subseteq Transactions
    /\ receipt \in [CallIds -> Receipts]
    /\ privateState \in [Accounts -> Secrets \union {NoSecret}]
    /\ pc \in [Sessions -> {"out", "joining", "ready", "checked", "submitted", "observing"}]
    /\ held \in [Sessions -> Secrets \union {NoSecret}]
    /\ fresh \in [Sessions -> BOOLEAN]
    /\ call \in [Sessions -> 1..MaxCalls]
    /\ outcome \in [Sessions ->
         {"none", "returned", "CALL_REJECTED", "NP_MIDNIGHT_BAD_PRIVATE_STATE",
          "NP_MIDNIGHT_ALREADY_AUTHORIZED", "NP_MIDNIGHT_ALREADY_APPROVED",
          "NP_MIDNIGHT_STATE_TIMEOUT"}]
    /\ returned \subseteq Results
    /\ lost \in 0..MaxLost
    /\ reloads \in 0..MaxReloads

ReviewerSecrets == {s \in Secrets : IsReviewer(ledger, s)}

Approved(s) == reviewerNullifier(s) \in ledger.reviewerNullifiers

\* The milestone is authorized exactly when both of its reviewers have their
\* approval recorded, and carries its authorization nullifier exactly then;
\* nobody else's approval is ever recorded.  Two approvals proven on one
\* state, a retry of an approval that went through, or a circuit that ran on
\* an old state must not bring the count to two without the flag, nor the
\* flag without the second reviewer.
AuthorizedIffBothApproved ==
    /\ ledger.authorized <=> \A s \in ReviewerSecrets : Approved(s)
    /\ ledger.authorized <=> ledger.approvalCount = 2
    /\ ledger.authorized <=> ledger.authorizationNullifier = authorizationId
    /\ ledger.reviewerNullifiers \subseteq {reviewerNullifier(s) : s \in ReviewerSecrets}

\* The results that approve() calls return rank the approvals: no two calls
\* are told the same count, and only the one told two is told "authorized".
\* The relay can issue a permit for that one transaction alone, so a second
\* session that believed itself last would wait for a permit for ever.
ResultsRankApprovals ==
    \A r \in returned :
        /\ r.authorized <=> r.approvalCount = 2
        /\ \A q \in returned : q.approvalCount = r.approvalCount => q = r

\* A refusal is true of the chain although it was decided on the indexer's
\* view: a session is told that the milestone is authorized, or that its
\* reviewer has approved, only when that is so on chain.
RefusalsAreTruthful ==
    \A c \in Sessions :
        /\ outcome[c] = "NP_MIDNIGHT_ALREADY_AUTHORIZED" => ledger.authorized
        /\ outcome[c] = "NP_MIDNIGHT_ALREADY_APPROVED" => Approved(held[c])

\* Once authorized, nothing that is still on its way can change the public
\* state any more: the authorization and its nullifier are final.
AuthorizationIsFinal == [][ledger.authorized => ledger' = ledger]_vars

\* What a transaction did is never revised: a receipt that says applied is
\* permanent, and while a session waits for one of its transactions no other
\* page of the account can take that transaction's place.
AppliedIsPermanent ==
    [][\A id \in CallIds : receipt[id].status = "applied" => receipt'[id] = receipt[id]]_vars

\* With both reviewers' users at their sessions, the milestone is authorized
\* at last: conflicting proofs, stale checks, losses and reloads only delay it.
EventuallyAuthorized == <>ledger.authorized

\* Joining leaves a private state that is already provisioned alone, whatever
\* secret the user types: "reuses an existing account/contract-scoped private
\* state without overwriting it".
PrivateStateIsStable ==
    [][\A a \in Accounts : privateState[a] # NoSecret =>
                             privateState'[a] = privateState[a]]_vars

-----------------------------------------------------------------------------
(* The inductive invariant behind the safety properties.                    *)

\* The reviewers are fixed and distinct, and the indexer shows the same ones.
KeysFixed ==
    /\ ledger.reviewerOnePublicKey # ledger.reviewerTwoPublicKey
    /\ indexed.reviewerOnePublicKey = ledger.reviewerOnePublicKey
    /\ indexed.reviewerTwoPublicKey = ledger.reviewerTwoPublicKey

\* The count counts the recorded approvals, and the flag says there are two.
CountsApprovals ==
    /\ ledger.reviewerNullifiers \subseteq {reviewerNullifier(s) : s \in ReviewerSecrets}
    /\ ledger.approvalCount = 0 <=> ledger.reviewerNullifiers = {}
    /\ ledger.approvalCount = 1 => \E s \in ReviewerSecrets :
                                     ledger.reviewerNullifiers = {reviewerNullifier(s)}
    /\ ledger.approvalCount = 2 <=> \A s \in ReviewerSecrets : Approved(s)
    /\ ledger.authorized <=> ledger.approvalCount = 2
    /\ ledger.authorized <=> ledger.authorizationNullifier = authorizationId

\* The indexer never shows what the chain does not have.
IndexerBehind ==
    /\ indexed.reviewerNullifiers \subseteq ledger.reviewerNullifiers
    /\ indexed.authorized => ledger.authorized

\* A transaction on its way is the only one of its id, and was proven with a
\* reviewer's secret.
MempoolPending ==
    \A tx \in mempool :
        /\ receipt[tx.id].status = "pending"
        /\ \E s \in ReviewerSecrets : tx.nullifier = reviewerNullifier(s)
        /\ \A ty \in mempool : ty.id = tx.id => ty = tx

\* Each applied transaction has a rank of its own, and rank two authorized.
ReceiptsRanked ==
    \A id \in CallIds : receipt[id].status = "applied" =>
        /\ receipt[id].approvalCount \in 1..ledger.approvalCount
        /\ receipt[id].authorized <=> receipt[id].approvalCount = 2
        /\ \A jd \in CallIds :
              /\ receipt[jd].status = "applied"
              /\ receipt[jd].approvalCount = receipt[id].approvalCount
              => jd = id

\* What is returned, or about to be, is the receipt of an applied transaction.
ResultsFromReceipts ==
    /\ \A r \in returned : receipt[r.transactionId] = Receipt("applied", r)
    /\ \A c \in Sessions : pc[c] = "observing" => receipt[<<c, call[c]>>].status = "applied"

ApprovalInv ==
    /\ TypeOK
    /\ KeysFixed
    /\ CountsApprovals
    /\ IndexerBehind
    /\ MempoolPending
    /\ ReceiptsRanked
    /\ ResultsFromReceipts
    /\ RefusalsAreTruthful

-----------------------------------------------------------------------------
(* The contract and its clients implement MilestoneApproval.                *)

ReviewerNames == {"one", "two"}

KeyOf(name) == IF name = "one" THEN ledger.reviewerOnePublicKey
                               ELSE ledger.reviewerTwoPublicKey

recordedApprovals ==
    {name \in ReviewerNames :
        \E s \in Secrets : reviewerKey(s) = KeyOf(name) /\ Approved(s)}

Approval == INSTANCE MilestoneApproval
              WITH Reviewers  <- ReviewerNames,
                   approvedBy <- recordedApprovals,
                   authorized <- ledger.authorized

\* Every step of the chain and the sessions is an approval by one reviewer
\* who had not approved, or changes nothing that the promise is about.
ImplementsApproval == Approval!Spec
=============================================================================
