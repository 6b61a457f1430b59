---------------------------- MODULE EscrowProofs ----------------------------
(***************************************************************************)
(* Proofs about Escrow, for any number of sessions, permits and references, *)
(* any transactions of other wallets and any clock skew.  EscrowInv is the     *)
(* inductive invariant; the safety properties and the refinement follow.    *)
(***************************************************************************)
EXTENDS Escrow, FiniteSetTheorems, TLAPS

-----------------------------------------------------------------------------
(* Transactions and the outputs they leave.                                 *)

LedgerType == utxo \in [Refs -> Outputs] /\ next \in 1..(MaxRefs + 1)

\* The sets of outputs and inputs that the validator counts are finite.
LEMMA FiniteParts ==
  ASSUME NEW tx \in Transactions, NEW p
  PROVE  /\ DOMAIN tx.outputs = 1..Len(tx.outputs) /\ Len(tx.outputs) \in Nat
         /\ IsFiniteSet(withToken(tx.outputs))
         /\ IsFiniteSet(exactPayouts(tx.outputs, p))
         /\ IsFiniteSet({r \in tx.inputs : utxo[r].token = 1})
<1>1. DOMAIN tx.outputs = 1..Len(tx.outputs) /\ Len(tx.outputs) \in Nat
  BY DEF Transactions
<1>2. IsFiniteSet(DOMAIN tx.outputs)
  BY <1>1, FS_Interval
<1>3. tx.inputs \subseteq Refs /\ IsFiniteSet(Refs)
  BY FS_Interval, BoundsAssumption DEF Transactions, Refs
<1>4. IsFiniteSet({r \in tx.inputs : utxo[r].token = 1})
  BY <1>3, FS_Subset
<1>5. /\ withToken(tx.outputs) \subseteq DOMAIN tx.outputs
      /\ exactPayouts(tx.outputs, p) \subseteq DOMAIN tx.outputs
  BY DEF withToken, exactPayouts
<1> QED
  BY <1>1, <1>2, <1>4, <1>5, FS_Subset

\* Applying a transaction empties its inputs, fills the next references and
\* leaves every other output alone.
LEMMA AppliedOutputs ==
  ASSUME LedgerType, RefsInOrder, NEW tx \in Transactions, inputsUnspent(tx), Apply(tx)
  PROVE  /\ utxo' \in [Refs -> Outputs]
         /\ next' \in 1..(MaxRefs + 1) /\ next' = next + Len(tx.outputs) /\ slot' = slot
         /\ \A r \in tx.inputs : r \in Refs /\ r < next /\ utxo'[r] = NoOutput
         /\ \A r \in Refs : r < next /\ r \notin tx.inputs => utxo'[r] = utxo[r]
         /\ \A i \in DOMAIN tx.outputs :
              next + i - 1 \in Refs /\ utxo'[next + i - 1] = tx.outputs[i]
         /\ \A r \in Refs : r >= next => \/ utxo'[r] = NoOutput
                                         \/ r - next + 1 \in DOMAIN tx.outputs
         /\ \A r \in Refs : r >= next' => utxo'[r] = NoOutput
<1>1. /\ next \in 1..(MaxRefs + 1) /\ MaxRefs \in Nat /\ utxo \in [Refs -> Outputs]
      /\ tx.inputs \subseteq Refs
      /\ tx.outputs \in Seq(Outputs)
  BY BoundsAssumption DEF LedgerType, Transactions
<1>2. /\ DOMAIN tx.outputs = 1..Len(tx.outputs) /\ Len(tx.outputs) \in Nat
      /\ \A i \in 1..Len(tx.outputs) : tx.outputs[i] \in Outputs
  BY <1>1
<1>3. \A r \in tx.inputs : r < next
  BY <1>1 DEF RefsInOrder, inputsUnspent, Refs
<1>4. /\ next' = next + Len(tx.outputs) /\ next' <= MaxRefs + 1 /\ slot' = slot
      /\ utxo' = [r \in Refs |-> IF r \in tx.inputs THEN NoOutput
                                 ELSE IF r \in next..(next + Len(tx.outputs) - 1)
                                 THEN tx.outputs[r - next + 1]
                                 ELSE utxo[r]]
  BY DEF Apply
<1>5. NoOutput \in Outputs
  BY DEF NoOutput, Outputs
<1>6. \A r \in Refs : r \in next..(next + Len(tx.outputs) - 1)
                        => r - next + 1 \in 1..Len(tx.outputs)
  BY <1>1, <1>2 DEF Refs
<1>7. utxo' \in [Refs -> Outputs]
  BY <1>1, <1>2, <1>4, <1>5, <1>6
<1>8. \A i \in 1..Len(tx.outputs) :
        /\ next + i - 1 \in Refs /\ next + i - 1 >= next
        /\ next + i - 1 \in next..(next + Len(tx.outputs) - 1)
        /\ (next + i - 1) - next + 1 = i
  BY <1>1, <1>2, <1>4 DEF Refs
<1>9. \A i \in DOMAIN tx.outputs :
        next + i - 1 \in Refs /\ utxo'[next + i - 1] = tx.outputs[i]
  <2> TAKE i \in DOMAIN tx.outputs
  <2>1. next + i - 1 \in Refs /\ next + i - 1 \notin tx.inputs
    BY <1>1, <1>2, <1>3, <1>8 DEF Refs
  <2> QED
    BY <2>1, <1>2, <1>4, <1>8
<1>10. \A r \in Refs : r < next /\ r \notin tx.inputs => utxo'[r] = utxo[r]
  BY <1>1, <1>2, <1>4 DEF Refs
<1>11. \A r \in Refs : r >= next /\ r \notin next..(next + Len(tx.outputs) - 1) =>
                         utxo'[r] = NoOutput
  BY <1>1, <1>3, <1>4 DEF RefsInOrder, Refs
<1>12. \A r \in Refs : r >= next' => r >= next /\ r \notin next..(next + Len(tx.outputs) - 1)
  BY <1>1, <1>2, <1>4 DEF Refs
<1>13. \A r \in tx.inputs : r \in Refs /\ r < next /\ utxo'[r] = NoOutput
  BY <1>1, <1>3, <1>4
<1>14. next' \in 1..(MaxRefs + 1)
  BY <1>1, <1>2, <1>4
<1> QED
  BY <1>2, <1>4, <1>6, <1>7, <1>9, <1>10, <1>11, <1>12, <1>13, <1>14

\* The tokens after a transaction are those it did not spend and those of its
\* outputs.
LEMMA TokensMove ==
  ASSUME LedgerType, RefsInOrder, NEW tx \in Transactions, inputsUnspent(tx), Apply(tx)
  PROVE  tokenRefs' = (tokenRefs \ tx.inputs)
                        \union {r \in Refs : r >= next /\ r - next + 1 \in withToken(tx.outputs)}
<1> USE DEF tokenRefs
<1>1. NoOutput.token = 0
  BY DEF NoOutput
<1>2. next \in Int /\ \A r \in Refs : r \in Int
  BY DEF LedgerType, Refs
<1>3. \A r \in Refs : r < next =>
        (utxo'[r].token = 1 <=> utxo[r].token = 1 /\ r \notin tx.inputs)
  BY <1>1, AppliedOutputs
<1>4. \A r \in Refs : r >= next => utxo[r].token # 1
  BY <1>1 DEF RefsInOrder
<1>5. \A r \in Refs : r >= next =>
        (utxo'[r].token = 1 <=> r - next + 1 \in withToken(tx.outputs))
  <2> SUFFICES ASSUME NEW r \in Refs, r >= next
               PROVE  utxo'[r].token = 1 <=> r - next + 1 \in withToken(tx.outputs)
    OBVIOUS
  <2>1. next + (r - next + 1) - 1 = r
    BY <1>2
  <2>2. CASE r - next + 1 \in DOMAIN tx.outputs
    <3>1. utxo'[r] = tx.outputs[r - next + 1]
      BY <2>1, <2>2, AppliedOutputs
    <3> QED
      BY <3>1, <2>2 DEF withToken
  <2>3. CASE r - next + 1 \notin DOMAIN tx.outputs
    BY <2>3, <1>1, AppliedOutputs DEF withToken
  <2> QED
    BY <2>2, <2>3
<1> QED
  BY <1>2, <1>3, <1>4, <1>5

-----------------------------------------------------------------------------
(* What a claim does to the state.                                          *)

\* One more nullifier in front, and the sequence one higher.
LEMMA ConsumedState ==
  ASSUME NEW state \in States, NEW p \in Permits
  PROVE  LET after == consume(state, p)
         IN  /\ after \in States
             /\ after.policy = state.policy
             /\ after.sequence = state.sequence + 1
             /\ after.consumed = <<p.nullifier>> \o state.consumed
             /\ Len(after.consumed) = Len(state.consumed) + 1
             /\ Range(after.consumed) = Range(state.consumed) \union {p.nullifier}
<1> DEFINE old == state.consumed
           new == <<p.nullifier>> \o old
<1>1. p.nullifier \in Nullifiers /\ old \in Seq(Nullifiers) /\ state.sequence \in Nat
  BY PolicyAssumption DEF States, SignedPermits
<1>2. /\ new \in Seq(Nullifiers)
      /\ Len(new) = Len(old) + 1 /\ Len(old) \in Nat
      /\ new[1] = p.nullifier
      /\ \A i \in 1..Len(old) : new[i + 1] = old[i]
      /\ DOMAIN new = 1..Len(new) /\ DOMAIN old = 1..Len(old)
  BY <1>1
<1>3. Range(new) = Range(old) \union {p.nullifier}
  <2> DEFINE e == p.nullifier
  <2> SUFFICES Range(new) = Range(old) \union {e}
    OBVIOUS
  <2>1. \A i \in DOMAIN new : i = 1 \/ (i - 1 \in DOMAIN old /\ new[i] = old[i - 1])
    BY <1>2
  <2>2. \A i \in DOMAIN old : i + 1 \in DOMAIN new /\ new[i + 1] = old[i]
    BY <1>2
  <2>3. 1 \in DOMAIN new
    BY <1>2
  <2>4. new[1] = e
    BY <1>2
  <2> HIDE DEF new, old, e
  <2>5. \A x : (\E i \in DOMAIN new : x = new[i]) <=> (x = e \/ \E i \in DOMAIN old : x = old[i])
    BY <2>1, <2>2, <2>3, <2>4
  <2> QED
    BY <2>5 DEF Range
<1>4. /\ consume(state, p).policy = state.policy
      /\ consume(state, p).consumed = new
      /\ consume(state, p).sequence = state.sequence + 1
      /\ DOMAIN consume(state, p) = {"policy", "consumed", "sequence"}
      /\ consume(state, p) = [f \in DOMAIN consume(state, p) |-> consume(state, p)[f]]
  <2> HIDE DEF new
  <2> QED
    BY DEF consume, States, new
<1>5. consume(state, p) \in States
  <2> HIDE DEF new
  <2> QED
    BY <1>1, <1>2, <1>4 DEF States
<1> QED
  BY <1>2, <1>3, <1>4, <1>5

\* The nullifiers of a state are finitely many.
LEMMA FiniteConsumed ==
  ASSUME NEW state \in States
  PROVE  IsFiniteSet(Range(state.consumed))
<1> state.consumed \in Seq(Nullifiers)
  BY DEF States
<1>1. DOMAIN state.consumed = 1..Len(state.consumed) /\ Len(state.consumed) \in Nat
  OBVIOUS
<1>2. IsFiniteSet(DOMAIN state.consumed)
  BY <1>1, FS_Interval
<1>3. state.consumed \in Surjection(DOMAIN state.consumed, Range(state.consumed))
  <2>1. state.consumed \in [DOMAIN state.consumed -> Range(state.consumed)]
    BY <1>1 DEF States, Range
  <2> QED
    BY <2>1 DEF Surjection, Range
<1> QED
  BY <1>2, <1>3, FS_Surjection DEF ExistsSurjection

-----------------------------------------------------------------------------
(* The three things that an accepted transaction may do to the state thread *)
(* are to start it, to leave it alone and to claim.                         *)

LedgerInv == LedgerType /\ RefsInOrder /\ StateThreadIsUnique /\ BooksBalance

ThreadKept == tokenRefs' = tokenRefs /\ \A r \in tokenRefs : utxo'[r] = utxo[r]

\* The transaction spends the state output "own" under its claim, and its
\* output i is the next state output.
ThreadClaimed(tx, own, i) ==
    /\ tokenRefs = {own} /\ tokenRefs' = {next + i - 1}
    /\ isState(utxo[own]) /\ utxo'[own] = NoOutput
    /\ i \in DOMAIN tx.outputs /\ utxo'[next + i - 1] = tx.outputs[i]
    /\ tx.claim \in Permits
    /\ authorizesClaim(utxo[own].datum, tx)
    /\ tx.outputs[i] = [utxo[own] EXCEPT !.asset = @ - tx.claim.amount,
                                         !.datum = consume(@, tx.claim)]
    /\ tx.outputs[i].datum \in States
    /\ tx.outputs[i].asset + tx.claim.amount = utxo[own].asset
    /\ Cardinality(exactPayouts(tx.outputs, tx.claim)) = 1

\* Without the initialization output nothing is minted.
LEMMA NoMint ==
  ASSUME NEW tx \in Transactions, ledgerAccepts(tx), InitRef \notin tx.inputs
  PROVE  /\ tx.mint = 0
         /\ Cardinality(withToken(tx.outputs)) =
              Cardinality({r \in tx.inputs : utxo[r].token = 1})
<1>1. tx.mint = 0
  BY DEF ledgerAccepts, scriptsAccept, Mint
<1>2. Cardinality({r \in tx.inputs : utxo[r].token = 1}) \in Nat
  BY FiniteParts, FS_CardinalityType
<1> QED
  BY <1>1, <1>2 DEF ledgerAccepts, wellFormed

\* A transaction without a state output leaves the thread alone.
LEMMA KeepsThread ==
  ASSUME LedgerInv, NEW tx \in Transactions, ledgerAccepts(tx), Apply(tx),
         InitRef \notin tx.inputs, withToken(tx.outputs) = {}
  PROVE  ThreadKept
<1>1. {r \in tx.inputs : utxo[r].token = 1} = {}
  <2>1. Cardinality({r \in tx.inputs : utxo[r].token = 1}) = 0
    BY NoMint, FS_EmptySet
  <2> HIDE DEF withToken
  <2> QED
    BY <2>1, FiniteParts, FS_EmptySet
<1>2. inputsUnspent(tx) /\ LedgerType /\ RefsInOrder
  BY DEF ledgerAccepts, LedgerInv
<1>3. tokenRefs' = tokenRefs
  BY <1>1, <1>2, TokensMove DEF tokenRefs
<1>4. \A r \in tokenRefs : r < next /\ r \notin tx.inputs
  <2>1. NoOutput.token = 0
    BY DEF NoOutput
  <2> QED
    BY <1>1, <1>2, <2>1 DEF tokenRefs, RefsInOrder, LedgerType, Refs
<1> QED
  BY <1>2, <1>3, <1>4, AppliedOutputs DEF ThreadKept, tokenRefs

\* A transaction with a state output is a claim on the one there is.
LEMMA ClaimsThread ==
  ASSUME LedgerInv, NEW tx \in Transactions, ledgerAccepts(tx), Apply(tx),
         InitRef \notin tx.inputs, withToken(tx.outputs) # {}
  PROVE  \E own \in tx.inputs \intersect Refs, i \in DOMAIN tx.outputs : ThreadClaimed(tx, own, i)
<1> DEFINE T == {r \in tx.inputs : utxo[r].token = 1}
<1>1. inputsUnspent(tx) /\ LedgerType /\ RefsInOrder /\ tx.inputs \subseteq Refs
  BY DEF ledgerAccepts, LedgerInv, Transactions
<1>2. PICK own \in T : TRUE
  <2>1. T = {} => Cardinality(withToken(tx.outputs)) = 0
    BY NoMint, FS_EmptySet
  <2> QED
    BY <2>1, FiniteParts, FS_EmptySet
<1>3. own \in tokenRefs /\ own \in tx.inputs
  BY <1>1, <1>2 DEF tokenRefs
<1>4. tokenRefs = {own} /\ isState(utxo[own])
  BY <1>3 DEF LedgerInv, StateThreadIsUnique, isState, tokenRefs
<1>5. Spend(tx, own)
  BY <1>3, <1>4 DEF isState, ledgerAccepts, scriptsAccept
<1>6. PICK i \in DOMAIN tx.outputs :
        /\ withToken(tx.outputs) = {i}
        /\ tx.outputs[i].address = utxo[own].address
        /\ tx.outputs[i].datum = consume(utxo[own].datum, tx.claim)
        /\ releasesExactTranche(utxo[own], tx.outputs[i], tx.claim)
  BY <1>5 DEF Spend
<1>7. /\ tx.claim \in Permits /\ tx.claim.amount \in Nat /\ tx.claim.nullifier \in Nullifiers
      /\ authorizesClaim(utxo[own].datum, tx)
      /\ Cardinality(exactPayouts(tx.outputs, tx.claim)) = 1
  BY <1>5, PolicyAssumption DEF Spend, Transactions, SignedPermits
<1>8. tx.outputs[i] \in Outputs /\ utxo[own] \in Outputs /\ tx.outputs[i].token = 1
  BY <1>1, <1>3, <1>6 DEF Transactions, LedgerType, withToken
<1>9. /\ tx.outputs[i].asset + tx.claim.amount = utxo[own].asset
      /\ tx.outputs[i].asset = utxo[own].asset - tx.claim.amount
  BY <1>6, <1>7, <1>8 DEF releasesExactTranche, Outputs
<1>10. tx.outputs[i] = [utxo[own] EXCEPT !.asset = @ - tx.claim.amount,
                                         !.datum = consume(@, tx.claim)]
  BY <1>4, <1>6, <1>8, <1>9 DEF Outputs, isState
<1>11. consume(utxo[own].datum, tx.claim) \in States
  BY <1>4, <1>7, ConsumedState DEF isState
<1>12. tokenRefs' = {next + i - 1}
  <2>1. next \in Int /\ \A r \in Refs : r \in Int
    BY <1>1 DEF LedgerType, Refs
  <2>2. i \in Nat \ {0} /\ next + i - 1 \in Refs
    BY <1>1, AppliedOutputs, FiniteParts
  <2>3. tokenRefs \ tx.inputs = {}
    BY <1>3, <1>4
  <2> QED
    BY <1>1, <1>6, <2>1, <2>2, <2>3, TokensMove
<1>13. utxo'[own] = NoOutput /\ utxo'[next + i - 1] = tx.outputs[i]
  BY <1>1, <1>3, AppliedOutputs
<1>14. own \in tx.inputs \intersect Refs
  BY <1>1, <1>3
<1> QED
  BY <1>4, <1>6, <1>7, <1>9, <1>10, <1>11, <1>12, <1>13, <1>14 DEF ThreadClaimed

-----------------------------------------------------------------------------
(* The ledger's part of the invariant survives every transaction.           *)

\* A reference that was in use keeps its output or loses it for good.
LEMMA RefsStayInOrder ==
  ASSUME LedgerType, RefsInOrder, NEW tx \in Transactions, inputsUnspent(tx), Apply(tx)
  PROVE  /\ RefsInOrder' /\ LedgerType' /\ next <= next'
         /\ \A r \in Refs : r < next => utxo'[r] \in {NoOutput, utxo[r]}
         /\ initialized => initialized'
         /\ InitRef \notin tx.inputs => (initialized' <=> initialized)
<1>1. InitRef \in Refs /\ InitRef < next /\ Len(tx.outputs) \in Nat /\ next \in Int
  BY BoundsAssumption, FiniteParts DEF InitRef, Refs, RefsInOrder, LedgerType
<1>2. \A r \in Refs : r < next => utxo'[r] \in {NoOutput, utxo[r]}
  BY AppliedOutputs
<1>3. next' = next + Len(tx.outputs)
  BY AppliedOutputs
<1>4. InitRef < next' /\ next <= next'
  BY <1>1, <1>3 DEF InitRef
<1>5. \A r \in Refs : r >= next' => utxo'[r] = NoOutput
  BY AppliedOutputs
<1>6. utxo'[InitRef] \in {NoOutput, utxo[InitRef]}
  BY <1>1, <1>2
<1>7. InitRef \notin tx.inputs => utxo'[InitRef] = utxo[InitRef]
  BY <1>1, AppliedOutputs
<1>8. (~initialized => utxo[InitRef] = [NoOutput EXCEPT !.address = Deployer, !.asset = Inventory])'
  BY <1>6 DEF RefsInOrder, initialized, NoOutput, InitRef
<1>9. RefsInOrder'
  BY <1>4, <1>5, <1>8 DEF RefsInOrder, InitRef
<1>10. LedgerType'
  BY AppliedOutputs DEF LedgerType
<1> QED
  BY <1>2, <1>4, <1>6, <1>7, <1>9, <1>10 DEF initialized, InitRef

\* The initialization transaction is one, and starts the thread.
LEMMA StartsThread ==
  ASSUME LedgerInv, ledgerAccepts(initialization), Apply(initialization)
  PROVE  /\ initialization \in Transactions /\ inputsUnspent(initialization)
         /\ ~initialized /\ initialized' /\ tokenRefs = {} /\ tokenRefs' = {next}
         /\ utxo'[next] = [address |-> Script, token |-> 1, asset |-> Inventory,
                           datum |-> initialState]
         /\ initialState \in States /\ initialState.policy = Policy
<1> DEFINE out == [address |-> Script, token |-> 1, asset |-> Inventory, datum |-> initialState]
<1>1. initialState \in States /\ initialState.policy = Policy
  BY PolicyAssumption DEF initialState, States
<1>2. out \in Outputs
  BY <1>1, WalletsAssumption, BoundsAssumption DEF Outputs
<1>3. initialization \in Transactions
  <2>1. <<out>> \in Seq(Outputs)
    BY <1>2
  <2>2. {InitRef} \in SUBSET Refs /\ {Deployer} \in SUBSET Addresses
    BY BoundsAssumption, WalletsAssumption DEF InitRef, Refs
  <2>3. MaxSlot + 1 \in Int
    BY BoundsAssumption
  <2> HIDE DEF out
  <2> QED
    BY <1>1, <2>1, <2>2, <2>3 DEF initialization, Transactions, out
<1>4. inputsUnspent(initialization) /\ LedgerType /\ RefsInOrder
  BY DEF ledgerAccepts, LedgerInv
<1>5. InitRef \in initialization.inputs
  BY DEF initialization
<1>6. ~initialized /\ tokenRefs = {}
  BY <1>4, <1>5 DEF inputsUnspent, initialized, LedgerInv, StateThreadIsUnique
<1>7. initialized'
  BY <1>3, <1>4, <1>5, AppliedOutputs DEF initialized, InitRef
<1>8. initialization.outputs = <<out>> /\ withToken(<<out>>) = {1}
  <2>1. initialization.outputs = <<out>>
    BY DEF initialization
  <2>2. out.token = 1
    OBVIOUS
  <2> HIDE DEF out
  <2> QED
    BY <2>1, <2>2 DEF withToken
<1>9. next \in Int /\ \A r \in Refs : r \in Int
  BY <1>4 DEF LedgerType, Refs
<1>10. next \in Refs /\ utxo'[next] = out
  <2>1. 1 \in DOMAIN initialization.outputs /\ initialization.outputs[1] = out
    BY <1>8
  <2>2. next + 1 - 1 = next
    BY <1>9
  <2> HIDE DEF out
  <2> QED
    BY <1>3, <1>4, <2>1, <2>2, AppliedOutputs
<1>11. tokenRefs' = {next}
  <2>1. withToken(initialization.outputs) = {1}
    BY <1>8
  <2>2. tokenRefs' = (tokenRefs \ initialization.inputs)
           \union {r \in Refs : r >= next /\ r - next + 1 \in withToken(initialization.outputs)}
    BY <1>3, <1>4, TokensMove
  <2>3. tokenRefs' = {r \in Refs : r >= next /\ r - next + 1 = 1}
    BY <1>6, <2>1, <2>2
  <2>4. \A r \in Refs : r >= next /\ r - next + 1 = 1 <=> r = next
    BY <1>9
  <2> QED
    BY <1>10, <2>3, <2>4
<1> QED
  BY <1>1, <1>3, <1>4, <1>6, <1>7, <1>10, <1>11

\* Starting the thread: the books open with the whole inventory.
LEMMA StartKeepsLedger ==
  ASSUME LedgerInv, ledgerAccepts(initialization), Apply(initialization)
  PROVE  LedgerInv' /\ \A p : ~isPaid(p)
<1>1. RefsInOrder' /\ LedgerType'
  BY StartsThread, RefsStayInOrder DEF LedgerInv
<1>2. /\ utxo'[next].address = Script /\ utxo'[next].token = 1
      /\ utxo'[next].asset = Inventory /\ utxo'[next].datum = initialState
  BY StartsThread
<1>3. next \in Refs
  BY StartsThread DEF tokenRefs
<1>4. StateThreadIsUnique'
  <2>1. initialized' /\ tokenRefs' = {next}
    BY StartsThread
  <2> QED
    BY <1>2, <1>3, <2>1, StartsThread DEF StateThreadIsUnique
<1>5. BooksBalance'
  <2> SUFFICES LET state == utxo'[next].datum IN
                 /\ state.sequence = Len(state.consumed)
                 /\ Cardinality(Range(state.consumed)) = Len(state.consumed)
                 /\ utxo'[next].asset + Policy.amount * Len(state.consumed) = Inventory
    BY StartsThread DEF BooksBalance
  <2>1. initialState.consumed = <<>> /\ initialState.sequence = 0 /\ Len(<<>>) = 0
    BY DEF initialState
  <2>2. Range(<<>>) = {} /\ Cardinality(Range(<<>>)) = 0
    <3>1. Range(<<>>) = {}
      BY DEF Range
    <3> QED
      BY <3>1, FS_EmptySet
  <2>3. Policy.amount \in Nat
    BY PolicyAssumption DEF Policies
  <2> QED
    BY <1>2, <2>1, <2>2, <2>3, BoundsAssumption
<1>6. \A p : ~isPaid(p)
  BY StartsThread DEF isPaid
<1> QED
  BY <1>1, <1>4, <1>5, <1>6 DEF LedgerInv

\* Leaving the thread alone keeps its books, and all that is paid stays paid.
LEMMA KeepKeepsLedger ==
  ASSUME LedgerInv, LedgerType', RefsInOrder', initialized' <=> initialized, ThreadKept
  PROVE  LedgerInv' /\ \A p : isPaid(p) => isPaid(p)'
<1>1. StateThreadIsUnique'
  BY DEF LedgerInv, StateThreadIsUnique, ThreadKept
<1>2. BooksBalance'
  BY DEF LedgerInv, BooksBalance, ThreadKept
<1>3. \A p : isPaid(p) => isPaid(p)'
  BY DEF isPaid, ThreadKept
<1> QED
  BY <1>1, <1>2, <1>3 DEF LedgerInv

\* A claim moves the thread on: one nullifier more, one tranche less.
LEMMA ClaimKeepsLedger ==
  ASSUME LedgerInv, LedgerType', RefsInOrder', initialized' <=> initialized,
         NEW tx \in Transactions, NEW own \in Refs, NEW i \in DOMAIN tx.outputs,
         ThreadClaimed(tx, own, i)
  PROVE  LedgerInv' /\ (\A p : isPaid(p) => isPaid(p)') /\ isPaid(tx.claim)'
<1> DEFINE old == utxo[own].datum
           new == consume(old, tx.claim)
           ref == next + i - 1
<1>1. /\ tokenRefs = {own} /\ tokenRefs' = {ref}
      /\ isState(utxo[own]) /\ old \in States /\ old.policy = Policy
      /\ tx.claim \in Permits /\ authorizesClaim(old, tx)
  BY DEF ThreadClaimed, isState
<1>2. own \in tokenRefs /\ utxo[own] \in Outputs
  BY <1>1 DEF LedgerInv, LedgerType
<1>3. /\ utxo'[ref].datum = new /\ utxo'[ref].address = Script
      /\ utxo'[ref].asset + tx.claim.amount = utxo[own].asset
      /\ utxo'[ref].asset \in Nat
  <2>1. utxo'[ref] = tx.outputs[i] /\ tx.outputs[i] \in Outputs
    BY DEF ThreadClaimed, Transactions
  <2>2. tx.outputs[i] = [utxo[own] EXCEPT !.asset = @ - tx.claim.amount,
                                          !.datum = consume(@, tx.claim)]
    BY DEF ThreadClaimed
  <2>3. tx.outputs[i].datum = new /\ tx.outputs[i].address = utxo[own].address
    BY <1>2, <2>2 DEF Outputs
  <2>4. tx.outputs[i].asset + tx.claim.amount = utxo[own].asset
    BY DEF ThreadClaimed
  <2> QED
    BY <1>1, <2>1, <2>3, <2>4 DEF isState, Outputs
<1>4. /\ new \in States /\ new.policy = Policy /\ new.sequence = old.sequence + 1
      /\ Len(new.consumed) = Len(old.consumed) + 1
      /\ Range(new.consumed) = Range(old.consumed) \union {tx.claim.nullifier}
  BY <1>1, ConsumedState
<1>5. ref \in tokenRefs'
  BY <1>1
<1>6. initialized' /\ ref \in Refs
  BY <1>2, <1>5 DEF LedgerInv, StateThreadIsUnique, tokenRefs
<1>7. StateThreadIsUnique'
  <2> HIDE DEF new, ref
  <2> QED
    BY <1>1, <1>3, <1>4, <1>6 DEF StateThreadIsUnique
<1>8. /\ tx.claim.nullifier \notin Range(old.consumed)
      /\ tx.claim.amount = Policy.amount /\ Policy.amount \in Nat
  BY <1>1, PolicyAssumption DEF authorizesClaim, bindsPolicy, Policies
<1>9. /\ old.sequence = Len(old.consumed)
      /\ Cardinality(Range(old.consumed)) = Len(old.consumed)
      /\ utxo[own].asset + Policy.amount * Len(old.consumed) = Inventory
  BY <1>2 DEF LedgerInv, BooksBalance
<1>10. Cardinality(Range(new.consumed)) = Len(new.consumed)
  <2>1. IsFiniteSet(Range(old.consumed))
    BY <1>1, FiniteConsumed
  <2>2. Cardinality(Range(old.consumed) \union {tx.claim.nullifier})
          = Cardinality(Range(old.consumed)) + 1
    BY <1>8, <2>1, FS_AddElement
  <2> QED
    BY <1>4, <1>9, <2>2
<1>11. utxo'[ref].asset + Policy.amount * Len(new.consumed) = Inventory
  <2> DEFINE a == utxo'[ref].asset
             n == Len(old.consumed)
             m == Policy.amount
  <2>1. a \in Nat /\ n \in Nat /\ m \in Nat
    BY <1>1, <1>3, <1>8 DEF States
  <2>2. a + m + m * n = Inventory
    BY <1>3, <1>8, <1>9
  <2>3. Len(new.consumed) = n + 1
    BY <1>4
  <2> SUFFICES a + m * (n + 1) = Inventory
    BY <2>3
  <2> HIDE DEF a, n, m
  <2>4. m * (n + 1) = m * n + m /\ m * n \in Nat
    BY <2>1
  <2> QED
    BY <2>1, <2>2, <2>4
<1>12. BooksBalance'
  <2> HIDE DEF new, ref
  <2> QED
    BY <1>1, <1>3, <1>4, <1>9, <1>10, <1>11 DEF BooksBalance
<1>13. (\A p : isPaid(p) => isPaid(p)') /\ isPaid(tx.claim)'
  <2> HIDE DEF new, ref
  <2> QED
    BY <1>1, <1>3, <1>4 DEF isPaid
<1> QED
  BY <1>7, <1>12, <1>13 DEF LedgerInv

\* Any accepted transaction that does not spend the initialization output
\* keeps the ledger's part of the invariant.
LEMMA AcceptedKeepsLedger ==
  ASSUME LedgerInv, NEW tx \in Transactions, ledgerAccepts(tx), Apply(tx),
         InitRef \notin tx.inputs
  PROVE  /\ LedgerInv' /\ \A p : isPaid(p) => isPaid(p)'
         /\ withToken(tx.outputs) # {} => isPaid(tx.claim)'
<1>1. LedgerType' /\ RefsInOrder' /\ (initialized' <=> initialized)
  BY RefsStayInOrder DEF LedgerInv, ledgerAccepts
<1>2. CASE withToken(tx.outputs) = {}
  BY <1>1, <1>2, KeepsThread, KeepKeepsLedger
<1>3. CASE withToken(tx.outputs) # {}
  BY <1>1, <1>3, ClaimsThread, ClaimKeepsLedger
<1> QED
  BY <1>2, <1>3

-----------------------------------------------------------------------------
(* The client's plans.                                                      *)

\* A transaction of one input whose outputs are the next state and a payout.
IsClaim(tx, ref, output, p) ==
    /\ tx \in Transactions /\ tx.inputs = {ref} /\ tx.mint = 0
    /\ tx.claim = p /\ tx.to = validTo(p, tx.from)
    /\ tx.signers = {p.beneficiary} /\ p.beneficiary # Script
    /\ DOMAIN tx.outputs = {1, 2}
    /\ tx.outputs[1] = [address |-> Script, token |-> 1, asset |-> output.asset - p.amount,
                        datum |-> consume(output.datum, p)]
    /\ tx.outputs[2] = [address |-> p.beneficiary, token |-> 0, asset |-> p.amount,
                        datum |-> p.nullifier]
    /\ withToken(tx.outputs) = {1}

\* That is what the client plans on a state output, when it does not refuse.
LEMMA ClaimTransactionTyped ==
  ASSUME NEW ref \in Refs, NEW output \in Outputs, isState(output), NEW p \in Permits,
         NEW wallet \in Addresses, NEW now \in Int, Refusal(output, p, wallet, now) = "none",
         NEW tx, tx = claimTransaction(ref, output, p, now)
  PROVE  IsClaim(tx, ref, output, p) /\ tx.from = now
<1> DEFINE out1 == [address |-> Script, token |-> 1, asset |-> output.asset - p.amount,
                    datum |-> consume(output.datum, p)]
           out2 == [address |-> p.beneficiary, token |-> 0, asset |-> p.amount,
                    datum |-> p.nullifier]
<1>1. /\ bindsPolicy(output.datum.policy, p) /\ output.datum.policy = Policy
      /\ wallet = p.beneficiary /\ ~(output.asset < p.amount)
      /\ output.datum \in States
  BY DEF Refusal, isState
<1>2. /\ p.amount \in Nat /\ p.expiresAtSlot \in Nat /\ p.nullifier \in Nullifiers
      /\ p.beneficiary \in Addresses /\ p.beneficiary # Script
  BY <1>1, PolicyAssumption DEF SignedPermits, bindsPolicy
<1>3. output.asset - p.amount \in Nat
  BY <1>1, <1>2 DEF Outputs
<1>4. out1 \in Outputs /\ out2 \in Outputs
  BY <1>1, <1>2, <1>3, ConsumedState, WalletsAssumption DEF Outputs
<1>5. validTo(p, now) \in Int
  BY <1>2, BoundsAssumption DEF validTo
<1>6. tx = [inputs |-> {ref}, mint |-> 0, signers |-> {p.beneficiary},
            from |-> now, to |-> validTo(p, now), claim |-> p, initial |-> NoDatum,
            outputs |-> <<out1, out2>>]
  BY DEF claimTransaction
<1>7. <<out1, out2>> \in Seq(Outputs)
  <2> HIDE DEF out1, out2
  <2> QED
    BY <1>4
<1>8. tx \in Transactions
  <2> HIDE DEF out1, out2
  <2> QED
    BY <1>2, <1>5, <1>6, <1>7 DEF Transactions
<1>9. withToken(<<out1, out2>>) = {1}
  <2>1. out1.token = 1 /\ out2.token = 0
    OBVIOUS
  <2> HIDE DEF out1, out2
  <2> QED
    BY <2>1 DEF withToken
<1>10. /\ tx.inputs = {ref} /\ tx.mint = 0 /\ tx.claim = p /\ tx.from = now
       /\ tx.to = validTo(p, now) /\ tx.signers = {p.beneficiary}
       /\ tx.outputs = <<out1, out2>>
  <2> HIDE DEF out1, out2
  <2> QED
    BY <1>6
<1>11. DOMAIN tx.outputs = {1, 2} /\ tx.outputs[1] = out1 /\ tx.outputs[2] = out2
  <2> HIDE DEF out1, out2
  <2> QED
    BY <1>10
<1> QED
  BY <1>2, <1>8, <1>9, <1>10, <1>11 DEF IsClaim

\* The plan of a session is such a transaction.
LEMMA PlanTyped ==
  ASSUME EscrowInv, NEW c \in Sessions, pc[c] \in {"planned", "confirming"}
  PROVE  LET tx == plan[c]
             own == seen[c].ref
             output == seen[c].output
             p == permit[c]
         IN  /\ isState(output) /\ output \in Outputs /\ p \in Permits
             /\ own \in Refs /\ own # InitRef /\ utxo[own] \in {NoOutput, output}
             /\ tx.from \in Int /\ Refusal(output, p, WalletOf[c], tx.from) = "none"
             /\ IsClaim(tx, own, output, p)
<1> DEFINE tx == plan[c]
           own == seen[c].ref
           output == seen[c].output
           p == permit[c]
<1>1. /\ isState(output) /\ output \in Outputs /\ p \in Permits
      /\ own \in Refs /\ own # InitRef /\ utxo[own] \in {NoOutput, output}
  BY DEF EscrowInv, SeenWasThere, TypeOK
<1>2. /\ Refusal(output, p, WalletOf[c], tx.from) = "none"
      /\ tx = claimTransaction(own, output, p, tx.from)
  BY DEF EscrowInv, PlansAreClaims
<1>3. tx.from \in Int /\ WalletOf[c] \in Addresses
  BY WalletsAssumption DEF EscrowInv, TypeOK, PlansAreClaims, Transactions
<1> HIDE DEF tx, own, output, p
<1>4. IsClaim(tx, own, output, p)
  BY <1>1, <1>2, <1>3, ClaimTransactionTyped
<1> QED
  BY <1>1, <1>2, <1>3, <1>4 DEF tx, own, output, p

\* On the state output it was made on, and within its interval, a plan passes
\* the ledger's rules and the validator.
LEMMA PlanAccepted ==
  ASSUME EscrowInv, NEW c \in Sessions, pc[c] \in {"planned", "confirming"},
         inputsUnspent(plan[c])
  PROVE  wellFormed(plan[c]) /\ scriptsAccept(plan[c])
<1> DEFINE tx == plan[c]
           own == seen[c].ref
           output == seen[c].output
           p == permit[c]
<1> HIDE DEF tx, own, output, p
<1>1. /\ isState(output) /\ output \in Outputs /\ p \in Permits
      /\ own \in Refs /\ own # InitRef /\ utxo[own] \in {NoOutput, output}
      /\ tx.from \in Int
  BY PlanTyped DEF tx, own, output, p
<1>2. Refusal(output, p, WalletOf[c], tx.from) = "none"
  BY PlanTyped DEF tx, own, output, p
<1>3. /\ tx \in Transactions /\ tx.inputs = {own} /\ tx.mint = 0 /\ tx.claim = p
      /\ tx.to = validTo(p, tx.from) /\ tx.signers = {p.beneficiary}
      /\ p.beneficiary # Script /\ DOMAIN tx.outputs = {1, 2}
      /\ tx.outputs[1] = [address |-> Script, token |-> 1, asset |-> output.asset - p.amount,
                          datum |-> consume(output.datum, p)]
      /\ tx.outputs[2] = [address |-> p.beneficiary, token |-> 0, asset |-> p.amount,
                          datum |-> p.nullifier]
      /\ withToken(tx.outputs) = {1}
  <2>1. IsClaim(tx, own, output, p)
    BY PlanTyped DEF tx, own, output, p
  <2> QED
    BY <2>1 DEF IsClaim
<1>4. utxo[own] = output
  BY <1>1, <1>3 DEF inputsUnspent, tx
<1>5. output.address = Script /\ output.token = 1 /\ output.datum \in States
  BY <1>1 DEF isState
<1>6. {r \in tx.inputs : utxo[r].token = 1} = {own}
  BY <1>3, <1>4, <1>5
<1>7. wellFormed(tx)
  <2>1. Cardinality({own}) = 1 /\ Cardinality({1}) = 1
    BY FS_Singleton
  <2>2. Cardinality(withToken(tx.outputs)) = Cardinality({r \in tx.inputs : utxo[r].token = 1}) + tx.mint
    BY <1>3, <1>6, <2>1
  <2>3. \A r \in tx.inputs : utxo[r].address = Script
    BY <1>3, <1>4, <1>5
  <2> QED
    BY <2>2, <2>3 DEF wellFormed
<1>8. authorizesClaim(output.datum, tx)
  <2>1. /\ bindsPolicy(output.datum.policy, p) /\ p.nullifier \notin Range(output.datum.consumed)
        /\ ~(tx.from < p.notBeforeSlot)
    BY <1>2 DEF Refusal
  <2>2. p.notBeforeSlot \in Nat /\ p.expiresAtSlot \in Nat
    BY <1>1, PolicyAssumption DEF SignedPermits
  <2>3. p.notBeforeSlot <= tx.from /\ tx.to <= p.expiresAtSlot
    BY <1>1, <1>3, <2>1, <2>2, BoundsAssumption DEF validTo
  <2> QED
    BY <1>3, <2>1, <2>3 DEF authorizesClaim, validityIsWithinPermit
<1>9. releasesExactTranche(output, tx.outputs[1], p)
  <2>1. output.asset \in Nat /\ p.amount \in Nat
    BY <1>1, PolicyAssumption DEF SignedPermits, Outputs
  <2>2. tx.outputs[1].asset = output.asset - p.amount
    BY <1>3
  <2> QED
    BY <2>1, <2>2 DEF releasesExactTranche
<1>10. Cardinality(exactPayouts(tx.outputs, p)) = 1
  <2>1. exactPayouts(tx.outputs, p) = {2}
    BY <1>3 DEF exactPayouts
  <2> QED
    BY <2>1, FS_Singleton
<1>11. Spend(tx, own)
  <2>1. p # NoPermit
    BY <1>1, MarkersAssumption
  <2>2. /\ withToken(tx.outputs) = {1}
        /\ tx.outputs[1].address = output.address
        /\ tx.outputs[1].datum = consume(output.datum, p)
    BY <1>3, <1>5
  <2>3. 1 \in DOMAIN tx.outputs
    BY <1>3
  <2> QED
    BY <1>3, <1>4, <1>5, <1>6, <1>8, <1>9, <1>10, <2>1, <2>2, <2>3 DEF Spend
<1>12. scriptsAccept(tx)
  BY <1>3, <1>11 DEF scriptsAccept
<1> QED
  BY <1>7, <1>12 DEF tx

-----------------------------------------------------------------------------
(* The invariant holds initially.                                           *)

\* Two outputs that are no state, and nothing seen.
LEMMA InitNoThread ==
  ASSUME Init
  PROVE  /\ NoOutput \in Outputs /\ InitRef \in Refs
         /\ InitRef + 2 \in 1..(MaxRefs + 1) /\ InitRef < InitRef + 2
         /\ utxo \in [Refs -> Outputs]
         /\ ~initialized /\ tokenRefs = {}
<1>1. NoOutput \in Outputs /\ NoOutput.token = 0
  BY DEF NoOutput, Outputs
<1>2. /\ [NoOutput EXCEPT !.address = Deployer, !.asset = Inventory] \in Outputs
      /\ [NoOutput EXCEPT !.address = Bystander, !.asset = Policy.amount] \in Outputs
      /\ [NoOutput EXCEPT !.address = Deployer, !.asset = Inventory].token = 0
      /\ [NoOutput EXCEPT !.address = Bystander, !.asset = Policy.amount].token = 0
      /\ [NoOutput EXCEPT !.address = Deployer, !.asset = Inventory].address = Deployer
  <2>1. Policy.amount \in Nat
    BY PolicyAssumption DEF Policies
  <2> QED
    BY <2>1, WalletsAssumption, BoundsAssumption DEF NoOutput, Outputs
<1>3. InitRef \in Refs /\ InitRef + 2 \in 1..(MaxRefs + 1) /\ InitRef < InitRef + 2
  BY BoundsAssumption DEF InitRef, Refs
<1>4. utxo \in [Refs -> Outputs] /\ \A r \in Refs : utxo[r].token = 0
  <2> DEFINE one == [NoOutput EXCEPT !.address = Deployer, !.asset = Inventory]
             two == [NoOutput EXCEPT !.address = Bystander, !.asset = Policy.amount]
  <2> HIDE DEF one, two
  <2>1. utxo = [r \in Refs |-> IF r = InitRef THEN one
                               ELSE IF r = InitRef + 1 THEN two ELSE NoOutput]
    BY DEF Init, one, two
  <2>2. one \in Outputs /\ two \in Outputs /\ one.token = 0 /\ two.token = 0
    BY <1>2 DEF one, two
  <2> QED
    BY <1>1, <2>1, <2>2
<1>5. ~initialized /\ tokenRefs = {}
  <2>1. utxo[InitRef].address = Deployer
    BY <1>2, <1>3 DEF Init
  <2>2. NoOutput.address = Nowhere /\ Nowhere # Deployer
    BY WalletsAssumption DEF NoOutput
  <2> QED
    BY <1>4, <2>1, <2>2 DEF initialized, tokenRefs
<1> QED
  BY <1>1, <1>3, <1>4, <1>5

LEMMA InitInd == Init => EscrowInv
<1> SUFFICES ASSUME Init PROVE EscrowInv
  OBVIOUS
<1>1. TypeOK
  <2>1. nothingSeen \in [ref : Refs, output : Outputs]
    BY InitNoThread DEF nothingSeen
  <2>2. 0 \in Slots
    BY BoundsAssumption DEF Slots
  <2> QED
    BY <2>1, <2>2, InitNoThread DEF Init, TypeOK
<1>2. RefsInOrder
  <2>1. utxo[InitRef] = [NoOutput EXCEPT !.address = Deployer, !.asset = Inventory]
    BY InitNoThread DEF Init
  <2>2. \A r \in Refs : r >= InitRef + 2 => r # InitRef /\ r # InitRef + 1
    BY DEF Refs, InitRef
  <2>3. \A r \in Refs : r >= next => utxo[r] = NoOutput
    BY <2>2 DEF Init
  <2> QED
    BY <2>1, <2>3, InitNoThread DEF RefsInOrder, Init
<1>3. StateThreadIsUnique /\ BooksBalance
  BY InitNoThread DEF StateThreadIsUnique, BooksBalance
<1>4. SeenWasThere /\ PlansAreClaims /\ ClaimsAreSent /\ PlansAgreeWithValidator /\ ConfirmedIsPaid
  BY DEF Init, SeenWasThere, PlansAreClaims, ClaimsAreSent, PlansAgreeWithValidator,
         ConfirmedIsPaid
<1> QED
  BY <1>1, <1>2, <1>3, <1>4 DEF EscrowInv

-----------------------------------------------------------------------------
(* Steps of the ledger.                                                     *)

\* The sessions' part of the invariant survives what the ledger does: outputs
\* in use are kept or spent, and what is paid stays paid.
LEMMA LedgerStepInd ==
  ASSUME EscrowInv, LedgerInv', slot' \in Slots, next <= next',
         \A r \in Refs : r < next => utxo'[r] \in {NoOutput, utxo[r]},
         \A p : isPaid(p) => isPaid(p)',
         mempool' \subseteq mempool, included' \subseteq Transactions,
         \A tx \in included' : isPaid(tx.claim)',
         UNCHANGED sessionVars
  PROVE  EscrowInv'
<1>1. /\ pc' = pc /\ permit' = permit /\ seen' = seen /\ plan' = plan /\ outcome' = outcome
  BY DEF sessionVars
<1>2. TypeOK'
  BY <1>1 DEF EscrowInv, TypeOK, LedgerInv, LedgerType
<1>3. SeenWasThere'
  <2> SUFFICES ASSUME NEW c \in Sessions, pc[c] # "idle"
               PROVE  /\ permit[c] \in Permits /\ isState(seen[c].output)
                      /\ seen[c].ref # InitRef /\ seen[c].ref < next'
                      /\ utxo'[seen[c].ref] \in {NoOutput, seen[c].output}
    BY <1>1 DEF SeenWasThere, isState, InitRef
  <2>1. /\ permit[c] \in Permits /\ isState(seen[c].output)
        /\ seen[c].ref # InitRef /\ seen[c].ref < next
        /\ utxo[seen[c].ref] \in {NoOutput, seen[c].output}
        /\ seen[c].ref \in Refs
    BY DEF EscrowInv, SeenWasThere, TypeOK
  <2>2. seen[c].ref \in Int /\ next \in Int /\ next' \in Int
    BY <2>1 DEF Refs, EscrowInv, TypeOK, LedgerInv, LedgerType
  <2>3. seen[c].ref < next'
    BY <2>1, <2>2
  <2> QED
    BY <2>1, <2>3
<1>4. PlansAreClaims'
  BY <1>1 DEF EscrowInv, PlansAreClaims
<1>5. ClaimsAreSent'
  BY DEF EscrowInv, ClaimsAreSent, InitRef
<1>6. PlansAgreeWithValidator'
  BY <1>1 DEF EscrowInv, PlansAgreeWithValidator
<1>7. ConfirmedIsPaid'
  <2> SUFFICES ASSUME NEW c \in Sessions, outcome[c] = "confirmed"
               PROVE  isPaid(permit[c])'
    BY <1>1 DEF ConfirmedIsPaid
  <2>1. isPaid(permit[c])
    BY DEF EscrowInv, ConfirmedIsPaid
  <2> QED
    BY <1>1, <2>1 DEF isPaid
<1> QED
  BY <1>2, <1>3, <1>4, <1>5, <1>6, <1>7 DEF EscrowInv, LedgerInv

LEMMA LedgerPart == EscrowInv => LedgerInv
BY DEF EscrowInv, LedgerInv, TypeOK, LedgerType

\* A step that leaves the outputs alone keeps all that is said of them.
LEMMA OutputsUntouched ==
  ASSUME EscrowInv, utxo' = utxo, next' = next
  PROVE  /\ LedgerInv' /\ next <= next'
         /\ \A r \in Refs : r < next => utxo'[r] \in {NoOutput, utxo[r]}
         /\ \A p : isPaid(p)' <=> isPaid(p)
<1>1. LedgerInv'
  BY LedgerPart DEF LedgerInv, LedgerType, RefsInOrder, StateThreadIsUnique, BooksBalance,
                    initialized, tokenRefs
<1>2. next <= next'
  BY DEF EscrowInv, TypeOK
<1>3. \A p : isPaid(p)' <=> isPaid(p)
  BY DEF isPaid, tokenRefs
<1> QED
  BY <1>1, <1>2, <1>3

\* A transaction that a node accepted is a claim, or its plan, and pays.
LEMMA IncludeInd ==
  ASSUME EscrowInv, NEW tx \in mempool, Include(tx)
  PROVE  EscrowInv'
<1>1. /\ tx \in Transactions /\ InitRef \notin tx.inputs /\ withToken(tx.outputs) # {}
      /\ included \subseteq Transactions
  BY DEF EscrowInv, TypeOK, ClaimsAreSent
<1>2. /\ ledgerAccepts(tx) /\ Apply(tx) /\ inputsUnspent(tx)
      /\ mempool' \subseteq mempool /\ included' \subseteq included \union {tx}
      /\ UNCHANGED sessionVars
  BY DEF Include, ledgerAccepts
<1>3. LedgerInv' /\ (\A p : isPaid(p) => isPaid(p)') /\ isPaid(tx.claim)'
  BY <1>1, <1>2, LedgerPart, AcceptedKeepsLedger
<1>4. next <= next' /\ \A r \in Refs : r < next => utxo'[r] \in {NoOutput, utxo[r]}
  BY <1>1, <1>2, LedgerPart, RefsStayInOrder DEF LedgerInv
<1>5. \A t \in included' : isPaid(t.claim)'
  <2> SUFFICES ASSUME NEW t \in included' PROVE isPaid(t.claim)'
    OBVIOUS
  <2>1. CASE t = tx
    BY <1>3, <2>1
  <2>2. CASE t \in included
    BY <1>3, <2>2 DEF EscrowInv, ClaimsAreSent
  <2> QED
    BY <1>2, <2>1, <2>2
<1>6. slot' \in Slots
  BY <1>2 DEF Apply, EscrowInv, TypeOK
<1> QED
  BY <1>1, <1>2, <1>3, <1>4, <1>5, <1>6, LedgerStepInd

\* No other wallet can spend the initialization output.
LEMMA OtherWalletInd ==
  ASSUME EscrowInv, NEW tx \in OtherTransactions, OtherWallet(tx)
  PROVE  EscrowInv' /\ tx \in Transactions /\ InitRef \notin tx.inputs
<1>1. /\ tx \in Transactions /\ Deployer \notin tx.signers
      /\ ledgerAccepts(tx) /\ Apply(tx) /\ inputsUnspent(tx)
      /\ mempool' = mempool /\ included' = included /\ UNCHANGED sessionVars
  BY BoundsAssumption DEF OtherWallet, ledgerAccepts
<1>2. InitRef \notin tx.inputs
  <2> SUFFICES ASSUME InitRef \in tx.inputs PROVE FALSE
    OBVIOUS
  <2>1. ~initialized
    BY <1>1 DEF inputsUnspent, initialized
  <2>2. utxo[InitRef].address = Deployer
    <3>1. [NoOutput EXCEPT !.address = Deployer, !.asset = Inventory].address = Deployer
      BY DEF NoOutput
    <3> QED
      BY <2>1, <3>1 DEF EscrowInv, RefsInOrder
  <2> QED
    BY <1>1, <2>2, WalletsAssumption DEF ledgerAccepts, wellFormed
<1>3. LedgerInv' /\ \A p : isPaid(p) => isPaid(p)'
  BY <1>1, <1>2, LedgerPart, AcceptedKeepsLedger
<1>4. next <= next' /\ \A r \in Refs : r < next => utxo'[r] \in {NoOutput, utxo[r]}
  BY <1>1, LedgerPart, RefsStayInOrder DEF LedgerInv
<1>5. slot' \in Slots /\ included \subseteq Transactions
  BY <1>1 DEF Apply, EscrowInv, TypeOK
<1>6. \A t \in included' : isPaid(t.claim)'
  BY <1>1, <1>3 DEF EscrowInv, ClaimsAreSent
<1>7. EscrowInv'
  BY <1>1, <1>3, <1>4, <1>5, <1>6, LedgerStepInd
<1> QED
  BY <1>1, <1>2, <1>7

LEMMA InitializeInd ==
  ASSUME EscrowInv, Initialize
  PROVE  EscrowInv'
<1>1. /\ ledgerAccepts(initialization) /\ Apply(initialization)
      /\ mempool' = mempool /\ included' = included /\ UNCHANGED sessionVars
  BY DEF Initialize
<1>2. /\ LedgerInv /\ LedgerInv' /\ \A p : ~isPaid(p)
      /\ initialization \in Transactions /\ inputsUnspent(initialization)
  BY <1>1, LedgerPart, StartKeepsLedger, StartsThread
<1>3. next <= next' /\ \A r \in Refs : r < next => utxo'[r] \in {NoOutput, utxo[r]}
  BY <1>1, <1>2, RefsStayInOrder DEF LedgerInv
<1>4. slot' \in Slots /\ included \subseteq Transactions
  BY <1>1 DEF Apply, EscrowInv, TypeOK
<1>5. included' = {}
  BY <1>1, <1>2 DEF EscrowInv, ClaimsAreSent
<1> QED
  BY <1>1, <1>2, <1>3, <1>4, <1>5, LedgerStepInd

\* A slot passes, or a node forgets a transaction.
LEMMA TickOrDropInd ==
  ASSUME EscrowInv, Tick \/ \E tx \in mempool : Drop(tx)
  PROVE  EscrowInv'
<1>1. /\ utxo' = utxo /\ next' = next /\ included' = included /\ UNCHANGED sessionVars
      /\ mempool' \subseteq mempool
  BY DEF Tick, Drop, ledgerVars, sessionVars
<1>2. slot' \in Slots
  BY BoundsAssumption DEF Tick, Drop, ledgerVars, EscrowInv, TypeOK, Slots
<1>3. included \subseteq Transactions /\ \A tx \in included' : isPaid(tx.claim)'
  BY <1>1, OutputsUntouched DEF EscrowInv, TypeOK, ClaimsAreSent
<1> QED
  BY <1>1, <1>2, <1>3, OutputsUntouched, LedgerStepInd

-----------------------------------------------------------------------------
(* Steps of a session.                                                      *)

\* What a session step does not change: the ledger, and the other sessions.
LEMMA SessionStepInd ==
  ASSUME EscrowInv, NEW c \in Sessions, UNCHANGED <<utxo, next, slot, included>>, TypeOK',
         \A tx \in mempool' : \/ tx \in mempool
                              \/ InitRef \notin tx.inputs /\ withToken(tx.outputs) # {},
         \A d \in Sessions \ {c} :
            /\ pc'[d] = pc[d] /\ permit'[d] = permit[d] /\ seen'[d] = seen[d]
            /\ plan'[d] = plan[d] /\ outcome'[d] = outcome[d],
         pc'[c] # "idle" =>
            /\ permit'[c] \in Permits /\ isState(seen'[c].output)
            /\ seen'[c].ref # InitRef /\ seen'[c].ref < next
            /\ utxo[seen'[c].ref] \in {NoOutput, seen'[c].output},
         pc'[c] \in {"planned", "confirming"} =>
            /\ plan'[c] # NoTx
            /\ Refusal(seen'[c].output, permit'[c], WalletOf[c], plan'[c].from) = "none"
            /\ plan'[c] = claimTransaction(seen'[c].ref, seen'[c].output, permit'[c], plan'[c].from),
         outcome'[c] # "SCRIPT_FAILURE",
         outcome'[c] = "confirmed" => isPaid(permit'[c])
  PROVE  EscrowInv'
<1>1. LedgerInv' /\ \A p : isPaid(p)' <=> isPaid(p)
  BY OutputsUntouched
<1>2. SeenWasThere'
  <2> SUFFICES ASSUME NEW d \in Sessions, pc'[d] # "idle"
               PROVE  /\ permit'[d] \in Permits /\ isState(seen'[d].output)
                      /\ seen'[d].ref # InitRef /\ seen'[d].ref < next
                      /\ utxo[seen'[d].ref] \in {NoOutput, seen'[d].output}
    BY DEF SeenWasThere, isState, InitRef
  <2>1. CASE d = c
    BY <2>1
  <2>2. CASE d # c
    BY <2>2 DEF EscrowInv, SeenWasThere
  <2> QED
    BY <2>1, <2>2
<1>3. PlansAreClaims'
  <2> SUFFICES ASSUME NEW d \in Sessions, pc'[d] \in {"planned", "confirming"}
               PROVE  /\ plan'[d] # NoTx
                      /\ Refusal(seen'[d].output, permit'[d], WalletOf[d], plan'[d].from) = "none"
                      /\ plan'[d] = claimTransaction(seen'[d].ref, seen'[d].output,
                                                     permit'[d], plan'[d].from)
    BY DEF PlansAreClaims
  <2>1. CASE d = c
    BY <2>1
  <2>2. CASE d # c
    BY <2>2 DEF EscrowInv, PlansAreClaims
  <2> QED
    BY <2>1, <2>2
<1>4. ClaimsAreSent'
  <2>1. \A tx \in mempool' : InitRef \notin tx.inputs /\ withToken(tx.outputs) # {}
    BY DEF EscrowInv, ClaimsAreSent
  <2>2. \A tx \in included' : isPaid(tx.claim)'
    BY <1>1 DEF EscrowInv, ClaimsAreSent
  <2> QED
    BY <2>1, <2>2 DEF ClaimsAreSent, InitRef, withToken
<1>5. PlansAgreeWithValidator'
  BY DEF EscrowInv, PlansAgreeWithValidator
<1>6. ConfirmedIsPaid'
  <2> SUFFICES ASSUME NEW d \in Sessions, outcome'[d] = "confirmed"
               PROVE  \E r \in tokenRefs' : permit'[d].nullifier \in Range(utxo'[r].datum.consumed)
    BY DEF ConfirmedIsPaid, isPaid
  <2>1. isPaid(permit'[d])
    BY DEF EscrowInv, ConfirmedIsPaid
  <2> QED
    BY <2>1 DEF isPaid, tokenRefs
<1> QED
  BY <1>1, <1>2, <1>3, <1>4, <1>5, <1>6 DEF EscrowInv, LedgerInv

\* A session whose promise settles, with any outcome but a script's refusal.
LEMMA EndInd ==
  ASSUME EscrowInv, NEW c \in Sessions, NEW p \in Permits \union {NoPermit},
         NEW code \in {"none", "confirmed", "BAD_INPUTS", "OUTSIDE_VALIDITY",
                      "NP_CARDANO_BAD_UTXO", "NP_CARDANO_BAD_STATE", "NP_CARDANO_WRONG_WALLET",
                      "NP_CARDANO_NOT_YET_VALID", "NP_CARDANO_EXPIRED"},
         End(c, code), UNCHANGED <<ledgerVars, mempool, included>>,
         permit' = [permit EXCEPT ![c] = p], code = "confirmed" => isPaid(p)
  PROVE  EscrowInv'
<1>1. UNCHANGED <<utxo, next, slot, included>> /\ mempool' = mempool
  BY DEF ledgerVars
<1>2. nothingSeen \in [ref : Refs, output : Outputs]
  BY BoundsAssumption DEF nothingSeen, NoOutput, Outputs, Refs, InitRef
<1>3. /\ pc' = [pc EXCEPT ![c] = "idle"] /\ outcome' = [outcome EXCEPT ![c] = code]
      /\ seen' = [seen EXCEPT ![c] = nothingSeen] /\ plan' = [plan EXCEPT ![c] = NoTx]
  BY DEF End
<1>4. TypeOK'
  BY <1>1, <1>2, <1>3 DEF EscrowInv, TypeOK
<1>5. \A d \in Sessions \ {c} :
         /\ pc'[d] = pc[d] /\ permit'[d] = permit[d] /\ seen'[d] = seen[d]
         /\ plan'[d] = plan[d] /\ outcome'[d] = outcome[d]
  BY <1>3 DEF EscrowInv, TypeOK
<1>6. pc'[c] = "idle" /\ outcome'[c] = code /\ permit'[c] = p
  BY <1>3 DEF EscrowInv, TypeOK
<1> QED
  BY <1>1, <1>4, <1>5, <1>6, SessionStepInd

LEMMA ReadStateInd ==
  ASSUME EscrowInv, NEW c \in Sessions, NEW p \in Permits, ReadState(c, p)
  PROVE  EscrowInv'
<1> DEFINE found == {r \in Refs : utxo[r].address = Script /\ utxo[r].token = 1}
<1>1. CASE End(c, "NP_CARDANO_BAD_UTXO")
  BY <1>1, EndInd DEF ReadState
<1>2. CASE \E r \in found : /\ found = {r} /\ Continue(c, "read")
                            /\ seen' = [seen EXCEPT ![c] = [ref |-> r, output |-> utxo[r]]]
                            /\ UNCHANGED plan
  <2>1. PICK r \in found : /\ Continue(c, "read") /\ plan' = plan
                           /\ seen' = [seen EXCEPT ![c] = [ref |-> r, output |-> utxo[r]]]
    BY <1>2
  <2>2. /\ UNCHANGED <<utxo, next, slot, included>> /\ mempool' = mempool
        /\ permit' = [permit EXCEPT ![c] = p]
    BY DEF ReadState, ledgerVars
  <2>3. pc' = [pc EXCEPT ![c] = "read"] /\ outcome' = [outcome EXCEPT ![c] = "none"]
    BY <2>1 DEF Continue
  <2>4. r \in Refs /\ utxo[r] \in Outputs /\ r \in tokenRefs
    BY DEF tokenRefs, EscrowInv, TypeOK
  <2>5. isState(utxo[r]) /\ r # InitRef /\ r < next
    <3>1. isState(utxo[r]) /\ initialized
      BY <2>4 DEF EscrowInv, StateThreadIsUnique, isState, tokenRefs
    <3>2. NoOutput.token = 0
      BY DEF NoOutput
    <3>3. r \in Int /\ next \in Int
      BY <2>4 DEF Refs, EscrowInv, TypeOK
    <3> QED
      BY <2>4, <3>1, <3>2, <3>3 DEF initialized, tokenRefs, EscrowInv, RefsInOrder
  <2>6. TypeOK'
    <3>1. [ref |-> r, output |-> utxo[r]] \in [ref : Refs, output : Outputs]
      BY <2>4
    <3> HIDE DEF found
    <3> QED
      BY <2>1, <2>2, <2>3, <3>1 DEF EscrowInv, TypeOK
  <2>7. \A d \in Sessions \ {c} :
           /\ pc'[d] = pc[d] /\ permit'[d] = permit[d] /\ seen'[d] = seen[d]
           /\ plan'[d] = plan[d] /\ outcome'[d] = outcome[d]
    BY <2>1, <2>2, <2>3 DEF EscrowInv, TypeOK
  <2>8. /\ pc'[c] = "read" /\ outcome'[c] = "none" /\ permit'[c] = p
        /\ seen'[c].ref = r /\ seen'[c].output = utxo[r]
    BY <2>1, <2>2, <2>3 DEF EscrowInv, TypeOK
  <2> QED
    BY <2>2, <2>5, <2>6, <2>7, <2>8, SessionStepInd
<1> QED
  BY <1>1, <1>2 DEF ReadState

\* The client's answer to why it makes no plan is none of the node's.
LEMMA RefusalCodes ==
  ASSUME NEW output, NEW p, NEW wallet, NEW now
  PROVE  Refusal(output, p, wallet, now) \in
           {"none", "NP_CARDANO_BAD_UTXO", "NP_CARDANO_BAD_STATE", "NP_CARDANO_WRONG_WALLET",
            "NP_CARDANO_NOT_YET_VALID", "NP_CARDANO_EXPIRED"}
BY DEF Refusal

LEMMA MakePlanInd ==
  ASSUME EscrowInv, NEW c \in Sessions, NEW now \in Int, MakePlan(c, now)
  PROVE  EscrowInv'
<1> DEFINE own == seen[c].ref
           output == seen[c].output
           p == permit[c]
           tx == claimTransaction(own, output, p, now)
           refusal == Refusal(output, p, WalletOf[c], now)
<1>1. /\ pc[c] = "read" /\ permit' = permit
      /\ UNCHANGED <<ledgerVars, mempool, included>>
      /\ IF refusal = "none"
         THEN plan' = [plan EXCEPT ![c] = tx] /\ Continue(c, "planned") /\ seen' = seen
         ELSE End(c, refusal)
  BY DEF MakePlan
<1>2. /\ p \in Permits /\ isState(output) /\ own # InitRef /\ own < next
      /\ utxo[own] \in {NoOutput, output} /\ own \in Refs /\ output \in Outputs
      /\ WalletOf[c] \in Addresses
  BY <1>1, WalletsAssumption DEF EscrowInv, SeenWasThere, TypeOK
<1>3. CASE refusal # "none"
  <2>1. permit' = [permit EXCEPT ![c] = p]
    BY <1>1 DEF EscrowInv, TypeOK
  <2>2. refusal # "confirmed" /\ End(c, refusal)
    BY <1>1, <1>3, RefusalCodes
  <2>3. refusal \in {"none", "confirmed", "BAD_INPUTS", "OUTSIDE_VALIDITY",
                      "NP_CARDANO_BAD_UTXO", "NP_CARDANO_BAD_STATE", "NP_CARDANO_WRONG_WALLET",
                      "NP_CARDANO_NOT_YET_VALID", "NP_CARDANO_EXPIRED"}
    BY RefusalCodes
  <2> HIDE DEF refusal, p
  <2> QED
    BY <1>1, <1>2, <2>1, <2>2, <2>3, EndInd
<1>4. CASE refusal = "none"
  <2>1. /\ pc' = [pc EXCEPT ![c] = "planned"] /\ outcome' = [outcome EXCEPT ![c] = "none"]
        /\ plan' = [plan EXCEPT ![c] = tx] /\ seen' = seen
        /\ UNCHANGED <<utxo, next, slot, included>> /\ mempool' = mempool
    BY <1>1, <1>4 DEF Continue, ledgerVars
  <2>2. tx \in Transactions /\ tx.from = now
    <3>1. tx = claimTransaction(own, output, p, now) /\ now \in Int
          /\ Refusal(output, p, WalletOf[c], now) = "none"
      BY <1>4
    <3>2. tx.from = now
      BY DEF claimTransaction
    <3> HIDE DEF own, output, p, tx, refusal
    <3>3. IsClaim(tx, own, output, p)
      BY <1>2, <3>1, ClaimTransactionTyped
    <3> QED
      BY <3>2, <3>3 DEF IsClaim
  <2>3. TypeOK'
    <3> HIDE DEF tx
    <3> QED
      BY <1>1, <2>1, <2>2 DEF EscrowInv, TypeOK
  <2>4. \A d \in Sessions \ {c} :
           /\ pc'[d] = pc[d] /\ permit'[d] = permit[d] /\ seen'[d] = seen[d]
           /\ plan'[d] = plan[d] /\ outcome'[d] = outcome[d]
    <3> HIDE DEF tx
    <3> QED
      BY <1>1, <2>1 DEF EscrowInv, TypeOK
  <2>5. /\ pc'[c] = "planned" /\ outcome'[c] = "none" /\ permit'[c] = p /\ plan'[c] = tx
        /\ seen'[c].ref = own /\ seen'[c].output = output
    <3> HIDE DEF tx
    <3> QED
      BY <1>1, <2>1 DEF EscrowInv, TypeOK
  <2>6. plan'[c] # NoTx
    BY <2>2, <2>5, MarkersAssumption
  <2>7. /\ Refusal(seen'[c].output, permit'[c], WalletOf[c], plan'[c].from) = "none"
        /\ plan'[c] = claimTransaction(seen'[c].ref, seen'[c].output, permit'[c], plan'[c].from)
    <3>1. plan'[c].from = now
      BY <2>2, <2>5
    <3> QED
      BY <1>4, <2>5, <3>1
  <2> HIDE DEF own, output, p, tx, refusal
  <2> QED
    BY <1>2, <2>1, <2>3, <2>4, <2>5, <2>6, <2>7, SessionStepInd
<1> QED
  BY <1>3, <1>4

\* A plan that the node does not take has come too late for its input or its
\* interval.
LEMMA SubmitInd ==
  ASSUME EscrowInv, NEW c \in Sessions, Submit(c)
  PROVE  EscrowInv'
<1> DEFINE tx == plan[c]
<1>1. pc[c] = "planned" /\ permit' = permit /\ UNCHANGED <<ledgerVars, included>>
  BY DEF Submit
<1>2. CASE /\ mempool' = mempool \union {tx} /\ Continue(c, "confirming")
           /\ UNCHANGED <<seen, plan>>
  <2>1. tx \in Transactions /\ InitRef \notin tx.inputs /\ withToken(tx.outputs) # {}
    <3>1. /\ tx \in Transactions /\ tx.inputs = {seen[c].ref} /\ seen[c].ref # InitRef
          /\ withToken(tx.outputs) = {1}
      BY <1>1, PlanTyped DEF IsClaim
    <3> QED
      BY <3>1
  <2>2. /\ pc' = [pc EXCEPT ![c] = "confirming"] /\ outcome' = [outcome EXCEPT ![c] = "none"]
        /\ UNCHANGED <<utxo, next, slot, included>> /\ seen' = seen /\ plan' = plan
    BY <1>1, <1>2 DEF Continue, ledgerVars
  <2>3. TypeOK'
    BY <1>1, <1>2, <2>1, <2>2 DEF EscrowInv, TypeOK
  <2>4. \A d \in Sessions \ {c} :
           /\ pc'[d] = pc[d] /\ permit'[d] = permit[d] /\ seen'[d] = seen[d]
           /\ plan'[d] = plan[d] /\ outcome'[d] = outcome[d]
    BY <1>1, <2>2 DEF EscrowInv, TypeOK
  <2>5. pc'[c] = "confirming" /\ outcome'[c] = "none"
    BY <2>2 DEF EscrowInv, TypeOK
  <2>6. /\ permit[c] \in Permits /\ isState(seen[c].output)
        /\ seen[c].ref # InitRef /\ seen[c].ref < next
        /\ utxo[seen[c].ref] \in {NoOutput, seen[c].output}
    BY <1>1 DEF EscrowInv, SeenWasThere
  <2>7. /\ plan[c] # NoTx
        /\ Refusal(seen[c].output, permit[c], WalletOf[c], plan[c].from) = "none"
        /\ plan[c] = claimTransaction(seen[c].ref, seen[c].output, permit[c], plan[c].from)
    BY <1>1 DEF EscrowInv, PlansAreClaims
  <2>8. \A t \in mempool' : t \in mempool \/ (InitRef \notin t.inputs /\ withToken(t.outputs) # {})
    BY <1>2, <2>1
  <2> QED
    BY <1>1, <2>2, <2>3, <2>4, <2>5, <2>6, <2>7, <2>8, SessionStepInd
<1>3. CASE /\ ~ledgerAccepts(tx) /\ mempool' = mempool
           /\ End(c, IF ~inputsUnspent(tx) THEN "BAD_INPUTS"
                     ELSE IF ~inInterval(tx) THEN "OUTSIDE_VALIDITY"
                     ELSE "SCRIPT_FAILURE")
  <2>1. ~inputsUnspent(tx) \/ ~inInterval(tx)
    BY <1>1, <1>3, PlanAccepted DEF ledgerAccepts
  <2>2. \/ End(c, "BAD_INPUTS")
        \/ End(c, "OUTSIDE_VALIDITY")
    BY <1>3, <2>1
  <2>3. permit' = [permit EXCEPT ![c] = permit[c]] /\ permit[c] \in Permits \union {NoPermit}
    BY <1>1 DEF EscrowInv, TypeOK
  <2> QED
    BY <1>1, <1>3, <2>2, <2>3, EndInd
<1> QED
  BY <1>2, <1>3 DEF Submit

\* What is included has paid, so a session that sees its plan included may say so.
LEMMA ConfirmOrLeaveInd ==
  ASSUME EscrowInv, NEW c \in Sessions, Confirm(c) \/ Leave(c)
  PROVE  EscrowInv'
<1>1. /\ permit' = permit /\ UNCHANGED <<ledgerVars, mempool, included>>
  BY DEF Confirm, Leave
<1>2. permit' = [permit EXCEPT ![c] = permit[c]] /\ permit[c] \in Permits \union {NoPermit}
  BY <1>1 DEF EscrowInv, TypeOK
<1>3. CASE Leave(c)
  BY <1>1, <1>2, <1>3, EndInd DEF Leave
<1>4. CASE Confirm(c)
  <2>1. plan[c] \in included /\ End(c, "confirmed") /\ pc[c] = "confirming"
    BY <1>4 DEF Confirm
  <2>2. plan[c].claim = permit[c]
    BY <2>1, PlanTyped DEF IsClaim
  <2>3. isPaid(permit[c])
    BY <2>1, <2>2 DEF EscrowInv, ClaimsAreSent
  <2> QED
    BY <1>1, <1>2, <2>1, <2>3, EndInd
<1> QED
  BY <1>3, <1>4

-----------------------------------------------------------------------------
(* The invariant holds in every behaviour.                                  *)

LEMMA StepInd == EscrowInv /\ [Next]_vars => EscrowInv'
<1> SUFFICES ASSUME EscrowInv, [Next]_vars PROVE EscrowInv'
  OBVIOUS
<1>1. CASE Initialize
  BY <1>1, InitializeInd
<1>2. ASSUME NEW tx \in mempool, Include(tx) PROVE EscrowInv'
  BY <1>2, IncludeInd
<1>3. CASE Tick \/ \E tx \in mempool : Drop(tx)
  BY <1>3, TickOrDropInd
<1>4. ASSUME NEW tx \in OtherTransactions, OtherWallet(tx) PROVE EscrowInv'
  BY <1>4, OtherWalletInd
<1>5. ASSUME NEW c \in Sessions, Step(c) PROVE EscrowInv'
  <2>1. ASSUME NEW p \in Permits, ReadState(c, p) PROVE EscrowInv'
    BY <2>1, ReadStateInd
  <2>2. ASSUME NEW now \in (slot - Skew)..(slot + Skew), MakePlan(c, now) PROVE EscrowInv'
    BY <2>2, MakePlanInd
  <2>3. CASE Submit(c)
    BY <2>3, SubmitInd
  <2>4. CASE Confirm(c) \/ Leave(c)
    BY <2>4, ConfirmOrLeaveInd
  <2> QED
    BY <1>5, <2>1, <2>2, <2>3, <2>4 DEF Step
<1>6. CASE UNCHANGED vars
  <2>1. /\ utxo' = utxo /\ next' = next /\ slot' = slot /\ mempool' = mempool
        /\ included' = included /\ UNCHANGED sessionVars
    BY <1>6 DEF vars, ledgerVars
  <2>2. /\ slot' \in Slots /\ included' \subseteq Transactions
        /\ \A tx \in included' : isPaid(tx.claim)'
    BY <2>1, OutputsUntouched DEF EscrowInv, TypeOK, ClaimsAreSent
  <2> QED
    BY <2>1, <2>2, OutputsUntouched, LedgerStepInd
<1> QED
  BY <1>1, <1>2, <1>3, <1>4, <1>5, <1>6 DEF Next

\* EscrowInv is an invariant of the escrow, its clients and every other wallet.
THEOREM Invariance == Spec => []EscrowInv
<1>1. Init => EscrowInv
  BY InitInd
<1>2. EscrowInv /\ [Next]_vars => EscrowInv'
  BY StepInd
<1> QED
  BY <1>1, <1>2, PTL DEF Spec

\* Every variable stays in its domain.
THEOREM TypeCorrect == Spec => []TypeOK
<1>1. EscrowInv => TypeOK
  BY DEF EscrowInv
<1> QED
  BY <1>1, Invariance, PTL

\* One state thread from initialization on, at the script, under the policy.
THEOREM ThreadUnique == Spec => []StateThreadIsUnique
<1>1. EscrowInv => StateThreadIsUnique
  BY DEF EscrowInv
<1> QED
  BY <1>1, Invariance, PTL

\* Sequence, nullifiers and what is left of the inventory agree.
THEOREM Balanced == Spec => []BooksBalance
<1>1. EscrowInv => BooksBalance
  BY DEF EscrowInv
<1> QED
  BY <1>1, Invariance, PTL

\* No script ever refuses what the client planned.
THEOREM PlansAgree == Spec => []PlansAgreeWithValidator
<1>1. EscrowInv => PlansAgreeWithValidator
  BY DEF EscrowInv
<1> QED
  BY <1>1, Invariance, PTL

\* A confirmed claim has been paid.
THEOREM Confirmed == Spec => []ConfirmedIsPaid
<1>1. EscrowInv => ConfirmedIsPaid
  BY DEF EscrowInv
<1> QED
  BY <1>1, Invariance, PTL

\* A claim that its session signs has room in its validity interval, unless it
\* was planned in the slot of its permit's expiry.
THEOREM PlansIncludable == Spec => []PlansAreIncludable
<1>1. EscrowInv => PlansAreIncludable
  <2> SUFFICES ASSUME EscrowInv, NEW c \in Sessions, pc[c] = "planned"
               PROVE  plan[c].from < plan[c].to \/ plan[c].from = permit[c].expiresAtSlot
    BY DEF PlansAreIncludable
  <2> DEFINE now == plan[c].from
             expiry == permit[c].expiresAtSlot
  <2>1. /\ Refusal(seen[c].output, permit[c], WalletOf[c], now) = "none"
        /\ plan[c] = claimTransaction(seen[c].ref, seen[c].output, permit[c], now)
        /\ plan[c] \in Transactions /\ permit[c] \in Permits
    BY DEF EscrowInv, TypeOK, PlansAreClaims, SeenWasThere
  <2>2. now \in Int /\ expiry \in Nat
    BY <2>1, PolicyAssumption DEF Transactions, SignedPermits
  <2>3. ~(now > expiry)
    BY <2>1 DEF Refusal
  <2>4. plan[c].to = validTo(permit[c], now)
    BY <2>1 DEF claimTransaction
  <2> QED
    BY <2>2, <2>3, <2>4, BoundsAssumption DEF validTo
<1> QED
  BY <1>1, Invariance, PTL

-----------------------------------------------------------------------------
(* What a step does to the state output.                                    *)

\* Every step starts the thread, leaves it alone or claims.
LEMMA ThreadSteps ==
  ASSUME EscrowInv, [Next]_vars
  PROVE  \/ Initialize
         \/ ThreadKept
         \/ \E tx \in Transactions, own \in Refs : \E i \in DOMAIN tx.outputs :
              ThreadClaimed(tx, own, i) /\ ledgerAccepts(tx) /\ Apply(tx)
<1>1. ASSUME NEW tx \in Transactions, ledgerAccepts(tx), Apply(tx), InitRef \notin tx.inputs
      PROVE  \/ ThreadKept
             \/ \E own \in Refs, i \in DOMAIN tx.outputs : ThreadClaimed(tx, own, i)
  BY <1>1, LedgerPart, KeepsThread, ClaimsThread
<1>2. ASSUME NEW tx \in mempool, Include(tx)
      PROVE  /\ tx \in Transactions /\ InitRef \notin tx.inputs
             /\ ledgerAccepts(tx) /\ Apply(tx)
  BY <1>2 DEF EscrowInv, TypeOK, ClaimsAreSent, Include
<1>3. ASSUME NEW tx \in OtherTransactions, OtherWallet(tx)
      PROVE  /\ tx \in Transactions /\ InitRef \notin tx.inputs
             /\ ledgerAccepts(tx) /\ Apply(tx)
  BY <1>3, OtherWalletInd DEF OtherWallet
<1>4. utxo' = utxo => ThreadKept
  BY DEF ThreadKept, tokenRefs
<1>5. ASSUME Tick \/ (\E tx \in mempool : Drop(tx)) \/ (\E c \in Sessions : Step(c))
             \/ UNCHANGED vars
      PROVE  utxo' = utxo
  BY <1>5 DEF Tick, Drop, Step, ReadState, MakePlan, Submit, Confirm, Leave, vars, ledgerVars
<1> QED
  BY <1>1, <1>2, <1>3, <1>4, <1>5 DEF Next

\* A claim is exact.
LEMMA ClaimIsExact ==
  ASSUME EscrowInv, NEW tx \in Transactions, NEW own \in Refs, NEW i \in DOMAIN tx.outputs,
         ThreadClaimed(tx, own, i), ledgerAccepts(tx), Apply(tx)
  PROVE  LET p == tx.claim IN
           /\ p \in Permits /\ bindsPolicy(Policy, p)
           /\ p.notBeforeSlot <= slot /\ slot < p.expiresAtSlot
           /\ p.nullifier \notin Range(utxo[own].datum.consumed)
           /\ \E q \in next..(next' - 1) :
                utxo'[q] = [utxo[own] EXCEPT !.asset = @ - p.amount, !.datum = consume(@, p)]
           /\ Cardinality({q \in next..(next' - 1) :
                /\ utxo'[q].address = p.beneficiary
                /\ utxo'[q].datum = p.nullifier
                /\ utxo'[q].asset = p.amount}) = 1
<1> DEFINE p == tx.claim
           paid == {q \in next..(next' - 1) : /\ utxo'[q].address = p.beneficiary
                                              /\ utxo'[q].datum = p.nullifier
                                              /\ utxo'[q].asset = p.amount}
<1>1. p \in Permits /\ p.notBeforeSlot \in Nat /\ p.expiresAtSlot \in Nat
  BY PolicyAssumption DEF ThreadClaimed, SignedPermits
<1>2. /\ bindsPolicy(Policy, p) /\ p.nullifier \notin Range(utxo[own].datum.consumed)
      /\ p.notBeforeSlot <= tx.from /\ tx.to <= p.expiresAtSlot
  BY DEF ThreadClaimed, authorizesClaim, validityIsWithinPermit, isState
<1>3. p.notBeforeSlot <= slot /\ slot < p.expiresAtSlot
  <2>1. tx.from <= slot /\ slot < tx.to
    BY DEF ledgerAccepts, inInterval
  <2>2. tx.from \in Int /\ tx.to \in Int /\ slot \in Int
    BY DEF Transactions, EscrowInv, TypeOK, Slots
  <2> QED
    BY <1>1, <1>2, <2>1, <2>2
<1>4. /\ next \in Int /\ next' = next + Len(tx.outputs)
      /\ DOMAIN tx.outputs = 1..Len(tx.outputs) /\ Len(tx.outputs) \in Nat
      /\ \A j \in DOMAIN tx.outputs : utxo'[next + j - 1] = tx.outputs[j]
  <2>1. LedgerType /\ RefsInOrder /\ inputsUnspent(tx)
    BY LedgerPart DEF LedgerInv, ledgerAccepts
  <2> QED
    BY <2>1, AppliedOutputs, FiniteParts DEF LedgerType
<1>5. next + i - 1 \in next..(next' - 1)
  BY <1>4
<1>6. utxo'[next + i - 1] = [utxo[own] EXCEPT !.asset = @ - p.amount, !.datum = consume(@, p)]
  BY DEF ThreadClaimed
<1>7. PICK x : exactPayouts(tx.outputs, p) = {x}
  <2>1. IsFiniteSet(exactPayouts(tx.outputs, p)) /\ Cardinality(exactPayouts(tx.outputs, p)) = 1
    BY FiniteParts DEF ThreadClaimed
  <2> QED
    BY <2>1, FS_Singleton
<1>8. x \in DOMAIN tx.outputs
  BY <1>7 DEF exactPayouts
<1>9. paid = {next + x - 1}
  <2>1. \A q \in next..(next' - 1) : /\ q - next + 1 \in DOMAIN tx.outputs
                                     /\ next + (q - next + 1) - 1 = q
    BY <1>4
  <2>2. \A q \in next..(next' - 1) : utxo'[q] = tx.outputs[q - next + 1]
    BY <1>4, <2>1
  <2>3. \A q \in next..(next' - 1) : q \in paid <=> q - next + 1 \in exactPayouts(tx.outputs, p)
    BY <2>1, <2>2 DEF exactPayouts
  <2>4. \A q \in next..(next' - 1) : q - next + 1 = x <=> q = next + x - 1
    BY <1>4, <1>8
  <2>5. next + x - 1 \in next..(next' - 1)
    BY <1>4, <1>8
  <2> QED
    BY <1>7, <2>3, <2>4, <2>5
<1>10. Cardinality(paid) = 1
  BY <1>9, FS_Singleton
<1> QED
  BY <1>1, <1>2, <1>3, <1>5, <1>6, <1>10

\* Every spending of the state output is one exact claim.
THEOREM ClaimsExact == Spec => ClaimsAreExact
<1> DEFINE Exact(r) ==
      \E p \in Permits :
        /\ bindsPolicy(Policy, p)
        /\ p.notBeforeSlot <= slot /\ slot < p.expiresAtSlot
        /\ p.nullifier \notin Range(utxo[r].datum.consumed)
        /\ \E q \in next..(next' - 1) :
             utxo'[q] = [utxo[r] EXCEPT !.asset = @ - p.amount, !.datum = consume(@, p)]
        /\ Cardinality({q \in next..(next' - 1) :
             /\ utxo'[q].address = p.beneficiary
             /\ utxo'[q].datum = p.nullifier
             /\ utxo'[q].asset = p.amount}) = 1
<1>1. EscrowInv /\ [Next]_vars => [\A r \in tokenRefs : utxo'[r] # utxo[r] => Exact(r)]_vars
  <2> SUFFICES ASSUME EscrowInv, [Next]_vars, NEW r \in tokenRefs, utxo'[r] # utxo[r]
               PROVE  Exact(r)
    OBVIOUS
  <2>1. CASE Initialize
    <3>1. tokenRefs = {}
      BY <2>1, LedgerPart, StartsThread DEF Initialize
    <3> QED
      BY <3>1
  <2>2. CASE ThreadKept
    BY <2>2 DEF ThreadKept
  <2>3. ASSUME NEW tx \in Transactions, NEW own \in Refs, NEW i \in DOMAIN tx.outputs,
               ThreadClaimed(tx, own, i), ledgerAccepts(tx), Apply(tx)
        PROVE  Exact(r)
    <3>1. r = own
      BY <2>3 DEF ThreadClaimed
    <3> QED
      BY <2>3, <3>1, ClaimIsExact
  <2> QED
    BY <2>1, <2>2, <2>3, ThreadSteps
<1> QED
  BY <1>1, Invariance, PTL DEF Spec, ClaimsAreExact

-----------------------------------------------------------------------------
(* Refinement.                                                              *)

\* What the state output holds is what the abstract escrow holds.
LEMMA MappedState ==
  ASSUME NEW own, tokenRefs = {own}
  PROVE  /\ lockedAsset = utxo[own].asset
         /\ consumedNullifiers = Range(utxo[own].datum.consumed)
BY DEF lockedAsset, consumedNullifiers

LEMMA MappedStateAfter ==
  ASSUME NEW own, tokenRefs' = {own}
  PROVE  /\ lockedAsset' = utxo'[own].asset
         /\ consumedNullifiers' = Range(utxo'[own].datum.consumed)
BY DEF lockedAsset, consumedNullifiers

\* A claim is a payment of the abstract escrow.
LEMMA ClaimIsPay ==
  ASSUME EscrowInv, NEW tx \in Transactions, NEW own \in Refs, NEW i \in DOMAIN tx.outputs,
         ThreadClaimed(tx, own, i)
  PROVE  \E n \in Nullifiers : Promise!Pay(n)
<1> DEFINE ref == next + i - 1
           n == tx.claim.nullifier
<1>1. /\ tokenRefs = {own} /\ tokenRefs' = {ref} /\ isState(utxo[own])
      /\ tx.claim \in Permits /\ authorizesClaim(utxo[own].datum, tx)
      /\ utxo'[ref] = tx.outputs[i]
      /\ tx.outputs[i].asset + tx.claim.amount = utxo[own].asset
  BY DEF ThreadClaimed
<1>2. tx.outputs[i] \in Outputs /\ utxo[own] \in Outputs
  BY DEF Transactions, EscrowInv, TypeOK
<1>3. utxo[own].datum \in States /\ utxo[own].datum.policy = Policy
  BY <1>1 DEF isState
<1>4. /\ n \in Nullifiers /\ n \notin Range(utxo[own].datum.consumed)
      /\ tx.claim.amount = Policy.amount /\ Policy.amount \in Nat
  BY <1>1, <1>3, PolicyAssumption DEF authorizesClaim, bindsPolicy, Policies, SignedPermits
<1>5. /\ utxo'[ref].asset = utxo[own].asset - Policy.amount
      /\ utxo[own].asset >= Policy.amount
  BY <1>1, <1>2, <1>4 DEF Outputs
<1>6. Range(utxo'[ref].datum.consumed) = Range(utxo[own].datum.consumed) \union {n}
  <2>1. tx.outputs[i].datum = consume(utxo[own].datum, tx.claim)
    BY <1>2 DEF ThreadClaimed, Outputs
  <2>2. Range(consume(utxo[own].datum, tx.claim).consumed) =
          Range(utxo[own].datum.consumed) \union {tx.claim.nullifier}
    BY <1>1, <1>3, ConsumedState
  <2> QED
    BY <1>1, <2>1, <2>2
<1>7. /\ lockedAsset = utxo[own].asset
      /\ consumedNullifiers = Range(utxo[own].datum.consumed)
      /\ lockedAsset' = utxo'[ref].asset
      /\ consumedNullifiers' = Range(utxo'[ref].datum.consumed)
  <2> HIDE DEF ref
  <2> QED
    BY <1>1, MappedState, MappedStateAfter
<1> HIDE DEF ref, n
<1>8. Promise!Pay(n)
  BY <1>4, <1>5, <1>6, <1>7 DEF Promise!Pay
<1> QED
  BY <1>4, <1>8

\* The validator on its ledger implements the abstract escrow.
THEOREM Refinement == Spec => ImplementsEscrow
<1>1. Init => Promise!Init
  <2> SUFFICES ASSUME Init PROVE Promise!Init
    OBVIOUS
  <2>1. tokenRefs = {}
    BY InitNoThread
  <2> QED
    BY <2>1 DEF Promise!Init, lockedAsset, consumedNullifiers
<1>2. EscrowInv /\ [Next]_vars => [Promise!Next]_<<lockedAsset, consumedNullifiers>>
  <2> SUFFICES ASSUME EscrowInv, [Next]_vars
               PROVE  [Promise!Next]_<<lockedAsset, consumedNullifiers>>
    OBVIOUS
  <2>1. CASE Initialize
    <3>1. /\ tokenRefs = {} /\ tokenRefs' = {next}
          /\ utxo'[next].asset = Inventory /\ utxo'[next].datum = initialState
      BY <2>1, LedgerPart, StartsThread DEF Initialize
    <3>2. initialState.consumed = <<>>
      BY DEF initialState
    <3>3. lockedAsset = 0 /\ consumedNullifiers = {}
      BY <3>1 DEF lockedAsset, consumedNullifiers
    <3>4. lockedAsset' = Inventory /\ consumedNullifiers' = Range(<<>>)
      BY <3>1, <3>2, MappedStateAfter
    <3>5. Range(<<>>) = {}
      BY DEF Range
    <3> QED
      BY <3>3, <3>4, <3>5 DEF Promise!Next, Promise!Fund
  <2>2. CASE ThreadKept
    <3>1. CASE tokenRefs = {}
      BY <2>2, <3>1 DEF ThreadKept, lockedAsset, consumedNullifiers
    <3>2. CASE tokenRefs # {}
      <4>1. PICK own \in Refs : tokenRefs = {own}
        BY <3>2 DEF EscrowInv, StateThreadIsUnique
      <4>2. tokenRefs' = {own} /\ utxo'[own] = utxo[own]
        BY <2>2, <4>1 DEF ThreadKept
      <4> QED
        BY <4>1, <4>2, MappedState, MappedStateAfter
    <3> QED
      BY <3>1, <3>2
  <2>3. ASSUME NEW tx \in Transactions, NEW own \in Refs, NEW i \in DOMAIN tx.outputs,
               ThreadClaimed(tx, own, i)
        PROVE  Promise!Next
    BY <2>3, ClaimIsPay DEF Promise!Next
  <2> QED
    BY <2>1, <2>2, <2>3, ThreadSteps
<1> QED
  BY <1>1, <1>2, Invariance, PTL DEF Spec, ImplementsEscrow, Promise!Spec
=============================================================================
