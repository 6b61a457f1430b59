------------------------------- MODULE Escrow -------------------------------
(***************************************************************************)
(* The Cardano side of NightPermit: the nightpermit validator               *)
(* (contracts/cardano), a ledger of unspent outputs that runs it, and the   *)
(* wallet sessions that initialize the escrow and claim from it             *)
(* (packages/cardano-client).                                               *)
(*                                                                          *)
(* A claim is planned on the state output that the session has read, at the *)
(* slot the browser's clock tells, signed by the user some time later, and  *)
(* judged by the ledger on the state and the slot it has by then.  Several  *)
(* sessions claim at once, with permits that may share a nullifier (a relay *)
(* that lost its store signs a second one); a transaction in the mempool    *)
(* may be overtaken or run out of its validity interval; other wallets send *)
(* transactions that no plan of this client would produce.                  *)
(* Abstracted: hashes and signatures (an output reference is a number, a    *)
(* permit a record), fees and change, assets other than the state-thread    *)
(* token and the entitlement.  A slot stands for its POSIX time.            *)
(***************************************************************************)
EXTENDS Integers, Sequences, FiniteSets, Functions

CONSTANTS
    Sessions,           \* browser sessions with a connected wallet
    WalletOf,           \* the payment key of each session's wallet
    Permits,            \* the signed permits the relay has given out
    Contexts,           \* everything else a permit is bound to: deployment,
                        \* policy, escrow, milestone, action, asset, validator
    Nullifiers,         \* authorization nullifiers
    RelayKeys,          \* relay signing keys
    Addresses,          \* payment credentials, the script's among them
    Script,             \* the validator's own address
    Deployer,           \* the wallet that holds the initialization output
    Bystander,          \* a wallet that has some of the asset, too
    Policy,             \* the permit policy that the escrow is deployed with
    Inventory,          \* the entitlement asset put in at initialization
    Window,             \* validityWindowSlots
    Skew,               \* how far a browser's clock may be from the ledger's
    OtherTransactions,  \* what other wallets may submit
    NoDatum, NoPermit, NoTx, Nowhere, \* absent values
    MaxSlot,            \* bound: slots that pass
    MaxMempool,         \* bound: transactions in the mempool at a time
    MaxRefs             \* bound: outputs that are ever created

Slots == 0..MaxSlot

Refs == 1..MaxRefs

Policies == [context : Contexts, beneficiary : Addresses, amount : Nat, relayKey : RelayKeys]

SignedPermits ==
    [context : Contexts, beneficiary : Addresses, amount : Nat, relayKey : RelayKeys,
     nullifier : Nullifiers, notBeforeSlot : Nat, expiresAtSlot : Nat]

\* The part of ValidatorState that may differ between escrows or change.
States == [policy : Policies, consumed : Seq(Nullifiers), sequence : Nat]

\* There is never more than one state-thread token, so an output holds one or none.
Outputs ==
    [address : Addresses \union {Nowhere}, token : {0, 1}, asset : Nat,
     datum : States \union Nullifiers \union {NoDatum}]

\* "initial" is the redeemer of the minting policy, "claim" of the validator.
Transactions ==
    [inputs : SUBSET Refs, outputs : Seq(Outputs), mint : Int, signers : SUBSET Addresses,
     from : Int, to : Int, claim : Permits \union {NoPermit}, initial : States \union {NoDatum}]

ASSUME WalletsAssumption ==
    /\ WalletOf \in [Sessions -> Addresses]
    /\ {Script, Deployer, Bystander} \subseteq Addresses /\ Nowhere \notin Addresses
    /\ Script \notin {Deployer, Bystander}

ASSUME PolicyAssumption ==
    /\ Policy \in Policies /\ Policy.beneficiary # Script
    /\ Permits \subseteq SignedPermits

ASSUME MarkersAssumption ==
    /\ NoDatum \notin States \union Nullifiers
    /\ States \intersect Nullifiers = {}
    /\ NoPermit \notin Permits
    /\ NoTx \notin Transactions

ASSUME BoundsAssumption ==
    /\ Inventory \in Nat /\ MaxSlot \in Nat /\ MaxMempool \in Nat
    /\ MaxRefs \in Nat \ {0, 1}
    /\ Window \in Nat \ {0} /\ Skew \in Nat
    /\ OtherTransactions \subseteq Transactions
    /\ \A tx \in OtherTransactions : Deployer \notin tx.signers

VARIABLES
    utxo,       \* the unspent output at each reference
    next,       \* the next reference
    slot,       \* the ledger's slot
    mempool,    \* transactions that a node has accepted
    included,   \* those a block has included while a session waits for them
    pc,         \* where each session is in its claim
    permit,     \* the permit it claims with
    seen,       \* the state output it has read, and its reference
    plan,       \* the transaction it has built
    outcome     \* how its last claim ended

ledgerVars  == <<utxo, next, slot>>
sessionVars == <<pc, permit, seen, plan, outcome>>
vars == <<ledgerVars, mempool, included, sessionVars>>

NoOutput == [address |-> Nowhere, token |-> 0, asset |-> 0, datum |-> NoDatum]

\* The output whose reference parameterizes the validator.
InitRef == 1

nothingSeen == [ref |-> InitRef, output |-> NoOutput]

-----------------------------------------------------------------------------
(* The validator.                                                           *)

withToken(outputs) == {i \in DOMAIN outputs : outputs[i].token = 1}

\* is_exact_payout
exactPayouts(outputs, p) ==
    {i \in DOMAIN outputs : /\ outputs[i].address = p.beneficiary
                            /\ outputs[i].datum = p.nullifier
                            /\ outputs[i].asset = p.amount}

wrongReleasesTranche(input, output, p) ==   \* at least the tranche
    output.asset + p.amount <= input.asset

\* state_value_releases_exact_tranche
releasesExactTranche(input, output, p) == output.asset + p.amount = input.asset

wrongMintAnywhere(tx) ==                    \* any output initializes
    /\ tx.mint = 1
    /\ tx.initial # NoDatum
    /\ \E i \in DOMAIN tx.outputs :
         /\ withToken(tx.outputs) = {i}
         /\ tx.outputs[i].address = Script
         /\ tx.outputs[i].datum = tx.initial
    /\ tx.initial.consumed = <<>> /\ tx.initial.sequence = 0

\* The minting policy: the initialization output is spent, one token is
\* minted, and it goes to the script with an initial state.
Mint(tx) ==
    /\ tx.mint = 1
    /\ InitRef \in tx.inputs
    /\ tx.initial # NoDatum
    /\ \E i \in DOMAIN tx.outputs :
         /\ withToken(tx.outputs) = {i}
         /\ tx.outputs[i].address = Script
         /\ tx.outputs[i].datum = tx.initial
    /\ tx.initial.consumed = <<>>
    /\ tx.initial.sequence = 0

wrongValidityBeforeExpiry(tx, p) ==         \* notBefore is not looked at
    tx.to <= p.expiresAtSlot

validityIsWithinPermit(tx, p) ==
    p.notBeforeSlot <= tx.from /\ tx.to <= p.expiresAtSlot

\* The permit's bindings are the policy's, field by field.
bindsPolicy(policy, p) ==
    /\ p.context = policy.context
    /\ p.beneficiary = policy.beneficiary
    /\ p.amount = policy.amount
    /\ p.relayKey = policy.relayKey

authorizesClaim(state, tx) ==
    LET p == tx.claim IN
    /\ bindsPolicy(state.policy, p)
    /\ p.beneficiary \in tx.signers
    /\ p.nullifier \notin Range(state.consumed)
    /\ validityIsWithinPermit(tx, p)

\* The state a claim leads to.
consume(state, p) ==
    [state EXCEPT !.consumed = <<p.nullifier>> \o @, !.sequence = @ + 1]

\* The spending validator, for the input "own".
Spend(tx, own) ==
    LET input == utxo[own]
        state == input.datum
        p     == tx.claim
    IN  /\ state \in States /\ p # NoPermit
        /\ {r \in tx.inputs : utxo[r].token = 1} = {own}
        /\ tx.mint = 0
        /\ authorizesClaim(state, tx)
        /\ \E i \in DOMAIN tx.outputs :
             /\ withToken(tx.outputs) = {i}
             /\ tx.outputs[i].address = input.address
             /\ tx.outputs[i].datum = consume(state, p)
             /\ releasesExactTranche(input, tx.outputs[i], p)
        /\ Cardinality(exactPayouts(tx.outputs, p)) = 1

-----------------------------------------------------------------------------
(* The ledger.                                                              *)

inputsUnspent(tx) ==
    tx.inputs # {} /\ \A r \in tx.inputs : utxo[r] # NoOutput

\* The interval includes its lower and excludes its upper bound.
inInterval(tx) == tx.from <= slot /\ slot < tx.to

\* Key-held outputs are spent with their key, and state-thread tokens come
\* from inputs or from the minting policy.
wellFormed(tx) ==
    /\ \A r \in tx.inputs : utxo[r].address = Script \/ utxo[r].address \in tx.signers
    /\ Cardinality(withToken(tx.outputs)) =
         Cardinality({r \in tx.inputs : utxo[r].token = 1}) + tx.mint

scriptsAccept(tx) ==
    /\ tx.mint # 0 => Mint(tx)
    /\ \A own \in tx.inputs : utxo[own].address = Script => Spend(tx, own)

ledgerAccepts(tx) ==
    inputsUnspent(tx) /\ inInterval(tx) /\ wellFormed(tx) /\ scriptsAccept(tx)

\* Inputs are spent and outputs take the next references.
Apply(tx) ==
    /\ next + Len(tx.outputs) <= MaxRefs + 1
    /\ next' = next + Len(tx.outputs)
    /\ utxo' = [r \in Refs |-> IF r \in tx.inputs THEN NoOutput
                               ELSE IF r \in next..(next + Len(tx.outputs) - 1)
                               THEN tx.outputs[r - next + 1]
                               ELSE utxo[r]]
    /\ UNCHANGED slot

Include(tx) ==
    /\ tx \in mempool
    /\ ledgerAccepts(tx)
    /\ Apply(tx)
    /\ mempool' = mempool \ {tx}
    /\ included' = {t \in included \union {tx} :
                      \E c \in Sessions : pc[c] = "confirming" /\ plan[c] = t}
    /\ UNCHANGED sessionVars

\* A transaction that can never be included any more leaves the mempool.
Drop(tx) ==
    /\ tx \in mempool
    /\ ~inputsUnspent(tx) \/ slot >= tx.to
    /\ mempool' = mempool \ {tx}
    /\ UNCHANGED <<ledgerVars, included, sessionVars>>

Tick ==
    /\ slot < MaxSlot
    /\ slot' = slot + 1
    /\ UNCHANGED <<utxo, next, mempool, included, sessionVars>>

\* Another wallet's transaction is included.
OtherWallet(tx) ==
    /\ ledgerAccepts(tx)
    /\ Apply(tx)
    /\ UNCHANGED <<mempool, included, sessionVars>>

-----------------------------------------------------------------------------
(* Initialization.                                                          *)

initialState == [policy |-> Policy, consumed |-> <<>>, sequence |-> 0]

\* createInitializationPlan and buildInitializationTransaction.
initialization ==
    [inputs |-> {InitRef}, mint |-> 1, signers |-> {Deployer},
     from |-> 0, to |-> MaxSlot + 1, claim |-> NoPermit, initial |-> initialState,
     outputs |-> <<[address |-> Script, token |-> 1, asset |-> Inventory,
                    datum |-> initialState]>>]

Initialize ==
    /\ ledgerAccepts(initialization)
    /\ Apply(initialization)
    /\ UNCHANGED <<mempool, included, sessionVars>>

-----------------------------------------------------------------------------
(* A claim session.                                                         *)

\* A session goes on, or its promise settles and its locals are gone.
Continue(c, where) ==
    /\ pc' = [pc EXCEPT ![c] = where]
    /\ outcome' = [outcome EXCEPT ![c] = "none"]

End(c, code) ==
    /\ pc' = [pc EXCEPT ![c] = "idle"]
    /\ outcome' = [outcome EXCEPT ![c] = code]
    /\ seen' = [seen EXCEPT ![c] = nothingSeen]
    /\ plan' = [plan EXCEPT ![c] = NoTx]

\* createWalletClaimPlan: finds the one state output.
ReadState(c, p) ==
    LET found == {r \in Refs : utxo[r].address = Script /\ utxo[r].token = 1}
    IN  /\ pc[c] = "idle"
        /\ permit' = [permit EXCEPT ![c] = p]
        /\ \/ /\ Cardinality(found) # 1
              /\ End(c, "NP_CARDANO_BAD_UTXO")
           \/ \E r \in found :
                /\ found = {r}
                /\ Continue(c, "read")
                /\ seen' = [seen EXCEPT ![c] = [ref |-> r, output |-> utxo[r]]]
                /\ UNCHANGED plan
        /\ UNCHANGED <<ledgerVars, mempool, included>>

wrongRefusalWithoutExpiry(output, p, wallet, now) == \* the expiry is not checked
    IF ~bindsPolicy(output.datum.policy, p) THEN "NP_CARDANO_BAD_STATE"
    ELSE IF wallet # p.beneficiary THEN "NP_CARDANO_WRONG_WALLET"
    ELSE IF p.nullifier \in Range(output.datum.consumed) THEN "NP_CARDANO_BAD_STATE"
    ELSE IF now < p.notBeforeSlot THEN "NP_CARDANO_NOT_YET_VALID"
    ELSE IF output.asset < p.amount THEN "NP_CARDANO_BAD_UTXO"
    ELSE "none"

\* createClaimPlan: why it fails, in the code's order.
Refusal(output, p, wallet, now) ==
    IF ~bindsPolicy(output.datum.policy, p) THEN "NP_CARDANO_BAD_STATE"
    ELSE IF wallet # p.beneficiary THEN "NP_CARDANO_WRONG_WALLET"
    ELSE IF p.nullifier \in Range(output.datum.consumed) THEN "NP_CARDANO_BAD_STATE"
    ELSE IF now < p.notBeforeSlot THEN "NP_CARDANO_NOT_YET_VALID"
    ELSE IF now > p.expiresAtSlot THEN "NP_CARDANO_EXPIRED"
    ELSE IF output.asset < p.amount THEN "NP_CARDANO_BAD_UTXO"
    ELSE "none"

wrongValidTo(p, now) == now + Window        \* past the expiry

validTo(p, now) ==
    IF now + Window < p.expiresAtSlot THEN now + Window ELSE p.expiresAtSlot

wrongClaimTransaction(ref, output, p, now) == \* the nullifier goes to the other end
    [inputs |-> {ref}, mint |-> 0, signers |-> {p.beneficiary},
     from |-> now, to |-> validTo(p, now), claim |-> p, initial |-> NoDatum,
     outputs |-> <<[address |-> Script, token |-> 1, asset |-> output.asset - p.amount,
                    datum |-> [consume(output.datum, p) EXCEPT
                                 !.consumed = Append(output.datum.consumed, p.nullifier)]],
                   [address |-> p.beneficiary, token |-> 0, asset |-> p.amount,
                    datum |-> p.nullifier]>>]

\* The transaction of a claim plan, as buildClaimTransaction assembles it.
claimTransaction(ref, output, p, now) ==
    [inputs |-> {ref}, mint |-> 0, signers |-> {p.beneficiary},
     from |-> now, to |-> validTo(p, now), claim |-> p, initial |-> NoDatum,
     outputs |-> <<[address |-> Script, token |-> 1, asset |-> output.asset - p.amount,
                    datum |-> consume(output.datum, p)],
                   [address |-> p.beneficiary, token |-> 0, asset |-> p.amount,
                    datum |-> p.nullifier]>>]

MakePlan(c, now) ==
    LET refusal == Refusal(seen[c].output, permit[c], WalletOf[c], now)
    IN  /\ pc[c] = "read"
        /\ IF refusal = "none"
           THEN /\ plan' = [plan EXCEPT ![c] =
                     claimTransaction(seen[c].ref, seen[c].output, permit[c], now)]
                /\ Continue(c, "planned")
                /\ UNCHANGED seen
           ELSE End(c, refusal)
        /\ UNCHANGED <<ledgerVars, mempool, included, permit>>

\* Signed and sent to a node, which accepts it into its mempool or tells why not.
Submit(c) ==
    LET tx == plan[c]
    IN  /\ pc[c] = "planned"
        /\ \/ /\ ledgerAccepts(tx)
              /\ Cardinality(mempool) < MaxMempool
              /\ mempool' = mempool \union {tx}
              /\ Continue(c, "confirming")
              /\ UNCHANGED <<seen, plan>>
           \/ /\ ~ledgerAccepts(tx)
              /\ End(c, IF ~inputsUnspent(tx) THEN "BAD_INPUTS"
                        ELSE IF ~inInterval(tx) THEN "OUTSIDE_VALIDITY"
                        ELSE "SCRIPT_FAILURE")
              /\ UNCHANGED mempool
        /\ UNCHANGED <<ledgerVars, included, permit>>

wrongConfirm(c) ==                          \* gone from the mempool is taken for included
    /\ pc[c] = "confirming"
    /\ plan[c] \notin mempool
    /\ End(c, "confirmed")
    /\ UNCHANGED <<ledgerVars, mempool, included, permit>>

\* awaitTxConfirmation: resolves when the transaction is in a block, and never
\* when it is gone.
Confirm(c) ==
    /\ pc[c] = "confirming"
    /\ plan[c] \in included
    /\ End(c, "confirmed")
    /\ UNCHANGED <<ledgerVars, mempool, included, permit>>

\* The user closes or reloads the page.
Leave(c) ==
    /\ pc[c] # "idle"
    /\ End(c, "none")
    /\ UNCHANGED <<ledgerVars, mempool, included, permit>>

-----------------------------------------------------------------------------
Init ==
    /\ utxo = [r \in Refs |->
                 IF r = InitRef
                 THEN [NoOutput EXCEPT !.address = Deployer, !.asset = Inventory]
                 ELSE IF r = InitRef + 1
                 THEN [NoOutput EXCEPT !.address = Bystander, !.asset = Policy.amount]
                 ELSE NoOutput]
    /\ next = InitRef + 2
    /\ slot = 0
    /\ mempool = {} /\ included = {}
    /\ pc = [c \in Sessions |-> "idle"]
    /\ permit = [c \in Sessions |-> NoPermit]
    /\ seen = [c \in Sessions |-> nothingSeen]
    /\ plan = [c \in Sessions |-> NoTx]
    /\ outcome = [c \in Sessions |-> "none"]

Step(c) ==
    \/ \E p \in Permits : ReadState(c, p)
    \/ \E now \in (slot - Skew)..(slot + Skew) : MakePlan(c, now)
    \/ Submit(c)
    \/ Confirm(c)
    \/ Leave(c)

Next ==
    \/ Initialize
    \/ \E tx \in mempool : Include(tx) \/ Drop(tx)
    \/ \E tx \in OtherTransactions : OtherWallet(tx)
    \/ Tick
    \/ \E c \in Sessions : Step(c)

Spec == Init /\ [][Next]_vars

(* Blocks include what they can and nodes forget what they cannot.  The user *)
(* of a wallet comes back to a permit whatever came of the last attempt,     *)
(* does not close the page before signing every time (hence the strong       *)
(* fairness: each of these steps is lost when the page is left), and leaves  *)
(* a page whose transaction is gone.  Neither the clock nor other wallets    *)
(* are assumed to do anything.                                               *)
Fairness ==
    /\ WF_vars(Initialize)
    /\ \A p \in Permits :
         /\ WF_vars(\E tx \in mempool : tx.claim = p /\ Include(tx))
         /\ WF_vars(\E tx \in mempool : tx.claim = p /\ Drop(tx))
    /\ \A c \in Sessions :
         /\ \A p \in Permits :
              /\ SF_vars(ReadState(c, p))
              /\ SF_vars(permit[c] = p /\ MakePlan(c, slot))
              /\ SF_vars(permit[c] = p /\ Submit(c))
         /\ WF_vars(Confirm(c))
         /\ WF_vars(pc[c] = "confirming" /\ plan[c] \notin mempool \union included /\ Leave(c))

FairSpec == Spec /\ Fairness

-----------------------------------------------------------------------------
(* Properties.                                                              *)

\* Every variable stays in its domain: in particular no plan leaves the escrow
\* with less than nothing.
TypeOK ==
    /\ utxo \in [Refs -> Outputs]
    /\ next \in 1..(MaxRefs + 1)
    /\ slot \in Slots
    /\ mempool \subseteq Transactions
    /\ included \subseteq Transactions
    /\ pc \in [Sessions -> {"idle", "read", "planned", "confirming"}]
    /\ permit \in [Sessions -> Permits \union {NoPermit}]
    /\ seen \in [Sessions -> [ref : Refs, output : Outputs]]
    /\ plan \in [Sessions -> Transactions \union {NoTx}]
    /\ outcome \in [Sessions ->
         {"none", "confirmed", "BAD_INPUTS", "OUTSIDE_VALIDITY", "SCRIPT_FAILURE",
          "NP_CARDANO_BAD_UTXO", "NP_CARDANO_BAD_STATE", "NP_CARDANO_WRONG_WALLET",
          "NP_CARDANO_NOT_YET_VALID", "NP_CARDANO_EXPIRED"}]

tokenRefs == {r \in Refs : utxo[r].token = 1}

initialized == utxo[InitRef] = NoOutput

isPaid(p) == \E r \in tokenRefs : p.nullifier \in Range(utxo[r].datum.consumed)

\* Before initialization there is no state-thread token; ever after there is
\* one, at the script, with a state under the deployed policy.  No other
\* wallet can mint a second, take it away or put it under other terms.
StateThreadIsUnique ==
    /\ ~initialized => tokenRefs = {}
    /\ initialized => \E r \in Refs :
         /\ tokenRefs = {r}
         /\ utxo[r].address = Script
         /\ utxo[r].datum \in States
         /\ utxo[r].datum.policy = Policy

\* The state's books: the sequence counts the claims, no nullifier is
\* consumed twice, and what is left is the inventory less one tranche each.
BooksBalance ==
    \A r \in tokenRefs :
        LET state == utxo[r].datum IN
        /\ state.sequence = Len(state.consumed)
        /\ Cardinality(Range(state.consumed)) = Len(state.consumed)
        /\ utxo[r].asset + Policy.amount * Len(state.consumed) = Inventory

\* The state output is only ever spent by one claim: under a permit that binds
\* the policy, inside the permit's window, with its nullifier consumed and
\* exactly one tranche paid to the beneficiary under that nullifier.
ClaimsAreExact ==
    [][\A r \in tokenRefs : utxo'[r] # utxo[r] =>
         \E p \in Permits :
           /\ bindsPolicy(Policy, p)
           /\ p.notBeforeSlot <= slot /\ slot < p.expiresAtSlot
           /\ p.nullifier \notin Range(utxo[r].datum.consumed)
           /\ \E q \in next..(next' - 1) :
                utxo'[q] = [utxo[r] EXCEPT !.asset = @ - p.amount,
                                           !.datum = consume(@, p)]
           /\ Cardinality({q \in next..(next' - 1) :
                /\ utxo'[q].address = p.beneficiary
                /\ utxo'[q].datum = p.nullifier
                /\ utxo'[q].asset = p.amount}) = 1]_vars

\* What the client plans, the validator accepts: a claim may come too late for
\* the state or the slot it was planned on, but no script ever refuses it.
PlansAgreeWithValidator ==
    \A c \in Sessions : outcome[c] # "SCRIPT_FAILURE"

\* A session that is told its claim is confirmed has had its authorization
\* paid, whatever became of other transactions it competed with.
ConfirmedIsPaid ==
    \A c \in Sessions : outcome[c] = "confirmed" => isPaid(permit[c])

\* Sessions that compete for the state output only delay each other: while
\* permits are valid, every authorization is paid at last.
EveryoneIsPaid ==
    <>\E r \in tokenRefs : Range(utxo[r].datum.consumed) = {p.nullifier : p \in Permits}

\* A claim that the user is asked to sign can still be included in the slot it
\* was planned for.  The exception is the slot of expiry: the client plans in
\* it, with an interval that is empty, since its upper bound is exclusive.
PlansAreIncludable ==
    \A c \in Sessions : pc[c] = "planned" =>
        plan[c].from < plan[c].to \/ plan[c].from = permit[c].expiresAtSlot

-----------------------------------------------------------------------------
(* The inductive invariant behind the safety properties.                    *)

\* References are given out in order and never again, and the initialization
\* output is the deployer's until it is spent.
RefsInOrder ==
    /\ InitRef < next
    /\ \A r \in Refs : r >= next => utxo[r] = NoOutput
    /\ ~initialized => utxo[InitRef] = [NoOutput EXCEPT !.address = Deployer, !.asset = Inventory]

isState(output) ==
    /\ output.address = Script /\ output.token = 1
    /\ output.datum \in States /\ output.datum.policy = Policy

\* What a session has read was a state output, and is still there or spent.
SeenWasThere ==
    \A c \in Sessions : pc[c] # "idle" =>
        /\ permit[c] \in Permits
        /\ isState(seen[c].output)
        /\ seen[c].ref # InitRef /\ seen[c].ref < next
        /\ utxo[seen[c].ref] \in {NoOutput, seen[c].output}

\* What a session signs is a claim that it had no reason to refuse.
PlansAreClaims ==
    \A c \in Sessions : pc[c] \in {"planned", "confirming"} =>
        /\ plan[c] # NoTx
        /\ Refusal(seen[c].output, permit[c], WalletOf[c], plan[c].from) = "none"
        /\ plan[c] = claimTransaction(seen[c].ref, seen[c].output, permit[c], plan[c].from)

\* Only claims are sent, and those in a block have paid.
ClaimsAreSent ==
    /\ \A tx \in mempool : InitRef \notin tx.inputs /\ withToken(tx.outputs) # {}
    /\ \A tx \in included : isPaid(tx.claim)

EscrowInv ==
    /\ TypeOK
    /\ RefsInOrder
    /\ StateThreadIsUnique
    /\ BooksBalance
    /\ SeenWasThere
    /\ PlansAreClaims
    /\ ClaimsAreSent
    /\ PlansAgreeWithValidator
    /\ ConfirmedIsPaid

-----------------------------------------------------------------------------
(* The validator on its ledger implements MilestoneEscrow.                  *)

lockedAsset ==
    IF tokenRefs = {} THEN 0 ELSE utxo[CHOOSE r \in tokenRefs : TRUE].asset

consumedNullifiers ==
    IF tokenRefs = {} THEN {}
    ELSE Range(utxo[CHOOSE r \in tokenRefs : TRUE].datum.consumed)

Promise == INSTANCE MilestoneEscrow
             WITH Amount <- Policy.amount, locked <- lockedAsset, consumed <- consumedNullifiers

\* Every transaction funds the escrow, pays one authorization's tranche for the
\* first time, or changes nothing that the promise is about.
ImplementsEscrow == Promise!Spec
=============================================================================
