----------------------------- MODULE Deployment -----------------------------
(***************************************************************************)
(* The deployment ceremony (packages/deployment; DeployApp.tsx,             *)
(* deploy-main.tsx and deployment-runtime.ts of packages/web): an operator's *)
(* page that binds a new Midnight contract and a new Cardano escrow to each *)
(* other, over wallets and providers that may fail before or after they     *)
(* have done what they were asked.                                          *)
(*                                                                          *)
(* Several ceremonies run at once (other tabs, or the page loaded again)    *)
(* on the outputs of one Cardano wallet.  A page remembers what its state   *)
(* and its runtime object hold; contracts and state threads stay.           *)
(* Abstracted: a policy is one value, and a validator is named after the    *)
(* output that parameterizes it (hashes do not collide).                    *)
(***************************************************************************)
EXTENDS Naturals, FiniteSets

CONSTANTS
    Ceremonies,     \* deployment pages
    Outputs,        \* unspent outputs of the operator's Cardano wallet
    Policies,       \* public policies the operator may enter
    MaxContracts,   \* bound: contracts one page deploys
    Faults,         \* what may go wrong
    MaxFaults,      \* bound: how often
    None            \* an undefined value

ContractIds == Ceremonies \X (1..MaxContracts)

\* PreparedDeployment, FinalizedDeployment: the validator hash is a function
\* of the output.
Plans == [policy : Policies, output : Outputs]
Bindings == [contract : ContractIds, policy : Policies, output : Outputs]

ASSUME ConstantsAssumption ==
    /\ MaxContracts \in Nat /\ MaxFaults \in Nat
    /\ None \notin Plans \union Bindings \union Outputs

VARIABLES
    contracts,      \* Midnight: the deployed contracts
    unspent,        \* Cardano: outputs not yet spent
    escrows,        \* Cardano: the state threads, with their first datum
    transaction,    \* Cardano: the initialization each page submitted
    module,         \* deploy-main: the cached promise of the runtime
    prepared, finalized,    \* deployment-runtime: the plan
    stage, operation, error, midnightWallet, cardanoWallet, candidates, artifacts,
                    \* DeployApp: its state
    pc,             \* the await a page is at
    faults          \* how much of the bound is used

chains == <<contracts, unspent, escrows, transaction>>
runtime == <<module, prepared, finalized>>
wallets == <<midnightWallet, cardanoWallet, candidates>>
vars == <<chains, runtime, stage, operation, error, wallets, artifacts, pc, faults>>

-----------------------------------------------------------------------------
(* DeployApp: run() and the buttons.                                        *)

Fault(kind) ==
    /\ kind \in Faults /\ faults < MaxFaults
    /\ faults' = faults + 1

Goto(c, where) ==
    /\ pc' = [pc EXCEPT ![c] = where]
    /\ UNCHANGED <<operation, error>>

\* The action of run() ends, or throws: the operation is over either way.
Return(c) ==
    /\ operation' = [operation EXCEPT ![c] = "none"]
    /\ pc' = [pc EXCEPT ![c] = "idle"]
    /\ UNCHANGED error

\* A deliberately wrong variant, as all those named "wrong" below: they are
\* used to see that a property notices.  Here an error leaves the page busy.
wrongThrow(c, code) ==
    /\ pc' = [pc EXCEPT ![c] = "idle"]
    /\ error' = [error EXCEPT ![c] = code]
    /\ UNCHANGED operation

Throw(c, code) ==
    /\ operation' = [operation EXCEPT ![c] = "none"]
    /\ pc' = [pc EXCEPT ![c] = "idle"]
    /\ error' = [error EXCEPT ![c] = code]

\* The buttons that a page shows and that are not disabled.
Offered(c) ==
    IF operation[c] # "none" THEN {} ELSE
    CASE stage[c] = "connect" ->
           (IF midnightWallet[c] THEN {} ELSE {"connect-midnight"}) \union
           (IF cardanoWallet[c] THEN {} ELSE {"connect-cardano"}) \union
           (IF midnightWallet[c] /\ cardanoWallet[c] /\ candidates[c] # {}
            THEN {"review"} ELSE {})
      [] stage[c] = "prepare" -> {"prepare"}
      [] stage[c] = "midnight" -> {"deploy-midnight"}
      [] stage[c] = "cardano" -> {"initialize-cardano"}
      [] OTHER -> {}

\* run() starts; the runtime is awaited first.
Click(c, op) ==
    /\ op \in Offered(c) \ {"review"}
    /\ operation' = [operation EXCEPT ![c] = op]
    /\ error' = [error EXCEPT ![c] = "none"]
    /\ pc' = [pc EXCEPT ![c] = "loading"]
    /\ UNCHANGED <<chains, runtime, stage, wallets, artifacts, faults>>

Review(c) ==
    /\ "review" \in Offered(c)
    /\ stage' = [stage EXCEPT ![c] = "prepare"]
    /\ UNCHANGED <<chains, runtime, operation, error, wallets, artifacts, pc, faults>>

Dismiss(c) ==
    /\ error[c] # "none"
    /\ error' = [error EXCEPT ![c] = "none"]
    /\ UNCHANGED <<chains, runtime, stage, operation, wallets, artifacts, pc, faults>>

\* loadRuntime: the first promise is kept, whether it resolves or rejects.
LoadRuntime(c) ==
    /\ pc[c] = "loading"
    /\ \/ /\ module[c] # "rejected"
          /\ module' = [module EXCEPT ![c] = "loaded"]
          /\ Goto(c, operation[c])
          /\ UNCHANGED faults
       \/ /\ module[c] = "none" /\ Fault("load")
          /\ module' = [module EXCEPT ![c] = "rejected"]
          /\ Throw(c, "NP_WEB_UNEXPECTED")
       \/ /\ module[c] = "rejected"
          /\ Throw(c, "NP_WEB_UNEXPECTED")
          /\ UNCHANGED <<module, faults>>
    /\ UNCHANGED <<chains, prepared, finalized, stage, wallets, artifacts>>

-----------------------------------------------------------------------------
(* Connecting.                                                              *)

ConnectMidnight(c) ==
    /\ pc[c] = "connect-midnight"
    /\ midnightWallet' = [midnightWallet EXCEPT ![c] = TRUE]
    /\ Return(c)
    /\ UNCHANGED <<chains, runtime, stage, cardanoWallet, candidates, artifacts, faults>>

\* The wallet is set before its outputs are asked for.
ConnectCardano(c) ==
    /\ pc[c] = "connect-cardano"
    /\ cardanoWallet' = [cardanoWallet EXCEPT ![c] = TRUE]
    /\ Goto(c, "listing")
    /\ UNCHANGED <<chains, runtime, stage, midnightWallet, candidates, artifacts, faults>>

WalletRejects(c) ==
    /\ pc[c] \in {"connect-midnight", "connect-cardano"}
    /\ Fault("wallet")
    /\ Throw(c, "NP_WEB_WALLET_REJECTED")
    /\ UNCHANGED <<chains, runtime, stage, wallets, artifacts>>

ListOutputs(c) ==
    /\ pc[c] = "listing"
    /\ candidates' = [candidates EXCEPT ![c] = unspent]
    /\ Return(c)
    /\ UNCHANGED <<chains, runtime, stage, midnightWallet, cardanoWallet, artifacts, faults>>

\* No provider can be reached, or the listing fails.
ListOutputsFails(c) ==
    /\ pc[c] = "listing"
    /\ Fault("provider")
    /\ Throw(c, "NP_WEB_CARDANO_PROVIDER_UNAVAILABLE")
    /\ UNCHANGED <<chains, runtime, stage, wallets, artifacts>>

-----------------------------------------------------------------------------
(* Preparing, and deploying on Midnight.                                    *)

\* Wrong: the plan counts as final before there is a contract.
wrongPrepare(c, p, o) ==
    /\ pc[c] = "prepare" /\ o \in candidates[c]
    /\ prepared' = [prepared EXCEPT ![c] = [policy |-> p, output |-> o]]
    /\ finalized' = prepared'
    /\ stage' = [stage EXCEPT ![c] = "midnight"]
    /\ Return(c)
    /\ UNCHANGED <<chains, module, wallets, artifacts, faults>>

\* parsePublicPolicy and prepareDeployment on what the operator entered.
Prepare(c, p, o) ==
    /\ pc[c] = "prepare" /\ o \in candidates[c]
    /\ prepared' = [prepared EXCEPT ![c] = [policy |-> p, output |-> o]]
    /\ finalized' = [finalized EXCEPT ![c] = None]
    /\ stage' = [stage EXCEPT ![c] = "midnight"]
    /\ Return(c)
    /\ UNCHANGED <<chains, module, wallets, artifacts, faults>>

\* The policy is refused.
PrepareFails(c) ==
    /\ pc[c] = "prepare"
    /\ Fault("policy")
    /\ Throw(c, "NP_WEB_UNEXPECTED")
    /\ UNCHANGED <<chains, runtime, stage, wallets, artifacts>>

isNew(c, id) ==
    /\ id[1] = c
    /\ \A b \in contracts : b.contract # id
    /\ \A i \in 1..(id[2] - 1) : \E b \in contracts : b.contract = <<c, i>>

\* deployNightPermit: the constructor fixes policy and validator hash.
bind(c, id) == [contract |-> id, policy |-> prepared[c].policy, output |-> prepared[c].output]

\* finalizeDeployment: the plan with the id of the contract.
finalizeDeployment(c, id) == bind(c, id)

DeployMidnight(c, id) ==
    /\ pc[c] = "deploy-midnight" /\ isNew(c, id)
    /\ contracts' = contracts \union {bind(c, id)}
    /\ finalized' = [finalized EXCEPT ![c] = finalizeDeployment(c, id)]
    /\ stage' = [stage EXCEPT ![c] = "cardano"]
    /\ Return(c)
    /\ UNCHANGED <<unspent, escrows, transaction, module, prepared, wallets, artifacts, faults>>

\* Refused credentials, a declined prompt, a failing provider.
DeployFails(c) ==
    /\ pc[c] = "deploy-midnight"
    /\ Fault("deploy")
    /\ Throw(c, "NP_WEB_BAD_REVIEWER_SECRET")
    /\ UNCHANGED <<chains, runtime, stage, wallets, artifacts>>

\* The contract is deployed, but the page is told of an error.
DeployFailsLate(c, id) ==
    /\ pc[c] = "deploy-midnight" /\ isNew(c, id)
    /\ Fault("deploy-late")
    /\ contracts' = contracts \union {bind(c, id)}
    /\ Throw(c, "NP_WEB_UNEXPECTED")
    /\ UNCHANGED <<unspent, escrows, transaction, runtime, stage, wallets, artifacts>>

-----------------------------------------------------------------------------
(* Initializing on Cardano, and publishing.                                 *)

\* createWalletInitializationPlan finds the output unspent.  A second
\* transaction that spends it is not taken while a first one is pending.
submittable(c) == finalized[c].output \in unspent /\ transaction[c] # "pending"

SubmitInitialization(c) ==
    /\ pc[c] = "initialize-cardano"
    /\ IF submittable(c)
       THEN /\ transaction' = [transaction EXCEPT ![c] = "pending"]
            /\ Goto(c, "confirming")
       ELSE /\ Throw(c, "NP_WEB_UNEXPECTED")
            /\ UNCHANGED transaction
    /\ UNCHANGED <<contracts, unspent, escrows, runtime, stage, wallets, artifacts, faults>>

SubmitFails(c) ==
    /\ pc[c] = "initialize-cardano"
    /\ Fault("submit")
    /\ Throw(c, "NP_WEB_UNEXPECTED")
    /\ UNCHANGED <<chains, runtime, stage, wallets, artifacts>>

\* The transaction was taken, but the answer is an error.
SubmitFailsLate(c) ==
    /\ pc[c] = "initialize-cardano" /\ submittable(c)
    /\ Fault("submit-late")
    /\ transaction' = [transaction EXCEPT ![c] = "pending"]
    /\ Throw(c, "NP_WEB_UNEXPECTED")
    /\ UNCHANGED <<contracts, unspent, escrows, runtime, stage, wallets, artifacts>>

\* Wrong: waits until the initialization output is spent, by whomever.
wrongConfirmInitialization(c) ==
    /\ pc[c] = "confirming" /\ finalized[c].output \notin unspent
    /\ Goto(c, "publishing")
    /\ UNCHANGED <<chains, runtime, stage, wallets, artifacts, faults>>

ConfirmInitialization(c) ==
    /\ pc[c] = "confirming" /\ transaction[c] = "included"
    /\ Goto(c, "publishing")
    /\ UNCHANGED <<chains, runtime, stage, wallets, artifacts, faults>>

ConfirmationFails(c) ==
    /\ pc[c] = "confirming"
    /\ Fault("confirm")
    /\ Throw(c, "NP_WEB_UNEXPECTED")
    /\ UNCHANGED <<chains, runtime, stage, wallets, artifacts>>

\* artifacts(): browser environment, relay environment and relay policy.
Publish(c) ==
    /\ pc[c] = "publishing"
    /\ artifacts' = [artifacts EXCEPT ![c] = finalized[c]]
    /\ stage' = [stage EXCEPT ![c] = "complete"]
    /\ Return(c)
    /\ UNCHANGED <<chains, runtime, wallets, faults>>

\* The Midnight wallet does not give its configuration.
PublishFails(c) ==
    /\ pc[c] = "publishing"
    /\ Fault("configuration")
    /\ Throw(c, "NP_WEB_WRONG_MIDNIGHT_NETWORK")
    /\ UNCHANGED <<chains, runtime, stage, wallets, artifacts>>

-----------------------------------------------------------------------------
(* The Cardano ledger.                                                      *)

\* Wrong: the validator is not tied to the output that is spent.
wrongIncludeInitialization(c) ==
    /\ transaction[c] = "pending"
    /\ transaction' = [transaction EXCEPT ![c] = "included"]
    /\ unspent' = unspent \ {finalized[c].output}
    /\ escrows' = escrows \union {finalized[c]}
    /\ UNCHANGED <<contracts, runtime, stage, operation, error, wallets, artifacts, pc, faults>>

\* A block spends the output and starts the state thread.
IncludeInitialization(c) ==
    /\ transaction[c] = "pending" /\ finalized[c].output \in unspent
    /\ transaction' = [transaction EXCEPT ![c] = "included"]
    /\ unspent' = unspent \ {finalized[c].output}
    /\ escrows' = escrows \union {finalized[c]}
    /\ UNCHANGED <<contracts, runtime, stage, operation, error, wallets, artifacts, pc, faults>>

DropInitialization(c) ==
    /\ transaction[c] = "pending" /\ finalized[c].output \notin unspent
    /\ transaction' = [transaction EXCEPT ![c] = "dropped"]
    /\ UNCHANGED <<contracts, unspent, escrows, runtime, stage, operation, error, wallets,
                   artifacts, pc, faults>>

\* The operator's wallet spends an output for something else.
SpendElsewhere(o) ==
    /\ o \in unspent
    /\ Fault("spend")
    /\ unspent' = unspent \ {o}
    /\ UNCHANGED <<contracts, escrows, transaction, runtime, stage, operation, error, wallets,
                   artifacts, pc>>

-----------------------------------------------------------------------------
Init ==
    /\ contracts = {} /\ unspent = Outputs /\ escrows = {}
    /\ transaction = [c \in Ceremonies |-> "none"]
    /\ module = [c \in Ceremonies |-> "none"]
    /\ prepared = [c \in Ceremonies |-> None]
    /\ finalized = [c \in Ceremonies |-> None]
    /\ stage = [c \in Ceremonies |-> "connect"]
    /\ operation = [c \in Ceremonies |-> "none"]
    /\ error = [c \in Ceremonies |-> "none"]
    /\ midnightWallet = [c \in Ceremonies |-> FALSE]
    /\ cardanoWallet = [c \in Ceremonies |-> FALSE]
    /\ candidates = [c \in Ceremonies |-> {}]
    /\ artifacts = [c \in Ceremonies |-> None]
    /\ pc = [c \in Ceremonies |-> "idle"]
    /\ faults = 0

Continue(c) ==
    \/ LoadRuntime(c)
    \/ ConnectMidnight(c)
    \/ ConnectCardano(c)
    \/ WalletRejects(c)
    \/ ListOutputs(c)
    \/ ListOutputsFails(c)
    \/ \E p \in Policies, o \in Outputs : Prepare(c, p, o)
    \/ PrepareFails(c)
    \/ \E id \in ContractIds : DeployMidnight(c, id) \/ DeployFailsLate(c, id)
    \/ DeployFails(c)
    \/ SubmitInitialization(c)
    \/ SubmitFails(c)
    \/ SubmitFailsLate(c)
    \/ ConfirmInitialization(c)
    \/ ConfirmationFails(c)
    \/ Publish(c)
    \/ PublishFails(c)

Operations == {"connect-midnight", "connect-cardano", "prepare", "deploy-midnight",
               "initialize-cardano"}

Block(c) == IncludeInitialization(c) \/ DropInitialization(c)

Next ==
    \/ \E c \in Ceremonies, op \in Operations : Click(c, op)
    \/ \E c \in Ceremonies : Review(c) \/ Dismiss(c) \/ Continue(c) \/ Block(c)
    \/ \E o \in Outputs : SpendElsewhere(o)

Spec == Init /\ [][Next]_vars

(* Awaited calls settle, blocks include what they can, and the operator     *)
(* presses every button that stays on offer.  No fault is assumed.          *)
Fairness ==
    \A c \in Ceremonies :
        /\ WF_vars(Continue(c))
        /\ WF_vars(Block(c))
        /\ WF_vars(Review(c))
        /\ \A op \in Operations : WF_vars(Click(c, op))

FairSpec == Spec /\ Fairness

-----------------------------------------------------------------------------
(* Properties.                                                              *)

\* Every variable stays in its domain.
TypeOK ==
    /\ contracts \subseteq Bindings
    /\ unspent \subseteq Outputs
    /\ escrows \subseteq Bindings
    /\ transaction \in [Ceremonies -> {"none", "pending", "included", "dropped"}]
    /\ module \in [Ceremonies -> {"none", "loaded", "rejected"}]
    /\ prepared \in [Ceremonies -> Plans \union {None}]
    /\ finalized \in [Ceremonies -> Bindings \union {None}]
    /\ stage \in [Ceremonies -> {"connect", "prepare", "midnight", "cardano", "complete"}]
    /\ operation \in [Ceremonies -> Operations \union {"none"}]
    /\ error \in [Ceremonies -> {"none", "NP_WEB_UNEXPECTED", "NP_WEB_WALLET_REJECTED",
                                 "NP_WEB_CARDANO_PROVIDER_UNAVAILABLE",
                                 "NP_WEB_BAD_REVIEWER_SECRET", "NP_WEB_WRONG_MIDNIGHT_NETWORK"}]
    /\ midnightWallet \in [Ceremonies -> BOOLEAN]
    /\ cardanoWallet \in [Ceremonies -> BOOLEAN]
    /\ candidates \in [Ceremonies -> SUBSET Outputs]
    /\ artifacts \in [Ceremonies -> Bindings \union {None}]
    /\ pc \in [Ceremonies -> Operations \union {"idle", "loading", "listing", "confirming",
                                                "publishing"}]
    /\ faults \in 0..MaxFaults

\* An escrow on Cardano always names a Midnight contract that exists and that
\* was deployed with the same policy and with this escrow's own validator,
\* however many contracts a page had to deploy.
EscrowsAreBound == escrows \subseteq contracts

\* What a ceremony publishes is an escrow that is on Cardano; and no two
\* ceremonies publish the same validator, though they may have reserved the
\* same output and both submitted.
ArtifactsDescribeEscrows ==
    /\ \A c \in Ceremonies : stage[c] = "complete" \/ artifacts[c] # None =>
          /\ artifacts[c] \in escrows
          /\ stage[c] = "complete"
    /\ \A c, d \in Ceremonies : artifacts[c] # None /\ artifacts[d] # None /\ c # d =>
          artifacts[c].output # artifacts[d].output

\* A page is busy exactly while something it awaits is running.
BusyWhileRunning ==
    \A c \in Ceremonies : operation[c] # "none" <=> pc[c] # "idle"

\* What the operator has reviewed is what both chains get: once prepared, the
\* plan of a page, and once deployed its contract, are not exchanged.
PlanIsFixed ==
    [][\A c \in Ceremonies :
        /\ prepared[c] # None => prepared'[c] = prepared[c]
        /\ finalized[c] # None => finalized'[c] = finalized[c]]_vars

\* What a ceremony does not come back from: loadRuntime keeps a promise that
\* was rejected; the Cardano button is disabled once there is a wallet, though
\* no output was listed; and the retry of an initialization wants to spend the
\* output again, which the first attempt, or another transaction, has spent.
stranded(c) ==
    \/ module[c] = "rejected"
    \/ stage[c] = "connect" /\ cardanoWallet[c] /\ candidates[c] = {}
    \/ stage[c] = "cardano" /\ finalized[c].output \notin unspent

\* Every ceremony comes to its end or is stranded: all else that goes wrong, a
\* Midnight deployment that took effect although it failed included, only
\* delays it.
CeremonyCompletes ==
    \A c \in Ceremonies : <>(stage[c] = "complete") \/ <>[]stranded(c)

-----------------------------------------------------------------------------
(* The inductive invariant behind the safety properties.                    *)

\* The stage at which each operation runs; which operation an await belongs to.
stageOf ==
    [op \in Operations |->
        CASE op \in {"connect-midnight", "connect-cardano"} -> "connect"
          [] op = "prepare" -> "prepare"
          [] op = "deploy-midnight" -> "midnight"
          [] op = "initialize-cardano" -> "cardano"]

\* A page is at an await of the operation that it shows, and at its stage.
AwaitsMatch ==
    \A c \in Ceremonies :
        /\ operation[c] # "none" => stage[c] = stageOf[operation[c]]
        /\ pc[c] \in Operations => operation[c] = pc[c]
        /\ pc[c] = "listing" => operation[c] = "connect-cardano"
        /\ pc[c] \in {"confirming", "publishing"} => operation[c] = "initialize-cardano"

\* The stage tells how far the plan is.  A final plan is one of this page's own
\* contracts, and what is published is the plan.
PlansFollowStages ==
    \A c \in Ceremonies :
        /\ prepared[c] # None <=> stage[c] \in {"midnight", "cardano", "complete"}
        /\ finalized[c] # None <=> stage[c] \in {"cardano", "complete"}
        /\ finalized[c] # None => finalized[c] \in contracts /\ finalized[c].contract[1] = c
        /\ artifacts[c] # None <=> stage[c] = "complete"
        /\ artifacts[c] # None => artifacts[c] = finalized[c]

\* Only a final plan is submitted, and it is published when it is an escrow.
TransactionsArePlans ==
    \A c \in Ceremonies :
        /\ transaction[c] # "none" => finalized[c] # None
        /\ transaction[c] = "included" => finalized[c] \in escrows
        /\ pc[c] = "publishing" \/ stage[c] = "complete" => transaction[c] = "included"

\* Each escrow has spent an output of its own.
EscrowsSpend ==
    /\ \A b \in escrows : b.output \notin unspent
    /\ \A b, d \in escrows : b.output = d.output => b = d

CeremonyInv ==
    /\ TypeOK
    /\ BusyWhileRunning
    /\ AwaitsMatch
    /\ PlansFollowStages
    /\ EscrowsAreBound
    /\ TransactionsArePlans
    /\ EscrowsSpend

-----------------------------------------------------------------------------
(* The ceremonies implement DeploymentBinding.                              *)

published == {b \in Bindings : \E c \in Ceremonies : artifacts[c] = b}

Binding == INSTANCE DeploymentBinding

\* Every step deploys, initializes what was deployed, publishes what was
\* initialized, or does none of it.
ImplementsBinding == Binding!Spec
=============================================================================
