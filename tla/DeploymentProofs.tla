-------------------------- MODULE DeploymentProofs --------------------------
(***************************************************************************)
(* Proofs about Deployment, for any number of ceremonies, outputs, policies *)
(* and failures.  CeremonyInv is the inductive invariant; that what is published *)
(* is on the chain, that a reviewed plan is not exchanged and the refinement *)
(* of DeploymentBinding follow from it.                                     *)
(***************************************************************************)
EXTENDS Deployment, TLAPS

-----------------------------------------------------------------------------
(* Types.                                                                   *)

\* A page at an await is busy with the operation and at its stage.
LEMMA AwaitStages ==
  ASSUME CeremonyInv, NEW c \in Ceremonies, pc[c] # "idle"
  PROVE  /\ operation[c] \in Operations
         /\ pc[c] \in {"connect-midnight", "connect-cardano", "listing"} => stage[c] = "connect"
         /\ pc[c] = "prepare" => stage[c] = "prepare"
         /\ pc[c] = "deploy-midnight" => stage[c] = "midnight"
         /\ pc[c] \in {"initialize-cardano", "confirming", "publishing"} => stage[c] = "cardano"
<1>1. operation[c] \in Operations /\ stage[c] = stageOf[operation[c]]
  BY DEF CeremonyInv, TypeOK, BusyWhileRunning, AwaitsMatch
<1>2. /\ stageOf["connect-midnight"] = "connect" /\ stageOf["connect-cardano"] = "connect"
      /\ stageOf["prepare"] = "prepare" /\ stageOf["deploy-midnight"] = "midnight"
      /\ stageOf["initialize-cardano"] = "cardano"
  BY DEF stageOf, Operations
<1> QED
  BY <1>1, <1>2 DEF CeremonyInv, AwaitsMatch, Operations

\* A page that deploys has prepared, and its contract has a binding.
LEMMA BindType ==
  ASSUME CeremonyInv, NEW c \in Ceremonies, NEW id \in ContractIds, pc[c] = "deploy-midnight"
  PROVE  bind(c, id) \in Bindings /\ prepared[c] # None
<1>1. prepared[c] \in Plans
  BY AwaitStages DEF CeremonyInv, TypeOK, PlansFollowStages
<1> QED
  BY <1>1, ConstantsAssumption DEF bind, Plans, Bindings

\* A page that submits, waits or publishes has a final plan.
LEMMA FinalType ==
  ASSUME CeremonyInv, NEW c \in Ceremonies, stage[c] = "cardano"
  PROVE  /\ finalized[c] \in Bindings /\ finalized[c] # None
         /\ finalized[c] \in contracts /\ finalized[c].output \in Outputs
<1>1. finalized[c] \in Bindings /\ finalized[c] # None
  BY DEF CeremonyInv, TypeOK, PlansFollowStages
<1> QED
  BY <1>1 DEF CeremonyInv, PlansFollowStages, Bindings

\* Every step leaves every variable in its domain.
LEMMA TypeInd ==
  ASSUME CeremonyInv, [Next]_vars
  PROVE  TypeOK'
<1> USE DEF chains, runtime, wallets
<1>0. TypeOK
  BY DEF CeremonyInv
<1>1. CASE UNCHANGED vars
  BY <1>0, <1>1 DEF vars, TypeOK
<1>2. ASSUME NEW c \in Ceremonies, NEW op \in Operations, Click(c, op) PROVE TypeOK'
  BY <1>0, <1>2 DEF Click, TypeOK
<1>3. ASSUME NEW c \in Ceremonies, Review(c) \/ Dismiss(c) PROVE TypeOK'
  BY <1>0, <1>3 DEF Review, Dismiss, TypeOK
<1>4. ASSUME NEW c \in Ceremonies, LoadRuntime(c) PROVE TypeOK'
  <2>1. operation[c] \in Operations
    BY <1>4, AwaitStages DEF LoadRuntime
  <2> QED
    BY <1>0, <1>4, <2>1, ConstantsAssumption DEF LoadRuntime, Goto, Throw, Fault, TypeOK
<1>5. ASSUME NEW c \in Ceremonies, ConnectMidnight(c) \/ ConnectCardano(c) \/ ListOutputs(c)
      PROVE  TypeOK'
  <2>1. CASE ConnectMidnight(c)
    BY <1>0, <2>1 DEF ConnectMidnight, Return, TypeOK
  <2>2. CASE ConnectCardano(c)
    BY <1>0, <2>2 DEF ConnectCardano, Goto, TypeOK
  <2>3. CASE ListOutputs(c)
    BY <1>0, <2>3 DEF ListOutputs, Return, TypeOK
  <2> QED
    BY <1>5, <2>1, <2>2, <2>3
<1>6. ASSUME NEW c \in Ceremonies,
             \/ WalletRejects(c) \/ ListOutputsFails(c) \/ PrepareFails(c) \/ DeployFails(c)
             \/ SubmitFails(c) \/ ConfirmationFails(c) \/ PublishFails(c)
      PROVE  TypeOK'
  BY <1>0, <1>6, ConstantsAssumption
     DEF WalletRejects, ListOutputsFails, PrepareFails, DeployFails, SubmitFails,
         ConfirmationFails, PublishFails, Throw, Fault, TypeOK
<1>7. ASSUME NEW c \in Ceremonies, NEW p \in Policies, NEW o \in Outputs, Prepare(c, p, o)
      PROVE  TypeOK'
  BY <1>0, <1>7 DEF Prepare, Return, Plans, TypeOK
<1>8. ASSUME NEW c \in Ceremonies, NEW id \in ContractIds,
             DeployMidnight(c, id) \/ DeployFailsLate(c, id)
      PROVE  TypeOK'
  <2>1. bind(c, id) \in Bindings
    BY <1>8, BindType DEF DeployMidnight, DeployFailsLate
  <2> QED
    BY <1>0, <1>8, <2>1, ConstantsAssumption
       DEF DeployMidnight, DeployFailsLate, finalizeDeployment, Return, Throw, Fault, TypeOK
<1>9. ASSUME NEW c \in Ceremonies, SubmitInitialization(c) \/ SubmitFailsLate(c)
      PROVE  TypeOK'
  BY <1>0, <1>9, ConstantsAssumption
     DEF SubmitInitialization, SubmitFailsLate, Goto, Throw, Fault, TypeOK
<1>10. ASSUME NEW c \in Ceremonies, ConfirmInitialization(c) \/ Publish(c) PROVE TypeOK'
  BY <1>0, <1>10 DEF ConfirmInitialization, Publish, Goto, Return, TypeOK
<1>11. ASSUME NEW c \in Ceremonies, IncludeInitialization(c) \/ DropInitialization(c)
       PROVE  TypeOK'
  <2>1. finalized[c] \in Bindings
    BY <1>0, <1>11 DEF IncludeInitialization, DropInitialization, CeremonyInv, TransactionsArePlans,
                       TypeOK
  <2> QED
    BY <1>0, <1>11, <2>1 DEF IncludeInitialization, DropInitialization, TypeOK
<1>12. ASSUME NEW o \in Outputs, SpendElsewhere(o) PROVE TypeOK'
  BY <1>0, <1>12, ConstantsAssumption DEF SpendElsewhere, Fault, TypeOK
<1> QED
  BY <1>1, <1>2, <1>3, <1>4, <1>5, <1>6, <1>7, <1>8, <1>9, <1>10, <1>11, <1>12
     DEF Next, Continue, Block

-----------------------------------------------------------------------------
(* What the page is doing.                                                  *)

\* A page becomes busy with an await, and free when it has none left.
LEMMA BusyInd ==
  ASSUME CeremonyInv, [Next]_vars
  PROVE  BusyWhileRunning'
<1> USE DEF BusyWhileRunning
<1>0. TypeOK /\ BusyWhileRunning
  BY DEF CeremonyInv
<1>1. CASE UNCHANGED <<operation, pc>>
  BY <1>0, <1>1
<1>2. ASSUME NEW c \in Ceremonies, NEW op \in Operations, Click(c, op) PROVE BusyWhileRunning'
  BY <1>0, <1>2 DEF Click, TypeOK, Operations
<1>3. ASSUME NEW c \in Ceremonies, NEW where, pc[c] # "idle", where # "idle", Goto(c, where)
      PROVE  BusyWhileRunning'
  BY <1>0, <1>3 DEF Goto, TypeOK
<1>4. ASSUME NEW c \in Ceremonies, Return(c) PROVE BusyWhileRunning'
  BY <1>0, <1>4 DEF Return, TypeOK
<1>5. ASSUME NEW c \in Ceremonies, NEW code, Throw(c, code) PROVE BusyWhileRunning'
  BY <1>0, <1>5 DEF Throw, TypeOK
<1>6. ASSUME NEW c \in Ceremonies, LoadRuntime(c) PROVE BusyWhileRunning'
  <2>1. operation[c] \in Operations /\ operation[c] # "idle"
    BY <1>6, AwaitStages DEF LoadRuntime, Operations
  <2> QED
    BY <1>3, <1>5, <1>6, <2>1 DEF LoadRuntime
<1>7. ASSUME NEW c \in Ceremonies,
             \/ ConnectMidnight(c) \/ ListOutputs(c) \/ Publish(c)
             \/ \E p \in Policies, o \in Outputs : Prepare(c, p, o)
             \/ \E id \in ContractIds : DeployMidnight(c, id)
      PROVE  BusyWhileRunning'
  BY <1>4, <1>7 DEF ConnectMidnight, ListOutputs, Publish, Prepare, DeployMidnight
<1>8. ASSUME NEW c \in Ceremonies,
             \/ WalletRejects(c) \/ ListOutputsFails(c) \/ PrepareFails(c) \/ DeployFails(c)
             \/ SubmitFails(c) \/ SubmitFailsLate(c) \/ ConfirmationFails(c) \/ PublishFails(c)
             \/ \E id \in ContractIds : DeployFailsLate(c, id)
      PROVE  BusyWhileRunning'
  BY <1>5, <1>8 DEF WalletRejects, ListOutputsFails, PrepareFails, DeployFails, SubmitFails,
                    SubmitFailsLate, ConfirmationFails, PublishFails, DeployFailsLate
<1>9. ASSUME NEW c \in Ceremonies,
             ConnectCardano(c) \/ SubmitInitialization(c) \/ ConfirmInitialization(c)
      PROVE  BusyWhileRunning'
  BY <1>3, <1>5, <1>9 DEF ConnectCardano, SubmitInitialization, ConfirmInitialization
<1>10. ASSUME NEW c \in Ceremonies, Review(c) \/ Dismiss(c) \/ Block(c) PROVE BusyWhileRunning'
  BY <1>1, <1>10 DEF Review, Dismiss, Block, IncludeInitialization, DropInitialization
<1>11. ASSUME NEW o \in Outputs, SpendElsewhere(o) PROVE BusyWhileRunning'
  BY <1>1, <1>11 DEF SpendElsewhere
<1> QED
  BY <1>1, <1>2, <1>6, <1>7, <1>8, <1>9, <1>10, <1>11 DEF Next, Continue, vars

\* A button that is shown belongs to the stage.
LEMMA OfferedAtStage ==
  ASSUME NEW c \in Ceremonies, NEW op \in Operations, op \in Offered(c)
  PROVE  operation[c] = "none" /\ stage[c] = stageOf[op]
BY DEF Offered, stageOf, Operations

\* An operation ends at an await, and none is at another stage than its own.
LEMMA AwaitsInd ==
  ASSUME CeremonyInv, [Next]_vars
  PROVE  AwaitsMatch'
<1> USE DEF AwaitsMatch
<1>0. TypeOK /\ BusyWhileRunning /\ AwaitsMatch
  BY DEF CeremonyInv
<1>1. CASE UNCHANGED <<operation, stage, pc>>
  BY <1>0, <1>1
<1>2. ASSUME NEW c \in Ceremonies, NEW op \in Operations, Click(c, op) PROVE AwaitsMatch'
  <2>1. stage[c] = stageOf[op]
    BY <1>2, OfferedAtStage DEF Click
  <2> QED
    BY <1>0, <1>2, <2>1 DEF Click, TypeOK, Operations
<1>3. ASSUME NEW c \in Ceremonies, NEW s, operation' = [operation EXCEPT ![c] = "none"],
             pc' = [pc EXCEPT ![c] = "idle"], stage' = [stage EXCEPT ![c] = s]
      PROVE  AwaitsMatch'
  BY <1>0, <1>3 DEF TypeOK, Operations
<1>4. ASSUME NEW c \in Ceremonies, operation' = [operation EXCEPT ![c] = "none"],
             pc' = [pc EXCEPT ![c] = "idle"], UNCHANGED stage
      PROVE  AwaitsMatch'
  BY <1>0, <1>4 DEF TypeOK, Operations
<1>5. ASSUME NEW c \in Ceremonies, NEW code, Throw(c, code), UNCHANGED stage
      PROVE  AwaitsMatch'
  BY <1>4, <1>5 DEF Throw
<1>6. ASSUME NEW c \in Ceremonies, LoadRuntime(c) PROVE AwaitsMatch'
  <2>1. operation[c] \in Operations
    BY <1>6, AwaitStages DEF LoadRuntime
  <2>2. CASE Goto(c, operation[c])
    BY <1>0, <1>6, <2>1, <2>2 DEF LoadRuntime, Goto, TypeOK, Operations
  <2>3. UNCHANGED stage
    BY <1>6 DEF LoadRuntime
  <2> QED
    BY <1>5, <1>6, <2>2, <2>3 DEF LoadRuntime
<1>7. ASSUME NEW c \in Ceremonies,
             \/ ConnectMidnight(c) \/ ListOutputs(c) \/ Publish(c)
             \/ \E p \in Policies, o \in Outputs : Prepare(c, p, o)
             \/ \E id \in ContractIds : DeployMidnight(c, id)
      PROVE  AwaitsMatch'
  BY <1>3, <1>4, <1>7 DEF ConnectMidnight, ListOutputs, Publish, Prepare, DeployMidnight, Return
<1>8. ASSUME NEW c \in Ceremonies,
             \/ WalletRejects(c) \/ ListOutputsFails(c) \/ PrepareFails(c) \/ DeployFails(c)
             \/ SubmitFails(c) \/ SubmitFailsLate(c) \/ ConfirmationFails(c) \/ PublishFails(c)
             \/ \E id \in ContractIds : DeployFailsLate(c, id)
      PROVE  AwaitsMatch'
  BY <1>5, <1>8 DEF WalletRejects, ListOutputsFails, PrepareFails, DeployFails, SubmitFails,
                    SubmitFailsLate, ConfirmationFails, PublishFails, DeployFailsLate
<1>9. ASSUME NEW c \in Ceremonies, ConnectCardano(c) PROVE AwaitsMatch'
  BY <1>0, <1>9 DEF ConnectCardano, Goto, TypeOK, Operations
<1>10. ASSUME NEW c \in Ceremonies, SubmitInitialization(c) PROVE AwaitsMatch'
  <2>1. CASE Goto(c, "confirming")
    BY <1>0, <1>10, <2>1 DEF SubmitInitialization, Goto, TypeOK, Operations
  <2> QED
    BY <1>5, <1>10, <2>1 DEF SubmitInitialization
<1>11. ASSUME NEW c \in Ceremonies, ConfirmInitialization(c) PROVE AwaitsMatch'
  BY <1>0, <1>11 DEF ConfirmInitialization, Goto, TypeOK, Operations
<1>12. ASSUME NEW c \in Ceremonies, Review(c) PROVE AwaitsMatch'
  <2>1. operation[c] = "none"
    BY <1>12 DEF Review, Offered
  <2> QED
    BY <1>0, <1>12, <2>1 DEF Review, TypeOK
<1>13. ASSUME NEW c \in Ceremonies, Dismiss(c) \/ Block(c) PROVE AwaitsMatch'
  BY <1>1, <1>13 DEF Dismiss, Block, IncludeInitialization, DropInitialization
<1>14. ASSUME NEW o \in Outputs, SpendElsewhere(o) PROVE AwaitsMatch'
  BY <1>1, <1>14 DEF SpendElsewhere
<1> QED
  BY <1>1, <1>2, <1>6, <1>7, <1>8, <1>9, <1>10, <1>11, <1>12, <1>13, <1>14
     DEF Next, Continue, vars

-----------------------------------------------------------------------------
(* What the page knows, and what the chains hold.                           *)

\* The steps that touch neither the plan nor the stage nor what is published.
LEMMA PlanUntouched ==
  ASSUME NEW c \in Ceremonies,
         \/ \E op \in Operations : Click(c, op)
         \/ Dismiss(c) \/ LoadRuntime(c) \/ ConnectMidnight(c) \/ ConnectCardano(c)
         \/ WalletRejects(c) \/ ListOutputs(c) \/ ListOutputsFails(c) \/ PrepareFails(c)
         \/ DeployFails(c) \/ SubmitInitialization(c) \/ SubmitFails(c) \/ SubmitFailsLate(c)
         \/ ConfirmInitialization(c) \/ ConfirmationFails(c) \/ PublishFails(c) \/ Block(c)
  PROVE  UNCHANGED <<stage, prepared, finalized, contracts, artifacts>>
BY DEF chains, runtime, Click, Dismiss, LoadRuntime, ConnectMidnight, ConnectCardano,
       WalletRejects, ListOutputs, ListOutputsFails, PrepareFails, DeployFails,
       SubmitInitialization, SubmitFails, SubmitFailsLate, ConfirmInitialization,
       ConfirmationFails, PublishFails, Block, IncludeInitialization, DropInitialization

\* The plan becomes final with the contract, and is published last.
LEMMA PlansInd ==
  ASSUME CeremonyInv, [Next]_vars
  PROVE  PlansFollowStages'
<1> USE DEF PlansFollowStages
<1>0. TypeOK /\ PlansFollowStages
  BY DEF CeremonyInv
<1>1. CASE UNCHANGED <<stage, prepared, finalized, contracts, artifacts>>
  BY <1>0, <1>1
<1>2. ASSUME NEW c \in Ceremonies, Review(c) PROVE PlansFollowStages'
  <2>1. stage[c] = "connect"
    BY <1>0, <1>2 DEF Review, Offered, TypeOK
  <2> QED
    BY <1>0, <1>2, <2>1 DEF Review, TypeOK, chains, runtime
<1>3. ASSUME NEW c \in Ceremonies, NEW p \in Policies, NEW o \in Outputs, Prepare(c, p, o)
      PROVE  PlansFollowStages'
  <2>1. stage[c] = "prepare"
    BY <1>3, AwaitStages DEF Prepare
  <2>2. [policy |-> p, output |-> o] # None
    BY ConstantsAssumption DEF Plans
  <2> QED
    BY <1>0, <1>3, <2>1, <2>2 DEF Prepare, TypeOK, chains
<1>4. ASSUME NEW c \in Ceremonies, NEW id \in ContractIds, DeployMidnight(c, id)
      PROVE  PlansFollowStages'
  <2>1. stage[c] = "midnight"
    BY <1>4, AwaitStages DEF DeployMidnight
  <2>2. bind(c, id) # None /\ bind(c, id).contract[1] = c
    BY <1>4, BindType, ConstantsAssumption DEF DeployMidnight, isNew, bind
  <2> QED
    BY <1>0, <1>4, <2>1, <2>2 DEF DeployMidnight, finalizeDeployment, TypeOK
<1>5. ASSUME NEW c \in Ceremonies, NEW id \in ContractIds, DeployFailsLate(c, id)
      PROVE  PlansFollowStages'
  BY <1>0, <1>5 DEF DeployFailsLate, runtime
<1>6. ASSUME NEW c \in Ceremonies, Publish(c) PROVE PlansFollowStages'
  <2>1. stage[c] = "cardano"
    BY <1>6, AwaitStages DEF Publish
  <2> QED
    BY <1>0, <1>6, <2>1 DEF Publish, TypeOK, chains, runtime
<1>7. ASSUME NEW o \in Outputs, SpendElsewhere(o) PROVE PlansFollowStages'
  BY <1>1, <1>7 DEF SpendElsewhere, runtime
<1> QED
  BY <1>1, <1>2, <1>3, <1>4, <1>5, <1>6, <1>7, PlanUntouched
       DEF Next, Continue, vars, chains, runtime

\* The steps that are not on Cardano.
LEMMA CardanoUntouched ==
  ASSUME NEW c \in Ceremonies,
         \/ \E op \in Operations : Click(c, op)
         \/ Review(c) \/ Dismiss(c) \/ Continue(c)
  PROVE  UNCHANGED <<unspent, escrows>> /\ contracts \subseteq contracts'
BY DEF chains, Click, Review, Dismiss, Continue, LoadRuntime, ConnectMidnight, ConnectCardano,
       WalletRejects, ListOutputs, ListOutputsFails, Prepare, PrepareFails, DeployMidnight,
       DeployFails, DeployFailsLate, SubmitInitialization, SubmitFails, SubmitFailsLate,
       ConfirmInitialization, ConfirmationFails, Publish, PublishFails

\* A block starts a state thread of a contract, over an output of its own.
LEMMA EscrowsInd ==
  ASSUME CeremonyInv, [Next]_vars
  PROVE  EscrowsAreBound' /\ EscrowsSpend'
<1> USE DEF EscrowsAreBound, EscrowsSpend
<1>0. TypeOK /\ EscrowsAreBound /\ EscrowsSpend
  BY DEF CeremonyInv
<1>1. CASE UNCHANGED <<unspent, escrows>> /\ contracts \subseteq contracts'
  BY <1>0, <1>1
<1>2. ASSUME NEW c \in Ceremonies, IncludeInitialization(c)
      PROVE  EscrowsAreBound' /\ EscrowsSpend'
  <2>1. finalized[c] \in contracts
    BY <1>2 DEF CeremonyInv, IncludeInitialization, TransactionsArePlans, PlansFollowStages
  <2> QED
    BY <1>0, <1>2, <2>1 DEF IncludeInitialization
<1>3. ASSUME NEW c \in Ceremonies, DropInitialization(c) PROVE EscrowsAreBound' /\ EscrowsSpend'
  BY <1>0, <1>3 DEF DropInitialization
<1>4. ASSUME NEW o \in Outputs, SpendElsewhere(o) PROVE EscrowsAreBound' /\ EscrowsSpend'
  BY <1>0, <1>4 DEF SpendElsewhere
<1> QED
  BY <1>1, <1>2, <1>3, <1>4, CardanoUntouched DEF Next, Block, vars, chains

\* A page that publishes has seen its own transaction included.
LEMMA TransactionsInd ==
  ASSUME CeremonyInv, [Next]_vars
  PROVE  TransactionsArePlans'
<1> USE DEF TransactionsArePlans
<1>0. TypeOK /\ PlansFollowStages /\ TransactionsArePlans
  BY DEF CeremonyInv
<1>1. CASE UNCHANGED <<transaction, finalized, escrows, stage, pc>>
  BY <1>0, <1>1
<1>2. ASSUME NEW c \in Ceremonies, NEW where, where # "publishing", where # "complete",
             pc' = [pc EXCEPT ![c] = where],
             UNCHANGED <<transaction, finalized, escrows, stage>>
      PROVE  TransactionsArePlans'
  BY <1>0, <1>2 DEF TypeOK
<1>3. ASSUME NEW c \in Ceremonies,
             \/ \E op \in Operations : Click(c, op)
             \/ Dismiss(c) \/ LoadRuntime(c) \/ ConnectMidnight(c) \/ ConnectCardano(c)
             \/ WalletRejects(c) \/ ListOutputs(c) \/ ListOutputsFails(c) \/ PrepareFails(c)
             \/ DeployFails(c) \/ SubmitFails(c) \/ ConfirmationFails(c) \/ PublishFails(c)
             \/ \E id \in ContractIds : DeployFailsLate(c, id)
      PROVE  TransactionsArePlans'
  <2>1. UNCHANGED <<transaction, finalized, escrows, stage>>
    BY <1>3 DEF chains, runtime, Click, Dismiss, LoadRuntime, ConnectMidnight, ConnectCardano,
                WalletRejects, ListOutputs, ListOutputsFails, PrepareFails, DeployFails,
                SubmitFails, ConfirmationFails, PublishFails, DeployFailsLate
  <2>2. CASE Dismiss(c)
    BY <1>1, <2>1, <2>2 DEF Dismiss
  <2>3. CASE LoadRuntime(c)
    <3>1. operation[c] \in Operations
      BY <2>3, AwaitStages DEF LoadRuntime
    <3> QED
      BY <1>2, <2>1, <2>3, <3>1 DEF LoadRuntime, Goto, Throw, Operations
  <2>4. ASSUME NEW where, where # "publishing", where # "complete",
               pc' = [pc EXCEPT ![c] = where]
        PROVE  TransactionsArePlans'
    BY <1>2, <2>1, <2>4
  <2> QED
    BY <1>3, <2>2, <2>3, <2>4
       DEF Click, ConnectMidnight, ConnectCardano, WalletRejects, ListOutputs, ListOutputsFails,
           PrepareFails, DeployFails, SubmitFails, ConfirmationFails, PublishFails,
           DeployFailsLate, Goto, Return, Throw
<1>4. ASSUME NEW c \in Ceremonies, Review(c) PROVE TransactionsArePlans'
  BY <1>0, <1>4 DEF Review, TypeOK, chains, runtime
<1>5. ASSUME NEW c \in Ceremonies, NEW p \in Policies, NEW o \in Outputs, Prepare(c, p, o)
      PROVE  TransactionsArePlans'
  <2>1. stage[c] = "prepare"
    BY <1>5, AwaitStages DEF Prepare
  <2>2. transaction[c] = "none"
    BY <1>0, <2>1 DEF PlansFollowStages
  <2> QED
    BY <1>0, <1>5, <2>2 DEF Prepare, Return, TypeOK, chains
<1>6. ASSUME NEW c \in Ceremonies, NEW id \in ContractIds, DeployMidnight(c, id)
      PROVE  TransactionsArePlans'
  <2>1. stage[c] = "midnight"
    BY <1>6, AwaitStages DEF DeployMidnight
  <2>2. transaction[c] = "none"
    BY <1>0, <2>1 DEF PlansFollowStages
  <2> QED
    BY <1>0, <1>6, <2>2 DEF DeployMidnight, Return, TypeOK
<1>7. ASSUME NEW c \in Ceremonies, SubmitInitialization(c) \/ SubmitFailsLate(c)
      PROVE  TransactionsArePlans'
  <2>1. stage[c] = "cardano"
    BY <1>7, AwaitStages DEF SubmitInitialization, SubmitFailsLate
  <2>2. finalized[c] # None
    BY <1>0, <2>1 DEF PlansFollowStages
  <2> QED
    BY <1>0, <1>7, <2>1, <2>2
       DEF SubmitInitialization, SubmitFailsLate, Goto, Throw, TypeOK, runtime
<1>8. ASSUME NEW c \in Ceremonies, ConfirmInitialization(c) PROVE TransactionsArePlans'
  BY <1>0, <1>8 DEF ConfirmInitialization, Goto, TypeOK, chains, runtime
<1>9. ASSUME NEW c \in Ceremonies, Publish(c) PROVE TransactionsArePlans'
  BY <1>0, <1>9 DEF Publish, Return, TypeOK, chains, runtime
<1>10. ASSUME NEW c \in Ceremonies, IncludeInitialization(c) PROVE TransactionsArePlans'
  BY <1>0, <1>10 DEF IncludeInitialization, TypeOK, runtime
<1>11. ASSUME NEW c \in Ceremonies, DropInitialization(c) PROVE TransactionsArePlans'
  BY <1>0, <1>11 DEF DropInitialization, TypeOK, runtime
<1>12. ASSUME NEW o \in Outputs, SpendElsewhere(o) PROVE TransactionsArePlans'
  BY <1>1, <1>12 DEF SpendElsewhere, runtime
<1> QED
  BY <1>1, <1>3, <1>4, <1>5, <1>6, <1>7, <1>8, <1>9, <1>10, <1>11, <1>12
     DEF Next, Continue, Block, vars, chains, runtime

-----------------------------------------------------------------------------
(* The theorems.                                                            *)

LEMMA InitInd ==
  ASSUME Init
  PROVE  CeremonyInv
<1>1. TypeOK
  BY ConstantsAssumption DEF Init, TypeOK
<1>2. BusyWhileRunning /\ AwaitsMatch /\ PlansFollowStages
  BY DEF Init, BusyWhileRunning, AwaitsMatch, PlansFollowStages, Operations
<1>3. EscrowsAreBound /\ TransactionsArePlans /\ EscrowsSpend
  BY DEF Init, EscrowsAreBound, TransactionsArePlans, EscrowsSpend
<1> QED
  BY <1>1, <1>2, <1>3 DEF CeremonyInv

LEMMA IndStep ==
  ASSUME CeremonyInv, [Next]_vars
  PROVE  CeremonyInv'
BY TypeInd, BusyInd, AwaitsInd, PlansInd, EscrowsInd, TransactionsInd DEF CeremonyInv

\* However many pages, failures and repeated deployments: a page is at an await
\* exactly when it is busy, its stage tells how far its plan is, an escrow on
\* Cardano names a contract that exists with the same policy and validator, and
\* it has spent an output that no other escrow has spent.
THEOREM Invariance == Spec => []CeremonyInv
<1>1. Init => CeremonyInv
  BY InitInd
<1>2. CeremonyInv /\ [Next]_vars => CeremonyInv'
  BY IndStep
<1> QED
  BY <1>1, <1>2, PTL DEF Spec

\* A page that is complete has published an escrow that is on Cardano, and no two
\* pages publish the same validator.
THEOREM ArtifactsTheorem == Spec => []ArtifactsDescribeEscrows
<1>1. CeremonyInv => ArtifactsDescribeEscrows
  <2> SUFFICES ASSUME CeremonyInv PROVE ArtifactsDescribeEscrows
    OBVIOUS
  <2>1. ASSUME NEW c \in Ceremonies, stage[c] = "complete" \/ artifacts[c] # None
        PROVE  /\ artifacts[c] \in escrows /\ stage[c] = "complete"
               /\ artifacts[c].contract[1] = c
    BY <2>1 DEF CeremonyInv, PlansFollowStages, TransactionsArePlans
  <2>2. ASSUME NEW c \in Ceremonies, NEW d \in Ceremonies, artifacts[c] # None,
               artifacts[d] # None, artifacts[c].output = artifacts[d].output
        PROVE  c = d
    <3>1. artifacts[c] \in escrows /\ artifacts[d] \in escrows
      BY <2>1, <2>2
    <3>2. artifacts[c] = artifacts[d]
      BY <2>2, <3>1 DEF CeremonyInv, EscrowsSpend
    <3> QED
      BY <2>1, <2>2, <3>2
  <2> QED
    BY <2>1, <2>2 DEF ArtifactsDescribeEscrows
<1> QED
  BY <1>1, Invariance, PTL

\* Between the two chains: the plan that a page published is on Cardano, its
\* contract is on Midnight, which the page itself deployed, and the output that
\* makes its validator unique is spent for good.
THEOREM PublishedIsOnBothChains ==
  Spec => [](\A c \in Ceremonies : artifacts[c] # None =>
               /\ artifacts[c] \in contracts \cap escrows
               /\ artifacts[c].contract[1] = c
               /\ artifacts[c].output \notin unspent)
<1> DEFINE OnBoth == \A c \in Ceremonies : artifacts[c] # None =>
                       /\ artifacts[c] \in contracts \cap escrows
                       /\ artifacts[c].contract[1] = c
                       /\ artifacts[c].output \notin unspent
<1>1. CeremonyInv => OnBoth
  <2> SUFFICES ASSUME CeremonyInv, NEW c \in Ceremonies, artifacts[c] # None
               PROVE  /\ artifacts[c] \in contracts \cap escrows
                      /\ artifacts[c].contract[1] = c
                      /\ artifacts[c].output \notin unspent
    OBVIOUS
  <2>1. artifacts[c] = finalized[c] /\ stage[c] = "complete" /\ finalized[c] # None
    BY DEF CeremonyInv, PlansFollowStages
  <2>2. finalized[c] \in contracts /\ finalized[c].contract[1] = c
    BY <2>1 DEF CeremonyInv, PlansFollowStages
  <2>3. finalized[c] \in escrows
    BY <2>1 DEF CeremonyInv, TransactionsArePlans
  <2> QED
    BY <2>1, <2>2, <2>3 DEF CeremonyInv, EscrowsSpend
<1> QED
  BY <1>1, Invariance, PTL

\* What the operator reviewed is what both chains get: a plan, once prepared, and
\* a contract, once the plan is final, are never exchanged, though the operator
\* may press any button again after an error.
THEOREM PlanTheorem == Spec => PlanIsFixed
<1> DEFINE Fixed == \A c \in Ceremonies :
                      /\ prepared[c] # None => prepared'[c] = prepared[c]
                      /\ finalized[c] # None => finalized'[c] = finalized[c]
<1>1. CeremonyInv /\ [Next]_vars => Fixed
  <2> SUFFICES ASSUME CeremonyInv, [Next]_vars PROVE Fixed
    OBVIOUS
  <2>1. TypeOK /\ PlansFollowStages
    BY DEF CeremonyInv
  <2>2. CASE UNCHANGED <<prepared, finalized>>
    BY <2>2
  <2>3. ASSUME NEW c \in Ceremonies, NEW p \in Policies, NEW o \in Outputs, Prepare(c, p, o)
        PROVE  Fixed
    <3>1. stage[c] = "prepare"
      BY <2>3, AwaitStages DEF Prepare
    <3> QED
      BY <2>1, <2>3, <3>1 DEF Prepare, TypeOK, PlansFollowStages
  <2>4. ASSUME NEW c \in Ceremonies, NEW id \in ContractIds, DeployMidnight(c, id)
        PROVE  Fixed
    <3>1. stage[c] = "midnight"
      BY <2>4, AwaitStages DEF DeployMidnight
    <3> QED
      BY <2>1, <2>4, <3>1 DEF DeployMidnight, TypeOK, PlansFollowStages
  <2>5. ASSUME NEW c \in Ceremonies,
               \/ Review(c) \/ Publish(c)
               \/ \E id \in ContractIds : DeployFailsLate(c, id)
        PROVE  Fixed
    BY <2>2, <2>5 DEF Review, Publish, DeployFailsLate, runtime
  <2>6. ASSUME NEW o \in Outputs, SpendElsewhere(o) PROVE Fixed
    BY <2>2, <2>6 DEF SpendElsewhere, runtime
  <2> QED
    BY <2>2, <2>3, <2>4, <2>5, <2>6, PlanUntouched DEF Next, Continue, vars, runtime
<1> QED
  BY <1>1, Invariance, PTL DEF Spec, PlanIsFixed

\* The ceremony implements the binding that is promised: Midnight first, then
\* Cardano with a state that names the contract, and only then the configuration.
THEOREM Refinement == Spec => ImplementsBinding
<1>1. Init => Binding!Init
  BY ConstantsAssumption DEF Init, Binding!Init, published
<1>2. CeremonyInv /\ [Next]_vars => [Binding!Next]_<<contracts, escrows, published>>
  <2> SUFFICES ASSUME CeremonyInv, [Next]_vars
               PROVE  [Binding!Next]_<<contracts, escrows, published>>
    OBVIOUS
  <2>1. CASE UNCHANGED <<contracts, escrows, artifacts>>
    BY <2>1 DEF published
  <2>2. ASSUME NEW c \in Ceremonies, NEW id \in ContractIds,
               DeployMidnight(c, id) \/ DeployFailsLate(c, id)
        PROVE  Binding!Next
    <3>1. bind(c, id) \in Bindings
      BY <2>2, BindType DEF DeployMidnight, DeployFailsLate
    <3>2. \A b \in contracts : b.contract # bind(c, id).contract
      BY <2>2 DEF DeployMidnight, DeployFailsLate, isNew, bind
    <3>3. contracts' = contracts \union {bind(c, id)} /\ UNCHANGED <<escrows, published>>
      BY <2>2 DEF DeployMidnight, DeployFailsLate, published
    <3> QED
      BY <3>1, <3>2, <3>3 DEF Binding!Next, Binding!Deploy
  <2>3. ASSUME NEW c \in Ceremonies, IncludeInitialization(c) PROVE Binding!Next
    <3>1. finalized[c] \in Bindings /\ finalized[c] \in contracts
      BY <2>3 DEF IncludeInitialization, CeremonyInv, TypeOK, PlansFollowStages,
           TransactionsArePlans
    <3>2. \A e \in escrows : e.output # finalized[c].output
      BY <2>3 DEF IncludeInitialization, CeremonyInv, EscrowsSpend
    <3>3. escrows' = escrows \union {finalized[c]} /\ UNCHANGED <<contracts, published>>
      BY <2>3 DEF IncludeInitialization, published
    <3> QED
      BY <3>1, <3>2, <3>3 DEF Binding!Next, Binding!Initialize
  <2>4. ASSUME NEW c \in Ceremonies, Publish(c) PROVE Binding!Next
    <3>1. stage[c] = "cardano"
      BY <2>4, AwaitStages DEF Publish
    <3>2. finalized[c] \in Bindings /\ finalized[c] \in escrows /\ artifacts[c] = None
      BY <2>4, <3>1, FinalType DEF Publish, CeremonyInv, PlansFollowStages, TransactionsArePlans
    <3>3. published' = published \union {finalized[c]}
      BY <2>4, <3>2, ConstantsAssumption DEF Publish, published, CeremonyInv, TypeOK
    <3>4. UNCHANGED <<contracts, escrows>>
      BY <2>4 DEF Publish, chains
    <3> QED
      BY <3>2, <3>3, <3>4 DEF Binding!Next, Binding!Publish
  <2>5. ASSUME NEW c \in Ceremonies, Review(c) \/ DropInitialization(c)
        PROVE  UNCHANGED <<contracts, escrows, artifacts>>
    BY <2>5 DEF Review, DropInitialization, chains
  <2>6. ASSUME NEW c \in Ceremonies,
               \/ \E op \in Operations : Click(c, op)
               \/ Dismiss(c) \/ LoadRuntime(c) \/ ConnectMidnight(c) \/ ConnectCardano(c)
               \/ WalletRejects(c) \/ ListOutputs(c) \/ ListOutputsFails(c) \/ PrepareFails(c)
               \/ \E p \in Policies, o \in Outputs : Prepare(c, p, o)
               \/ DeployFails(c) \/ SubmitInitialization(c) \/ SubmitFails(c)
               \/ SubmitFailsLate(c) \/ ConfirmInitialization(c) \/ ConfirmationFails(c)
               \/ PublishFails(c)
        PROVE  UNCHANGED <<contracts, escrows, artifacts>>
    <3>1. UNCHANGED escrows
      BY <2>6, CardanoUntouched DEF Continue
    <3>2. UNCHANGED <<contracts, artifacts>>
      BY <2>6, PlanUntouched DEF Prepare, chains
    <3> QED
      BY <3>1, <3>2
  <2>7. ASSUME NEW o \in Outputs, SpendElsewhere(o)
        PROVE  UNCHANGED <<contracts, escrows, artifacts>>
    BY <2>7 DEF SpendElsewhere
  <2> QED
    BY <2>1, <2>2, <2>3, <2>4, <2>5, <2>6, <2>7 DEF Next, Continue, Block, vars, chains
<1> QED
  BY <1>1, <1>2, Invariance, PTL DEF Spec, ImplementsBinding, Binding!Spec
=============================================================================
