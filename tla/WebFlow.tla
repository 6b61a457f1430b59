------------------------------ MODULE WebFlow ------------------------------
(***************************************************************************)
(* The claim page (packages/web: App.tsx, state.ts, runtime.ts,             *)
(* product-bridge.ts) in several browsers at once, on top of what the other *)
(* parts promise: Midnight records approvals as MilestoneApproval says, the *)
(* relay keeps permits as PermitRegister says, the escrow pays the one      *)
(* authorization of the milestone once.                                     *)
(*                                                                          *)
(* A page is a reducer and at most one promise that runs.  A button starts  *)
(* an operation, the wallet or a server answers later or fails, before or   *)
(* after its effect on a chain; only what the reducer was told is           *)
(* remembered, and nothing is after a reload.                               *)
(* Abstracted: the evidence panel, wallet names, bytes and signatures, and  *)
(* a page that was built without its public configuration.                  *)
(***************************************************************************)
EXTENDS Naturals, FiniteSets

CONSTANTS
    Pages,          \* open browser pages
    Reviewers,      \* the two reviewers of the milestone
    ReviewersAt,    \* whose secrets are entered in a page
    Beneficiary,    \* pages whose Cardano wallet is the beneficiary's
    Lifetime,       \* permitLifetimeSlots
    MaxSlot,        \* bound: slots of the Cardano clock
    MaxClaims,      \* bound: claims one page may submit
    Faults,         \* what may go wrong
    MaxFaults,      \* bound: how often
    None            \* an undefined field

ASSUME PagesAssumption ==
    /\ ReviewersAt \in [Pages -> SUBSET Reviewers]
    /\ Beneficiary \subseteq Pages

ASSUME BoundsAssumption ==
    Lifetime \in Nat /\ MaxSlot \in Nat /\ MaxClaims \in Nat /\ MaxFaults \in Nat

\* A Midnight transaction is named after the reviewer whose approval it is:
\* each is applied once.
Permits == [tx : Reviewers, expires : Nat]
Claims == Pages \X (1..MaxClaims)

ASSUME NoneAssumption ==
    None \notin Reviewers /\ None \notin Permits /\ None \notin Claims

VARIABLES
    approvedBy,     \* Midnight: reviewers whose approval was applied
    authorized,     \* Midnight: the milestone is authorized
    authorizing,    \* Midnight: the transaction that authorized it
    stored,         \* relay: the permit of each transaction
    served,         \* relay: permits given out
    slot,           \* Cardano: the current slot
    claim,          \* Cardano: what became of each claim
    flow,           \* FlowState of each page
    pc,             \* the promise each page awaits
    awaited,        \* the transaction that promise is about
    faults          \* how much of the bound is used

midnight == <<approvedBy, authorized, authorizing>>
relay == <<stored, served>>
cardano == <<slot, claim>>
pages == <<flow, pc, awaited>>
vars == <<midnight, relay, cardano, pages, faults>>

Approvals == INSTANCE MilestoneApproval
Register == INSTANCE PermitRegister WITH Transactions <- Reviewers, NoPermit <- None

paid == \E c \in Claims : claim[c] = "included"

-----------------------------------------------------------------------------
(* state.ts: one operator for each event of flowReducer.                    *)

initialFlowState ==
    [stage |-> "connect", operation |-> "none",
     midnightWallet |-> FALSE, cardanoWallet |-> FALSE,
     approvalCount |-> 0, midnightTxId |-> None, permit |-> None,
     cardanoTxId |-> None, confirmed |-> FALSE, error |-> "none"]

\* What every event but FAILED does to the operation and the error.
settled(state) == [state EXCEPT !.operation = "none", !.error = "none"]

connectedStage(state) ==
    IF state.midnightWallet /\ state.cardanoWallet THEN "authorize" ELSE "connect"

START(state, operation) == [state EXCEPT !.operation = operation, !.error = "none"]

MIDNIGHT_CONNECTED(state) ==
    LET next == [settled(state) EXCEPT !.midnightWallet = TRUE]
    IN  [next EXCEPT !.stage = connectedStage(next)]

\* A deliberately wrong variant, as all those named "wrong" below: they are
\* used to see that a property notices.  Here the other wallet is not awaited.
wrongCardanoConnected(state) ==
    [settled(state) EXCEPT !.cardanoWallet = TRUE, !.stage = "authorize"]

CARDANO_CONNECTED(state) ==
    LET next == [settled(state) EXCEPT !.cardanoWallet = TRUE]
    IN  [next EXCEPT !.stage = connectedStage(next)]

APPROVAL_CONFIRMED(state, count, isAuthorized, tx) ==
    IF ~state.midnightWallet \/ ~state.cardanoWallet THEN state
    ELSE [settled(state) EXCEPT
            !.stage = IF isAuthorized /\ count = 2 THEN "claim" ELSE "authorize",
            !.approvalCount = count,
            !.midnightTxId = tx]

PERMIT_RECEIVED(state, permit) ==
    IF state.stage # "claim" \/ state.approvalCount # 2 \/ state.midnightTxId = None
    THEN state
    ELSE [settled(state) EXCEPT !.permit = permit]

CLAIM_SUBMITTED(state, c) ==
    IF state.permit = None THEN state ELSE [settled(state) EXCEPT !.cardanoTxId = c]

CLAIM_CONFIRMED(state, c) ==
    IF state.cardanoTxId = None \/ state.cardanoTxId # c THEN state
    ELSE [settled(state) EXCEPT !.stage = "complete", !.confirmed = TRUE]

\* Wrong: a failure costs all progress.
wrongFailed(state, code) ==
    [initialFlowState EXCEPT !.error = code, !.stage = state.stage]

\* Wrong: the buttons stay disabled.
wrongFailedBusy(state, code) == [state EXCEPT !.error = code]

FAILED(state, code) == [state EXCEPT !.operation = "none", !.error = code]

CLEAR_ERROR(state) == [state EXCEPT !.error = "none"]

-----------------------------------------------------------------------------
(* errors.ts: the codes that are shown, the others become UNEXPECTED.       *)

\* Not retryable.
lasting == {"NP_WEB_INVALID_RELAY_ENVELOPE", "NP_CARDANO_EXPIRED", "NP_CARDANO_BAD_STATE"}

messages == lasting \union
    {"NP_WEB_UNEXPECTED", "NP_WEB_WALLET_REJECTED", "NP_WEB_BAD_STORAGE_PASSWORD",
     "NP_WEB_CARDANO_PROVIDER_UNAVAILABLE", "NP_RELAY_PERMIT_NOT_FOUND",
     "NP_CARDANO_WRONG_WALLET"}

toFlowError(code) == IF code \in messages THEN code ELSE "NP_WEB_UNEXPECTED"

retryable(code) == code \in messages \ lasting

-----------------------------------------------------------------------------
(* App.tsx.                                                                 *)

claimButton(state) == IF state.cardanoTxId = None THEN {"claim"} ELSE {}

\* The buttons that a page shows and that are not disabled.
Offered(p) ==
    LET state == flow[p] IN
    IF state.operation # "none" THEN {} ELSE
    CASE state.stage = "connect" ->
           (IF state.midnightWallet THEN {} ELSE {"connect-midnight"}) \union
           (IF state.cardanoWallet THEN {} ELSE {"connect-cardano"})
      [] state.stage = "authorize" -> {"approve"}
      [] state.stage = "claim" ->
           IF state.permit = None
           THEN IF state.midnightTxId = None THEN {} ELSE {"permit"}
           ELSE claimButton(state)
      [] OTHER -> {}

\* The page is told something and goes on awaiting "where".
Dispatch(p, state, where, tx) ==
    /\ flow' = [flow EXCEPT ![p] = state]
    /\ pc' = [pc EXCEPT ![p] = where]
    /\ awaited' = [awaited EXCEPT ![p] = tx]

Return(p, state) == Dispatch(p, state, "idle", None)

Throw(p, code) == Return(p, FAILED(flow[p], toFlowError(code)))

Fault(kind) ==
    /\ kind \in Faults /\ faults < MaxFaults
    /\ faults' = faults + 1

\* The head of run().
Click(p, operation) ==
    /\ operation \in Offered(p)
    /\ Dispatch(p, START(flow[p], operation), operation, None)
    /\ UNCHANGED <<midnight, relay, cardano, faults>>

Dismiss(p) ==
    /\ flow[p].error # "none"
    /\ Dispatch(p, CLEAR_ERROR(flow[p]), pc[p], awaited[p])
    /\ UNCHANGED <<midnight, relay, cardano, faults>>

-----------------------------------------------------------------------------
(* The operations of runtime.ts and product-bridge.ts.                      *)

ConnectMidnight(p) ==
    /\ pc[p] = "connect-midnight"
    /\ Return(p, MIDNIGHT_CONNECTED(flow[p]))
    /\ UNCHANGED <<midnight, relay, cardano, faults>>

ConnectCardano(p) ==
    /\ pc[p] = "connect-cardano"
    /\ Return(p, CARDANO_CONNECTED(flow[p]))
    /\ UNCHANGED <<midnight, relay, cardano, faults>>

\* A wallet is missing, declines, or is on another network.
WalletRejects(p) ==
    /\ pc[p] \in {"connect-midnight", "connect-cardano", "claim"}
    /\ Fault("wallet")
    /\ Throw(p, "NP_WEB_WALLET_REJECTED")
    /\ UNCHANGED <<midnight, relay, cardano>>

\* Joining and checking on Midnight refuses what can no longer be approved;
\* otherwise the approval is applied, and the page awaits its state.
Approve(p, r) ==
    /\ pc[p] = "approve" /\ r \in ReviewersAt[p]
    /\ \/ /\ authorized
          /\ Throw(p, "NP_MIDNIGHT_ALREADY_AUTHORIZED")
          /\ UNCHANGED midnight
       \/ /\ ~authorized /\ r \in approvedBy
          /\ Throw(p, "NP_MIDNIGHT_ALREADY_APPROVED")
          /\ UNCHANGED midnight
       \/ /\ ~authorized
          /\ Approvals!Approve(r)
          /\ authorizing' = IF authorized' THEN r ELSE None
          /\ Dispatch(p, flow[p], "observing", r)
    /\ UNCHANGED <<relay, cardano, faults>>

\* The credentials are refused, the wallet declines, or the call fails.
ApproveFails(p) ==
    /\ pc[p] = "approve"
    /\ Fault("approve")
    /\ Throw(p, "NP_WEB_BAD_STORAGE_PASSWORD")
    /\ UNCHANGED <<midnight, relay, cardano>>

\* Wrong: the result is taken from the latest state.
wrongObserveApproval(p) ==
    /\ pc[p] = "observing"
    /\ Return(p, APPROVAL_CONFIRMED(flow[p], Cardinality(approvedBy), authorized, awaited[p]))
    /\ UNCHANGED <<midnight, relay, cardano, faults>>

\* The state at exactly this transaction.
ObserveApproval(p) ==
    LET second == awaited[p] = authorizing IN
    /\ pc[p] = "observing"
    /\ Return(p, APPROVAL_CONFIRMED(flow[p], IF second THEN 2 ELSE 1, second, awaited[p]))
    /\ UNCHANGED <<midnight, relay, cardano, faults>>

\* It is not observed before the deadline, although it was applied.
ObserveTimeout(p) ==
    /\ pc[p] = "observing"
    /\ Fault("timeout")
    /\ Throw(p, "NP_MIDNIGHT_STATE_TIMEOUT")
    /\ UNCHANGED <<midnight, relay, cardano>>

\* GET /v1/permits/<midnightTxId>, and the checks of the envelope.
GetPermit(p) ==
    LET t == flow[p].midnightTxId IN
    /\ pc[p] = "permit"
    /\ \/ /\ stored[t] = None
          /\ Throw(p, "NP_RELAY_PERMIT_NOT_FOUND")
          /\ UNCHANGED relay
       \/ /\ Register!Serve(t)
          /\ Return(p, PERMIT_RECEIVED(flow[p], stored[t]))
    /\ UNCHANGED <<midnight, cardano, faults>>

\* No answer within five seconds, or one that is not a permit response.
GetPermitFails(p) ==
    /\ pc[p] = "permit"
    /\ Fault("relay")
    /\ Throw(p, "AbortError")
    /\ UNCHANGED <<midnight, relay, cardano>>

\* An envelope of another key, or with a wrong hash or signature.
RefuseForged(p) ==
    /\ pc[p] = "permit"
    /\ Fault("forged")
    /\ Throw(p, "NP_WEB_INVALID_RELAY_ENVELOPE")
    /\ UNCHANGED <<midnight, relay, cardano>>

\* Why a claim is refused before it is signed, in the order of createClaimPlan.
Refusal(p) ==
    IF p \notin Beneficiary THEN "NP_CARDANO_WRONG_WALLET"
    ELSE IF paid THEN "NP_CARDANO_BAD_STATE"
    ELSE IF slot > flow[p].permit.expires THEN "NP_CARDANO_EXPIRED"
    ELSE "none"

PlanClaim(p) ==
    /\ pc[p] = "claim"
    /\ IF Refusal(p) = "none" THEN Dispatch(p, flow[p], "signing", None)
                              ELSE Throw(p, Refusal(p))
    /\ UNCHANGED <<midnight, relay, cardano, faults>>

ProvidersFail(p) ==
    /\ pc[p] = "claim"
    /\ Fault("provider")
    /\ Throw(p, "NP_WEB_CARDANO_PROVIDER_UNAVAILABLE")
    /\ UNCHANGED <<midnight, relay, cardano>>

\* The claims of a page are numbered.
isNext(p, c) ==
    /\ c[1] = p /\ claim[c] = "unused"
    /\ \A i \in 1..(c[2] - 1) : claim[<<p, i>>] # "unused"

\* Signed and submitted.  A node does not take a claim of what is paid.
SubmitClaim(p, c) ==
    /\ pc[p] = "signing" /\ isNext(p, c)
    /\ IF paid
       THEN Throw(p, "submission refused") /\ UNCHANGED claim
       ELSE /\ claim' = [claim EXCEPT ![c] = "pending"]
            /\ Dispatch(p, CLAIM_SUBMITTED(flow[p], c), "confirming", c)
    /\ UNCHANGED <<midnight, relay, slot, faults>>

\* The wallet declines to sign.
SigningFails(p) ==
    /\ pc[p] = "signing"
    /\ Fault("wallet")
    /\ Throw(p, "signing declined")
    /\ UNCHANGED <<midnight, relay, cardano>>

\* The claim was taken, but the answer is an error.
SubmitFailsLate(p, c) ==
    /\ pc[p] = "signing" /\ isNext(p, c) /\ ~paid
    /\ Fault("submit")
    /\ claim' = [claim EXCEPT ![c] = "pending"]
    /\ Throw(p, "submission failed")
    /\ UNCHANGED <<midnight, relay, slot>>

\* Wrong: a claim is taken for confirmed once it left the mempool.
wrongConfirmClaim(p) ==
    /\ pc[p] = "confirming" /\ claim[awaited[p]] # "pending"
    /\ Return(p, CLAIM_CONFIRMED(flow[p], awaited[p]))
    /\ UNCHANGED <<midnight, relay, cardano, faults>>

ConfirmClaim(p) ==
    /\ pc[p] = "confirming" /\ claim[awaited[p]] = "included"
    /\ Return(p, CLAIM_CONFIRMED(flow[p], awaited[p]))
    /\ UNCHANGED <<midnight, relay, cardano, faults>>

\* awaitTxConfirmation throws, whatever becomes of the claim.
ConfirmFails(p) ==
    /\ pc[p] = "confirming"
    /\ Fault("confirm")
    /\ Throw(p, "confirmation failed")
    /\ UNCHANGED <<midnight, relay, cardano>>

\* The page is loaded again, whatever it was doing.
Reload(p) ==
    /\ flow[p] # initialFlowState
    /\ Fault("reload")
    /\ Return(p, initialFlowState)
    /\ UNCHANGED <<midnight, relay, cardano>>

-----------------------------------------------------------------------------
(* A request to the relay, and the Cardano ledger.                          *)

\* Wrong: a permit is signed at the first approval.
wrongPostPermit(t) ==
    /\ t \in approvedBy
    /\ Register!Issue(t, [tx |-> t, expires |-> slot + Lifetime])
    /\ UNCHANGED <<midnight, cardano, pages, faults>>

\* Somebody sends POST /v1/permits (no page does): the permit lives from the
\* current slot.  Any further request returns the permit that is stored.
PostPermit(t) ==
    /\ t = authorizing
    /\ Register!Issue(t, [tx |-> t, expires |-> slot + Lifetime])
    /\ UNCHANGED <<midnight, cardano, pages, faults>>

Tick ==
    /\ slot < MaxSlot
    /\ slot' = slot + 1
    /\ UNCHANGED <<midnight, relay, claim, pages, faults>>

\* A block includes a claim while the milestone is unpaid and the permit is
\* valid.
IncludeClaim(c) ==
    /\ claim[c] = "pending" /\ ~paid
    /\ \E t \in Reviewers : stored[t] # None /\ slot <= stored[t].expires
    /\ claim' = [claim EXCEPT ![c] = "included"]
    /\ UNCHANGED <<midnight, relay, slot, pages, faults>>

\* One that no block can include any more is dropped.
DropClaim(c) ==
    /\ claim[c] = "pending"
    /\ paid \/ \A t \in Reviewers : stored[t] # None => slot > stored[t].expires
    /\ claim' = [claim EXCEPT ![c] = "dropped"]
    /\ UNCHANGED <<midnight, relay, slot, pages, faults>>

\* A claim misses the interval it was built for, or is lost on its way.
LoseClaim(c) ==
    /\ claim[c] = "pending"
    /\ Fault("lost")
    /\ claim' = [claim EXCEPT ![c] = "dropped"]
    /\ UNCHANGED <<midnight, relay, slot, pages>>

-----------------------------------------------------------------------------
Init ==
    /\ Approvals!Init /\ authorizing = None
    /\ Register!Init
    /\ slot = 0
    /\ claim = [c \in Claims |-> "unused"]
    /\ flow = [p \in Pages |-> initialFlowState]
    /\ pc = [p \in Pages |-> "idle"]
    /\ awaited = [p \in Pages |-> None]
    /\ faults = 0

\* An operation goes on, well or badly.
Continue(p) ==
    \/ ConnectMidnight(p)
    \/ ConnectCardano(p)
    \/ WalletRejects(p)
    \/ \E r \in Reviewers : Approve(p, r)
    \/ ApproveFails(p)
    \/ ObserveApproval(p)
    \/ ObserveTimeout(p)
    \/ GetPermit(p)
    \/ GetPermitFails(p)
    \/ RefuseForged(p)
    \/ PlanClaim(p)
    \/ ProvidersFail(p)
    \/ \E c \in Claims : SubmitClaim(p, c)
    \/ SigningFails(p)
    \/ \E c \in Claims : SubmitFailsLate(p, c)
    \/ ConfirmClaim(p)
    \/ ConfirmFails(p)

Block ==
    \E c \in Claims : IncludeClaim(c) \/ DropClaim(c)

Operations == {"connect-midnight", "connect-cardano", "approve", "permit", "claim"}

Next ==
    \/ \E p \in Pages, operation \in Operations : Click(p, operation)
    \/ \E p \in Pages : Dismiss(p) \/ Continue(p) \/ Reload(p)
    \/ \E t \in Reviewers : PostPermit(t)
    \/ Tick
    \/ Block
    \/ \E c \in Claims : LoseClaim(c)

Spec == Init /\ [][Next]_vars

(* Promises settle and blocks include what they can.  Users press every     *)
(* button that stays on offer, and type each secret they have sooner or     *)
(* later.  No fault, dismissal or tick is assumed, nor that anybody posts.  *)
Fairness ==
    /\ \A p \in Pages : WF_vars(Continue(p))
    /\ \A p \in Pages, r \in Reviewers : SF_vars(Approve(p, r))
    /\ \A p \in Pages, operation \in Operations : WF_vars(Click(p, operation))
    /\ WF_vars(Block)

FairSpec == Spec /\ Fairness

-----------------------------------------------------------------------------
(* Properties.                                                              *)

FlowStates ==
    [stage : {"connect", "authorize", "claim", "complete"},
     operation : Operations \union {"none"},
     midnightWallet : BOOLEAN, cardanoWallet : BOOLEAN,
     approvalCount : 0..2,
     midnightTxId : Reviewers \union {None},
     permit : Permits \union {None},
     cardanoTxId : Claims \union {None},
     confirmed : BOOLEAN,
     error : messages \union {"none"}]

\* Every variable stays in its domain.
TypeOK ==
    /\ approvedBy \subseteq Reviewers
    /\ authorized \in BOOLEAN
    /\ authorizing \in Reviewers \union {None}
    /\ stored \in [Reviewers -> Permits \union {None}]
    /\ served \in [Reviewers -> SUBSET Permits]
    /\ slot \in 0..MaxSlot
    /\ claim \in [Claims -> {"unused", "pending", "included", "dropped"}]
    /\ flow \in [Pages -> FlowStates]
    /\ pc \in [Pages -> Operations \union {"idle", "observing", "signing", "confirming"}]
    /\ awaited \in [Pages -> Reviewers \union Claims \union {None}]
    /\ faults \in 0..MaxFaults

\* What a page shows is true of the chains, in every interleaving with other
\* pages, timeouts and reloads: the count is the rank of the transaction it
\* names, a page that goes on to claim names the authorizing one (another
\* would never get a permit), and the permit is the one the relay keeps.
ShownIsTrue ==
    \A p \in Pages :
        LET state == flow[p] IN
        /\ state.midnightTxId # None =>
              /\ state.midnightTxId \in approvedBy
              /\ state.approvalCount = (IF state.midnightTxId = authorizing THEN 2 ELSE 1)
        /\ state.stage \in {"claim", "complete"} => state.midnightTxId = authorizing /\ authorized
        /\ state.permit # None => state.permit = stored[authorizing]

\* A failure cannot create a false completion state (README.md): a page is
\* complete only when a block has included the very claim it submitted.
CompletionIsTrue ==
    \A p \in Pages :
        flow[p].confirmed \/ flow[p].stage = "complete" =>
            /\ flow[p].cardanoTxId # None
            /\ claim[flow[p].cardanoTxId] = "included"
            /\ approvedBy = Reviewers

\* A page is busy exactly while one of its promises runs (the wait for the
\* confirmation has no controls to block): no outcome, not even one that the
\* reducer ignores, leaves the buttons disabled for ever.
BusyWhileRunning ==
    \A p \in Pages : flow[p].operation # "none" <=> pc[p] \notin {"idle", "confirming"}

rank(stage) == CASE stage = "connect" -> 1 [] stage = "authorize" -> 2
                 [] stage = "claim" -> 3 [] stage = "complete" -> 4

\* Until it is loaded again, a page never falls back to an earlier stage, and
\* never replaces the authorization, the permit or the claim it has: a failed
\* or late step costs nothing that was achieved.
ProgressIsKept ==
    [][\A p \in Pages : flow'[p] # initialFlowState =>
        /\ rank(flow'[p].stage) >= rank(flow[p].stage)
        /\ flow[p].stage \in {"claim", "complete"} =>
              flow'[p].midnightTxId = flow[p].midnightTxId
        /\ flow[p].permit # None => flow'[p].permit = flow[p].permit
        /\ flow[p].cardanoTxId # None => flow'[p].cardanoTxId = flow[p].cardanoTxId]_vars

\* The page of the beneficiary does not get to the claim: it knows of no
\* authorization, because its own approval was not the second one or was not
\* observed, and there is no other one to make; or it waits for a claim
\* (App.tsx shows no button then) that was dropped.
uninformed(p) == flow[p].stage \in {"connect", "authorize"}
waitsInVain(p) == flow[p].cardanoTxId # None /\ claim[flow[p].cardanoTxId] = "dropped"

\* The first permit of the milestone is kept for ever, also when it has expired.
expired == \E t \in Reviewers : stored[t] # None /\ slot > stored[t].expires

\* No page asks the relay to issue a permit.
unattested == \A t \in Reviewers : stored[t] = None

\* An authorized milestone is paid, unless one of four things comes to stay:
\* nobody asks the relay for the permit, the permit has expired, no page of the
\* beneficiary was told of the authorization, or the one that was waits for a
\* claim that was dropped.  Declined prompts,
\* failing servers, forged envelopes and submissions with an unknown outcome
\* only delay it, in whichever browser and order the approvals were made.
AuthorizedIsPaid ==
    (authorized ~> paid)
    \/ <>[](unattested \/ expired \/ \A p \in Beneficiary : uninformed(p) \/ waitsInVain(p))

\* errors.ts and App.tsx: after a retryable error the step can be tried again;
\* except that a page which knows of its claim has no button left, whatever
\* became of the claim.
RetryIsOffered ==
    \A p \in Pages :
        retryable(flow[p].error) => Offered(p) # {} \/ flow[p].cardanoTxId # None

-----------------------------------------------------------------------------
(* The inductive invariant behind the safety properties.                    *)

\* The milestone is authorized by a transaction of a reviewer, the only one with
\* a permit, and a payment has used that permit.
ChainsAgree ==
    /\ authorized <=> authorizing # None
    /\ authorized => approvedBy = Reviewers
    /\ \A t \in Reviewers : stored[t] # None => t = authorizing
    /\ paid => \E t \in Reviewers : stored[t] # None

\* What a page is at an await for, it has not got yet, and it has what it needs:
\* so the answer is about the page as it was when it asked.
AwaitsMatch ==
    \A p \in Pages :
        LET state == flow[p] IN
        /\ pc[p] \in {"connect-midnight", "connect-cardano"} => state.stage = "connect"
        /\ pc[p] \in {"approve", "observing"} =>
              state.stage = "authorize" /\ state.midnightWallet /\ state.cardanoWallet
        /\ pc[p] = "observing" => awaited[p] \in approvedBy
        /\ pc[p] \in {"permit", "claim", "signing", "confirming"} => state.stage = "claim"
        /\ pc[p] = "permit" => state.permit = None
        /\ pc[p] \in {"claim", "signing"} => state.permit # None /\ state.cardanoTxId = None
        /\ pc[p] = "confirming" => state.cardanoTxId = awaited[p] /\ awaited[p] # None

\* The stage is what the wallets and the permit allow, and a page that shows an
\* error has something left to do and is not doing it.
StagesMatch ==
    \A p \in Pages :
        LET state == flow[p] IN
        /\ state.stage = "connect" => ~(state.midnightWallet /\ state.cardanoWallet)
        /\ state.error # "none" => state.operation = "none" /\ state.stage # "complete"
        /\ state.stage \in {"authorize", "claim", "complete"} =>
              state.midnightWallet /\ state.cardanoWallet
        /\ state.permit # None => authorized /\ state.stage \in {"claim", "complete"}
        /\ state.cardanoTxId # None => state.permit # None

FlowInv ==
    /\ TypeOK
    /\ ChainsAgree
    /\ ShownIsTrue
    /\ CompletionIsTrue
    /\ BusyWhileRunning
    /\ AwaitsMatch
    /\ StagesMatch

-----------------------------------------------------------------------------
(* The whole implements NightPermit.                                        *)

attested == \E t \in Reviewers : stored[t] # None

Whole == INSTANCE NightPermit

\* Whatever the pages do, there is no permit without both approvals, and one
\* payment, which needs the permit.
ImplementsNightPermit == Whole!Spec
=============================================================================
