----------------------------- MODULE WebProofs -----------------------------
(***************************************************************************)
(* Proofs about WebFlow, for any number of pages, claims, slots and faults. *)
(* FlowInv is the inductive invariant; that pages show the truth and keep    *)
(* their progress and the refinement of NightPermit follow from it.         *)
(***************************************************************************)
EXTENDS WebFlow, TLAPS

\* What FlowInv says of one page.
PageOK(p) ==
    LET state == flow[p] IN
    /\ state.midnightTxId # None =>
          /\ state.midnightTxId \in approvedBy
          /\ state.approvalCount = (IF state.midnightTxId = authorizing THEN 2 ELSE 1)
    /\ state.stage \in {"claim", "complete"} => state.midnightTxId = authorizing /\ authorized
    /\ state.permit # None => state.permit = stored[authorizing]
    /\ state.confirmed \/ state.stage = "complete" =>
          /\ state.cardanoTxId # None
          /\ claim[state.cardanoTxId] = "included"
          /\ approvedBy = Reviewers
    /\ state.operation # "none" <=> pc[p] \notin {"idle", "confirming"}
    /\ pc[p] \in {"connect-midnight", "connect-cardano"} => state.stage = "connect"
    /\ pc[p] \in {"approve", "observing"} =>
          state.stage = "authorize" /\ state.midnightWallet /\ state.cardanoWallet
    /\ pc[p] = "observing" => awaited[p] \in approvedBy
    /\ pc[p] \in {"permit", "claim", "signing", "confirming"} => state.stage = "claim"
    /\ pc[p] = "permit" => state.permit = None
    /\ pc[p] \in {"claim", "signing"} => state.permit # None /\ state.cardanoTxId = None
    /\ pc[p] = "confirming" => state.cardanoTxId = awaited[p] /\ awaited[p] # None
    /\ state.stage = "connect" => ~(state.midnightWallet /\ state.cardanoWallet)
    /\ state.error # "none" => state.operation = "none" /\ state.stage # "complete"
    /\ state.stage \in {"authorize", "claim", "complete"} =>
          state.midnightWallet /\ state.cardanoWallet
    /\ state.permit # None => authorized /\ state.stage \in {"claim", "complete"}
    /\ state.cardanoTxId # None => state.permit # None

PageTypeOK ==
    /\ flow \in [Pages -> FlowStates]
    /\ pc \in [Pages -> Operations \union {"idle", "observing", "signing", "confirming"}]
    /\ awaited \in [Pages -> Reviewers \union Claims \union {None}]

ChainTypeOK ==
    /\ approvedBy \subseteq Reviewers
    /\ authorized \in BOOLEAN
    /\ authorizing \in Reviewers \union {None}
    /\ stored \in [Reviewers -> Permits \union {None}]
    /\ served \in [Reviewers -> SUBSET Permits]
    /\ slot \in 0..MaxSlot
    /\ claim \in [Claims -> {"unused", "pending", "included", "dropped"}]
    /\ faults \in 0..MaxFaults

LEMMA FlowInvParts ==
  FlowInv <=> ChainTypeOK /\ PageTypeOK /\ ChainsAgree /\ \A p \in Pages : PageOK(p)
<1>1. TypeOK <=> ChainTypeOK /\ PageTypeOK
  BY DEF TypeOK, ChainTypeOK, PageTypeOK
<1>2. (\A p \in Pages : PageOK(p))
         <=> ShownIsTrue /\ CompletionIsTrue /\ BusyWhileRunning /\ AwaitsMatch /\ StagesMatch
  BY DEF PageOK, ShownIsTrue, CompletionIsTrue, BusyWhileRunning, AwaitsMatch, StagesMatch
<1> QED
  BY <1>1, <1>2 DEF FlowInv

LEMMA FlowInvPartsAfter ==
  FlowInv' <=> (ChainTypeOK /\ PageTypeOK /\ ChainsAgree /\ \A p \in Pages : PageOK(p))'
BY FlowInvParts, PTL

-----------------------------------------------------------------------------
(* The reducer.                                                             *)

\* All that a page knows, without the operation and the error.
Same(s, t) ==
    /\ t.stage = s.stage
    /\ t.midnightWallet <=> s.midnightWallet
    /\ t.cardanoWallet <=> s.cardanoWallet
    /\ t.approvalCount = s.approvalCount /\ t.midnightTxId = s.midnightTxId
    /\ t.permit = s.permit /\ t.cardanoTxId = s.cardanoTxId
    /\ t.confirmed <=> s.confirmed

\* Each event leaves a flow state, and changes what it names.
LEMMA Started ==
  ASSUME NEW s \in FlowStates, NEW op \in Operations, NEW t, t = START(s, op)
  PROVE  t \in FlowStates /\ Same(s, t) /\ t.operation = op /\ t.error = "none"
BY DEF START, FlowStates, Same

LEMMA Connected ==
  ASSUME NEW s \in FlowStates, s.stage = "connect",
         NEW t, t = MIDNIGHT_CONNECTED(s) \/ t = CARDANO_CONNECTED(s)
  PROVE  /\ t \in FlowStates /\ t.operation = "none" /\ t.error = "none"
         /\ t.stage \in {"connect", "authorize"}
         /\ t.stage = "authorize" <=> t.midnightWallet /\ t.cardanoWallet
         /\ t.midnightTxId = s.midnightTxId /\ t.approvalCount = s.approvalCount
         /\ t.permit = s.permit /\ t.cardanoTxId = s.cardanoTxId
         /\ t.confirmed <=> s.confirmed
<1>1. CASE t = MIDNIGHT_CONNECTED(s)
  BY <1>1 DEF MIDNIGHT_CONNECTED, settled, connectedStage, FlowStates
<1>2. CASE t = CARDANO_CONNECTED(s)
  BY <1>2 DEF CARDANO_CONNECTED, settled, connectedStage, FlowStates
<1> QED
  BY <1>1, <1>2

LEMMA Failed ==
  ASSUME NEW s \in FlowStates, NEW code, NEW t, t = FAILED(s, toFlowError(code))
  PROVE  t \in FlowStates /\ Same(s, t) /\ t.operation = "none"
<1>1. toFlowError(code) \in messages
  BY DEF toFlowError, messages
<1> QED
  BY <1>1 DEF FAILED, FlowStates, Same

LEMMA Cleared ==
  ASSUME NEW s \in FlowStates, NEW t, t = CLEAR_ERROR(s)
  PROVE  t \in FlowStates /\ Same(s, t) /\ t.operation = s.operation /\ t.error = "none"
BY DEF CLEAR_ERROR, FlowStates, Same

LEMMA Initial == initialFlowState \in FlowStates
BY DEF initialFlowState, FlowStates

LEMMA Settled ==
  ASSUME NEW s \in FlowStates, NEW t, t = settled(s)
  PROVE  /\ t \in FlowStates /\ t.operation = "none" /\ t.error = "none"
         /\ t.permit = s.permit /\ t.cardanoTxId = s.cardanoTxId
         /\ t.midnightWallet <=> s.midnightWallet
         /\ t.cardanoWallet <=> s.cardanoWallet
         /\ t.confirmed <=> s.confirmed
BY DEF settled, FlowStates

LEMMA Approved ==
  ASSUME NEW s \in FlowStates, s.midnightWallet, s.cardanoWallet, NEW r \in Reviewers, NEW a,
         NEW t, t = APPROVAL_CONFIRMED(s, IF r = a THEN 2 ELSE 1, r = a, r)
  PROVE  /\ t \in FlowStates /\ t.operation = "none" /\ t.error = "none"
         /\ t.stage = (IF r = a THEN "claim" ELSE "authorize")
         /\ t.approvalCount = (IF r = a THEN 2 ELSE 1) /\ t.midnightTxId = r
         /\ t.permit = s.permit /\ t.cardanoTxId = s.cardanoTxId
         /\ t.midnightWallet <=> s.midnightWallet
         /\ t.cardanoWallet <=> s.cardanoWallet
         /\ t.confirmed <=> s.confirmed
<1>0. PICK u : u = settled(s)
  OBVIOUS
<1>1. /\ u \in FlowStates /\ u.operation = "none" /\ u.error = "none"
      /\ u.permit = s.permit /\ u.cardanoTxId = s.cardanoTxId
      /\ u.midnightWallet <=> s.midnightWallet
      /\ u.cardanoWallet <=> s.cardanoWallet
      /\ u.confirmed <=> s.confirmed
  BY <1>0, Settled
<1>2. CASE r = a
  <2>1. t = [u EXCEPT !.stage = "claim", !.approvalCount = 2, !.midnightTxId = r]
    BY <1>0, <1>2 DEF APPROVAL_CONFIRMED
  <2>2. PICK n \in 0..2 : n = 2
    OBVIOUS
  <2>3. t = [u EXCEPT !.stage = "claim", !.approvalCount = n, !.midnightTxId = r]
    BY <2>1, <2>2
  <2>4. /\ t \in FlowStates /\ t.operation = u.operation /\ t.error = u.error
        /\ t.stage = "claim" /\ t.approvalCount = n /\ t.midnightTxId = r
        /\ t.permit = u.permit /\ t.cardanoTxId = u.cardanoTxId
    BY ONLY <1>1, <2>3, r \in Reviewers DEF FlowStates
  <2>5. /\ t.midnightWallet = u.midnightWallet /\ t.cardanoWallet = u.cardanoWallet
        /\ t.confirmed = u.confirmed
    BY ONLY <1>1, <2>3, r \in Reviewers DEF FlowStates
  <2> QED
    BY <1>1, <1>2, <2>2, <2>4, <2>5
<1>3. CASE r # a
  <2>1. t = [u EXCEPT !.stage = "authorize", !.approvalCount = 1, !.midnightTxId = r]
    BY <1>0, <1>3 DEF APPROVAL_CONFIRMED
  <2>2. PICK n \in 0..2 : n = 1
    OBVIOUS
  <2>3. t = [u EXCEPT !.stage = "authorize", !.approvalCount = n, !.midnightTxId = r]
    BY <2>1, <2>2
  <2>4. /\ t \in FlowStates /\ t.operation = u.operation /\ t.error = u.error
        /\ t.stage = "authorize" /\ t.approvalCount = n /\ t.midnightTxId = r
        /\ t.permit = u.permit /\ t.cardanoTxId = u.cardanoTxId
    BY ONLY <1>1, <2>3, r \in Reviewers DEF FlowStates
  <2>5. /\ t.midnightWallet = u.midnightWallet /\ t.cardanoWallet = u.cardanoWallet
        /\ t.confirmed = u.confirmed
    BY ONLY <1>1, <2>3, r \in Reviewers DEF FlowStates
  <2> QED
    BY <1>1, <1>3, <2>2, <2>4, <2>5
<1> QED
  BY <1>2, <1>3

LEMMA Received ==
  ASSUME NEW s \in FlowStates, s.stage = "claim", s.approvalCount = 2, s.midnightTxId # None,
         NEW permit \in Permits, NEW t, t = PERMIT_RECEIVED(s, permit)
  PROVE  /\ t \in FlowStates /\ t.operation = "none" /\ t.permit = permit
         /\ t.error = "none"
         /\ t.stage = s.stage /\ t.approvalCount = s.approvalCount
         /\ t.midnightWallet <=> s.midnightWallet
         /\ t.cardanoWallet <=> s.cardanoWallet
         /\ t.midnightTxId = s.midnightTxId /\ t.cardanoTxId = s.cardanoTxId
         /\ t.confirmed <=> s.confirmed
BY DEF PERMIT_RECEIVED, settled, FlowStates

LEMMA Submitted ==
  ASSUME NEW s \in FlowStates, s.permit # None, NEW c \in Claims,
         NEW t, t = CLAIM_SUBMITTED(s, c)
  PROVE  /\ t \in FlowStates /\ t.operation = "none" /\ t.cardanoTxId = c
         /\ t.error = "none"
         /\ t.stage = s.stage /\ t.approvalCount = s.approvalCount
         /\ t.midnightWallet <=> s.midnightWallet
         /\ t.cardanoWallet <=> s.cardanoWallet
         /\ t.midnightTxId = s.midnightTxId /\ t.permit = s.permit
         /\ t.confirmed <=> s.confirmed
BY DEF CLAIM_SUBMITTED, settled, FlowStates

LEMMA Confirmed ==
  ASSUME NEW s \in FlowStates, s.cardanoTxId # None,
         NEW t, t = CLAIM_CONFIRMED(s, s.cardanoTxId)
  PROVE  /\ t \in FlowStates /\ t.operation = "none" /\ t.error = "none"
         /\ t.stage = "complete" /\ t.confirmed
         /\ t.approvalCount = s.approvalCount
         /\ t.midnightWallet <=> s.midnightWallet
         /\ t.cardanoWallet <=> s.cardanoWallet
         /\ t.midnightTxId = s.midnightTxId /\ t.permit = s.permit
         /\ t.cardanoTxId = s.cardanoTxId
BY DEF CLAIM_CONFIRMED, settled, FlowStates

-----------------------------------------------------------------------------
(* The chains.                                                              *)

\* A page alone is moved.
LEMMA Moved ==
  ASSUME PageTypeOK, NEW p \in Pages, NEW s, NEW where, NEW tx, Dispatch(p, s, where, tx)
  PROVE  /\ flow'[p] = s /\ pc'[p] = where /\ awaited'[p] = tx
         /\ \A q \in Pages : q # p =>
               flow'[q] = flow[q] /\ pc'[q] = pc[q] /\ awaited'[q] = awaited[q]
BY DEF Dispatch, PageTypeOK

LEMMA MovedType ==
  ASSUME PageTypeOK, NEW p \in Pages, NEW s \in FlowStates,
         NEW where \in Operations \union {"idle", "observing", "signing", "confirming"},
         NEW tx \in Reviewers \union Claims \union {None},
         Dispatch(p, s, where, tx)
  PROVE  PageTypeOK'
BY DEF Dispatch, PageTypeOK, FlowStates

\* What a chain or the relay has recorded, stays.
Grow ==
    /\ approvedBy \subseteq approvedBy' /\ approvedBy' \subseteq Reviewers
    /\ authorizing # None => authorizing' = authorizing
    /\ authorizing = None /\ authorizing' # None => authorizing' \notin approvedBy
    /\ authorized => authorized'
    /\ \A t \in Reviewers : stored[t] # None => stored'[t] = stored[t]
    /\ \A c \in Claims : claim[c] = "included" => claim'[c] = "included"

\* A page that does not move still shows the truth.
LEMMA PageKept ==
  ASSUME FlowInv, Grow, NEW p \in Pages,
         flow'[p] = flow[p], pc'[p] = pc[p], awaited'[p] = awaited[p]
  PROVE  PageOK(p)'
<1>1. /\ ChainTypeOK /\ PageTypeOK /\ ChainsAgree /\ PageOK(p)
  BY FlowInvParts
<1>2. /\ flow[p].cardanoTxId \in Claims \union {None}
      /\ flow[p].midnightTxId \in Reviewers \union {None}
  BY <1>1 DEF PageTypeOK, FlowStates
<1>3. authorizing \in Reviewers \union {None}
  BY <1>1 DEF ChainTypeOK
<1> QED
  BY <1>1, <1>2, <1>3, NoneAssumption DEF Grow, PageOK, ChainsAgree

LEMMA ChainsStill ==
  ASSUME FlowInv, UNCHANGED <<midnight, relay, cardano>>,
         faults' = faults \/ \E kind : Fault(kind)
  PROVE  Grow /\ ChainTypeOK' /\ ChainsAgree'
<1>1. ChainTypeOK /\ ChainsAgree
  BY FlowInvParts
<1>2. UNCHANGED <<approvedBy, authorized, authorizing, stored, served, slot, claim>>
  BY DEF midnight, relay, cardano
<1>3. faults' \in 0..MaxFaults
  BY <1>1, BoundsAssumption DEF ChainTypeOK, Fault
<1> QED
  BY <1>1, <1>2, <1>3 DEF Grow, ChainTypeOK, ChainsAgree, paid

\* What a page has achieved it keeps, until it is loaded again.
Progress(p) ==
    flow'[p] # initialFlowState =>
        /\ rank(flow'[p].stage) >= rank(flow[p].stage)
        /\ flow[p].stage \in {"claim", "complete"} =>
              flow'[p].midnightTxId = flow[p].midnightTxId
        /\ flow[p].permit # None => flow'[p].permit = flow[p].permit
        /\ flow[p].cardanoTxId # None => flow'[p].cardanoTxId = flow[p].cardanoTxId

Kept == FlowInv' /\ \A p \in Pages : Progress(p)

LEMMA RankOrder ==
  /\ rank("connect") = 1 /\ rank("authorize") = 2 /\ rank("claim") = 3 /\ rank("complete") = 4
BY DEF rank

LEMMA StageKept ==
  ASSUME NEW stage \in {"connect", "authorize", "claim", "complete"}
  PROVE  rank(stage) >= rank(stage)
BY RankOrder

\* The invariant after a step in which one page moves.
LEMMA PageStep ==
  ASSUME FlowInv, NEW p \in Pages, NEW s \in FlowStates,
         NEW where \in Operations \union {"idle", "observing", "signing", "confirming"},
         NEW tx \in Reviewers \union Claims \union {None},
         Dispatch(p, s, where, tx), Grow, ChainTypeOK', ChainsAgree', PageOK(p)',
         Progress(p)
  PROVE  Kept
<1>1. PageTypeOK
  BY FlowInvParts
<1>2. PageTypeOK'
  BY <1>1, MovedType
<1>3. ASSUME NEW q \in Pages PROVE PageOK(q)' /\ Progress(q)
  <2>1. CASE q = p
    BY <2>1
  <2>2. CASE q # p
    <3>1. flow'[q] = flow[q] /\ pc'[q] = pc[q] /\ awaited'[q] = awaited[q]
      BY <1>1, <2>2, Moved
    <3>2. flow[q].stage \in {"connect", "authorize", "claim", "complete"}
      BY <1>1 DEF PageTypeOK, FlowStates
    <3> QED
      BY <3>1, <3>2, PageKept, StageKept DEF Progress
  <2> QED
    BY <2>1, <2>2
<1> QED
  BY <1>2, <1>3, FlowInvPartsAfter DEF Kept

\* The invariant after a step in which no page moves.
LEMMA ChainStep ==
  ASSUME FlowInv, UNCHANGED pages, Grow, ChainTypeOK', ChainsAgree'
  PROVE  Kept
<1>1. PageTypeOK' /\ \A p \in Pages : PageOK(p)'
  BY PageKept, FlowInvParts DEF pages, PageTypeOK, FlowStates
<1>2. ASSUME NEW p \in Pages PROVE Progress(p)
  <2>1. flow'[p] = flow[p] /\ flow[p].stage \in {"connect", "authorize", "claim", "complete"}
    BY FlowInvParts DEF pages, PageTypeOK, FlowStates
  <2> QED
    BY <2>1, StageKept DEF Progress
<1> QED
  BY <1>1, <1>2, FlowInvPartsAfter DEF Kept

\* A page that knows what it knew, and awaits nothing.
LEMMA Idle ==
  ASSUME FlowInv, NEW p \in Pages, NEW t \in FlowStates, Same(flow[p], t),
         t.operation = "none", t.stage # "complete", Return(p, t), Grow, ChainTypeOK', ChainsAgree'
  PROVE  Kept
<1>1. /\ ChainTypeOK /\ PageTypeOK /\ ChainsAgree /\ PageOK(p)
  BY FlowInvParts
<1>2. /\ flow[p].cardanoTxId \in Claims \union {None}
      /\ flow[p].midnightTxId \in Reviewers \union {None}
      /\ authorizing \in Reviewers \union {None}
  BY <1>1 DEF PageTypeOK, FlowStates, ChainTypeOK
<1>3. flow'[p] = t /\ pc'[p] = "idle" /\ awaited'[p] = None
  BY <1>1, Moved DEF Return
<1>4. PageOK(p)'
  BY <1>1, <1>2, <1>3, NoneAssumption DEF Grow, PageOK, ChainsAgree, Same
<1>5. Progress(p)
  BY <1>1, <1>3, StageKept DEF PageTypeOK, FlowStates, Progress, Same
<1> QED
  BY <1>4, <1>5, PageStep DEF Return

LEMMA Thrown ==
  ASSUME FlowInv, NEW p \in Pages, pc[p] # "idle", NEW code, Throw(p, code),
         Grow, ChainTypeOK', ChainsAgree'
  PROVE  Kept
<1>1. flow[p] \in FlowStates
  BY FlowInvParts DEF PageTypeOK
<1>2. PICK t : t = FAILED(flow[p], toFlowError(code))
  OBVIOUS
<1>3. t \in FlowStates /\ Same(flow[p], t) /\ t.operation = "none"
  BY <1>1, <1>2, Failed
<1>4. Return(p, t)
  BY <1>2 DEF Throw
<1>5. PageOK(p) /\ pc[p] \in Operations \union {"observing", "signing", "confirming"}
  BY FlowInvParts DEF PageTypeOK
<1>6. flow[p].stage # "complete"
  BY <1>5 DEF PageOK, Operations
<1> QED
  BY <1>3, <1>4, <1>6, Idle DEF Same

-----------------------------------------------------------------------------
(* The steps of a page.                                                     *)

LEMMA PageFacts ==
  ASSUME FlowInv, NEW p \in Pages
  PROVE  /\ ChainTypeOK /\ PageTypeOK /\ ChainsAgree /\ PageOK(p)
         /\ flow[p] \in FlowStates
         /\ flow[p].stage \in {"connect", "authorize", "claim", "complete"}
         /\ flow[p].cardanoTxId \in Claims \union {None}
         /\ flow[p].midnightTxId \in Reviewers \union {None}
         /\ authorizing \in Reviewers \union {None}
         /\ pc[p] \in Operations \union {"idle", "observing", "signing", "confirming"}
         /\ awaited[p] \in Reviewers \union Claims \union {None}
<1>1. ChainTypeOK /\ PageTypeOK /\ ChainsAgree /\ PageOK(p)
  BY FlowInvParts
<1>2. flow[p] \in FlowStates
  BY <1>1 DEF PageTypeOK
<1> QED
  BY <1>1, <1>2 DEF PageTypeOK, ChainTypeOK, FlowStates

LEMMA ClickInd ==
  ASSUME FlowInv, NEW p \in Pages, NEW op \in Operations, Click(p, op)
  PROVE  Kept
<1>1. PageOK(p) /\ flow[p] \in FlowStates
  BY PageFacts
<1>2. Grow /\ ChainTypeOK' /\ ChainsAgree'
  BY ChainsStill DEF Click
<1>3. PICK t : t = START(flow[p], op)
  OBVIOUS
<1>4. t \in FlowStates /\ Same(flow[p], t) /\ t.operation = op /\ t.error = "none"
  BY <1>1, <1>3, Started
<1>5. Dispatch(p, t, op, None)
  BY <1>3 DEF Click
<1>6. flow'[p] = t /\ pc'[p] = op
  BY <1>5, PageFacts, Moved
<1>7. UNCHANGED <<approvedBy, authorized, authorizing, stored, claim>>
  BY DEF Click, midnight, relay, cardano
<1>8. /\ op \in {"connect-midnight", "connect-cardano"} => flow[p].stage = "connect"
      /\ op = "approve" => flow[p].stage = "authorize"
      /\ op = "permit" => flow[p].stage = "claim" /\ flow[p].permit = None
      /\ op = "claim" => /\ flow[p].stage = "claim"
                         /\ flow[p].permit # None /\ flow[p].cardanoTxId = None
  BY DEF Click, Offered, claimButton
<1>9. PageOK(p)'
  BY <1>1, <1>4, <1>6, <1>7, <1>8 DEF PageOK, Same, Operations
<1>10. Progress(p)
  BY <1>4, <1>6, PageFacts, StageKept DEF Progress, Same
<1> QED
  BY <1>2, <1>4, <1>5, <1>9, <1>10, PageStep

LEMMA DismissInd ==
  ASSUME FlowInv, NEW p \in Pages, Dismiss(p)
  PROVE  Kept
<1>1. PageOK(p) /\ flow[p] \in FlowStates
  BY PageFacts
<1>2. Grow /\ ChainTypeOK' /\ ChainsAgree'
  BY ChainsStill DEF Dismiss
<1>3. PICK t : t = CLEAR_ERROR(flow[p])
  OBVIOUS
<1>4. /\ t \in FlowStates /\ Same(flow[p], t)
      /\ t.operation = flow[p].operation /\ t.error = "none"
  BY <1>1, <1>3, Cleared
<1>5. Dispatch(p, t, pc[p], awaited[p])
  BY <1>3 DEF Dismiss
<1>6. flow'[p] = t /\ pc'[p] = pc[p] /\ awaited'[p] = awaited[p]
  BY <1>5, PageFacts, Moved
<1>7. UNCHANGED <<approvedBy, authorized, authorizing, stored, claim>>
  BY DEF Dismiss, midnight, relay, cardano
<1>8. PageOK(p)'
  BY <1>1, <1>4, <1>6, <1>7 DEF PageOK, Same
<1>9. Progress(p)
  BY <1>4, <1>6, PageFacts, StageKept DEF Progress, Same
<1> QED
  BY <1>2, <1>4, <1>5, <1>8, <1>9, PageFacts, PageStep

LEMMA ReloadInd ==
  ASSUME FlowInv, NEW p \in Pages, Reload(p)
  PROVE  Kept
<1>1. Grow /\ ChainTypeOK' /\ ChainsAgree'
  BY ChainsStill DEF Reload
<1>2. flow'[p] = initialFlowState /\ pc'[p] = "idle" /\ awaited'[p] = None
  BY PageFacts, Moved DEF Reload, Return
<1>3. PageOK(p)'
  BY <1>2 DEF PageOK, initialFlowState
<1>4. Progress(p)
  BY <1>2 DEF Progress
<1> QED
  BY <1>1, <1>3, <1>4, Initial, PageStep DEF Reload, Return

LEMMA ConnectInd ==
  ASSUME FlowInv, NEW p \in Pages, ConnectMidnight(p) \/ ConnectCardano(p)
  PROVE  Kept
<1>1. PageOK(p) /\ flow[p] \in FlowStates
  BY PageFacts
<1>2. Grow /\ ChainTypeOK' /\ ChainsAgree'
  BY ChainsStill DEF ConnectMidnight, ConnectCardano
<1>3. flow[p].stage = "connect"
  BY <1>1 DEF ConnectMidnight, ConnectCardano, PageOK
<1>4. PICK t : /\ t = MIDNIGHT_CONNECTED(flow[p]) \/ t = CARDANO_CONNECTED(flow[p])
               /\ Return(p, t)
  BY DEF ConnectMidnight, ConnectCardano
<1>5. /\ t \in FlowStates /\ t.operation = "none" /\ t.error = "none"
      /\ t.stage \in {"connect", "authorize"}
      /\ t.stage = "authorize" <=> t.midnightWallet /\ t.cardanoWallet
      /\ t.midnightTxId = flow[p].midnightTxId /\ t.approvalCount = flow[p].approvalCount
      /\ t.permit = flow[p].permit /\ t.cardanoTxId = flow[p].cardanoTxId
      /\ t.confirmed <=> flow[p].confirmed
  BY <1>1, <1>3, <1>4, Connected
<1>6. flow'[p] = t /\ pc'[p] = "idle" /\ awaited'[p] = None
  BY <1>4, PageFacts, Moved DEF Return
<1>7. UNCHANGED <<approvedBy, authorized, authorizing, stored, claim>>
  BY DEF ConnectMidnight, ConnectCardano, midnight, relay, cardano
<1>8. PageOK(p)'
  BY <1>1, <1>3, <1>5, <1>6, <1>7 DEF PageOK
<1>9. Progress(p)
  BY <1>3, <1>5, <1>6, RankOrder DEF Progress
<1> QED
  BY <1>2, <1>4, <1>5, <1>8, <1>9, PageStep DEF Return

LEMMA FailureInd ==
  ASSUME FlowInv, NEW p \in Pages,
         \/ WalletRejects(p) \/ ApproveFails(p) \/ ObserveTimeout(p) \/ GetPermitFails(p)
         \/ RefuseForged(p) \/ ProvidersFail(p) \/ SigningFails(p) \/ ConfirmFails(p)
  PROVE  Kept
<1>1. UNCHANGED <<midnight, relay, cardano>> /\ \E kind : Fault(kind)
  BY DEF WalletRejects, ApproveFails, ObserveTimeout, GetPermitFails, RefuseForged,
         ProvidersFail, SigningFails, ConfirmFails
<1>2. pc[p] # "idle" /\ \E code : Throw(p, code)
  BY DEF WalletRejects, ApproveFails, ObserveTimeout, GetPermitFails, RefuseForged,
         ProvidersFail, SigningFails, ConfirmFails
<1> QED
  BY <1>1, <1>2, ChainsStill, Thrown

LEMMA ApproveInd ==
  ASSUME FlowInv, NEW p \in Pages, NEW r \in Reviewers, Approve(p, r)
  PROVE  Kept
<1>1. CASE UNCHANGED midnight /\ \E code : Throw(p, code)
  <2>1. pc[p] # "idle"
    BY DEF Approve
  <2> QED
    BY <1>1, <2>1, ChainsStill, Thrown DEF Approve
<1>2. CASE /\ ~authorized
           /\ Approvals!Approve(r)
           /\ authorizing' = IF authorized' THEN r ELSE None
           /\ Dispatch(p, flow[p], "observing", r)
  <2>1. /\ ChainTypeOK /\ ChainsAgree /\ PageOK(p) /\ flow[p] \in FlowStates
        /\ pc[p] = "approve"
    BY PageFacts DEF Approve
  <2>2. /\ r \notin approvedBy /\ approvedBy' = approvedBy \union {r}
        /\ authorized' = (approvedBy' = Reviewers)
    BY <1>2 DEF Approvals!Approve
  <2>3. UNCHANGED <<stored, served, slot, claim, faults>>
    BY DEF Approve, relay, cardano
  <2>4. authorizing = None /\ \A t \in Reviewers : stored[t] = None
    BY <1>2, <2>1, NoneAssumption DEF ChainsAgree
  <2>5. ~paid /\ ~paid'
    BY <2>1, <2>3, <2>4 DEF ChainsAgree, paid
  <2>6. authorized' \in BOOLEAN /\ authorizing' \in Reviewers \union {None}
    BY <1>2, <2>2
  <2>7. ChainTypeOK'
    BY <2>1, <2>2, <2>3, <2>6 DEF ChainTypeOK
  <2>8. ChainsAgree'
    BY <1>2, <2>2, <2>3, <2>4, <2>5, NoneAssumption DEF ChainsAgree
  <2>9. Grow
    BY <1>2, <2>1, <2>2, <2>3, <2>4 DEF Grow, ChainTypeOK
  <2>10. flow'[p] = flow[p] /\ pc'[p] = "observing" /\ awaited'[p] = r
    BY <1>2, PageFacts, Moved
  <2>11. /\ flow[p].stage = "authorize" /\ flow[p].midnightWallet /\ flow[p].cardanoWallet
         /\ flow[p].permit = None /\ flow[p].cardanoTxId = None /\ ~flow[p].confirmed
         /\ flow[p].operation # "none" /\ flow[p].error = "none"
    BY <1>2, <2>1 DEF PageOK
  <2>12. flow[p].midnightTxId # None =>
            flow[p].midnightTxId \in approvedBy' /\ flow[p].midnightTxId # r
            /\ flow[p].approvalCount = 1
    BY <2>1, <2>2, <2>4 DEF PageOK
  <2>13. authorizing' \in {r, None}
    BY <1>2
  <2>14. PageOK(p)'
    BY <2>2, <2>10, <2>11, <2>12, <2>13 DEF PageOK
  <2>15. Progress(p)
    BY <2>10, PageFacts, StageKept DEF Progress
  <2> QED
    BY <1>2, <2>1, <2>7, <2>8, <2>9, <2>14, <2>15, PageStep
<1> QED
  BY <1>1, <1>2 DEF Approve

LEMMA ObserveInd ==
  ASSUME FlowInv, NEW p \in Pages, ObserveApproval(p)
  PROVE  Kept
<1>1. /\ ChainTypeOK /\ ChainsAgree /\ PageOK(p) /\ flow[p] \in FlowStates
      /\ pc[p] = "observing"
  BY PageFacts DEF ObserveApproval
<1>2. Grow /\ ChainTypeOK' /\ ChainsAgree'
  BY ChainsStill DEF ObserveApproval
<1>3. /\ flow[p].stage = "authorize" /\ flow[p].midnightWallet /\ flow[p].cardanoWallet
      /\ awaited[p] \in approvedBy
  BY <1>1 DEF PageOK
<1>4. awaited[p] \in Reviewers
  BY <1>1, <1>3 DEF ChainTypeOK
<1>5. PICK t : /\ t = APPROVAL_CONFIRMED(flow[p], IF awaited[p] = authorizing THEN 2 ELSE 1,
                                         awaited[p] = authorizing, awaited[p])
               /\ Return(p, t)
  BY DEF ObserveApproval
<1>6. /\ t \in FlowStates /\ t.operation = "none" /\ t.error = "none"
      /\ t.stage = (IF awaited[p] = authorizing THEN "claim" ELSE "authorize")
      /\ t.approvalCount = (IF awaited[p] = authorizing THEN 2 ELSE 1)
      /\ t.midnightTxId = awaited[p]
      /\ t.permit = flow[p].permit /\ t.cardanoTxId = flow[p].cardanoTxId
      /\ t.midnightWallet <=> flow[p].midnightWallet
      /\ t.cardanoWallet <=> flow[p].cardanoWallet
      /\ t.confirmed <=> flow[p].confirmed
  BY <1>1, <1>3, <1>4, <1>5, Approved
<1>7. flow'[p] = t /\ pc'[p] = "idle"
  BY <1>5, PageFacts, Moved DEF Return
<1>8. UNCHANGED <<approvedBy, authorized, authorizing, stored, claim>>
  BY DEF ObserveApproval, midnight, relay, cardano
<1>9. authorizing # None => authorized
  BY <1>1 DEF ChainsAgree
<1>10. PageOK(p)'
  BY <1>1, <1>3, <1>4, <1>6, <1>7, <1>8, <1>9, NoneAssumption DEF PageOK
<1>11. Progress(p)
  BY <1>3, <1>6, <1>7, RankOrder DEF Progress
<1> QED
  BY <1>2, <1>5, <1>6, <1>10, <1>11, PageStep DEF Return

LEMMA GetPermitInd ==
  ASSUME FlowInv, NEW p \in Pages, GetPermit(p)
  PROVE  Kept
<1> DEFINE tx == flow[p].midnightTxId
<1>1. /\ ChainTypeOK /\ ChainsAgree /\ PageOK(p) /\ flow[p] \in FlowStates
      /\ pc[p] = "permit"
  BY PageFacts DEF GetPermit
<1>2. /\ flow[p].stage = "claim" /\ tx = authorizing /\ authorized /\ flow[p].permit = None
      /\ tx \in Reviewers /\ flow[p].approvalCount = 2 /\ flow[p].cardanoTxId = None
      /\ flow[p].midnightWallet /\ flow[p].cardanoWallet /\ ~flow[p].confirmed
      /\ tx \in approvedBy
  BY <1>1, PageFacts DEF PageOK, ChainsAgree
<1>3. CASE UNCHANGED relay /\ Throw(p, "NP_RELAY_PERMIT_NOT_FOUND")
  BY <1>3, ChainsStill, Thrown DEF GetPermit
<1>4. CASE Register!Serve(tx) /\ Return(p, PERMIT_RECEIVED(flow[p], stored[tx]))
  <2>1. /\ UNCHANGED <<approvedBy, authorized, authorizing, slot, claim, faults, stored>>
        /\ stored[tx] # None
        /\ served' = [served EXCEPT ![tx] = @ \union {stored[tx]}]
    BY <1>4 DEF GetPermit, midnight, cardano, Register!Serve
  <2>2. stored[tx] \in Permits
    BY <1>1, <1>2, <2>1 DEF ChainTypeOK
  <2>3. Grow
    BY <1>1, <2>1 DEF Grow, ChainTypeOK
  <2>4. served' \in [Reviewers -> SUBSET Permits]
    BY <1>1, <1>2, <2>1, <2>2 DEF ChainTypeOK
  <2>5. ChainTypeOK' /\ ChainsAgree'
    BY <1>1, <2>1, <2>4 DEF ChainTypeOK, ChainsAgree, paid
  <2>6. PICK t : t = PERMIT_RECEIVED(flow[p], stored[tx])
    OBVIOUS
  <2>7. /\ t \in FlowStates /\ t.operation = "none" /\ t.permit = stored[tx]
        /\ t.error = "none"
        /\ t.stage = flow[p].stage /\ t.approvalCount = flow[p].approvalCount
        /\ t.midnightWallet <=> flow[p].midnightWallet
        /\ t.cardanoWallet <=> flow[p].cardanoWallet
        /\ t.midnightTxId = flow[p].midnightTxId /\ t.cardanoTxId = flow[p].cardanoTxId
        /\ t.confirmed <=> flow[p].confirmed
    BY <1>1, <1>2, <2>2, <2>6, NoneAssumption, Received
  <2>8. flow'[p] = t /\ pc'[p] = "idle"
    BY <1>4, <2>6, PageFacts, Moved DEF Return
  <2>9. PageOK(p)'
    BY <1>2, <2>1, <2>7, <2>8 DEF PageOK
  <2>10. Progress(p)
    BY <1>2, <2>7, <2>8, RankOrder DEF Progress
  <2> QED
    BY <1>4, <2>3, <2>5, <2>6, <2>7, <2>9, <2>10, PageStep DEF Return
<1> QED
  BY <1>3, <1>4 DEF GetPermit

LEMMA PlanInd ==
  ASSUME FlowInv, NEW p \in Pages, PlanClaim(p)
  PROVE  Kept
<1>1. Grow /\ ChainTypeOK' /\ ChainsAgree'
  BY ChainsStill DEF PlanClaim
<1>2. CASE Throw(p, Refusal(p))
  <2>1. pc[p] # "idle"
    BY DEF PlanClaim
  <2> QED
    BY <1>1, <1>2, <2>1, Thrown
<1>3. CASE Dispatch(p, flow[p], "signing", None)
  <2>1. PageOK(p) /\ flow[p] \in FlowStates /\ pc[p] = "claim"
    BY PageFacts DEF PlanClaim
  <2>2. flow'[p] = flow[p] /\ pc'[p] = "signing"
    BY <1>3, PageFacts, Moved
  <2>3. UNCHANGED <<approvedBy, authorized, authorizing, stored, claim>>
    BY DEF PlanClaim, midnight, relay, cardano
  <2>4. PageOK(p)'
    BY <2>1, <2>2, <2>3 DEF PageOK
  <2>5. Progress(p)
    BY <2>2, PageFacts, StageKept DEF Progress
  <2> QED
    BY <1>1, <1>3, <2>1, <2>4, <2>5, PageStep
<1> QED
  BY <1>2, <1>3 DEF PlanClaim

\* A claim that becomes pending, or is dropped, pays nothing.
LEMMA ClaimMoves ==
  ASSUME FlowInv, NEW c \in Claims, claim[c] # "included", NEW status \in {"pending", "dropped"},
         claim' = [claim EXCEPT ![c] = status], UNCHANGED <<midnight, relay>>,
         slot' = slot, faults' = faults \/ \E kind : Fault(kind)
  PROVE  Grow /\ ChainTypeOK' /\ ChainsAgree'
<1>1. ChainTypeOK /\ ChainsAgree
  BY FlowInvParts
<1>2. UNCHANGED <<approvedBy, authorized, authorizing, stored, served>>
  BY DEF midnight, relay
<1>3. faults' \in 0..MaxFaults
  BY <1>1, BoundsAssumption DEF ChainTypeOK, Fault
<1>4. claim' \in [Claims -> {"unused", "pending", "included", "dropped"}]
  BY <1>1 DEF ChainTypeOK
<1>5. \A d \in Claims : claim'[d] = "included" <=> claim[d] = "included"
  BY <1>1 DEF ChainTypeOK
<1>6. Grow
  BY <1>1, <1>2, <1>5 DEF Grow, ChainTypeOK
<1>7. ChainTypeOK'
  BY <1>1, <1>2, <1>3, <1>4 DEF ChainTypeOK
<1>8. ChainsAgree'
  BY <1>1, <1>2, <1>5 DEF ChainsAgree, paid
<1> QED
  BY <1>6, <1>7, <1>8

LEMMA SubmitInd ==
  ASSUME FlowInv, NEW p \in Pages, NEW c \in Claims, SubmitClaim(p, c) \/ SubmitFailsLate(p, c)
  PROVE  Kept
<1>1. /\ ChainTypeOK /\ ChainsAgree /\ PageOK(p) /\ flow[p] \in FlowStates
      /\ pc[p] = "signing" /\ claim[c] # "included"
  BY PageFacts DEF SubmitClaim, SubmitFailsLate, isNext
<1>2. CASE UNCHANGED claim /\ \E code : Throw(p, code)
  BY <1>2, ChainsStill, Thrown DEF SubmitClaim, SubmitFailsLate, cardano
<1>3. ASSUME claim' = [claim EXCEPT ![c] = "pending"]
      PROVE  Grow /\ ChainTypeOK' /\ ChainsAgree'
  BY <1>1, <1>3, ClaimMoves DEF SubmitClaim, SubmitFailsLate
<1>4. CASE SubmitFailsLate(p, c)
  BY <1>3, <1>4, Thrown DEF SubmitFailsLate
<1>5. CASE /\ claim' = [claim EXCEPT ![c] = "pending"]
           /\ Dispatch(p, CLAIM_SUBMITTED(flow[p], c), "confirming", c)
  <2>1. PICK t : t = CLAIM_SUBMITTED(flow[p], c)
    OBVIOUS
  <2>2. flow[p].permit # None /\ flow[p].cardanoTxId = None /\ flow[p].stage = "claim"
    BY <1>1 DEF PageOK
  <2>3. /\ t \in FlowStates /\ t.operation = "none" /\ t.cardanoTxId = c
        /\ t.error = "none"
        /\ t.stage = flow[p].stage /\ t.approvalCount = flow[p].approvalCount
        /\ t.midnightWallet <=> flow[p].midnightWallet
        /\ t.cardanoWallet <=> flow[p].cardanoWallet
        /\ t.midnightTxId = flow[p].midnightTxId /\ t.permit = flow[p].permit
        /\ t.confirmed <=> flow[p].confirmed
    BY <1>1, <2>1, <2>2, Submitted
  <2>4. flow'[p] = t /\ pc'[p] = "confirming" /\ awaited'[p] = c
    BY <1>5, <2>1, PageFacts, Moved
  <2>5. UNCHANGED <<approvedBy, authorized, authorizing, stored>> /\ c # None
    BY NoneAssumption DEF SubmitClaim, SubmitFailsLate, midnight, relay
  <2>6. PageOK(p)'
    BY <1>1, <2>2, <2>3, <2>4, <2>5 DEF PageOK
  <2>7. Progress(p)
    BY <2>2, <2>3, <2>4, RankOrder DEF Progress
  <2> QED
    BY <1>3, <1>5, <2>1, <2>3, <2>6, <2>7, PageStep
<1> QED
  BY <1>2, <1>4, <1>5 DEF SubmitClaim

LEMMA ConfirmInd ==
  ASSUME FlowInv, NEW p \in Pages, ConfirmClaim(p)
  PROVE  Kept
<1>1. /\ ChainTypeOK /\ ChainsAgree /\ PageOK(p) /\ flow[p] \in FlowStates
      /\ pc[p] = "confirming" /\ claim[awaited[p]] = "included"
  BY PageFacts DEF ConfirmClaim
<1>2. Grow /\ ChainTypeOK' /\ ChainsAgree'
  BY ChainsStill DEF ConfirmClaim
<1>3. /\ flow[p].stage = "claim" /\ flow[p].cardanoTxId = awaited[p]
      /\ flow[p].cardanoTxId # None
  BY <1>1 DEF PageOK
<1>4. flow[p].cardanoTxId \in Claims
  BY <1>3, PageFacts
<1>5. approvedBy = Reviewers
  BY <1>1, <1>3, <1>4 DEF ChainsAgree, PageOK
<1>6. PICK t : t = CLAIM_CONFIRMED(flow[p], flow[p].cardanoTxId)
  OBVIOUS
<1>7. /\ t \in FlowStates /\ t.operation = "none" /\ t.error = "none"
      /\ t.stage = "complete" /\ t.confirmed
      /\ t.approvalCount = flow[p].approvalCount
      /\ t.midnightWallet <=> flow[p].midnightWallet
      /\ t.cardanoWallet <=> flow[p].cardanoWallet
      /\ t.midnightTxId = flow[p].midnightTxId /\ t.permit = flow[p].permit
      /\ t.cardanoTxId = flow[p].cardanoTxId
  BY <1>1, <1>3, <1>6, Confirmed
<1>8. Return(p, t)
  BY <1>3, <1>6 DEF ConfirmClaim
<1>9. flow'[p] = t /\ pc'[p] = "idle"
  BY <1>8, PageFacts, Moved DEF Return
<1>10. UNCHANGED <<approvedBy, authorized, authorizing, stored, claim>>
  BY DEF ConfirmClaim, midnight, relay, cardano
<1>11. PageOK(p)'
  BY <1>1, <1>3, <1>5, <1>7, <1>9, <1>10 DEF PageOK
<1>12. Progress(p)
  BY <1>3, <1>7, <1>9, RankOrder DEF Progress
<1> QED
  BY <1>2, <1>7, <1>8, <1>11, <1>12, PageStep DEF Return

-----------------------------------------------------------------------------
(* The steps of the relay and of the ledger.                                *)

LEMMA PostInd ==
  ASSUME FlowInv, NEW t \in Reviewers, PostPermit(t)
  PROVE  Kept
<1>1. ChainTypeOK /\ ChainsAgree
  BY FlowInvParts
<1>2. PICK permit : permit = [tx |-> t, expires |-> slot + Lifetime]
  OBVIOUS
<1>3. permit \in Permits
  BY <1>1, <1>2, BoundsAssumption DEF ChainTypeOK, Permits
<1>4. /\ t = authorizing /\ stored[t] = None
      /\ stored' = [stored EXCEPT ![t] = permit]
      /\ served' \in {served, [served EXCEPT ![t] = {permit}]}
  BY <1>2 DEF PostPermit, Register!Issue
<1>5. UNCHANGED <<approvedBy, authorized, authorizing, slot, claim, faults, pages>>
  BY DEF PostPermit, midnight, cardano
<1>6. stored' \in [Reviewers -> Permits \union {None}] /\ served' \in [Reviewers -> SUBSET Permits]
  BY <1>1, <1>3, <1>4 DEF ChainTypeOK
<1>7. ChainTypeOK'
  BY <1>1, <1>5, <1>6 DEF ChainTypeOK
<1>8. /\ \A u \in Reviewers : stored[u] # None => stored'[u] = stored[u]
      /\ \A u \in Reviewers : stored'[u] # None => u = authorizing
  BY <1>1, <1>4 DEF ChainTypeOK, ChainsAgree
<1>9. Grow
  BY <1>1, <1>5, <1>8 DEF Grow, ChainTypeOK
<1>10. ~paid'
  BY <1>1, <1>4, <1>5 DEF ChainsAgree, paid
<1>11. ChainsAgree'
  BY <1>1, <1>5, <1>8, <1>10 DEF ChainsAgree
<1> QED
  BY <1>5, <1>7, <1>9, <1>11, ChainStep

LEMMA TickInd ==
  ASSUME FlowInv, Tick
  PROVE  Kept
<1>1. ChainTypeOK /\ ChainsAgree
  BY FlowInvParts
<1>2. UNCHANGED <<approvedBy, authorized, authorizing, stored, served, claim, faults, pages>>
  BY DEF Tick, midnight, relay
<1>3. slot' \in 0..MaxSlot
  BY <1>1, BoundsAssumption DEF Tick, ChainTypeOK
<1>4. Grow /\ ChainTypeOK' /\ ChainsAgree'
  BY <1>1, <1>2, <1>3 DEF Grow, ChainTypeOK, ChainsAgree, paid
<1> QED
  BY <1>2, <1>4, ChainStep

LEMMA BlockInd ==
  ASSUME FlowInv, NEW c \in Claims, IncludeClaim(c) \/ DropClaim(c) \/ LoseClaim(c)
  PROVE  Kept
<1>1. ChainTypeOK /\ ChainsAgree
  BY FlowInvParts
<1>2. UNCHANGED <<midnight, relay, pages>> /\ slot' = slot
  BY DEF IncludeClaim, DropClaim, LoseClaim
<1>3. CASE IncludeClaim(c)
  <2>1. UNCHANGED <<approvedBy, authorized, authorizing, stored, served, faults>>
    BY <1>2, <1>3 DEF IncludeClaim, midnight, relay
  <2>2. /\ claim' \in [Claims -> {"unused", "pending", "included", "dropped"}]
        /\ \A d \in Claims : claim[d] = "included" => claim'[d] = "included"
    BY <1>1, <1>3 DEF IncludeClaim, ChainTypeOK
  <2>3. Grow /\ ChainTypeOK'
    BY <1>1, <1>2, <2>1, <2>2 DEF Grow, ChainTypeOK
  <2>4. ChainsAgree'
    BY <1>1, <1>3, <2>1 DEF IncludeClaim, ChainsAgree
  <2> QED
    BY <1>2, <2>3, <2>4, ChainStep
<1>4. CASE DropClaim(c) \/ LoseClaim(c)
  <2>1. /\ claim[c] # "included" /\ claim' = [claim EXCEPT ![c] = "dropped"]
        /\ faults' = faults \/ \E kind : Fault(kind)
    BY <1>4 DEF DropClaim, LoseClaim
  <2> QED
    BY <1>2, <2>1, ClaimMoves, ChainStep
<1> QED
  BY <1>3, <1>4

-----------------------------------------------------------------------------
(* The theorems.                                                            *)

LEMMA InitInd ==
  ASSUME Init
  PROVE  FlowInv
<1> USE DEF Init, Approvals!Init, Register!Init
<1>1. ChainTypeOK
  <2>1. slot \in 0..MaxSlot /\ faults \in 0..MaxFaults
    BY BoundsAssumption
  <2>2. /\ approvedBy \subseteq Reviewers /\ authorized \in BOOLEAN
        /\ authorizing \in Reviewers \union {None}
    OBVIOUS
  <2>3. /\ stored \in [Reviewers -> Permits \union {None}]
        /\ served \in [Reviewers -> SUBSET Permits]
    OBVIOUS
  <2>4. claim \in [Claims -> {"unused", "pending", "included", "dropped"}]
    OBVIOUS
  <2> QED
    BY <2>1, <2>2, <2>3, <2>4 DEF ChainTypeOK
<1>2. PageTypeOK
  BY Initial DEF PageTypeOK
<1>3. ChainsAgree
  BY DEF ChainsAgree, paid
<1>4. ASSUME NEW p \in Pages PROVE PageOK(p)
  BY <1>4 DEF PageOK, initialFlowState
<1> QED
  BY <1>1, <1>2, <1>3, <1>4, FlowInvParts

LEMMA IndStep ==
  ASSUME FlowInv, [Next]_vars
  PROVE  Kept
<1>1. CASE UNCHANGED vars
  <2>1. UNCHANGED pages /\ UNCHANGED <<midnight, relay, cardano, faults>>
    BY <1>1 DEF vars
  <2> QED
    BY <2>1, ChainsStill, ChainStep
<1>2. ASSUME NEW p \in Pages, Continue(p) PROVE Kept
  BY <1>2, ConnectInd, FailureInd, ApproveInd, ObserveInd, GetPermitInd, PlanInd, SubmitInd,
     ConfirmInd DEF Continue
<1> QED
  BY <1>1, <1>2, ClickInd, DismissInd, ReloadInd, PostInd, TickInd, BlockInd DEF Next, Block

\* With any number of browsers, claims and failures: a page is busy exactly while
\* a promise runs, what it shows is true, and it has what it awaits an answer for.
THEOREM Invariance == Spec => []FlowInv
<1>1. FlowInv /\ [Next]_vars => FlowInv'
  BY IndStep DEF Kept
<1> QED
  BY <1>1, InitInd, PTL DEF Spec

\* What a page shows of approvals, authorization and permit is true of Midnight
\* and the relay.
THEOREM ShownTheorem == Spec => []ShownIsTrue
<1>1. FlowInv => ShownIsTrue
  BY DEF FlowInv
<1> QED
  BY <1>1, Invariance, PTL

\* A page is complete only when its own claim is in a block.
THEOREM CompletionTheorem == Spec => []CompletionIsTrue
<1>1. FlowInv => CompletionIsTrue
  BY DEF FlowInv
<1> QED
  BY <1>1, Invariance, PTL

\* Across the three systems: whatever pages, relay and networks went through, a claim
\* that is in a block was paid with a permit for a transaction of a reviewer, made
\* when Midnight had the approvals of both.
THEOREM PaidIsAuthorized ==
  Spec => [](paid => authorizing \in Reviewers /\ stored[authorizing] # None
                     /\ approvedBy = Reviewers)
<1>1. FlowInv => (paid => authorizing \in Reviewers /\ stored[authorizing] # None
                         /\ approvedBy = Reviewers)
  <2> SUFFICES ASSUME FlowInv, paid
               PROVE  authorizing \in Reviewers /\ stored[authorizing] # None
                      /\ approvedBy = Reviewers
    OBVIOUS
  <2>1. PICK t \in Reviewers : stored[t] # None
    BY DEF FlowInv, ChainsAgree
  <2>2. t = authorizing
    BY <2>1 DEF FlowInv, ChainsAgree
  <2>3. authorizing # None
    BY <2>2, NoneAssumption
  <2> QED
    BY <2>1, <2>2, <2>3 DEF FlowInv, ChainsAgree
<1> QED
  BY <1>1, Invariance, PTL

\* After a retryable error, the page offers the step again, unless it knows of a
\* claim.
THEOREM RetryTheorem == Spec => []RetryIsOffered
<1>1. FlowInv => RetryIsOffered
  <2> SUFFICES ASSUME FlowInv, NEW p \in Pages, retryable(flow[p].error),
                      flow[p].cardanoTxId = None
               PROVE  Offered(p) # {}
    BY DEF RetryIsOffered
  <2>1. /\ PageOK(p) /\ ChainsAgree
        /\ flow[p].stage \in {"connect", "authorize", "claim", "complete"}
    BY PageFacts
  <2>2. flow[p].error # "none"
    BY DEF retryable, messages, lasting
  <2>3. flow[p].operation = "none" /\ flow[p].stage # "complete"
    BY <2>1, <2>2 DEF PageOK
  <2>4. CASE flow[p].stage = "connect"
    <3>1. ~(flow[p].midnightWallet /\ flow[p].cardanoWallet)
      BY <2>1, <2>4 DEF PageOK
    <3>2. "connect-midnight" \in Offered(p) \/ "connect-cardano" \in Offered(p)
      BY <2>3, <2>4, <3>1 DEF Offered
    <3> QED
      BY <3>2
  <2>5. CASE flow[p].stage = "authorize"
    BY <2>3, <2>5 DEF Offered
  <2>6. CASE flow[p].stage = "claim"
    <3>1. flow[p].midnightTxId # None
      BY <2>1, <2>6 DEF PageOK, ChainsAgree
    <3> QED
      BY <2>3, <2>6, <3>1 DEF Offered, claimButton
  <2> QED
    BY <2>1, <2>3, <2>4, <2>5, <2>6
<1> QED
  BY <1>1, Invariance, PTL

\* A page that is not loaded again never falls back, and never exchanges what it
\* has achieved, whatever fails or comes late.
THEOREM ProgressTheorem == Spec => ProgressIsKept
<1>1. FlowInv /\ [Next]_vars => \A p \in Pages : Progress(p)
  BY IndStep DEF Kept
<1>2. FlowInv /\ [Next]_vars
        => [\A p \in Pages : flow'[p] # initialFlowState =>
              /\ rank(flow'[p].stage) >= rank(flow[p].stage)
              /\ flow[p].stage \in {"claim", "complete"} =>
                    flow'[p].midnightTxId = flow[p].midnightTxId
              /\ flow[p].permit # None => flow'[p].permit = flow[p].permit
              /\ flow[p].cardanoTxId # None => flow'[p].cardanoTxId = flow[p].cardanoTxId]_vars
  BY <1>1 DEF Progress
<1> QED
  BY <1>2, Invariance, PTL DEF Spec, ProgressIsKept

\* Whatever the pages do, the whole does no more than NightPermit promises: both
\* approvals before the permit, the permit before the payment, and one payment.
THEOREM Refinement == Spec => ImplementsNightPermit
<1>1. Init => Whole!Init
  BY DEF Init, Approvals!Init, Register!Init, Whole!Init, attested, paid
<1>2. FlowInv /\ [Next]_vars => [Whole!Next]_<<approvedBy, attested, paid>>
  <2> SUFFICES ASSUME FlowInv, [Next]_vars
               PROVE  [Whole!Next]_<<approvedBy, attested, paid>>
    OBVIOUS
  <2>1. ChainTypeOK /\ ChainsAgree
    BY FlowInvParts
  <2>2. CASE UNCHANGED <<approvedBy, stored, claim>>
    BY <2>2 DEF attested, paid
  <2>3. ASSUME NEW p \in Pages, NEW r \in Reviewers, Approve(p, r)
        PROVE  [Whole!Next]_<<approvedBy, attested, paid>>
    <3>1. CASE UNCHANGED midnight
      BY <2>2, <2>3, <3>1 DEF Approve, midnight, relay, cardano
    <3>2. CASE Approvals!Approve(r)
      <4>1. UNCHANGED <<attested, paid>>
        BY <2>3 DEF Approve, relay, cardano, attested, paid
      <4> QED
        BY <3>2, <4>1 DEF Approvals!Approve, Whole!Next, Whole!Approve
    <3> QED
      BY <2>3, <3>1, <3>2 DEF Approve
  <2>4. ASSUME NEW t \in Reviewers, PostPermit(t)
        PROVE  [Whole!Next]_<<approvedBy, attested, paid>>
    <3>1. /\ UNCHANGED <<approvedBy, claim>>
          /\ t = authorizing /\ stored[t] = None
          /\ stored' = [stored EXCEPT ![t] = [tx |-> t, expires |-> slot + Lifetime]]
      BY <2>4 DEF PostPermit, Register!Issue, midnight, cardano
    <3>2. approvedBy = Reviewers /\ ~attested
      BY <2>1, <3>1, NoneAssumption DEF ChainsAgree, attested
    <3>3. [tx |-> t, expires |-> slot + Lifetime] \in Permits
      BY <2>1, BoundsAssumption DEF ChainTypeOK, Permits
    <3>4. attested' = TRUE
      BY <2>1, <3>1, <3>3, NoneAssumption DEF ChainTypeOK, attested
    <3>5. UNCHANGED paid
      BY <3>1 DEF paid
    <3> QED
      BY <3>1, <3>2, <3>4, <3>5 DEF Whole!Next, Whole!Attest
  <2>5. ASSUME NEW c \in Claims, IncludeClaim(c)
        PROVE  [Whole!Next]_<<approvedBy, attested, paid>>
    <3>1. attested /\ ~paid /\ UNCHANGED <<approvedBy, stored>>
      BY <2>5 DEF IncludeClaim, attested, midnight, relay
    <3>2. paid' = TRUE
      BY <2>1, <2>5 DEF IncludeClaim, ChainTypeOK, paid
    <3>3. UNCHANGED attested
      BY <3>1 DEF attested
    <3> QED
      BY <3>1, <3>2, <3>3 DEF Whole!Next, Whole!Pay
  <2>6. ASSUME NEW c \in Claims,
               \/ DropClaim(c) \/ LoseClaim(c)
               \/ \E p \in Pages : SubmitClaim(p, c) \/ SubmitFailsLate(p, c)
        PROVE  [Whole!Next]_<<approvedBy, attested, paid>>
    <3>1. UNCHANGED <<approvedBy, stored>>
      BY <2>6 DEF DropClaim, LoseClaim, SubmitClaim, SubmitFailsLate, midnight, relay
    <3>2. \/ UNCHANGED claim
          \/ /\ claim[c] # "included"
             /\ \/ claim' = [claim EXCEPT ![c] = "dropped"]
                \/ claim' = [claim EXCEPT ![c] = "pending"]
      BY <2>6 DEF DropClaim, LoseClaim, SubmitClaim, SubmitFailsLate, isNext
    <3>3. \A d \in Claims : claim'[d] = "included" <=> claim[d] = "included"
      BY <2>1, <3>2 DEF ChainTypeOK
    <3> QED
      BY <3>1, <3>3 DEF attested, paid
  <2>7. ASSUME NEW p \in Pages,
               \/ \E op \in Operations : Click(p, op)
               \/ Dismiss(p) \/ Reload(p) \/ ConnectMidnight(p) \/ ConnectCardano(p)
               \/ WalletRejects(p) \/ ApproveFails(p) \/ ObserveApproval(p)
               \/ ObserveTimeout(p) \/ GetPermit(p) \/ GetPermitFails(p) \/ RefuseForged(p)
               \/ PlanClaim(p) \/ ProvidersFail(p) \/ SigningFails(p)
               \/ ConfirmClaim(p) \/ ConfirmFails(p)
        PROVE  UNCHANGED <<approvedBy, stored, claim>>
    BY <2>7 DEF midnight, relay, cardano, Click, Dismiss, Reload, ConnectMidnight,
                ConnectCardano, WalletRejects, ApproveFails, ObserveApproval, ObserveTimeout,
                GetPermit, GetPermitFails, RefuseForged, PlanClaim, ProvidersFail,
                SigningFails, ConfirmClaim, ConfirmFails, Register!Serve
  <2>8. CASE Tick
    BY <2>2, <2>8 DEF Tick, midnight, relay
  <2>9. CASE UNCHANGED vars
    BY <2>2, <2>9 DEF vars, midnight, relay, cardano
  <2> QED
    BY <2>2, <2>3, <2>4, <2>5, <2>6, <2>7, <2>8, <2>9 DEF Next, Continue, Block
<1> QED
  BY <1>1, <1>2, Invariance, PTL DEF Spec, ImplementsNightPermit, Whole!Spec
=============================================================================
