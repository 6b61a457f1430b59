-------------------------- MODULE ReadinessProofs --------------------------
(***************************************************************************)
(* Proofs about Readiness, for any services, timeouts and intervals: what   *)
(* the verifier reports, and when, follows from the inductive invariant.    *)
(***************************************************************************)
EXTENDS Readiness, TLAPS

\* What the attempt has heard of its services.
Heard ==
    \A s \in Services :
        /\ check[s] \in {"refusal", "fail"} => disturbed
        /\ check[s] \in {"body", "pass"} => s \in seen

\* Which services are up, and were.
Up == (~disturbed => ready = Services) /\ ready \subseteq seen

\* Where the verifier is.
Place ==
    /\ phase # "checking" => running = {}
    /\ phase = "sleeping" => clock <= began
    /\ result # "none" <=> phase = "done"

\* What has been reported.
Reported == FailHasCause /\ PassIsOfOneAttempt

\* Requests that are still asking are on time.
OnTime ==
    phase = "checking" => \A s \in Services : check[s] = "asking" => clock <= began + Timeout

GivesUpLate == result = "fail" => clock >= Wait

\* The deadline follows from less.
LEMMA Deadline ==
  ASSUME TypeOK, Place, OnTime, GivesUpLate
  PROVE  DeadlineIsKept
<1>1. /\ clock \in Nat /\ began \in Nat /\ began <= Wait
      /\ check \in [Services -> {"asking", "pass", "fail"} \union bodies]
  BY ConstantsAssumption DEF TypeOK
<1>2. ASSUME phase # "done", clock > Wait + Timeout, running # {}
      PROVE  \E s \in Services : check[s] \in bodies
  <2>1. PICK s \in Services : check[s] \in {"asking"} \union bodies
    BY <1>2 DEF running
  <2>2. phase = "checking"
    BY <1>2 DEF Place
  <2>3. check[s] # "asking"
    BY <1>1, <1>2, <2>2, ConstantsAssumption DEF OnTime
  <2> QED
    BY <2>1, <2>3
<1> QED
  BY <1>1, <1>2 DEF DeadlineIsKept, OnTime, GivesUpLate

LEMMA Parts ==
  PollInv <=> TypeOK /\ Heard /\ TipsMatch /\ Up /\ Place /\ Reported /\ OnTime /\ GivesUpLate
<1>1. PollInv => TypeOK /\ Heard /\ TipsMatch /\ Up /\ Place /\ Reported /\ OnTime /\ GivesUpLate
  <2> SUFFICES ASSUME PollInv
               PROVE  /\ TypeOK /\ Heard /\ TipsMatch /\ Up /\ Place
                      /\ Reported /\ OnTime /\ GivesUpLate
    OBVIOUS
  <2>1. TypeOK /\ Heard /\ TipsMatch /\ Up /\ Place /\ Reported
    BY DEF PollInv, Heard, Up, Place, Reported
  <2>2. GivesUpLate /\ OnTime
    BY DEF PollInv, DeadlineIsKept, GivesUpLate, OnTime
  <2> QED
    BY <2>1, <2>2
<1>2. TypeOK /\ Heard /\ TipsMatch /\ Up /\ Place /\ Reported /\ OnTime /\ GivesUpLate => PollInv
  BY Deadline DEF PollInv, Heard, Up, Place, Reported
<1> QED
  BY <1>1, <1>2

LEMMA PartsAfter ==
  PollInv' <=> (TypeOK /\ Heard /\ TipsMatch /\ Up /\ Place /\ Reported /\ OnTime /\ GivesUpLate)'
BY Parts, PTL

-----------------------------------------------------------------------------
(* The steps of one check.                                                  *)

\* A check that is running changes to what the answer says.
LEMMA CheckStep ==
  ASSUME PollInv, NEW s \in Services, NEW status \in {"pass", "fail"} \union bodies,
         phase = "checking", check[s] \in {"asking"} \union bodies, End(s, status),
         UNCHANGED <<clock, ready, tip, phase, began, attempts, result, seen, changes>>,
         slot' \in [Services -> 0..MaxTip],
         \A q \in Services : q # s => slot'[q] = slot[q],
         disturbed' \in BOOLEAN, disturbed => disturbed',
         status \in {"refusal", "fail"} => disturbed',
         status \in {"body", "pass"} => s \in seen,
         check[s] = "asking" /\ ~disturbed' => slot'[s] = tip,
         check[s] # "asking" => slot'[s] = slot[s]
  PROVE  PollInv'
<1>1. TypeOK /\ Heard /\ TipsMatch /\ Up /\ Place /\ Reported /\ OnTime /\ GivesUpLate
  BY Parts
<1>2. /\ check' \in [Services -> {"asking", "pass", "fail"} \union bodies]
      /\ check'[s] = status /\ \A q \in Services : q # s => check'[q] = check[q]
  BY <1>1 DEF End, TypeOK
<1>3. TypeOK'
  BY <1>1, <1>2 DEF TypeOK
<1>4. Heard'
  BY <1>1, <1>2 DEF Heard
<1>8. TipsMatch'
  <2> SUFFICES ASSUME ~disturbed' PROVE TipsMatch'
    BY DEF TipsMatch
  <2>1. check'[s] # "asking"
    BY <1>2 DEF bodies
  <2>2. CASE s \notin {Kupo, Ogmios}
    BY <1>1, <1>2, <2>2, ConstantsAssumption DEF TipsMatch
  <2>0. /\ ~disturbed /\ tip' = tip
        /\ Kupo \in Services /\ Ogmios \in Services /\ Kupo # Ogmios
    BY ConstantsAssumption
  <2>4. /\ check[s] = "asking" => slot'[s] = tip
        /\ check[s] # "asking" => slot'[s] = slot[s]
    OBVIOUS
  <2>5. IF check[Kupo] # "asking" /\ check[Ogmios] # "asking"
        THEN slot[Kupo] = slot[Ogmios]
        ELSE /\ check[Kupo] # "asking" => slot[Kupo] = tip
             /\ check[Ogmios] # "asking" => slot[Ogmios] = tip
    BY <1>1, <2>0 DEF TipsMatch
  <2>3. CASE s \in {Kupo, Ogmios}
    <3>1. CASE s = Kupo
      <4>1. check'[Ogmios] = check[Ogmios] /\ slot'[Ogmios] = slot[Ogmios]
        BY <1>2, <2>0, <3>1
      <4> QED
        BY <2>0, <2>1, <2>4, <2>5, <3>1, <4>1 DEF TipsMatch
    <3>2. CASE s = Ogmios
      <4>1. check'[Kupo] = check[Kupo] /\ slot'[Kupo] = slot[Kupo]
        BY <1>2, <2>0, <3>2
      <4> QED
        BY <2>0, <2>1, <2>4, <2>5, <3>2, <4>1 DEF TipsMatch
    <3> QED
      BY <2>3, <3>1, <3>2
  <2> QED
    BY <2>2, <2>3
<1>5. Up' /\ Place'
  BY <1>1 DEF Up, Place
<1>6. Reported' /\ GivesUpLate'
  BY <1>1 DEF Reported, FailHasCause, PassIsOfOneAttempt, Place, GivesUpLate
<1>7. OnTime'
  BY <1>1, <1>2 DEF OnTime, bodies
<1> QED
  BY <1>3, <1>4, <1>5, <1>6, <1>7, <1>8, PartsAfter

LEMMA CheckInd ==
  ASSUME PollInv, NEW s \in Services, Check(s)
  PROVE  PollInv'
<1>1. TypeOK /\ Heard /\ Up
  BY Parts
<1>2. CASE Headers(s) /\ s \in ready
  <2>1. /\ slot' = [slot EXCEPT ![s] = tip] /\ End(s, "body")
        /\ phase = "checking" /\ check[s] = "asking"
        /\ UNCHANGED <<clock, ready, tip, phase, began, attempts, result, seen, changes, disturbed>>
    BY <1>2 DEF Headers
  <2>2. /\ slot' \in [Services -> 0..MaxTip] /\ slot'[s] = tip
        /\ \A q \in Services : q # s => slot'[q] = slot[q]
    BY <1>1, <2>1 DEF TypeOK
  <2>3. s \in seen /\ disturbed \in BOOLEAN
    BY <1>1, <1>2 DEF Up, TypeOK
  <2> QED
    BY <2>1, <2>2, <2>3, CheckStep DEF bodies
<1>3. CASE Headers(s) /\ s \notin ready
  <2>1. disturbed = TRUE /\ slot \in [Services -> 0..MaxTip]
    BY <1>1, <1>3 DEF Up, TypeOK
  <2>2. PICK status \in {"refusal", "fail"} : End(s, status)
    BY <1>3 DEF Headers
  <2> QED
    BY <1>3, <2>1, <2>2, CheckStep DEF Headers, bodies
<1>4. CASE Abort(s)
  <2>1. slot \in [Services -> 0..MaxTip]
    BY <1>1 DEF TypeOK
  <2> QED
    BY <1>4, <2>1, CheckStep DEF Abort, bodies
<1>5. CASE Body(s)
  <2>1. slot \in [Services -> 0..MaxTip] /\ disturbed \in BOOLEAN
    BY <1>1 DEF TypeOK
  <2>2. CASE check[s] = "body"
    <3>1. s \in seen
      BY <1>1, <2>2 DEF Heard
    <3> QED
      BY <1>5, <2>1, <2>2, <3>1, CheckStep DEF Body, bodies
  <2>3. CASE check[s] = "refusal"
    <3>1. disturbed
      BY <1>1, <2>3 DEF Heard
    <3> QED
      BY <1>5, <2>1, <2>3, <3>1, CheckStep DEF Body, bodies
  <2> QED
    BY <1>5, <2>2, <2>3 DEF Body, bodies
<1>6. CASE BodyFails(s)
  <2>1. disturbed = TRUE /\ slot \in [Services -> 0..MaxTip]
    BY <1>1, <1>6 DEF BodyFails, Up, TypeOK
  <2> QED
    BY <1>6, <2>1, CheckStep DEF BodyFails, bodies
<1> QED
  BY <1>2, <1>3, <1>4, <1>5, <1>6 DEF Check

-----------------------------------------------------------------------------
(* The steps of an attempt, and of time.                                    *)

LEMMA EndAttemptInd ==
  ASSUME PollInv, EndAttempt
  PROVE  PollInv'
<1>1. TypeOK /\ Heard /\ TipsMatch /\ Up /\ Place /\ Reported /\ OnTime /\ GivesUpLate
  BY Parts
<1>2. /\ phase = "checking" /\ running = {}
      /\ UNCHANGED <<clock, ready, tip, check, slot, attempts, disturbed, seen, changes>>
  BY DEF EndAttempt
<1>3. running' = {}
  BY <1>2 DEF running
<1>4. \A s \in Services : check[s] \in {"pass", "fail"}
  BY <1>1, <1>2 DEF running, TypeOK
<1>5. Heard' /\ Up'
  BY <1>1, <1>2 DEF Heard, Up
<1>8. TipsMatch'
  <2>1. phase' # "checking"
    BY DEF EndAttempt
  <2> QED
    BY <2>1 DEF TipsMatch
<1>6. CASE last
  <2>1. phase' = "done" /\ result' = report /\ began' = began
    BY <1>6 DEF EndAttempt
  <2>2. report \in {"pass", "fail"}
    BY DEF report
  <2>3. TypeOK' /\ Place' /\ OnTime'
    BY <1>1, <1>2, <1>3, <2>1, <2>2 DEF TypeOK, Place, OnTime
  <2>4. FailHasCause'
    <3>1. ASSUME report = "fail" PROVE disturbed
      <4>1. CASE \E s \in Services : check[s] # "pass"
        BY <1>1, <1>4, <4>1 DEF Heard
      <4>2. CASE \A s \in Services : check[s] = "pass"
        <5>1. slot[Kupo] # slot[Ogmios]
          BY <3>1, <4>2 DEF report
        <5> QED
          BY <1>1, <1>2, <4>2, <5>1, ConstantsAssumption DEF TipsMatch
      <4> QED
        BY <4>1, <4>2
    <3> QED
      BY <1>2, <2>1, <3>1 DEF FailHasCause
  <2>5. PassIsOfOneAttempt'
    <3>1. ASSUME report = "pass" PROVE seen = Services /\ slot[Kupo] = slot[Ogmios]
      BY <1>1, <3>1 DEF report, Heard, TypeOK
    <3> QED
      BY <1>2, <2>1, <3>1 DEF PassIsOfOneAttempt
  <2>6. GivesUpLate'
    BY <1>2, <1>6, <2>1 DEF last, GivesUpLate
  <2> QED
    BY <1>5, <1>8, <2>3, <2>4, <2>5, <2>6, PartsAfter DEF Reported
<1>7. CASE ~last
  <2>1. phase' = "sleeping" /\ began' = clock + sleep /\ result' = result
    BY <1>7 DEF EndAttempt
  <2>2. clock \in Nat /\ clock < Wait
    BY <1>1, <1>7, ConstantsAssumption DEF last, TypeOK
  <2>3. sleep \in Nat /\ clock + sleep \in 0..Wait /\ clock <= clock + sleep
    BY <2>2, ConstantsAssumption DEF sleep
  <2>4. TypeOK'
    BY <1>1, <1>2, <2>1, <2>3 DEF TypeOK
  <2>5. Place' /\ OnTime'
    BY <1>1, <1>2, <1>3, <2>1, <2>3 DEF Place, OnTime
  <2>6. Reported' /\ GivesUpLate'
    BY <1>1, <1>2, <2>1 DEF Place, Reported, FailHasCause, PassIsOfOneAttempt, GivesUpLate
  <2> QED
    BY <1>5, <1>8, <2>4, <2>5, <2>6, PartsAfter
<1> QED
  BY <1>6, <1>7

LEMMA NextAttemptInd ==
  ASSUME PollInv, NextAttempt
  PROVE  PollInv'
<1>1. TypeOK /\ Heard /\ TipsMatch /\ Up /\ Place /\ Reported /\ OnTime /\ GivesUpLate
  BY Parts
<1>2. /\ phase = "sleeping" /\ clock >= began
      /\ phase' = "checking" /\ began' = clock /\ attempts' = attempts + 1
      /\ check' = [s \in Services |-> "asking"]
      /\ disturbed' = (ready # Services) /\ seen' = ready
      /\ UNCHANGED <<slot, result, clock, ready, tip, changes>>
  BY DEF NextAttempt, Begin, asked
<1>3. clock \in 0..Wait /\ clock <= clock + Timeout
  BY <1>1, <1>2, ConstantsAssumption DEF TypeOK, Place
<1>4. disturbed' \in BOOLEAN /\ attempts' \in Nat \ {0}
  BY <1>1, <1>2 DEF TypeOK
<1>5. TypeOK'
  BY <1>1, <1>2, <1>3, <1>4 DEF TypeOK
<1>6. Heard' /\ TipsMatch' /\ Up' /\ OnTime'
  BY <1>2, <1>3, ConstantsAssumption DEF Heard, TipsMatch, Up, OnTime
<1>7. Place' /\ Reported' /\ GivesUpLate'
  BY <1>1, <1>2 DEF Place, Reported, FailHasCause, PassIsOfOneAttempt, GivesUpLate
<1> QED
  BY <1>5, <1>6, <1>7, PartsAfter

LEMMA ServiceInd ==
  ASSUME PollInv, NEW s \in Services, Start(s) \/ Stop(s)
  PROVE  PollInv'
<1>1. TypeOK /\ Heard /\ TipsMatch /\ Up /\ Place /\ Reported /\ OnTime /\ GivesUpLate
  BY Parts
<1>2. UNCHANGED <<clock, tip, phase, began, check, slot, attempts, result>>
  BY DEF Start, Stop, program
<1>3. /\ ready' \subseteq seen' /\ seen \subseteq seen' /\ seen' \subseteq Services
      /\ ready' \subseteq Services
      /\ changes' \in 0..MaxChanges
      /\ disturbed' \in BOOLEAN /\ (disturbed => disturbed')
      /\ ~disturbed' => ready' = Services
  <2>1. changes' \in 0..MaxChanges
    BY <1>1, ConstantsAssumption DEF Start, Stop, TypeOK
  <2>2. CASE Start(s)
    BY <1>1, <2>1, <2>2 DEF Start, TypeOK, Up
  <2>3. CASE Stop(s)
    BY <1>1, <2>1, <2>3 DEF Stop, TypeOK, Up
  <2> QED
    BY <2>2, <2>3
<1>4. TypeOK'
  BY <1>1, <1>2, <1>3 DEF TypeOK
<1>5. Heard' /\ TipsMatch' /\ Up'
  BY <1>1, <1>2, <1>3 DEF Heard, TipsMatch, Up
<1>6. Place' /\ OnTime' /\ GivesUpLate'
  BY <1>1, <1>2 DEF Place, running, OnTime, GivesUpLate
<1>7. Reported'
  BY <1>1, <1>2, <1>3 DEF Reported, FailHasCause, PassIsOfOneAttempt, TypeOK
<1> QED
  BY <1>4, <1>5, <1>6, <1>7, PartsAfter

LEMMA BlockInd ==
  ASSUME PollInv, NewBlock
  PROVE  PollInv'
<1>1. TypeOK /\ Heard /\ TipsMatch /\ Up /\ Place /\ Reported /\ OnTime /\ GivesUpLate
  BY Parts
<1>2. /\ UNCHANGED <<clock, ready, phase, began, check, slot, attempts, result, seen, changes>>
      /\ disturbed' = (disturbed \/ betweenAnswers)
  BY DEF NewBlock, program
<1>3. tip' \in 0..MaxTip
  BY <1>1, ConstantsAssumption DEF NewBlock, TypeOK
<1>8. disturbed' \in BOOLEAN /\ (disturbed => disturbed')
  BY <1>1, <1>2 DEF TypeOK, betweenAnswers
<1>4. TypeOK'
  BY <1>1, <1>2, <1>3, <1>8 DEF TypeOK
<1>5. Heard' /\ Up'
  BY <1>1, <1>2, <1>8 DEF Heard, Up
<1>9. TipsMatch'
  BY <1>1, <1>2 DEF TipsMatch, betweenAnswers
<1>6. Place' /\ OnTime' /\ GivesUpLate'
  BY <1>1, <1>2 DEF Place, running, OnTime, GivesUpLate
<1>7. Reported'
  BY <1>1, <1>2, <1>8 DEF Reported, FailHasCause, PassIsOfOneAttempt
<1> QED
  BY <1>4, <1>5, <1>6, <1>7, <1>9, PartsAfter

LEMMA TickInd ==
  ASSUME PollInv, Tick
  PROVE  PollInv'
<1>1. TypeOK /\ Heard /\ TipsMatch /\ Up /\ Place /\ Reported /\ OnTime /\ GivesUpLate
  BY Parts
<1>2. /\ UNCHANGED <<ready, tip, phase, began, check, slot, attempts, result, disturbed, seen,
                     changes>>
      /\ clock' = clock + 1
  BY DEF Tick, program
<1>3. clock \in Nat /\ began \in Nat /\ Timeout \in Nat /\ clock' \in 0..MaxTime
  BY <1>1, <1>2, ConstantsAssumption DEF Tick, TypeOK
<1>4. /\ phase = "checking" => \A s \in running : check[s] = "asking" => clock < began + Timeout
      /\ phase = "sleeping" => clock < began
      /\ phase \in {"checking", "sleeping"}
  BY DEF Tick
<1>5. TypeOK'
  BY <1>1, <1>2, <1>3 DEF TypeOK
<1>6. Heard' /\ TipsMatch' /\ Up' /\ Reported'
  BY <1>1, <1>2 DEF Heard, TipsMatch, Up, Reported, FailHasCause, PassIsOfOneAttempt
<1>7. phase = "sleeping" => clock' <= began'
  BY <1>2, <1>3, <1>4
<1>8. Place'
  BY <1>1, <1>2, <1>7 DEF Place, running
<1>9. OnTime'
  BY <1>1, <1>2, <1>3, <1>4 DEF OnTime, running
<1>10. GivesUpLate'
  BY <1>1, <1>2, <1>4 DEF Place, GivesUpLate
<1> QED
  BY <1>5, <1>6, <1>8, <1>9, <1>10, PartsAfter

-----------------------------------------------------------------------------
(* The theorems.                                                            *)

LEMMA InitInd ==
  ASSUME Init
  PROVE  PollInv
<1>1. TypeOK
  BY ConstantsAssumption DEF Init, TypeOK
<1>2. Heard /\ TipsMatch /\ Up /\ Place /\ Reported /\ GivesUpLate
  BY ConstantsAssumption DEF Init, Heard, TipsMatch, Up, Place, Reported,
                             FailHasCause, PassIsOfOneAttempt, GivesUpLate
<1>3. OnTime
  BY ConstantsAssumption DEF Init, OnTime
<1> QED
  BY <1>1, <1>2, <1>3, Parts

\* What an attempt has heard is of this attempt, for any number of services,
\* any timing of their answers and any changes of the chain.
THEOREM Invariance == Spec => []PollInv
<1>1. PollInv /\ [Next]_vars => PollInv'
  <2> SUFFICES ASSUME PollInv, [Next]_vars PROVE PollInv'
    OBVIOUS
  <2>1. CASE UNCHANGED vars
    <3>1. UNCHANGED <<clock, ready, tip, phase, began, check, slot, attempts, result, disturbed,
                      seen, changes>>
      BY <2>1 DEF vars, program
    <3> QED
      BY <3>1 DEF PollInv, TypeOK, FailHasCause, DeadlineIsKept, PassIsOfOneAttempt,
                       TipsMatch, running
  <2> QED
    BY <2>1, CheckInd, EndAttemptInd, NextAttemptInd, ServiceInd, BlockInd, TickInd DEF Next
<1> QED
  BY <1>1, InitInd, PTL DEF Spec

\* A failure that is reported has a cause in the last attempt.
THEOREM FailTheorem == Spec => []FailHasCause
<1>1. PollInv => FailHasCause
  BY DEF PollInv
<1> QED
  BY <1>1, Invariance, PTL

\* A success that is reported was heard in one attempt, from every service.
THEOREM PassTheorem == Spec => []PassIsOfOneAttempt
<1>1. PollInv => PassIsOfOneAttempt
  BY DEF PollInv
<1> QED
  BY <1>1, Invariance, PTL

\* Polling does not give up before its deadline, and does not ask after it for
\* longer than one request may take.
THEOREM DeadlineTheorem == Spec => []DeadlineIsKept
<1>1. PollInv => DeadlineIsKept
  BY DEF PollInv
<1> QED
  BY <1>1, Invariance, PTL
=============================================================================
