----------------------------- MODULE Readiness -----------------------------
(***************************************************************************)
(* The readiness verifier (infra/check-readiness.mjs): it asks all services *)
(* at once, compares the tips of Kupo and Ogmios, and polls until all is    *)
(* well or a deadline has passed.  Without --wait-ms it makes the first     *)
(* attempt only.                                                            *)
(*                                                                          *)
(* Services come and go and the chain grows while the answers come in.      *)
(* Time is counted in ticks; timers fire on time and code takes none.       *)
(* Abstracted: URLs, and how the body of each service says that it is ready. *)
(***************************************************************************)
EXTENDS Naturals

CONSTANTS
    Services,       \* what the scope selects; the full scope adds the relay
    Kupo, Ogmios,   \* the two of them whose tips are compared
    Timeout,        \* timeoutMs of a request
    Wait,           \* waitMs, the deadline of the polling
    Interval,       \* intervalMs between attempts
    MaxTime,        \* bound: ticks
    MaxTip,         \* bound: blocks
    MaxChanges      \* bound: times a service starts or stops

ASSUME ConstantsAssumption ==
    /\ Kupo \in Services /\ Ogmios \in Services /\ Kupo # Ogmios
    /\ Timeout \in Nat \ {0} /\ Wait \in Nat \ {0}
    /\ Interval \in 1..Wait
    /\ MaxTime \in Nat /\ MaxTip \in Nat /\ MaxChanges \in Nat

VARIABLES
    clock,          \* now(), counted from the start
    ready,          \* services that are up and synchronized
    tip,            \* the slot of the Cardano tip
    phase,          \* "checking", "sleeping" or "done"
    began,          \* when this attempt began, or when the sleep ends
    check,          \* where each check of this attempt is
    slot,           \* the tips Kupo and Ogmios answered with
    attempts,       \* how many attempts there were
    result,         \* the status that is reported
    disturbed,      \* a service was down or slow in this attempt, or a block came
                    \* between the answers of Kupo and Ogmios
    seen,           \* services that were ready at some moment of this attempt
    changes         \* how much of the bound is used

program == <<phase, began, check, slot, attempts, result>>
vars == <<clock, ready, tip, program, disturbed, seen, changes>>

\* The headers have come, and the body will say that the service is ready or not.
bodies == {"body", "refusal"}

running == {s \in Services : check[s] \in {"asking"} \union bodies}

-----------------------------------------------------------------------------
(* request, json and checked, for one service.                              *)

End(s, status) == check' = [check EXCEPT ![s] = status]

\* The service answers, with what it knows at this moment.  One that is not ready
\* refuses the connection, answers with an error status, or says so in its body.
Headers(s) ==
    /\ phase = "checking" /\ check[s] = "asking"
    /\ \/ s \in ready /\ End(s, "body") /\ slot' = [slot EXCEPT ![s] = tip]
       \/ s \notin ready /\ (End(s, "refusal") \/ End(s, "fail")) /\ UNCHANGED slot
    /\ UNCHANGED <<clock, ready, tip, phase, began, attempts, result, disturbed, seen, changes>>

\* The timer aborts a request that has no headers yet.
Abort(s) ==
    /\ phase = "checking" /\ check[s] = "asking" /\ clock >= began + Timeout
    /\ End(s, "fail")
    /\ disturbed' = TRUE
    /\ UNCHANGED <<clock, ready, tip, phase, began, slot, attempts, result, seen, changes>>

\* The body has come; the timer was cleared with the headers.
Body(s) ==
    /\ phase = "checking" /\ check[s] \in bodies
    /\ End(s, IF check[s] = "body" THEN "pass" ELSE "fail")
    /\ UNCHANGED <<clock, ready, tip, phase, began, slot, attempts, result, disturbed, seen,
                   changes>>

\* The connection ends before the body is complete.
BodyFails(s) ==
    /\ phase = "checking" /\ check[s] \in bodies /\ s \notin ready
    /\ End(s, "fail")
    /\ UNCHANGED <<clock, ready, tip, phase, began, slot, attempts, result, disturbed, seen,
                   changes>>

-----------------------------------------------------------------------------
(* checkReadiness and waitForReadiness.                                     *)

\* Wrong, as all definitions so named: they are used to see that a property
\* notices.  Here a check that has passed is not made again.
wrongAsked(s) == IF check[s] = "pass" THEN "pass" ELSE "asking"

\* Wrong: a check that has failed is not made again.
wrongAskedOnce(s) == IF check[s] = "fail" THEN "fail" ELSE "asking"

\* An attempt makes each check of the scope anew.
asked(s) == "asking"

\* All checks of the scope begin at once.
Begin ==
    /\ phase' = "checking" /\ began' = clock /\ attempts' = attempts + 1
    /\ check' = [s \in Services |-> asked(s)]
    /\ disturbed' = (ready # Services) /\ seen' = ready
    /\ UNCHANGED <<slot, result>>

\* Promise.all, and the comparison of the tips.
report ==
    IF (\A s \in Services : check[s] = "pass") /\ slot[Kupo] = slot[Ogmios]
    THEN "pass" ELSE "fail"

\* Wrong: only success ends the polling.
wrongForever == report = "pass"

\* Whether this attempt is the last one.
last == report = "pass" \/ clock >= Wait

\* Wrong: sleeps for the whole interval.
wrongSleep == Interval

\* The sleep does not go beyond the deadline.
sleep == IF Interval <= Wait - clock THEN Interval ELSE Wait - clock

EndAttempt ==
    /\ phase = "checking" /\ running = {}
    /\ IF last
       THEN phase' = "done" /\ result' = report /\ UNCHANGED began
       ELSE phase' = "sleeping" /\ began' = clock + sleep /\ UNCHANGED result
    /\ UNCHANGED <<clock, ready, tip, check, slot, attempts, disturbed, seen, changes>>

NextAttempt ==
    /\ phase = "sleeping" /\ clock >= began
    /\ Begin
    /\ UNCHANGED <<clock, ready, tip, changes>>

-----------------------------------------------------------------------------
(* The environment.                                                         *)

Start(s) ==
    /\ s \notin ready /\ changes < MaxChanges
    /\ ready' = ready \union {s} /\ changes' = changes + 1
    /\ seen' = seen \union {s}
    /\ UNCHANGED <<clock, tip, program, disturbed>>

Stop(s) ==
    /\ s \in ready /\ changes < MaxChanges
    /\ ready' = ready \ {s} /\ changes' = changes + 1
    /\ disturbed' = TRUE
    /\ UNCHANGED <<clock, tip, program, seen>>

\* One of Kupo and Ogmios has answered, and the other is still asked.
betweenAnswers ==
    phase = "checking" /\ ((check[Kupo] = "asking") # (check[Ogmios] = "asking"))

\* A block matters to an attempt only between those two answers.
NewBlock ==
    /\ tip < MaxTip
    /\ tip' = tip + 1
    /\ disturbed' = (disturbed \/ betweenAnswers)
    /\ UNCHANGED <<clock, ready, program, seen, changes>>

\* Time passes when no timer is due and nothing can go on at once.
Tick ==
    /\ clock < MaxTime
    /\ CASE phase = "checking" ->
              /\ running # {}
              /\ \A s \in running : check[s] = "asking" => clock < began + Timeout
         [] phase = "sleeping" -> clock < began
         [] OTHER -> FALSE
    /\ clock' = clock + 1
    /\ UNCHANGED <<ready, tip, program, disturbed, seen, changes>>

-----------------------------------------------------------------------------
Init ==
    /\ clock = 0 /\ tip = 0 /\ changes = 0
    /\ ready \in SUBSET Services
    /\ phase = "checking" /\ began = 0 /\ attempts = 1
    /\ check = [s \in Services |-> "asking"]
    /\ slot = [s \in Services |-> 0]
    /\ result = "none"
    /\ disturbed = (ready # Services) /\ seen = ready

Check(s) == Headers(s) \/ Abort(s) \/ Body(s) \/ BodyFails(s)

Next ==
    \/ \E s \in Services : Check(s) \/ Start(s) \/ Stop(s)
    \/ EndAttempt
    \/ NextAttempt
    \/ NewBlock
    \/ Tick

Spec == Init /\ [][Next]_vars

(* The event loop goes on, bodies arrive, and time passes.                  *)
Fairness ==
    /\ \A s \in Services : WF_vars(Abort(s)) /\ WF_vars(Body(s))
    /\ WF_vars(EndAttempt)
    /\ WF_vars(NextAttempt)
    /\ WF_vars(Tick)

FairSpec == Spec /\ Fairness

-----------------------------------------------------------------------------
(* Properties.                                                              *)

\* Every variable stays in its domain.
TypeOK ==
    /\ clock \in 0..MaxTime
    /\ ready \subseteq Services
    /\ tip \in 0..MaxTip
    /\ phase \in {"checking", "sleeping", "done"}
    /\ began \in 0..Wait
    /\ check \in [Services -> {"asking", "pass", "fail"} \union bodies]
    /\ slot \in [Services -> 0..MaxTip]
    /\ attempts \in Nat \ {0}
    /\ result \in {"none", "pass", "fail"}
    /\ disturbed \in BOOLEAN
    /\ seen \subseteq Services
    /\ changes \in 0..MaxChanges

\* A failure is reported only if something was wrong while the last attempt
\* was made: a service was down or slow, or the chain grew between the answers
\* of Kupo and Ogmios.
FailHasCause == result = "fail" => disturbed

\* Polling does not give up before the deadline.  A pass may come after it: the
\* last attempt begins by the deadline, and its headers have come when the
\* requests have timed out.  Only a body is awaited without a bound, since the
\* timer was cleared with the headers.
DeadlineIsKept ==
    /\ result = "fail" => clock >= Wait
    /\ phase # "done" =>
          /\ began <= Wait
          /\ \A s \in Services : check[s] = "asking" /\ phase = "checking" =>
                clock <= began + Timeout
          /\ clock > Wait + Timeout /\ running # {} => \E s \in Services : check[s] \in bodies

\* Success is of one attempt: every service was ready at a moment of the last
\* attempt, and Kupo and Ogmios were at the same block.
PassIsOfOneAttempt ==
    result = "pass" => seen = Services /\ slot[Kupo] = slot[Ogmios]

\* While nothing disturbs an attempt, Kupo and Ogmios give the same tip; as long
\* as one of them has not answered, it is the present one.
TipsMatch ==
    phase = "checking" /\ ~disturbed =>
        IF check[Kupo] # "asking" /\ check[Ogmios] # "asking"
        THEN slot[Kupo] = slot[Ogmios]
        ELSE \A s \in {Kupo, Ogmios} : check[s] # "asking" => slot[s] = tip

\* The three properties rest on this.  What an attempt has heard so far is of
\* this attempt; nothing is asked while it sleeps; and a sleep ends on time and
\* by the deadline.
PollInv ==
    /\ TypeOK
    /\ FailHasCause
    /\ DeadlineIsKept
    /\ PassIsOfOneAttempt
    /\ ~disturbed => ready = Services
    /\ \A s \in Services :
          /\ check[s] \in {"refusal", "fail"} => disturbed
          /\ check[s] \in {"body", "pass"} => s \in seen
    /\ TipsMatch
    /\ ready \subseteq seen
    /\ phase # "checking" => running = {}
    /\ phase = "sleeping" => clock <= began
    /\ result # "none" <=> phase = "done"

\* The verifier ends with a report.
Reports == <>(phase = "done")
=============================================================================
