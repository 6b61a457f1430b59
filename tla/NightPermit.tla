---------------------------- MODULE NightPermit ----------------------------
(* What the whole of NightPermit promises about one milestone: two private   *)
(* approvals, then one permit, then one payment.                             *)
EXTENDS FiniteSets

CONSTANT Reviewers          \* the two reviewers of the milestone

VARIABLES
    approvedBy,             \* the reviewers whose approval is recorded
    attested,               \* the relay has signed a permit
    paid                    \* the beneficiary has been paid

Init == approvedBy = {} /\ attested = FALSE /\ paid = FALSE

Approve(r) ==
    /\ r \notin approvedBy
    /\ approvedBy' = approvedBy \union {r}
    /\ UNCHANGED <<attested, paid>>

Attest ==
    /\ approvedBy = Reviewers /\ ~attested
    /\ attested' = TRUE
    /\ UNCHANGED <<approvedBy, paid>>

Pay ==
    /\ attested /\ ~paid
    /\ paid' = TRUE
    /\ UNCHANGED <<approvedBy, attested>>

Next == (\E r \in Reviewers : Approve(r)) \/ Attest \/ Pay

Spec == Init /\ [][Next]_<<approvedBy, attested, paid>>
=============================================================================
