------------------------- MODULE MilestoneApproval -------------------------
(***************************************************************************)
(* What the private approval side of NightPermit promises, without saying   *)
(* how: the two reviewers of one milestone each approve at most once, in    *)
(* either order, and the milestone becomes authorized in the very step in   *)
(* which the second of them approves.                                       *)
(***************************************************************************)
EXTENDS FiniteSets

CONSTANT Reviewers          \* the two reviewers of the milestone

VARIABLES
    approvedBy,             \* the reviewers whose approval is recorded
    authorized              \* the milestone may be paid

Init ==
    /\ approvedBy = {}
    /\ authorized = FALSE

Approve(r) ==
    /\ r \notin approvedBy
    /\ approvedBy' = approvedBy \union {r}
    /\ authorized' = (approvedBy' = Reviewers)

Next == \E r \in Reviewers : Approve(r)

Spec == Init /\ [][Next]_<<approvedBy, authorized>>
=============================================================================
