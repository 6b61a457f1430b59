----------------------------- MODULE MCWebFlow -----------------------------
(* Small instances of WebFlow for TLC.                                       *)
EXTENDS WebFlow, TLC

CONSTANTS p1, p2, r1, r2

\* Both reviewers work in the first browser, one of them in the second too.
SharedBrowsers == p1 :> {r1, r2} @@ p2 :> {r2}
=============================================================================
