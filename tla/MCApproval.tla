----------------------------- MODULE MCApproval -----------------------------
(* Small instances of ApprovalContract for TLC.                             *)
EXTENDS ApprovalContract, TLC

CONSTANTS s1, s2, s3, a, b, p1, p2, p3

MCSecrets == {s1, s2, s3}

\* One account with two pages open and one with a single page.
MCAccountOf == (p1 :> a @@ p2 :> a @@ p3 :> b)

\* The user of account a holds two secrets, one of which may be no reviewer's.
MCSuppliedBy == (a :> {s1, s3} @@ b :> {s2})

\* Each account's user holds one secret.
MCOneSecretEach == (a :> {s1} @@ b :> {s2})
=============================================================================
