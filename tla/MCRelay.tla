------------------------------ MODULE MCRelay ------------------------------
(* Small instances of PermitRelay for TLC.                                  *)
EXTENDS PermitRelay, TLC

CONSTANTS r1, r2, t1, t2, t3, k1, k2

\* Nothing tells requests, keys or transactions of one kind apart.
RelaySymmetry ==
    Permutations(Requests) \union Permutations(Authorizing) \union Permutations(RelayKeys)
=============================================================================
