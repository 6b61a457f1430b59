---------------------------- MODULE MCDeployment ----------------------------
(* Small instances of Deployment for TLC.                                    *)
EXTENDS Deployment

CONSTANTS c1, c2, o1, o2, q1, q2
=============================================================================
