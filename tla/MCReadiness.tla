---------------------------- MODULE MCReadiness ----------------------------
(* Constants for the model checker: the two whose tips are compared and one *)
(* more, such as the proof server.                                          *)
EXTENDS Readiness, TLC

CONSTANTS kupo, ogmios, proof

ThreeServices == {kupo, ogmios, proof}
=============================================================================
