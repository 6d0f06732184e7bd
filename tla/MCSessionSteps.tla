---------------------------- MODULE MCSessionSteps ----------------------------
(* Small instances of SessionSteps for TLC.                                *)
EXTENDS SessionSteps, TLC

BlockSymmetry == Permutations(Blocks)
=============================================================================
