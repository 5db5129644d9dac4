------------------------------ MODULE MCVikhry ------------------------------
(***************************************************************************)
(* The composed system on small instances.                                 *)
(***************************************************************************)
EXTENDS Vikhry, TLC

Slots == Permutations(Request)
=============================================================================
