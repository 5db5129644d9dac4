---------------------------- MODULE MCLifecycle ----------------------------
(***************************************************************************)
(* Lifecycle on small instances.  The sizes are in the .cfg files.         *)
(***************************************************************************)
EXTENDS Lifecycle, TLC

Slots == Permutations(Request)
=============================================================================
