--------------------------- MODULE MCResourcePool ---------------------------
(***************************************************************************)
(* ResourcePool on small instances.                                        *)
(***************************************************************************)
EXTENDS ResourcePool, TLC

Interchangeable == Permutations(Creator) \union Permutations(User)
=============================================================================
