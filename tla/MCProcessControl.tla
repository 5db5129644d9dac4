-------------------------- MODULE MCProcessControl --------------------------
(***************************************************************************)
(* ProcessControl on a small instance: any command, and a second one that  *)
(* starts or stops servers or replaces the container.                      *)
(***************************************************************************)
EXTENDS ProcessControl, TLC

CONSTANTS c1, c2

Two == {c1, c2}
Pairs == (c1 :> Op \ {"none"}) @@ (c2 :> {"start", "stop", "down", "redis restart"})
=============================================================================
