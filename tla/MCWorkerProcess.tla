--------------------------- MODULE MCWorkerProcess ---------------------------
(***************************************************************************)
(* One worker: workers share nothing but the scan and the broadcast of the *)
(* orchestrator, which treat them one by one.                              *)
(***************************************************************************)
EXTENDS WorkerProcess

CONSTANT w1

Workers == {w1}
=============================================================================
