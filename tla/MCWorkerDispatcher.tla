------------------------- MODULE MCWorkerDispatcher -------------------------
(***************************************************************************)
(* WorkerDispatcher on one worker; users are interchangeable to it but are *)
(* numbers, so no symmetry is used.                                        *)
(***************************************************************************)
EXTENDS WorkerDispatcher
=============================================================================
