--------------------------- MODULE MCMetricsPoller ---------------------------
(***************************************************************************)
(* MetricsPoller on small instances.                                       *)
(***************************************************************************)
EXTENDS MetricsPoller
=============================================================================
