--------------------------- MODULE MCRollingWindow ---------------------------
(***************************************************************************)
(* Four events of any seconds, with two codes of the scenario and one that *)
(* is named "OTHER".  With so few samples 95 and 99 would always name the  *)
(* last one; the percentiles here differ for two, three and four samples.  *)
(***************************************************************************)
EXTENDS RollingWindow

Seconds     == 0 .. 4
Codes       == 0 .. 2
Latencies   == 1 .. 3
Quantiles   == {0, 25, 34, 50, 75, 100}

Measurements ==
    { [error |-> FALSE, fatal |-> FALSE, code |-> 1,      latency |-> 2],
      [error |-> TRUE,  fatal |-> FALSE, code |-> 2,      latency |-> 3],
      [error |-> FALSE, fatal |-> FALSE, code |-> NoCode, latency |-> 1],
      [error |-> TRUE,  fatal |-> TRUE,  code |-> Other,  latency |-> NoTime] }
=============================================================================
