---------------------------- MODULE MCVirtualUser ----------------------------
(***************************************************************************)
(* VirtualUser with a scenario of three steps.                             *)
(***************************************************************************)
EXTENDS VirtualUser

\* "login" once in a while, "buy" after it, with a timeout, "look" all the time.
Scenario         == {"login", "buy", "look"}
ScenarioRequires == [s \in Scenario |-> IF s = "buy" THEN {"login"} ELSE {}]
ScenarioEvery    == [s \in Scenario |->
                        CASE s = "login" -> {3} [] s = "buy" -> {1, 2} [] OTHER -> {0, 1}]
ScenarioTimeout  == [s \in Scenario |-> IF s = "buy" THEN 1 ELSE 0]
=============================================================================
