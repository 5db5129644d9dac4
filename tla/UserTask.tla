------------------------------- MODULE UserTask -------------------------------
(***************************************************************************)
(* What the dispatcher of a worker relies on in the task of a virtual      *)
(* user: the stages of WorkerDispatcher, and when the user can be listed   *)
(* in active_users.                                                        *)
(***************************************************************************)
VARIABLES stage, listed

vars == <<stage, listed>>

Init == stage = "starting" /\ listed = FALSE

Starts == stage = "starting" /\ stage' = "adding" /\ UNCHANGED listed

Activated == stage = "adding" /\ stage' = "active" /\ listed' = TRUE

Leaves == stage = "leaving" /\ stage' = "closing" /\ listed' = FALSE

Ends == stage = "closing" /\ stage' = "none" /\ UNCHANGED listed

\* Cancelled, or an exception: SADD and SREM may have been applied or not.
Interrupted ==
    \/ stage \in {"starting", "closing"} /\ UNCHANGED listed
       /\ stage' \in {"closing", "none"}
    \/ stage = "adding" /\ stage' = "closing" /\ listed' \in BOOLEAN
    \/ stage = "active" /\ stage' = "leaving" /\ UNCHANGED listed
    \/ stage = "leaving" /\ stage' = "closing" /\ listed' \in {listed, FALSE}

Next == Starts \/ Activated \/ Leaves \/ Ends \/ Interrupted

Spec == Init /\ [][Next]_vars
=============================================================================
