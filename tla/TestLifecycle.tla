--------------------------- MODULE TestLifecycle ---------------------------
(***************************************************************************)
(* What the lifecycle of a load test promises to its operator: four        *)
(* states, an epoch per test, and a population that only an active test    *)
(* has.  A start that fails takes its test back by itself.                 *)
(***************************************************************************)
EXTENDS Naturals

VARIABLES
    state, epoch, population,
    failed    \* a start has failed and is being taken back

vars == <<state, epoch, population, failed>>

Init == state = "IDLE" /\ epoch = 0 /\ population = 0 /\ failed = FALSE

\* A new test: the next epoch, nobody left over from the one before.
Start ==
    /\ state = "IDLE" /\ state' = "PREPARING"
    /\ epoch' = epoch + 1
    /\ UNCHANGED <<population, failed>>

Commit ==
    /\ state = "PREPARING" /\ ~failed
    /\ state' = "RUNNING"
    /\ UNCHANGED <<epoch, population, failed>>

\* The start fails, if need be with the answer to its commit.
Fail ==
    /\ state = "PREPARING" /\ ~failed
    /\ failed' = TRUE
    /\ state' \in {"PREPARING", "RUNNING"}
    /\ UNCHANGED <<epoch, population>>

\* Taking it back fails as well: the test stays as it is by now.
GiveUp ==
    /\ failed /\ failed' = FALSE
    /\ UNCHANGED <<state, epoch, population>>

Join ==
    /\ state \in {"PREPARING", "RUNNING"} /\ ~failed
    /\ population' = population + 1
    /\ UNCHANGED <<state, epoch, failed>>

Leave ==
    /\ state = "RUNNING" /\ ~failed /\ population > 0
    /\ population' = population - 1
    /\ UNCHANGED <<state, epoch, failed>>

Stop ==
    /\ state \in {"PREPARING", "RUNNING"} /\ ~failed
    /\ state' = "STOPPING"
    /\ UNCHANGED <<epoch, population, failed>>

Ending == state = "STOPPING" \/ failed

\* A stop, or the rollback of a start that failed, removes everybody at once.
Clear ==
    /\ Ending
    /\ population' = 0
    /\ UNCHANGED <<state, epoch, failed>>

End ==
    /\ Ending /\ population = 0
    /\ state' = "IDLE" /\ failed' = FALSE
    /\ UNCHANGED <<epoch, population>>

Next == \/ Start \/ Commit \/ Fail \/ GiveUp \/ Join \/ Leave \/ Stop \/ Clear
        \/ End

Spec == Init /\ [][Next]_vars
=============================================================================
