SPECIFICATION Spec

CONSTANTS
    c1 = c1
    c2 = c2
    Cli <- Two
    NoCli = NoCli
    MayRun <- Pairs
    Workers = 1
    MaxPid = 2
    MaxEvents = 1

CHECK_DEADLOCK FALSE

INVARIANTS
    NamedByItsFile

PROPERTIES
    FailedUpLeavesNothing
    SuccessMeansStopped
