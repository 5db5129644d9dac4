SPECIFICATION FairSpec

CONSTANTS
    Step <- Scenario
    Requires <- ScenarioRequires
    Every <- ScenarioEvery
    Timeout <- ScenarioTimeout
    IdleSleep = 1
    MaxCancels = 2
    MaxFaults = 1

INVARIANTS
    StepsAreAwaited
    OneCancelIsClean

PROPERTIES
    ImplementsTask
    CancelEnds
    ReadyRuns
