SPECIFICATION DispatcherFairSpec

CONSTANTS
    Worker = {1}
    MaxUserId = 2
    MaxEpoch = 3
    MaxQueue = 1
    MaxWorkerFaults = 1

INVARIANTS
    TasksBelong
    IdleIsQuiet

PROPERTIES
    DispatcherReturns
