SPECIFICATION SystemFairSpec

CONSTANTS
    Worker = {1, 2}
    Request = {r1}
    TimelinePoints = 50
    MaxUserId = 2
    MaxRequests = 3
    Targets = {0, 1, 2}
    MaxFaults = 0
    MaxFlaps = 0
    MaxEpoch = 1
    MaxQueue = 1
    MaxWorkerFaults = 0

INVARIANTS
    WorkersAgree
    IdleEverywhere

PROPERTIES
    LoadSettles
