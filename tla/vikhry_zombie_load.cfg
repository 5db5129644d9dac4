SPECIFICATION SystemSpec

CONSTANTS
    Worker = {1}
    Request = {r1, r2}
    TimelinePoints = 50
    MaxUserId = 1
    MaxRequests = 2
    Targets = {0, 1}
    MaxFaults = 0
    MaxFlaps = 0
    MaxEpoch = 1
    MaxQueue = 1
    MaxWorkerFaults = 0

INVARIANTS
    NoLoadWhenIdle
