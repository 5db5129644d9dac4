SPECIFICATION FairSpec

CONSTANTS
    Worker = {1}
    Request = {r1, r2}
    TimelinePoints = 50
    MaxUserId = 2
    MaxRequests = 3
    Targets = {0, 1, 2}
    MaxFaults = 0
    MaxFlaps = 1

INVARIANTS
    MembersAreAssigned
    EpochFence

PROPERTIES
    LifecycleEdges
    TransientStatesEnd
