SPECIFICATION Spec

CONSTANTS
    Worker = {1, 2}
    Request = {r1}
    TimelinePoints = 2
    MaxUserId = 5
    MaxRequests = 4
    Targets = {0, 1, 3, 5}
    MaxFaults = 2
    MaxFlaps = 1

INVARIANTS
    TypeOK
    ContiguousUsers
    CommandsInOrder
    DeliveredMatchesAssigned
    TimelineMatchesUsers
    BalancedStart

PROPERTIES
    ImplementsLifecycle
