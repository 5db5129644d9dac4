SPECIFICATION Spec

CONSTANTS
    Creator = {c1, c2}
    User = {v1, v2}
    MaxId = 2
    MaxFaults = 1
    MaxCancels = 1

SYMMETRY Interchangeable

INVARIANTS
    PoolIsIntact
    EnsureReaches

PROPERTIES
    OnlyRacesDuplicate
    OnlySyncDuplicates
