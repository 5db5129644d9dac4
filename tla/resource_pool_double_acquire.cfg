SPECIFICATION Spec

CONSTANTS
    Creator = {c1}
    User = {v1, v2}
    MaxId = 2
    MaxFaults = 0
    MaxCancels = 0

INVARIANTS
    Exclusive
