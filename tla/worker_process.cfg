SPECIFICATION FairSpec
CONSTANTS
    w1 = w1
    Worker <- Workers
    Timeout = 1
    MaxLives = 2
    MaxRequests = 3
    MaxFaults = 1
    MaxLate = 1
INVARIANTS
    LeavesNothingBehind
    WorkersFollow
    OneStray
PROPERTIES
    ViewConverges
CHECK_DEADLOCK FALSE
