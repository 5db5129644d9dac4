SPECIFICATION FairSpec

CONSTANTS
    Metric = {1, 2}
    Subscriber = {s1}
    PollLimit = 1
    QueueLimit = 1
    MaxEvents = 3
    MaxResets = 1
    MaxFaults = 1

INVARIANTS
    EventsCountOnce
    ClientsCatchUp

PROPERTIES
    AllCounted
