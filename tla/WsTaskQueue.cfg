SPECIFICATION FairSpec
CONSTANTS
    Producers = {p1, p2}
    Controllers = {c1, c2}
    NoOne = NoOne
    QueueSize = 2
    MaxMsgs = 3
    MaxQueues = 2
INVARIANTS
    SendOnLiveQueue
    OneCustodian
    DrainedBeforePark
PROPERTIES
    StopParks
    EveryMessageReleased
    ImplementsHandoff
