SPECIFICATION FairSpec
CONSTANTS
    Sockets = {s1, s2}
    MaxOpens = 3
    MaxFaults = 1
INVARIANTS
    ServedWhenQuiet
    StoppedWhenQuiet
    PendingMeansEmpty
    StartExcludesTeardown
PROPERTIES
    ClientServed
CHECK_DEADLOCK FALSE
