SPECIFICATION FairSpec
CONSTANTS
    Producers = {p1, p2}
    Controllers = {c1}
    SlotCount = 2
    MaxMsgs = 3
    MaxPools = 2
    MaxTimeouts = 1
INVARIANTS
    SlotExclusive
    SentIntact
    TakenIsHeld
PROPERTIES
    FreedDrained
    SlotComesBack
CHECK_DEADLOCK FALSE
