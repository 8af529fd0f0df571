SPECIFICATION Spec
CONSTANTS
    Producers = {p1, p2}
    Controllers = {c1}
    SlotCount = 2
    MaxMsgs = 3
    MaxPools = 2
    MaxTimeouts = 0
SYMMETRY ProducerSymmetry
INVARIANTS
    HolderStorageAlive
CHECK_DEADLOCK FALSE
