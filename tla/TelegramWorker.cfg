SPECIFICATION Spec

CONSTANTS
    Bots = {b1, b2}
    FirstBot = b1
    NoToken = NoToken
    Capacity = 2
    Kept = 2
    Limit = 2
    MaxUpdates = 2
    MaxMsgs = 3
    MaxTroubles = 2

INVARIANTS
    SentInOrder
    NothingSkipped
    RerunsBounded

PROPERTIES
    UpdateServed
    MessageLeaves

CHECK_DEADLOCK FALSE
