SPECIFICATION Spec

CONSTANTS
    NumRules = 1
    Turn = 3
    Cooldown = 2
    QueueSize = 1
    MaxUpsets = 2

INVARIANTS
    RelayFollows
    DisplayFollows

PROPERTIES
    AlertsOnTime
    AlarmRaised
    LatchReleased

CHECK_DEADLOCK FALSE
