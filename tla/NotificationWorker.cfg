SPECIFICATION FairSpec
CONSTANTS
    Callers = {c1, c2}
    Boot = Boot
    Power = Power
    Worker = Worker
    NoOne = NoOne
    MaxStarts = 3
    MaxTimeouts = 2
    MaxFailures = 2
INVARIANTS
    FlagsWhileAlive
    DisabledStops
    EnabledRuns
PROPERTIES
    ImplementsLife
    StopHonoured
CHECK_DEADLOCK FALSE
