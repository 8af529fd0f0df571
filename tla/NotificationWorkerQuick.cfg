SPECIFICATION Spec
CONSTANTS
    Callers = {c1}
    Boot = Boot
    Power = Power
    Worker = Worker
    NoOne = NoOne
    MaxStarts = 3
    MaxTimeouts = 1
    MaxFailures = 0
INVARIANTS
    ReenableRuns
CHECK_DEADLOCK FALSE
