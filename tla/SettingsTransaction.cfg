SPECIFICATION FairSpec
CONSTANTS
    Tasks = {t1, t2}
    None = None
    MaxVersions = 2
    MaxFaults = 2
    MaxRestarts = 2
INVARIANTS
    
    LiveFollowsStore
PROPERTIES
    
    AccessReleased
CHECK_DEADLOCK FALSE
