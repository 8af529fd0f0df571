SPECIFICATION FairSpec
CONSTANTS
    Savers = {s1, s2, s3}
    FileUser = FileUser
    NoOne = NoOne
    Absent = Absent
    Torn = Torn
    MaxVersion = 3
    MaxFaults = 2
    MaxShorts = 1
    MaxCuts = 2
INVARIANTS
    BootableWhenIdle
    FailedSaveKeepsFile
    SurvivesOneFault
PROPERTIES
    ImplementsStore
    SaveReturns
