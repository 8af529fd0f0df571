SPECIFICATION Spec
CONSTANTS
    Savers = {s1}
    FileUser = FileUser
    NoOne = NoOne
    Absent = Absent
    Torn = Torn
    MaxShorts = 0
    MaxVersion = 2
    MaxFaults = 0
    MaxCuts = 1
PROPERTIES
    SaveIsAtomic
