SPECIFICATION Spec
CONSTANTS
    Savers = {s1, s2}
    FileUser = FileUser
    NoOne = NoOne
    Absent = Absent
    Torn = Torn
    MaxShorts = 0
    MaxVersion = 2
    MaxFaults = 0
    MaxCuts = 0
INVARIANTS
    ReportedChangePersists
SYMMETRY SaverSymmetry
