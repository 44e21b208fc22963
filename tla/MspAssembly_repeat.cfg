CONSTANTS
    Nothing = Nothing
    Procs = {p1, p2}
    NLocals = 1
    NOrgs = 2
    NFiles = 2
    Roots = {r1}
    FaultKinds = {"kill", "error"}
    MaxFaults = 1
    MaxEdits = 0
SPECIFICATION FairSpec
PROPERTY RepeatedBuildCompletes
