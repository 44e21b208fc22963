CONSTANTS
    Nothing = Nothing
    Procs = {p1, p2}
    NLocals = 1
    NOrgs = 2
    NFiles = 2
    Roots = {r1, r2}
    FaultKinds = {"kill", "error"}
    MaxFaults = 1
    MaxEdits = 1
SPECIFICATION Spec
SYMMETRY Symmetry
INVARIANTS TypeOK PassMeansAssembled RerunAgrees FailsClosed PublicComplete CompletesAlone
PROPERTY ImplementsWriteOnce
