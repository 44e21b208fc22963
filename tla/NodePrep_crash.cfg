CONSTANTS
    Nothing = Nothing
    Torn = Torn
    Procs = {p1}
    NOrgs = 2
    NNodes = 2
    Passwords = {w1, w2, w3, w4}
    Templates = {t1, t2}
    KeyNames = {k1}
    FaultKinds = {"kill", "error"}
    MaxFaults = 3
    MaxEdits = 1
SPECIFICATION Spec
SYMMETRY Symmetry
INVARIANTS PassMeansReady CrashConsistent
