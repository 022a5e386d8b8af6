SPECIFICATION Spec
CONSTANTS
    Jobs = {j1, j2, j3}
    Requests <- MCRequests
    SpmEntry <- MCSpmEntry
    Users = {"u1"}
    MaxDied = 2
    MaxToggles = 1
    MaxStarts = 2
    Faults = {"inc", "dec", "rebuild", "spawn", "crash", "nosupp", "strdup"}
    MaxFaults = 1
SYMMETRY JobSymmetry
INVARIANTS TypeOK  LockRefsExact LatestDeathsKept
CHECK_DEADLOCK FALSE
