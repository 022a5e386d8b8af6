SPECIFICATION Spec
CONSTANTS
    Jobs = {j1, j2, j3}
    Requests <- MCRequests
    SpmEntry <- MCSpmEntry
    Users = {"u1"}
    MaxDied = 2
    MaxToggles = 1
    MaxStarts = 2
    Faults = {"spawn"}
    MaxFaults = 0
SYMMETRY JobSymmetry
INVARIANT MessageAliveWhenUsed
CHECK_DEADLOCK FALSE
