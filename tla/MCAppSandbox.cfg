CONSTANTS
    NoDoc = NoDoc
    NoSection = NoSection
    Dirs <- MCDirs
    Requests <- MCRequests
    Modes = {"app", "nweb"}
    Owners = {"o1"}
    NoShareFs = FALSE
    PidNsSupport = TRUE
    AppMaxGids = 2
    MaxPolicyNum = 5
    BatchSize = 3
    MaxFaults = 2
    MaxUpdates = 2
    MaxSpawns = 2
SPECIFICATION Spec
CHECK_DEADLOCK FALSE
INVARIANTS
    EnteredMeansComplete
    OnlyFuseOnHost
    ControlledListFresh
    DebugSandboxRemoved
    DenialsGoWithGrants
