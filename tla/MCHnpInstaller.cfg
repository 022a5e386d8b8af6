CONSTANTS
    a = a  b = b  n1 = n1  n2 = n2  n3 = n3  l1 = l1  l2 = l2  none = none
    Haps <- MCHaps
    Names <- MCNames
    Links <- MCLinks
    Bundles <- MCBundles
    Legacy <- MCLegacy
    Versions = {1, 2, 3}
    NoVer = none
    MaxOps = 3
    MaxFaults = 1
    MaxStarts = 1
SPECIFICATION Spec
INVARIANTS
    InstallOkMeansUsable NothingLeftUnsigned NoOrphanVersions
PROPERTIES ForeignVersionsIntact
CHECK_DEADLOCK FALSE
