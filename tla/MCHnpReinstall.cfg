CONSTANTS
    a = a  b = b  n1 = n1  n2 = n2  n3 = n3  l1 = l1  l2 = l2  none = none
    Haps <- MCHaps
    Names <- MCNames
    Links <- MCLinks
    Bundles <- MCBundles
    Legacy <- MCFresh
    Versions = {1, 2, 3}
    NoVer = none
    MaxOps = 3
    MaxFaults = 0
    MaxStarts = 0
SPECIFICATION Spec
INVARIANT
    CurrentVersionOnDisk
CHECK_DEADLOCK FALSE
