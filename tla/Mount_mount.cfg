\* Three disk files, two names, a kill, a power loss, a failing call, a disk
\* file that disappears, and one directory stream at a time.
CONSTANTS
    Names <- MCNames
    Schemes = {s1}
    DefaultScheme = s1
    MaxInodes = 4
    MaxSize = 0
    DiskCount = 3
    MaxLog = 7
    MaxPage = 2
    MaxKills = 1
    MaxLosses = 1
    MaxFaults = 1
    MaxGone = 1
SPECIFICATION FairSpec
INVARIANTS NamesKept RootServed ListsOnce
PROPERTIES LogOnlyGrows WholePoolMounts
