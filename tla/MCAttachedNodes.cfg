\* Two nodes whose configs name the same FMU.
SPECIFICATION Spec
CONSTANTS
    a = a
    sameAsA = sameAsA
    otherThanA = otherThanA
    b = b
    both = both
    noLibrary = noLibrary
    n = n
    m = m
    Null = Null
    NoClient = NoClient
    Dirs <- AllDirs
    Description <- Files
    Identifiers <- Ids
    FmuType <- Types
    Library <- Binaries
    Names = {n, m}
    MaxDevices = 4
    Objects = {1, 2, 3, 4}
    ConfigLists <- TwoOfOne
INVARIANTS
    EveryNodeHasDevice
