\* Two FMU objects and the ten directories of MCFmuObjects.
SPECIFICATION Spec
CONSTANTS
    a = a
    sameAsA = sameAsA
    otherThanA = otherThanA
    model = model
    slave = slave
    both = both
    badUri = badUri
    invalid = invalid
    noLibrary = noLibrary
    halfLibrary = halfLibrary
    o1 = o1
    o2 = o2
    Null = Null
    Dirs <- AllDirs
    Description <- Files
    Identifiers <- Ids
    FmuType <- Types
    Library <- Binaries
    Objects = {o1, o2}
INVARIANTS
    TypeOK
    HeldFmusStay
    LoadedFmusUsable
    ObjectsFitTheirFmu
PROPERTIES
    RegistrySpec
