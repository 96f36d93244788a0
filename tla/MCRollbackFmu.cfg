SPECIFICATION Spec
CONSTANTS
    Crossings <- MCCrossings
    TimeEvents = {8}
    StepSizes = {3, 7}
    EventSearchPrecision = 8
    Infinity = 99
    MaxEventIterations = 2
    Versions = {1, 2}
    StepperTypes = {"ck", "dp"}
    Stateless = {FALSE, TRUE}
    StepEvents = {FALSE, TRUE}
    Users = {"direct", "rollback"}
    Targets = {8, 14}
    End = 14
    MaxReturns = 1
    None = None
INVARIANTS
    TypeOK
    StateMatchesTime
    SignChangesActedOn
    HorizonBracketsEvent
    NotPastTimeEvent
PROPERTIES
    ImplementsContract
    CallReturns
    ReachesEnd
