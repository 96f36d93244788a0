SPECIFICATION Spec
CONSTANTS
    Crossings <- MCCrossings
    TimeEvents = {8}
    StepSizes = {3, 7}
    EventSearchPrecision = 8
    Infinity = 99
    MaxEventIterations = 2
    Versions = {2}
    StepperTypes = {"dp"}
    Stateless = {FALSE}
    StepEvents = {FALSE, TRUE}
    Users = {"direct"}
    Targets = {8, 14}
    End = 14
    MaxReturns = 1
    None = None
INVARIANTS
    StepEventHappened
