SPECIFICATION Spec
CONSTANTS
    Description <- MCDescription
    Values = {0, 1}
    StartValue = 0
    FmuStatuses = {"OK", "Warning", "Error"}
    TimeDiffResolution = 1
    MaxFmuTime = 5
    NaN = NaN
    StepSize = 2
    Infinity = 99
    Inputs <- MCInputs
    Users = {"direct", "fixed", "interpolating", "variable"}
    InputValues = {0}
    ConstructStatuses = {"OK", "Warning", "Fatal"}
    StartTimes = {1}
    StopTimes = {2, 99}
    MaxTime = 5
    InitialInputs <- MCInitialInputs
    Names <- MCNames
    Arrays <- MCArrays
INVARIANTS
    TypeOK
    ClockFollowsFmu
    WrapperFollowsSlave
    OutputsOfOneTime
    ResultTellsProgress
    NotAheadOfRequest
    ReadAsSet
PROPERTIES
    KeepsSyncContract
