SPECIFICATION Spec
CONSTANTS
    TimeDiffResolution = 2
    LookAheadHorizon = 8
    LookAheadStepSize = 5
    StartTime = 0
    End = 15
    StateEvents = {6, 7}
    TimeEvents = {10, 13}
    StepEvents = {FALSE, TRUE}
    Inputs = {0, 1}
    Programs = {"answered", "any"}
    Back = 1
    Ahead = 0
    Horizon = 1
    MaxDrift = 2
    Infinity = 99
    None = None
INVARIANTS
    TypeOK
    InterpolationBetween
    
    NoUpdateAhead
    NoEventSkipped

    
