CONSTANTS
    NumPrompts = 1
    MaxAge = 2
    StartStep = 1
    MaxNumSteps = 3
    InFlightUpdates = FALSE
    MaxFailures = 0
    ValPeriod = 0
    ValAtStart = FALSE
    ValAtEnd = FALSE
    SavePeriod = 0
    MayTimeOut = FALSE
SPECIFICATION Spec
INVARIANTS
    NeverFull
    WithinAgeWindow
    LabelsPublished
