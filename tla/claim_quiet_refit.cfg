CONSTANTS
    NumPrompts = 2
    MaxAge = 1
    StartStep = 0
    MaxNumSteps = 2
    InFlightUpdates = FALSE
    MaxFailures = 0
    ValPeriod = 0
    ValAtStart = FALSE
    ValAtEnd = FALSE
    SavePeriod = 0
    MayTimeOut = FALSE
SPECIFICATION Spec
INVARIANTS
    QuietRefit
