CONSTANTS
    NumPrompts = 1
    MaxAge = 1
    StartStep = 0
    MaxNumSteps = 2
    InFlightUpdates = TRUE
    MaxFailures = 1
    ValPeriod = 1
    ValAtStart = TRUE
    ValAtEnd = TRUE
    SavePeriod = 1
    MayTimeOut = TRUE
SPECIFICATION Spec
PROPERTIES
    ImplementsAsyncTraining
