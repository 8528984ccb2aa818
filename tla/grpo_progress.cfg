CONSTANTS
    NumPrompts = 1
    MaxAge = 1
    StartStep = 0
    MaxNumSteps = 3
    InFlightUpdates = FALSE
    MaxFailures = 0
    ValPeriod = 0
    ValAtStart = FALSE
    ValAtEnd = FALSE
    SavePeriod = 0
    MayTimeOut = FALSE
SPECIFICATION FairSpec
PROPERTIES
    ReservedStepsTrain
    PrepareReturns
