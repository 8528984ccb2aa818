CONSTANTS
    MaxStep = 6
    SavePeriod = 2
    KeepTopK = 2
    MaxMetric = 2
    MaxRestarts = 2
SPECIFICATION FairSpec
INVARIANTS
    TypeOK
    Resumable
    BestSurvives
    FinalizeIsFresh
PROPERTIES
    ImplementsDurableTraining
    RemovalKeepsTopK
    EventuallyDone
CHECK_DEADLOCK FALSE
