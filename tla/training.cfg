CONSTANTS
    Algorithms = {"grpo", "distillation", "supervised"}
    DynamicSampling = {TRUE, FALSE}
    LeaveOneOut = {FALSE}
    NumBatches = 3
    BatchPrompts = 2
    StepPrompts = 2
    NumGenerations = 2
    MaxGenBatches = {1, 3}
    MaxEpochs = 2
    MaxSteps = 5
    ValPeriod = 2
    SavePeriod = 2
    MaxLaunches = 1
SPECIFICATION FairSpec
INVARIANTS
    TypeOK
    FreshWeights
    OneResident
    PlacedForUse
    EveryBatchOnce
    SoundSampling
    EndIsSaved
PROPERTIES
    ImplementsDurableTraining
    TrainingEnds
CHECK_DEADLOCK FALSE
