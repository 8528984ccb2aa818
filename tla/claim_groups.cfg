CONSTANTS
    Algorithms = {"grpo"}
    DynamicSampling = {TRUE}
    LeaveOneOut = {TRUE}
    NumBatches = 2
    BatchPrompts = 2
    StepPrompts = 2
    NumGenerations = 3
    MaxGenBatches = {1}
    MaxEpochs = 1
    MaxSteps = 2
    ValPeriod = 0
    SavePeriod = 1
    MaxLaunches = 0
SPECIFICATION Spec
INVARIANTS
    WholeGroups
CHECK_DEADLOCK FALSE
