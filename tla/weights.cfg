CONSTANTS
    NodeCounts = {1, 2, 3}
    GpuCounts = {2, 3}
    MaxWorld = 6
    EngineSizes = {1, 2, 3, 4}
    PolicySizes = {2}
    MaxRetries = 2
    NumParams = 5
    BufferSize = 3
    MaxFailures = 2
    NumTensors = 4
    MaxBytes = 2
    Target = 1
    NumBuffers = 2
    NumTrainers = 2
    NumEngines = 1
    RanksPerEngine = 2
    MaxErrors = 1
    NumUpdates = 2
    MaxPostErrors = 1
SPECIFICATION RefitFairSpec
INVARIANTS
    RefitTypeOK
    LaidOut
    IntactWeights
    UpdatedWhenReturned
    CollectivesMatch
PROPERTIES
    RefitReturns
CHECK_DEADLOCK FALSE
