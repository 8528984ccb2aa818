CONSTANTS
    SyncBatch = 4
    AsyncBatch = 2
    NumShards = 2
    EngineTensor = 2
    MaxTurns = 2
    MaxSeqLen = 5
    MaxNewTokens = 2
    GraderObservations = {0}
    GameObservations = {1, 2}
    PromptLength = 1
    MaxErrors = 1
    LogprobTokens = 8
    TrainTokens = 9
    Batching = {"fixed", "dynamic", "concatenative", "first_fit_decreasing", "first_fit_shuffle", "modified_first_fit_decreasing"}
    Backends = {"dtensor", "dtensor_v2", "megatron"}
    PipelineSizes = {1, 2}
    ContextSizes = {1, 2}
    TensorSize = 1
    DatasetLengths = {2, 5}
    GlobalBatches = {2, 4}
    Shards = 2
    MicroBatchSize = 1
    RoundMultiple = 2
SPECIFICATION FairSpec
INVARIANTS ExperienceTypeOK OwnExperience OwnCoroutine TrainsThePolicy EqualWork
PROPERTY RolloutsEnd
