SPECIFICATION Spec
CONSTANTS
    Producer = {p1, p2}
    MaxSize = 2
    Shared = FALSE
    Undefined = Undefined
    MaxPuts = 6
    Concurrency = 2
    Failure = Failure
    MaxItems = 5
    ToBlock = 5
    MaxBytes = 2
    MaxLines = 2
    MaxFaults = 2
    HeadSize = 3
    TailSize = 2
    MaxBatch = 2
    TimeLimit = TRUE
    MaxFills = 2
    Ranks = 2
    Probed = {1}
    To = 2
    FailThreshold = 2
    RecoverThreshold = 1
    MaxLag = 0
    LongProbes = FALSE
    MaxUpsets = 1
INVARIANTS NothingForgotten EveryItemInOrder StreamIsSound ResponseIsChain FallbackIsSound
PROPERTIES NobodyWaitsForEver BlocksMoveOn ReleasedUnlessAbandoned WorkingSourceServes
CHECK_DEADLOCK FALSE
