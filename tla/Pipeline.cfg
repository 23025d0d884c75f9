CONSTANTS
    a1 = a1  a2 = a2  a3 = a3  a4 = a4  b2 = b2  b3 = b3  b4 = b4
    Origin = Origin
    Block <- Blocks3
    Path <- Path3
    Relevant <- Relevant3
    Segment <- Sparse3
    Registering = {}
    GroupDivisor = 3
    MaxNonce = 100
    Processor = {p1}
    Modes = {TRUE, FALSE}
    Switches <- HotLater
    StartHeight = 0
    ForkWindow = 5
    MaxRetries = 1
    MaxReorgs = 1
    MaxCrashes = 1
    MaxAborts = 1
    MaxIdle = 0
    MaxHeaders = 1
    MaxLag = 1
SPECIFICATION ProcessorSpec
INVARIANTS ProcessorIsSound
PROPERTIES FailsOnlyAhead UsesDatabaseAsSpecified ForkFindsCommonBase CatchesUp
CHECK_DEADLOCK FALSE
