CONSTANTS
    a1 = a1
    a2 = a2
    a3 = a3
    a4 = a4
    b2 = b2
    b3 = b3
    b4 = b4
    Origin = Origin
    Block <- Blocks2
    Path <- Path2
    Relevant <- Blocks2
    Segment <- Dense2
    Registering <- Blocks2
    GroupDivisor = 3
    MaxNonce = 100
    p1 = p1
    p2 = p2
    Processor = {p1, p2}
    Modes = {TRUE}
    Switches = {}
    StartHeight = 0
    ForkWindow = 5
    MaxRetries = 1
    MaxReorgs = 1
    MaxCrashes = 0
    MaxAborts = 0
    MaxIdle = 0
    MaxHeaders = 1
    MaxLag = 0
SPECIFICATION ProcessorSpec
PROPERTIES ImplementsIndexedChain
SYMMETRY Alike
CHECK_DEADLOCK FALSE
