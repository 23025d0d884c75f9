SPECIFICATION Spec
CONSTANTS
    a1 = a1  a2 = a2  a3 = a3  a4 = a4  b2 = b2  b3 = b3  b4 = b4
    Origin = Origin
    Block <- Blocks4
    Path <- Path4
    Relevant <- Blocks4
    Segment <- Dense4
    Requests <- TwoRequests
    Start = a1
    StrideSize = 1
    Concurrency = 2
    ProbeSize = 2
    MaxQueue = 1
    MaxReorgs = 1
    MaxErrors = 1
PROPERTIES KeepsContract ReachesHead
CHECK_DEADLOCK FALSE
