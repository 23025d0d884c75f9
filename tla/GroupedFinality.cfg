CONSTANTS
    a1 = a1
    a2 = a2
    a3 = a3
    a4 = a4
    b2 = b2
    b3 = b3
    b4 = b4
    Origin = Origin
    Block <- Blocks4
    Path <- Path4
    Relevant <- Blocks4
    Segment <- Dense4
    Registering <- Blocks4
    GroupDivisor = 1
    MaxNonce = 5
SPECIFICATION Spec
PROPERTY
    FinalizedIsPermanent
CHECK_DEADLOCK FALSE
