SPECIFICATION Spec
CONSTANTS
    a1 = a1  a2 = a2  a3 = a3  a4 = a4  b2 = b2  b3 = b3  b4 = b4
    Origin = Origin
    Block <- LateBlocks
    Path <- LatePaths
    Relevant <- LateBlocks
    Segment <- LateStreams
    Number <- Gaps
    MaxSize = 2
    AutoAdjust = FALSE
    ForkWindow = 2
    Client = {c1}
    MaxStacked = 0
    VerifiedFinality = TRUE
    ShorterForks = TRUE
    MaxReorgs = 1
    MaxErrors = 1
    MaxIdle = 1
INVARIANTS WindowIsSound NoMissedBlock
PROPERTIES AnswersContinue FinalityMovesUp ClientsCatchUp
CHECK_DEADLOCK FALSE
