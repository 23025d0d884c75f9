SPECIFICATION Spec
CONSTANTS
    HeadSize = 3
    TailSize = 2
    MaxBatch = 2
    TimeLimit = TRUE
    MaxFills = 2
INVARIANT NoGap
CHECK_DEADLOCK FALSE
