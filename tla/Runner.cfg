SPECIFICATION AllSpec
CONSTANTS
    a1 = a1  a2 = a2  a3 = a3  a4 = a4  a5 = a5  a6 = a6  b2 = b2  b3 = b3  b4 = b4
    Origin = Origin
    Block <- Blocks
    Path <- RunnerPath
    Relevant <- AboveFirst
    Segment <- NoSegments
    From = 1
    Confirmations = 2
    BatchSize = 2
    Lagging = FALSE
    MaxReorgs = 2
    MaxCrashes = 1
    MaxErrors = 1
    DumpedChains <- TwoChains
    DumpedRanges <- TwoRanges
    Writer = {"w1", "w2"}
    TopDirSize = 2
    Storages = {"local", "s3"}
    MaxSwitches = 1
    MaxBlock = 3
    MaxRequests = 3
INVARIANTS RunnerIsSound ArchiveIsSound RequestsAreKept
PROPERTIES IndexesOneChain NoStepBack TipIsReached ArchiveCompletes
CHECK_DEADLOCK FALSE
