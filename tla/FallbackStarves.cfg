SPECIFICATION Spec
CONSTANTS
    Ranks = 3
    Probed = {}
    To = 2
    FailThreshold = 2
    RecoverThreshold = 1
    MaxLag = 0
    LongProbes = FALSE
    MaxUpsets = 0
PROPERTY WorkingSourceServes
CHECK_DEADLOCK FALSE
