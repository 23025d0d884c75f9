SPECIFICATION Spec
CONSTANTS
    Calls = {1, 2, 3}
    MaxCapacity = 2
    RetryAttempts = 1
    MaxFaults = 2
    Handles = {h1, h2}
    MaxNotes = 1
    WindowSize = 2
    RateLimit = 3
    MaxBatch = 2
    MaxTime = 9
    MaxHeads = 5
    MaxHeight = 2
INVARIANTS ClientIsSound SubscriptionsMatch RateIsKept
PROPERTIES CallsSettle StaysSubscribed NewestTaken
CHECK_DEADLOCK FALSE
