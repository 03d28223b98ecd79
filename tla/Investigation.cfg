SPECIFICATION FairSpec
CONSTANTS
    local = local  remote = remote
    Queries = {local, remote}
    Cost <- UnitCost
    Limits = {0, 2}
    Sizes = {1}
    MaxRounds = 2
    MaxTools = 2
    MaxBytes = 3
    CacheSize = 1
    MaxCalls = 4
    MaxTokens = 6
    Reserve = 2
    Tries = 2
    MaxRuns = 2
    MaxReviews = 1
    MaxFaults = 1
CHECK_DEADLOCK FALSE
INVARIANTS AllowanceKept ModelBudgetKept
PROPERTIES StoppedUntilReviewed RunEnds
