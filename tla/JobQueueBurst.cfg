SPECIFICATION FairSpec
CONSTANTS
    i1 = i1  i2 = i2  a1 = a1  a2 = a2  a3 = a3  w1 = w1  w2 = w2  c1 = c1
    None = None
    Incidents = {i1}
    Alerts = {a1, a2, a3}
    AlertIncident <- Burst
    Contexts = {}
    Workers = {w1, w2}
    MaxPending = 2
    MaxAttempts = 2
    LeaseSeconds = 1
    RetryDelay = 1
    Coalesce = 1
    CoalesceMax = 2
    ClaimBatch = 2
    MaxJobs = 2
    MaxEvents = 3
    MaxIntakes = 2
    MaxFaults = 1
    MaxCount = 3
INVARIANTS LockMatchesLease LeaseExclusive OwnerSnapshotCurrent FreshPendingUnique DebounceBounded
PROPERTIES JobsFinish OnlyOwnerFinishes TurnSpec
