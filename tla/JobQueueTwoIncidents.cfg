SPECIFICATION Spec
CONSTANTS
    i1 = i1  i2 = i2  a1 = a1  a2 = a2  a3 = a3  w1 = w1  w2 = w2  c1 = c1
    None = None
    Incidents = {i1, i2}
    Alerts = {a1, a2, a3}
    AlertIncident <- TwoBuckets
    Contexts = {c1}
    Workers = {w1, w2}
    MaxPending = 2
    MaxAttempts = 2
    LeaseSeconds = 1
    RetryDelay = 1
    Coalesce = 0
    CoalesceMax = 1
    ClaimBatch = 1
    MaxJobs = 3
    MaxEvents = 2
    MaxIntakes = 1
    MaxFaults = 1
    MaxCount = 3
SYMMETRY WorkerSymmetry
INVARIANTS CapacityRespected DeadLettersRecorded EventAndJobTogether NewestAlertQueued
