SPECIFICATION Spec
CONSTANTS
    p1 = p1  p2 = p2  r1 = r1  r2 = r2  r3 = r3  a1 = a1  a2 = a2  a3 = a3  a4 = a4
    None = None
    Processes = {p1, p2}
    Requests = {r1, r2, r3}
    Stamp <- SomeStamps
    Caller <- SomeCallers
    Batch <- SomeBatches
    Malformed = {r3}
    Alerts = {a1, a2, a3, a4}
    Key <- SomeKeys
    Supplied <- OneSupplied
    Foreign = {a3}
    FirstId = 1
    Limit <- SomeLimits
    RateWindow = 1
    ReplayWindow = 1
    MaxTime = 2
    MaxSends = 3
    MaxFaults = 1
SYMMETRY ProcessSymmetry
CHECK_DEADLOCK FALSE
INVARIANTS IdsConverge AnsweredIsStored AdmissionBounded
