SPECIFICATION Spec
CONSTANTS
    i1 = i1  j1 = j1  j2 = j2  j3 = j3
    None = None
    Incidents = {i1}
    Jobs = {j1, j2, j3}
    JobIncident <- OneIncident
    Resolving <- LastResolves
    Workers = {w1, w2}
    Evidence = {e1}
    Contents = {c1, c2}
    MaxLegacy = 1
    MaxRevisions = 4
    MaxRuns = 4
    MaxReviews = 1
SYMMETRY StoreSymmetry
CHECK_DEADLOCK FALSE
INVARIANTS AllocationFree RevisionChain AnalysisFollowsChain SnapshotExact DiffIsTrue ApprovalKeepsEvidence
PROPERTY NothingRewritten
