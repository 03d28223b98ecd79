SPECIFICATION Spec
CONSTANTS
    e1 = e1  e2 = e2  e3 = e3
    Events = {e1, e2, e3}
    AlertEvent = alert
    External = external
    Unknown = unknown
    Pictures <- SmallPictures
    Links <- SmallLinks
    Proposals <- SmallProposals
    Steps <- SmallSteps
    None = None
    MaxHypotheses = 2
    MaxRounds = 1
    MaxReviews = 1
    MaxRuns = 2
CHECK_DEADLOCK FALSE
INVARIANT OnlyApprovableApproved
