SPECIFICATION Spec
CONSTANTS
    Requests = {q1, q2}
    Reviewers = {r1}
    Drafts = {d1, d2}
    None = None
    d1 = d1
    d2 = d2
    Redacted <- SecondRedacted
    Process <- OwnProcess
    JobKinds = {"firing", "resolved"}
    PublicationAnswers = {"approved", "rejected"}
    MaxAttempts = 1
    MaxVersion = 4
    MaxAnalyses = 4
    MaxJobs = 3
    MaxSubmits = 2
    MaxFaults = 1
CHECK_DEADLOCK FALSE
SYMMETRY RequestSymmetry
INVARIANTS PublishedWasApproved OneWinner ReviewInv
PROPERTY ResolvedUntilReopened
