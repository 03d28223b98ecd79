SPECIFICATION FairSpec
CONSTANTS
    Requests = {q1, q2}
    Reviewers = {r1}
    Drafts = {d1}
    None = None
    d1 = d1
    d2 = d2
    Redacted <- Clean
    Process <- OneProcess
    JobKinds = {"firing", "resolved"}
    PublicationAnswers = {"approved"}
    MaxAttempts = 2
    MaxVersion = 6
    MaxAnalyses = 6
    MaxJobs = 2
    MaxSubmits = 3
    MaxFaults = 1
CHECK_DEADLOCK FALSE
INVARIANT GatesAgree
PROPERTY JobEnds
