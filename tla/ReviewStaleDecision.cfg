SPECIFICATION Spec
CONSTANTS
    Requests = {q1}
    Reviewers = {r1}
    Drafts = {d1}
    None = None
    d1 = d1
    d2 = d2
    Redacted <- Clean
    Process <- OneProcess
    JobKinds = {"firing"}
    PublicationAnswers = {"approved"}
    MaxAttempts = 2
    MaxVersion = 3
    MaxAnalyses = 3
    MaxJobs = 2
    MaxSubmits = 1
    MaxFaults = 0
CHECK_DEADLOCK FALSE
PROPERTY DecisionsHitWhatTheyShow
