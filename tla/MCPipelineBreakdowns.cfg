\* One submission with rejudges; calls fail, the judge crashes, loses its connection or is stopped.
CONSTANTS
    s1 = s1
    s2 = s2
    w1 = w1
    w2 = w2
    Sub = {s1}
    Worker = {w1, w2}
    MaxRetries = 1
    Outcomes <- SuccessOnly
    FaultKinds <- Breakdowns
    MaxFaults = 2
    MaxRejudges = 1
    None = None
SPECIFICATION AcceptedSpec
PROPERTIES
    JobsSpec
    Judged
    CacheHeals
\* Once every submission is judged the system waits for the next request.
CHECK_DEADLOCK FALSE
