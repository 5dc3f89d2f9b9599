\* One submission, two workers, a rejudge; calls fail, the judge crashes or loses its connection.
CONSTANTS
    s1 = s1
    w1 = w1
    w2 = w2
    Sub = {s1}
    Worker = {w1, w2}
    MaxRetries = 1
    Outcomes <- Verdicts
    FaultKinds <- Failures
    MaxFaults = 2
    MaxRejudges = 1
    None = None
SPECIFICATION HSpec
SYMMETRY Symmetry
INVARIANTS
    OneEndPerRun
    CacheAgrees
\* Once every submission is judged the system waits for the next request.
CHECK_DEADLOCK FALSE
