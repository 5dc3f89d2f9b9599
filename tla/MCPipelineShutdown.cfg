\* Two submissions and a signal.
CONSTANTS
    s1 = s1
    s2 = s2
    w1 = w1
    w2 = w2
    Sub = {s1, s2}
    Worker = {w1, w2}
    MaxRetries = 1
    Outcomes <- Verdict
    FaultKinds <- Signals
    MaxFaults = 1
    MaxRejudges = 0
    None = None
SPECIFICATION Spec
SYMMETRY Symmetry
PROPERTIES
    StopsConsuming
\* Once every submission is judged the system waits for the next request.
CHECK_DEADLOCK FALSE
