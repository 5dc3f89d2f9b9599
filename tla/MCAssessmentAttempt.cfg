\* Two requests at a time on one attempt, in five mixes of operations.
CONSTANTS
    p1 = p1
    p2 = p2
    s1 = s1
    s2 = s2
    Request = {r1, r2}
    Problem = {p1, p2}
    Sub = {s1, s2}
    ProblemOf <- MCProblemOf
    MaxScore <- MCMaxScore
    Duration = 1
    EndTime = 1
    Grants = {1}
    Edits <- MCEdits
    Mixes <- MCMixes
    MaxTime = 3
    MaxGrace = 2
    MaxFlags = 1
    MaxFaults = 1
SPECIFICATION FairSpec
PROPERTIES
    Promised
    StartedOnce
    ScoreConverges
\* The student may leave.
CHECK_DEADLOCK FALSE
