\* The workspace page: drafts, finishing and judging, one mix of them at a time.
CONSTANTS
    t1 = t1
    t2 = t2
    s1 = s1
    s2 = s2
    Tab = {t1, t2}
    Sub = {s1, s2}
    Mixes <- MCMixes
    Deadline = 1
    WarningLimit = 2
    MaxTime = 3
    MaxCode = 3
    MaxGrace = 1
    MaxFaults = 1
    Overlap = FALSE
    None = None
    MaxRounds = 2
    MaxActs = 1
    MaxChanges = 1
    MaxFailures = 1
    Wishes <- MCWishes
SPECIFICATION PagesSpec
INVARIANTS
    SyncedWhenQuiet
    OneUnderWay
PROPERTIES
    DraftKeptUntilEnded
    AttemptEnds
    ShownInTheEnd
\* When the attempt is over and the page left, nothing more happens.
CHECK_DEADLOCK FALSE
