\* Tenancy: two requests at a time, two colleges of which one exists, in five mixes.
\* Session: one browser with up to two tabs.
\* UserImport: up to three lines.
\* Listing: two records, one on a page, and two requests at a time.
CONSTANTS
    a = a
    b = b
    College = {a, b}
    Founded = {a}
    Request = {r1, r2}
    Email = {e1, e2, e3}
    Student = {s1, s2}
    Customer = {k1, k2}
    Subscription = {u3, u4}
    SeatLimit = 1
    Allowance = 2
    StudentQuota = 1
    CollegeQuota = 2
    MaxAdmitted = 4
    MaxRation = 2
    Mixes <- MCMixes
    None = None
    t1 = t1
    t2 = t2
    Tab = {t1, t2}
    Scenes <- MCScenes
    Nobody = Nobody
    Record = {1, 2}
    Filters <- MCFilters
    PageSize = 1
    MaxFetches = 2
    MaxPage = 2
    Times <- MCTimes
    MaxTime = 1
    Handle = {h1, h2}
    Sub = {s1, s2}
    NoSub = NoSub
    Habits <- MCHabits
    MaxCases = 2
    MaxFaults = 1
    Collections <- MCCollections
    Doc = {1, 2}
    Upload = {u1, u2}
    Databases <- MCDatabases
    Troubles <- MCTroubles
SPECIFICATION MCSpec
INVARIANTS
    SeatsBounded
    PaidIsServed
    FairShare
    IdentityAgrees
    ImportAgrees
    ListMatches
    StartAgrees
    ConsoleSettles
    RestoreHeals
PROPERTIES
    FailuresSpareOthers
\* Every college may have what it wants.
CHECK_DEADLOCK FALSE
