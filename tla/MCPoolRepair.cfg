\* Repair under fairness: the monitor and the reconciler of one language.
CONSTANTS
    l1 = l1
    c1 = c1
    c2 = c2
    c3 = c3
    c4 = c4
    u1 = u1
    u2 = u2
    Lang <- OneLang
    Container = {c1, c2, c3}
    LangOf <- AllForOne
    User = {u1}
    Background <- MonitorAndReconciler
    MinSize <- One
    MaxSize <- Two
    GlobalCap = 2
    Loads <- MCLoads
    UpThreshold = 2
    DownThreshold = 1
    RemoveMayFail = FALSE
    None = None
SPECIFICATION FairSpec
PROPERTIES
    BrokenIsFound
    Replenished
