\* Two users with the monitor and the reconciler on one language.
CONSTANTS
    l1 = l1
    c1 = c1
    c2 = c2
    c3 = c3
    c4 = c4
    u1 = u1
    u2 = u2
    Lang <- OneLang
    Container = {c1, c2, c3, c4}
    LangOf <- AllForOne
    User = {u1, u2}
    Background <- MonitorAndReconciler
    MinSize <- One
    MaxSize <- Two
    GlobalCap = 2
    Loads <- MCLoads
    UpThreshold = 2
    DownThreshold = 1
    RemoveMayFail = FALSE
    None = None
SPECIFICATION Spec
SYMMETRY Symmetry
INVARIANTS
    TypeOK
    ExclusiveOwnership
    NoLeak
PROPERTIES
    InUseNeverReaped
