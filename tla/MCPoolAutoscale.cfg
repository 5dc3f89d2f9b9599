\* The autoscaler and the reconciler converge the same language.
CONSTANTS
    l1 = l1
    c1 = c1
    c2 = c2
    c3 = c3
    c4 = c4
    u1 = u1
    u2 = u2
    Lang <- OneLang
    Container = {c1, c2, c3}
    LangOf <- AllForOne
    User = {u1, u2}
    Background <- Converging
    MinSize <- One
    MaxSize <- Two
    GlobalCap = 2
    Loads <- MCLoads
    UpThreshold = 2
    DownThreshold = 1
    RemoveMayFail = TRUE
    None = None
SPECIFICATION Spec
SYMMETRY Symmetry
INVARIANTS
    TargetWithinLimits
PROPERTIES
    LeaseSpec
