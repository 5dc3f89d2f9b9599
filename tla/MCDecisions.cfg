\* Limits up to 3, waits around the two thresholds; programs of up to three tests;
\* an assessment of one or two problems taken by up to three users.
CONSTANTS
    UpThreshold = 2
    DownThreshold = 1
    MaxLimit = 3
    MaxWait = 3
    MaxTimeouts = 1
    MaxTests = 3
    Student = {u1, u2}
    Outsider = outsider
    Undefined = Undefined
    PageLimit = 4
    None = None
    validateData <- fits
    MaxRows = 3
    Offered = {"empty"}
    Listed = {p, q}
    MaxClock = 3
    a1 = a1
    a2 = a2
    r1 = r1
    r2 = r2
    Api = {a1, a2}
    Call = {r1, r2}
    MaxHanded = 1
    MaxSaves = 2
SPECIFICATION DecisionSpec
SYMMETRY Symmetry
INVARIANTS
    BusierNeverSmaller
    RunnersAgree
    SpoiltIsDiscarded
    PartnerAgrees
    FiguresAgree
    CertifiedIsStored
    EditPreserves
PROPERTY
    OnlyCertifiedIsSent
