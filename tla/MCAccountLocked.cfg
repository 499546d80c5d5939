SPECIFICATION Spec
CONSTANTS
    s1 = s1
    s2 = s2
    Subs = {s1, s2}
    Login <- OneLogin
    Procs = {p, q}
    Reconciler = reconciler
    Sources = {"staff", "command"}
    Reasons = {"overdue", "admin"}
    PastDue = TRUE
    Preload = FALSE
    Initial = {"pending", "active"}
    MaxOps = 4
SYMMETRY Symmetry
INVARIANTS
    TypeOK
    NoActiveUnderLock
PROPERTIES
    TerminalNeverLeft
    RestoreIsAuthorized
CHECK_DEADLOCK FALSE
