SPECIFICATION Spec
CONSTANTS
    s1 = s1
    s2 = s2
    Subs = {s1, s2}
    Login <- OneLogin
    Procs = {p}
    Reconciler = reconciler
    Sources = {"staff", "command"}
    Reasons = {"overdue", "fup", "admin", "fraud"}
    PastDue = TRUE
    Preload = FALSE
    Initial = {"pending", "active", "blocked"}
    MaxOps = 4
INVARIANTS
    TypeOK
    NoActiveUnderLock
    ProjectionExact
PROPERTIES
    TerminalNeverLeft
    RestoreIsAuthorized
CHECK_DEADLOCK FALSE
