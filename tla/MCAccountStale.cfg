SPECIFICATION Spec
CONSTANTS
    s1 = s1
    s2 = s2
    Subs = {s1, s2}
    Login <- TwoLogins
    Procs = {p, q}
    Reconciler = reconciler
    Sources = {"staff", "command"}
    Reasons = {"overdue", "admin"}
    PastDue = FALSE
    Preload = TRUE
    Initial = {"active", "stopped"}
    MaxOps = 3
PROPERTIES
    TerminalNeverLeft
CHECK_DEADLOCK FALSE
