SPECIFICATION Spec
CONSTANTS
    s1 = s1
    s2 = s2
    Subs = {s1, s2}
    Login <- TwoLogins
    Procs = {p, q}
    Reconciler = reconciler
    Sources = {"staff", "command"}
    Reasons = {"overdue", "admin"}
    PastDue = FALSE
    Preload = TRUE
    Initial = {"pending"}
    MaxOps = 2
PROPERTIES
    RestoreIsAuthorized
CHECK_DEADLOCK FALSE
