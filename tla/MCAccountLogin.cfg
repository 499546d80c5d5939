SPECIFICATION Spec
CONSTANTS
    s1 = s1
    s2 = s2
    Subs = {s1, s2}
    Login <- OneLogin
    Procs = {p, q}
    Reconciler = reconciler
    Sources = {"staff", "command"}
    Reasons = {"overdue", "admin"}
    PastDue = FALSE
    Preload = FALSE
    Initial = {"stopped"}
    MaxOps = 2
INVARIANT
    OneActivePerLogin
CHECK_DEADLOCK FALSE
