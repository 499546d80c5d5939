SPECIFICATION FairSpec
CONSTANTS
    s1 = s1
    s2 = s2
    Subs = {s1, s2}
    Login <- TwoLogins
    Procs = {p, q}
    Reconciler = reconciler
    Sources = {"staff"}
    Reasons = {"overdue", "admin"}
    PastDue = FALSE
    Preload = TRUE
    Initial = {"pending", "active"}
    MaxOps = 3
PROPERTIES
    ParentCatchesUp
CHECK_DEADLOCK FALSE
