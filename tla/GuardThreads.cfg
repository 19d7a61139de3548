CONSTANTS
    Thread = {t1, t2}
    Rate = 1
    Capacity = 3
    Threshold = 2
    ResetAfter = 2
    MaxNow = 3
    MaxSent = 6
    None = None
    t1 = t1
    t2 = t2
SPECIFICATION Spec
CHECK_DEADLOCK FALSE
INVARIANTS
    BudgetOverThreads
