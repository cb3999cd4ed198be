CONSTANTS
    t1 = t1
    t2 = t2
    Tasks = {t1, t2}
    Keys = {a, b}
    Workloads <- TwoDeletes
SYMMETRY Sym
SPECIFICATION Spec
CHECK_DEADLOCK FALSE
INVARIANT ScanIsExact
