CONSTANTS
    t1 = t1
    t2 = t2
    Tasks = {t1, t2}
    Keys = {a, b}
    Workloads <- EveryWorkload
SYMMETRY Sym
SPECIFICATION Spec
CHECK_DEADLOCK FALSE
INVARIANTS TypeOK ScanIsExact NoRowTwice FreedOnceAlone SegmentsFreedOnce SettledDecodes
