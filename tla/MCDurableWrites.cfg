CONSTANTS
    Rows = {a, b, c}
    MaxGroup = 2
    MaxLsn = 5
    MaxGen = 3
    MaxCrashes = 3
    MaxErrors = 2
SYMMETRY Sym
SPECIFICATION Spec
CHECK_DEADLOCK FALSE
INVARIANTS TypeOK AckedRowsKept ReplayedOnce UpdateAllOrNothing AckedRowsVisible
