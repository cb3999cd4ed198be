CONSTANTS
    Rows = {a, b}
    MaxGroup = 1
    MaxLsn = 4
    MaxGen = 3
    MaxCrashes = 2
    MaxErrors = 0
SYMMETRY Sym
SPECIFICATION Spec
CHECK_DEADLOCK FALSE
INVARIANT AckedRowsRecovered
