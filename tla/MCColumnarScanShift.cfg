CONSTANTS
    Null = Null
    MAX_BOUND_BYTES = 2
    SIZE = 2
    PageRows = 2
    BlockRows = 3
    ScanBatchRows = 2
    Hash <- HashOf
    MaxPartitions = 2
    Cases <- ShiftCases
SPECIFICATION Spec
CHECK_DEADLOCK FALSE
INVARIANT NoMatchLost
