CONSTANTS
    Null = Null
    MAX_BOUND_BYTES = 2
    SIZE = 2
    PageRows = 2
    BlockRows = 3
    ScanBatchRows = 2
    Hash <- HashOf
    MaxPartitions = 2
    Cases <- AllCases
SPECIFICATION Spec
CHECK_DEADLOCK FALSE
INVARIANTS TypeOK EachRowOnce PlannedMatchesKept LimitServed CountIsExact BatchesFit ScanSurvivesGrowth
PROPERTY ScanEnds
