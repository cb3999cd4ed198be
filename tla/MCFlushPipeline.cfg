CONSTANTS
    Null = Null
    Numbers = {0, 2}
    Types <- TypesOf
    TARGET_ROW_GROUPS = 2
    DIM_BITS = 2
    Bits <- BitsOf
    BUFFER_ALIGN = 16
    PackedSize <- HalfOf
    Options <- AllOptions
    Inserts <- AllInserts
    MaxSeqno = 5
    MaxFlushes = 2
SPECIFICATION Spec
CHECK_DEADLOCK FALSE
INVARIANTS TypeOK SeqnosNameRows NoRowLostByFlush GroupsFit RoundTrip DamageStaysLocal PagesBound
