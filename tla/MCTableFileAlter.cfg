CONSTANTS
    Readers = {r1, r2}
    MaxTxn = 5
    MaxLoc = 9
    MaxLive = 1
    MaxFaults = 1
    Payloads = {p1, p2}
    Rewrites = TRUE
    FlipFailures = TRUE
SYMMETRY Sym
SPECIFICATION Spec
CHECK_DEADLOCK FALSE
INVARIANT SnapshotsReadable
