CONSTANTS
    Readers = {r1}
    MaxTxn = 4
    MaxLoc = 9
    MaxLive = 1
    MaxFaults = 0
    Payloads = {p1, p2}
    Rewrites = TRUE
    FlipFailures = FALSE
SYMMETRY Sym
SPECIFICATION Spec
INVARIANT SchemaReachable
