CONSTANTS
    Readers = {r1}
    MaxTxn = 4
    MaxLoc = 9
    MaxLive = 1
    MaxFaults = 2
    Payloads = {p1, p2}
    Rewrites = FALSE
    FlipFailures = FALSE
SYMMETRY Sym
SPECIFICATION Spec
INVARIANTS TypeOK RecoversWholeCommit FallbackIntact SnapshotsReadable SpaceAccounted SchemaReachable IInv
PROPERTY CommitIsAtomic
