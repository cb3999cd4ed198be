CONSTANTS
    c1 = c1
    c2 = c2
    c3 = c3
    r1 = r1
    r2 = r2
    r3 = r3
    Clients = {c1, c2, c3}
    Reads = {r1, r2, r3}
    Calls <- MCCalls
    Begin <- MCBegin
    Size <- MCSize
    FileLen = 3
    RING_ENTRIES = 1
    MaxFaults = 2
    Processes = {p1, p2}
    Tasks = {t1, t2}
    MaxLoc = 3
    MaxTxn = 5
    MaxSegs = 1
    MaxBuffers = 1
SPECIFICATION Spec
CHECK_DEADLOCK FALSE
INVARIANTS AnswersAreTrue BufferHeld PinnedBytesStable SharedMapping
PROPERTY ReadsAnswered
