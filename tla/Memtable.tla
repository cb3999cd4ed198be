---- MODULE Memtable ----
(***************************************************************************)
(* Rows that are in the log and not yet in a segment                       *)
(* (localtables-format/src/columnar/memtable.rs).  A memtable is a record  *)
(* of chunks, tombstones and counters; each operator is one of its         *)
(* methods.  `insert` and `coalesce` are left out: the table only calls    *)
(* insert_at.                                                              *)
(***************************************************************************)
EXTENDS ArrowBatches

NewMemtable(nextSeqno) ==
    [chunks |-> <<>>, tombstones |-> {}, nextSeqno |-> nextSeqno, rows |-> 0]

Seqnos(chunk) == chunk.base .. (chunk.base + NumRows(chunk.batch) - 1)

LiveCount(m) == m.rows - Cardinality(m.tombstones)

\* Mutant of MemInsertAt: the counter of sequence numbers stays behind by one.
InsertCountingShort(m, base, batch) ==
    IF NumRows(batch) = 0 THEN m
    ELSE [m EXCEPT !.chunks = Append(@, [base |-> base, batch |-> batch]),
                   !.rows = @ + NumRows(batch),
                   !.nextSeqno = Max({@, base + NumRows(batch) - 1})]

MemInsertAt(m, base, batch) ==
    IF NumRows(batch) = 0 THEN m
    ELSE [m EXCEPT !.chunks = Append(@, [base |-> base, batch |-> batch]),
                   !.rows = @ + NumRows(batch),
                   !.nextSeqno = Max({@, base + NumRows(batch)})]

\* Mutant of Holds: any row the table ever logged.
EverHeld(m, seqno) == seqno < m.nextSeqno

Holds(m, seqno) == \E i \in DOMAIN m.chunks : seqno \in Seqnos(m.chunks[i])

MemDelete(m, seqnos) ==
    [m EXCEPT !.tombstones = @ \cup {s \in seqnos : Holds(m, s)}]

KeptRows(m, chunk) ==
    {r \in 1..NumRows(chunk.batch) : chunk.base + r - 1 \notin m.tombstones}

KeptSeqnos(m, chunk) ==
    [k \in 1..Cardinality(KeptRows(m, chunk)) |->
        chunk.base + Ascending(KeptRows(m, chunk))[k] - 1]

LiveSeqnos(m) == FlattenSeq([i \in DOMAIN m.chunks |-> KeptSeqnos(m, m.chunks[i])])

\* A chunk with nothing deleted is handed back as it is, one with nothing left
\* is left out.
Batches(m) ==
    LET Left(c) == IF Cardinality(KeptRows(m, c)) = NumRows(c.batch) THEN c.batch
                   ELSE FilterBatch(c.batch, KeptRows(m, c))
    IN  Picked([i \in DOMAIN m.chunks |-> Left(m.chunks[i])],
               {i \in DOMAIN m.chunks : KeptRows(m, m.chunks[i]) # {}})

\* What freeze leaves behind; what it takes out is Batches and LiveCount.
Emptied(m) == [m EXCEPT !.chunks = <<>>, !.tombstones = {}, !.rows = 0]
====
