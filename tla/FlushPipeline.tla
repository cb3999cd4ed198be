---- MODULE FlushPipeline ----
(***************************************************************************)
(* From the memtable to segments and back: the calls of                    *)
(* columnar/table/write.rs that fill a memtable, take rows out of it and   *)
(* flush it, over Memtable, RowGroups and SegmentCodec, and media damage   *)
(* to one stored buffer.  Commits, the log and the bitmaps of deleted rows *)
(* are the subject of TableFile, DurableWrites and ColumnarTable.          *)
(***************************************************************************)
EXTENDS Memtable, RowGroups, SegmentCodec

CONSTANTS
    Options,        \* the TableOptions a table may be opened with
    Inserts,        \* the batches callers insert
    MaxSeqno,       \* bound: rows ever inserted
    MaxFlushes      \* bound: segments are written by so many flushes

IsOptions(o) ==
    /\ o \in [rowGroupRows : Nat, minRowGroupRows : Nat, clusterBy : Seq(Nat),
              compression : {"none", "auto", "lz4", "zstd"}, dictionaryEncoding : BOOLEAN,
              rleEncoding : BOOLEAN, blockRows : Nat, pageRows : Nat]
    /\ Resolves(o.clusterBy)

ASSUME FlushPipelineAssumption ==
    /\ MaxSeqno \in Nat /\ MaxFlushes \in Nat
    /\ \A o \in Options : IsOptions(o)
    /\ \A batch \in Inserts : IsBatch(batch)

VARIABLES
    opts,       \* the handle's options
    mem,        \* Writer::memtable
    segs,       \* the manifest's segments, with the rows each was given
    flushes,    \* flushes that wrote something
    truth,      \* history: seqno -> the row inserted with it and not deleted
    flushed,    \* history: seqnos below it left the memtable
    damage      \* the stored buffers damaged so far

vars == <<opts, mem, segs, flushes, truth, flushed, damage>>

Init ==
    /\ opts \in Options
    /\ mem = NewMemtable(1)
    /\ segs = <<>> /\ flushes = 0
    /\ truth = <<>> /\ flushed = 1
    /\ damage = {}

\* ColumnarTable::insert, and replay of what it logged.
Insert(batch) ==
    /\ damage = {} /\ flushes < MaxFlushes
    /\ mem.nextSeqno + NumRows(batch) <= MaxSeqno + 1
    /\ mem' = MemInsertAt(mem, mem.nextSeqno, batch)
    /\ truth' = truth \o Tuples(batch)
    /\ UNCHANGED <<opts, segs, flushes, flushed, damage>>

\* A caller names rows by sequence numbers a scan gave it, perhaps long ago:
\* rows flushed since are out of the memtable's reach.
Delete(seqnos) ==
    /\ damage = {} /\ flushes < MaxFlushes
    /\ mem' = MemDelete(mem, seqnos)
    /\ truth' = [s \in DOMAIN truth |->
                    IF s \in seqnos /\ s >= flushed THEN <<>> ELSE truth[s]]
    /\ UNCHANGED <<opts, segs, flushes, flushed, damage>>

StoredRows == SumOf([i \in DOMAIN segs |-> segs[i].rowCount])

\* write_segment of each group.
Segments(groups, limit) ==
    [g \in DOMAIN groups |->
        LET built == BuildSegment(groups[g], opts)
        IN  [limit |-> limit, flush |-> flushes, tuples |-> AllTuples(groups[g]),
             bytes |-> built.bytes, columns |-> built.columns, rowCount |-> built.rowCount,
             pageRows |-> built.pageRows, blockRows |-> built.blockRows]]

WriteGroups(batches, limit) ==
    \E order \in Orders(batches, opts.clusterBy) :
        segs' = segs \o Segments(CutRows(batches, limit, opts.clusterBy, order), limit)

\* flush_locked: freeze, and one segment per row group.
Flush ==
    /\ damage = {} /\ flushes < MaxFlushes
    /\ mem.rows > 0
    /\ mem' = Emptied(mem)
    /\ flushed' = mem.nextSeqno
    /\ IF LiveCount(mem) = 0 THEN UNCHANGED <<segs, flushes>>
       ELSE /\ flushes' = flushes + 1
            /\ WriteGroups(Batches(mem), RowGroupSizeFor(opts, StoredRows + LiveCount(mem)))
    /\ UNCHANGED <<opts, truth, damage>>

\* One stored buffer of one segment reads back as something else.
Damage(s, i) ==
    /\ damage = {} /\ flushes > 0
    /\ Reverse(segs[s].bytes[i].cells) # segs[s].bytes[i].cells
    /\ segs' = [segs EXCEPT ![s].bytes[i].cells = Reverse(@)]
    /\ damage' = {[seg |-> s, off |-> segs[s].bytes[i].off]}
    /\ UNCHANGED <<opts, mem, flushes, truth, flushed>>

Next ==
    \/ \E batch \in Inserts : Insert(batch)
    \/ \E s, t \in DOMAIN truth : Delete({s, t})
    \/ Flush
    \/ \E s \in DOMAIN segs : \E i \in DOMAIN segs[s].bytes : Damage(s, i)

Spec == Init /\ [][Next]_vars

----------------------------------------------------------------------------
(* Properties.                                                             *)

\* The rows that should be there, in the order they arrived.
Expected == Picked(truth, {s \in DOMAIN truth : truth[s] # <<>>})
Stored == FlattenSeq([i \in DOMAIN segs |-> segs[i].tuples])

\* The memtable's counters and sequence numbers are in range, its chunks do not
\* overlap, and each segment has a chunk per column (memtable.rs, page.rs).
TypeOK ==
    /\ opts \in Options
    /\ mem.nextSeqno \in 1..(MaxSeqno + 1) /\ mem.tombstones \subseteq 1..MaxSeqno
    /\ \A i \in 2..Len(mem.chunks) :
            mem.chunks[i].base >= mem.chunks[i - 1].base + NumRows(mem.chunks[i - 1].batch)
    /\ \A i \in DOMAIN segs : Len(segs[i].columns) = Len(Types) /\ segs[i].rowCount > 0
    /\ flushes \in 0..MaxFlushes
    /\ DOMAIN truth \subseteq 1..MaxSeqno /\ flushed \in 1..(MaxSeqno + 1)

\* The sequence numbers a scan of the memtable hands to a DELETE or UPDATE name
\* the rows it shows, one for one and in order, and live_rows counts them
\* (memtable.rs: batches, live_seqnos, live_rows, delete), whatever stale
\* numbers were deleted before.
SeqnosNameRows ==
    /\ LiveCount(mem) = Len(LiveSeqnos(mem))
    /\ AllTuples(Batches(mem)) = [i \in DOMAIN LiveSeqnos(mem) |-> truth[LiveSeqnos(mem)[i]]]

\* Cutting rows into row groups neither loses, repeats nor mixes rows
\* (split_row_groups, cluster): the segments and the memtable hold exactly the
\* rows inserted and not deleted, in the order they arrived unless a z-order
\* reorders them.
NoRowLostByFlush ==
    IF opts.clusterBy = <<>> THEN Stored \o AllTuples(Batches(mem)) = Expected
    ELSE ToBag(Stored \o AllTuples(Batches(mem))) = ToBag(Expected)

\* No segment exceeds the row group size its flush worked out, and the groups
\* of a clustered flush are slices of the key order: no key of a group lies
\* above a key of the next (config.rs: row_group_size_for, zorder.rs: cluster).
GroupsFit ==
    /\ \A i \in DOMAIN segs : segs[i].limit = 0 \/ segs[i].rowCount <= segs[i].limit
    /\ opts.clusterBy # <<>> =>
        \A i \in 1..(Len(segs) - 1) :
            segs[i].flush = segs[i + 1].flush =>
                \A x \in DOMAIN segs[i].tuples : \A y \in DOMAIN segs[i + 1].tuples :
                    KeyLeq(Key(segs[i].tuples[x], opts.clusterBy),
                           Key(segs[i + 1].tuples[y], opts.clusterBy))

Ranges(n) == {r \in [start : 0..n, len : 0..n] : r.start + r.len <= n}

\* What a range of column c holds, null for a column added since.
Given(seg, c, r) ==
    [i \in 1..r.len |->
        IF c > Len(Types) THEN Null ELSE seg.tuples[r.start + i][c]]

ReadOf(seg, c, r) == ColumnRows(seg, c, r.start, r.len)

\* Any range of any column reads back as the rows the segment was given,
\* whatever encoding, codec and blocks the writer chose, and a column the
\* segment predates reads as nulls (encode.rs, decode.rs, read_rows).
RoundTrip ==
    damage = {} =>
        \A i \in DOMAIN segs : \A c \in 1..(Len(Types) + 1) :
            \A r \in Ranges(segs[i].rowCount) :
                ReadOf(segs[i], c, r) = Ok(Given(segs[i], c, r))

\* Where the blocks of chunk that rows r lie in are stored, or the whole chunk.
Extents(chunk) ==
    {b.off : b \in ToSet(chunk.buffers) \cup
                   UNION {ToSet(kid.buffers) : kid \in ToSet(chunk.children)}}
Needed(chunk, r) ==
    IF chunk.blocks = <<>> THEN Extents(chunk)
    ELSE UNION {Extents(chunk.blocks[k]) :
                    k \in {j \in DOMAIN chunk.blocks :
                            /\ (j - 1) * chunk.blockRows < r.start + r.len
                            /\ j * chunk.blockRows > r.start}}

\* A read returns the rows given or, for want of that buffer, an error.
RightOrMissing(read, seg, c, r, off) ==
    IF read.ok THEN read.cells = Given(seg, c, r) ELSE off \in Needed(seg.columns[c], r)

\* After damage to one stored buffer a read returns the right rows or an error,
\* and an error only where the range needs that buffer: damage to one column
\* or block costs no other (decode.rs: load, decode_blocks).
DamageStaysLocal ==
    \A d \in damage : \A c \in DOMAIN Types : \A r \in Ranges(segs[d.seg].rowCount) :
        RightOrMissing(ReadOf(segs[d.seg], c, r), segs[d.seg], c, r, d.off)

\* The zones, one per page of the segment, are exactly the pages' values.
ZonesMatch(zones, seg, c) ==
    zones # <<>> =>
        /\ (Len(zones) - 1) * seg.pageRows < seg.rowCount
        /\ Len(zones) * seg.pageRows >= seg.rowCount
        /\ \A p \in DOMAIN zones : ToSet(Given(seg, c, PageRange(seg, p - 1))) = zones[p]

\* The page bounds of a column read back one per page, each true of the rows
\* page_range gives the page, and the pages cover the segment; damaged bounds
\* are an error, not bounds (segment.rs: page_zones, page_range, side_buffer).
PagesBound ==
    \A i \in DOMAIN segs : \A c \in DOMAIN Types :
        ZonesMatch(ReadPageZones(segs[i], c).cells, segs[i], c)
====
