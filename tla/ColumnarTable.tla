--------------------------- MODULE ColumnarTable ---------------------------
(***************************************************************************)
(* One open table shared by concurrent tasks: the writer mutex, the        *)
(* snapshot readers load without it, and the operations that read first    *)
(* and lock later (localtables-format/src/columnar/table/write.rs,         *)
(* maintain.rs, evolve.rs, read.rs, and DmlExec of                         *)
(* datafusion-local-tables/src/dml.rs).                                    *)
(*                                                                         *)
(* What an operation does while it holds the mutex is one action, since    *)
(* every other task waits for the mutex or reads only the published        *)
(* snapshot and the handle's schema; a schema change is two, because it    *)
(* publishes twice.  Durability and the bytes of the file are the subject  *)
(* of DurableWrites and TableFile.                                         *)
(*                                                                         *)
(* A row is known by the sequence number its insert gave it, which also    *)
(* stands for its position in a segment; a flush, a compaction and a       *)
(* conversion each write the rows they are given as one segment.           *)
(***************************************************************************)
EXTENDS Naturals, FiniteSets

CONSTANTS
    Tasks,
    Keys,           \* what a WHERE clause can tell rows apart by
    Workloads       \* what the tasks are set to do, each with its bounds

Operations == {"insert", "delete", "update", "flush", "drop", "compact",
               "cast", "widen", "fault"}

\* calls: the operations each task calls, and "fault" when the commits it makes
\* may fail; the bounds: rows ever inserted, commits, schema changes.
Workload == [calls : [Tasks -> SUBSET Operations],
             maxSeq : Nat, maxTxn : Nat, maxChanges : Nat]

ASSUME ColumnarTableAssumption == Workloads \subseteq Workload

VARIABLES
    load,       \* the workload of this behaviour
    segs,       \* the manifest's segments
    dead,       \* Writer::deletes, one member per deleted row
    dirty,      \* Writer::dirty_deletes
    mem,        \* live rows of the memtable, with the batch they came in
    nextSeq,
    nextId,
    txn,        \* the committed txn_id
    schema,     \* the schema in force: the handle's and the file's
    current,    \* the published snapshot
    holder,     \* the task inside the mutex between two actions
    task,       \* task -> what its call knows so far
    freed,      \* extents given to Manifest::free
    doubled,    \* extents given to it again
    truth       \* history: the rows the acknowledged calls leave

writer == <<segs, dead, dirty, mem, nextSeq, nextId, txn, freed, doubled>>
vars == <<load, writer, schema, current, holder, task, truth>>

----------------------------------------------------------------------------

Row == [seq : Nat, key : Keys]

\* A cast starts a new epoch, an added column only widens the schema.
Schema == [epoch : Nat, width : Nat]

\* SchemaLayout::accepts: the segment holds a prefix of the schema's columns.
Accepts(s, seg) == seg.schema.epoch = s.epoch /\ seg.schema.width <= s.width

Segment == [id : Nat, rows : SUBSET Row, schema : Schema, map : SUBSET Nat]
Deleted == [id : Nat, seq : Nat]

\* A row in memory: its batch is known by the sequence number of its first row.
Held == [row : Row, schema : Schema, batch : Nat]

Snapshot == [segs : SUBSET Segment, dead : SUBSET Deleted, mem : SUBSET Held,
             schema : Schema]

\* An extent is a segment's data (map 0) or the bitmap its commit `map` wrote.
Extents(es) == {[id |-> e.id, map |-> 0] : e \in es} \cup
               UNION {{[id |-> e.id, map |-> b] : b \in e.map} : e \in es}

Of(d, ids) == {x \in d : x.id \in ids}
Ids(es) == {e.id : e \in es}
Entries(es, ids) == {e \in es : e.id \in ids}

\* The rows of a segment that a snapshot's or the writer's bitmaps keep.
Live(e, d) == {r \in e.rows : [id |-> e.id, seq |-> r.seq] \notin d}
LiveRows(es, d) == UNION {Live(e, d) : e \in es}
LiveSegments(s) == {e \in s.segs : Live(e, s.dead) # {}}

\* Rows a scan of snapshot s returns, each with the segment it comes from, 0
\* for the memtable.
Scan(s) == {<<0, x.row>> : x \in s.mem} \cup
           UNION {{<<e.id, r>> : r \in Live(e, s.dead)} : e \in s.segs}
Shown(s) == {x[2] : x \in Scan(s)}

----------------------------------------------------------------------------

Idle == [at |-> "idle"]

Init ==
    /\ load \in Workloads
    /\ segs = {} /\ dead = {} /\ dirty = {} /\ mem = {}
    /\ nextSeq = 1 /\ nextId = 1 /\ txn = 0
    /\ schema = [epoch |-> 0, width |-> 1]
    /\ current = [segs |-> {}, dead |-> {}, mem |-> {}, schema |-> schema]
    /\ holder = {}
    /\ task = [t \in Tasks |-> Idle]
    /\ freed = {} /\ doubled = {}
    /\ truth = {}

Calls(t, op) == task[t] = Idle /\ op \in load.calls[t]
Goes(t, state) == task' = [task EXCEPT ![t] = state]

\* TableFile::commit of task t may return an error, with the manifest and the
\* published snapshot left as they were.
MayFail(t) == "fault" \in load.calls[t]

\* build_snapshot over the writer's new state, and publish.
Publish(s) == current' = [segs |-> segs', dead |-> dead', mem |-> mem',
                          schema |-> s]

\* Manifest::free of every extent in xs.
Free(xs) ==
    /\ freed' = freed \cup xs
    /\ doubled' = doubled \cup (xs \cap freed)

\* write_segment of one row group: no rows, no segment.
NewSegment(rows, s) ==
    IF rows = {} THEN {}
    ELSE {[id |-> nextId, rows |-> rows, schema |-> s, map |-> {}]}

Refused(t) ==
    /\ Goes(t, Idle)
    /\ UNCHANGED <<writer, schema, current, holder, truth>>

----------------------------------------------------------------------------
(* insert, and the DELETE and UPDATE of DmlExec::run.                      *)

\* The batch is checked against the handle's schema before the mutex.
StartInsert(t, k) ==
    /\ Calls(t, "insert")
    /\ nextSeq <= load.maxSeq
    /\ Goes(t, [at |-> "insert", key |-> k, schema |-> schema])
    /\ UNCHANGED <<writer, schema, current, holder, truth>>

Insert(t) ==
    LET r == [seq |-> nextSeq, key |-> task[t].key]
    IN /\ task[t].at = "insert"
       /\ holder = {}
       /\ nextSeq <= load.maxSeq
       /\ mem' = mem \cup {[row |-> r, schema |-> task[t].schema, batch |-> nextSeq]}
       /\ nextSeq' = nextSeq + 1
       /\ UNCHANGED <<segs, dead, dirty, nextId, txn, freed, doubled>>
       /\ Publish(schema)
       /\ truth' = truth \cup {r}
       /\ Goes(t, Idle)
       /\ UNCHANGED <<schema, holder>>

StartDml(t, op, k) ==
    /\ Calls(t, op)
    /\ op = "update" => nextSeq <= load.maxSeq
    /\ Goes(t, [at |-> "pinned", op |-> op, key |-> k, snap |-> current,
                left |-> LiveSegments(current), hits |-> {}])
    /\ UNCHANGED <<writer, schema, current, holder, truth>>

\* find_matches, the segments in the order of the manifest: each is read
\* through the handle's schema of that moment.
ReadSegment(t) ==
    LET c == task[t]
    IN \E e \in IF c.at = "pinned" THEN c.left ELSE {} :
       /\ \A f \in c.left : e.id <= f.id
       /\ IF Accepts(schema, e)
          THEN Goes(t, [c EXCEPT
                  !.left = @ \ {e},
                  !.hits = @ \cup {[id |-> e.id, row |-> r, schema |-> schema] :
                                   r \in {x \in Live(e, c.snap.dead) : x.key = c.key}}])
          ELSE Goes(t, Idle)
       /\ UNCHANGED <<writer, schema, current, holder, truth>>

SeqsOf(m) == {x.row.seq : x \in m}
Before(S, q) == Cardinality({x \in S : x < q})

\* find_matches, the memtable: the n-th row of the snapshot is taken to be the
\* n-th sequence number the writer lists now.
SeqnoOf(x, then, now) ==
    {n \in SeqsOf(now) : Before(SeqsOf(now), n) = Before(SeqsOf(then), x.row.seq)}

\* A batch none of whose matches has a number is passed over; of any other
\* every match is replaced, numbered or not.
ListSeqnos(t) ==
    LET c == task[t]
        match == {x \in c.snap.mem : x.row.key = c.key}
        seqno(x) == SeqnoOf(x, c.snap.mem, mem)
        found == {x \in match : \E y \in match : y.batch = x.batch /\ seqno(y) # {}}
    IN /\ c.at = "pinned" /\ c.left = {}
       /\ holder = {}
       /\ Goes(t, [at |-> "matched", op |-> c.op, key |-> c.key, snap |-> c.snap,
                   hits |-> c.hits,
                   seqs |-> UNION {seqno(x) : x \in found},
                   old |-> {x.row : x \in found} \cup {h.row : h \in c.hits},
                   schemas |-> {x.schema : x \in found} \cup {h.schema : h \in c.hits}])
       /\ UNCHANGED <<writer, schema, current, holder, truth>>

\* What the statement means to change: the rows its snapshot shows.
Selected(c) == {r \in Shown(c.snap) : r.key = c.key}

\* Nothing matched, or the replacements of an UPDATE do not fit the handle's
\* schema, which is checked before the mutex.
EndMatch(t) ==
    LET c == task[t]
    IN /\ c.at = "matched"
       /\ IF c.old = {} \/ (c.op = "update" /\ c.schemas # {schema})
          THEN Goes(t, Idle)
          ELSE Goes(t, [c EXCEPT !.at = "ready"])
       /\ truth' = IF c.old = {} THEN truth \ Selected(c) ELSE truth
       /\ UNCHANGED <<writer, schema, current, holder>>

\* delete and update under the mutex: plan_deletes, apply_deletes, insert_at.
\* Rows deleted since the snapshot are not deleted again, but replaced they are,
\* and a DELETE with nothing left to delete returns without publishing.
ApplyDml(t) ==
    LET c == task[t]
        place(r) == nextSeq + Before({o.seq : o \in c.old}, r.seq)
        new(rows) == {[seq |-> place(r), key |-> r.key] :
                         r \in IF c.op = "update" THEN rows ELSE {}}
        gone == {[id |-> h.id, seq |-> h.row.seq] : h \in c.hits} \ dead
    IN /\ c.at = "ready"
       /\ holder = {}
       /\ {h.id : h \in c.hits} \subseteq Ids(segs)
       /\ nextSeq + Cardinality(new(c.old)) <= load.maxSeq + 1
       /\ dead' = dead \cup gone
       /\ dirty' = dirty \cup {x.id : x \in gone}
       /\ mem' = {x \in mem : x.row.seq \notin c.seqs}
                 \cup [row : new(c.old), schema : c.schemas, batch : {nextSeq}]
       /\ nextSeq' = nextSeq + Cardinality(new(c.old))
       /\ UNCHANGED <<segs, nextId, txn, freed, doubled>>
       /\ IF c.op = "delete" /\ gone = {} /\ c.seqs \cap SeqsOf(mem) = {}
          THEN UNCHANGED current
          ELSE Publish(schema)
       /\ truth' = (truth \ Selected(c)) \cup new(c.old \cap truth)
       /\ Goes(t, Idle)
       /\ UNCHANGED <<schema, holder>>

\* plan_deletes: a matched segment has left the manifest.
RefuseDml(t) ==
    /\ task[t].at = "ready"
    /\ holder = {}
    /\ ~({h.id : h \in task[t].hits} \subseteq Ids(segs))
    /\ Refused(t)

----------------------------------------------------------------------------
(* flush_locked.                                                           *)

\* A bitmap this commit writes replaces the one the entry names.
Remap(e) == IF e.id \in dirty /\ Of(dead, {e.id}) # {}
            THEN [e EXCEPT !.map = {txn + 1}] ELSE e

FlushLocked ==
    LET new == NewSegment({x.row : x \in mem}, schema)
    IN /\ holder = {}
       /\ txn < load.maxTxn
       /\ mem # {} \/ dirty # {}
       /\ \A x \in mem : x.schema = schema
       /\ segs' = {Remap(e) : e \in segs} \cup new
       /\ Free(Extents(segs) \ Extents(segs'))
       /\ nextId' = nextId + Cardinality(new)
       /\ mem' = {} /\ dirty' = {}
       /\ txn' = txn + 1
       /\ UNCHANGED <<dead, nextSeq>>
       /\ Publish(schema)

\* build_segment refuses a batch of another schema, or the commit fails, after
\* the memtable and the dirty set were taken out.
FlushFails(t) ==
    /\ holder = {}
    /\ \/ \E x \in mem : x.schema # schema
       \/ MayFail(t) /\ (mem # {} \/ dirty # {})
    /\ mem' = {} /\ dirty' = {}
    /\ UNCHANGED <<segs, dead, nextSeq, nextId, txn, freed, doubled, current>>

\* Called by a client, or by an insert or update that crossed a size limit.
Flush(t) ==
    /\ Calls(t, "flush")
    /\ FlushLocked \/ FlushFails(t)
    /\ UNCHANGED <<schema, holder, task, truth>>

----------------------------------------------------------------------------
(* delete_segments, compact_segments, compact_run.                         *)

\* The bitmaps of segments are forgotten in memory only.
Forget(ids) ==
    /\ dead' = dead \ Of(dead, ids)
    /\ dirty' = dirty \ ids

\* They are before it is known whether there is anything to delete.
DropSegments(t, ids) ==
    LET gone == Entries(segs, ids)
        lost == LiveRows(gone, dead)
    IN /\ Calls(t, "drop")
       /\ holder = {}
       /\ gone # {} /\ txn < load.maxTxn
       /\ Forget(ids)
       /\ UNCHANGED <<mem, nextSeq, nextId, schema, holder, task>>
       /\ IF lost = {} THEN UNCHANGED <<segs, txn, freed, doubled, current>>
          ELSE /\ segs' = segs \ gone
               /\ Free(Extents(gone))
               /\ txn' = txn + 1
               /\ Publish(schema)
       /\ truth' = truth \ lost

\* A commit that fails has lost the bitmaps of the segments it was to remove.
CommitFails(t, ids) ==
    /\ MayFail(t)
    /\ Forget(ids)
    /\ UNCHANGED <<segs, mem, nextSeq, nextId, txn, freed, doubled, current>>

DropFails(t, ids) ==
    /\ Calls(t, "drop")
    /\ holder = {}
    /\ LiveRows(Entries(segs, ids), dead) # {}
    /\ CommitFails(t, ids)
    /\ UNCHANGED <<schema, holder, task, truth>>

\* compact and rewrite_all name segments of the snapshot they find.
StartCompact(t, ids) ==
    /\ Calls(t, "compact")
    /\ ids # {} /\ ids \subseteq Ids(current.segs)
    /\ Goes(t, [at |-> "compact", todo |-> ids])
    /\ UNCHANGED <<writer, schema, current, holder, truth>>

\* Each run takes a snapshot of its own and reads outside the mutex.  A run
\* that names a segment no longer there, or one that does not read under the
\* snapshot's schema, ends the call.
ReadRun(t, run) ==
    /\ task[t].at = "compact"
    /\ run # {} /\ run \subseteq task[t].todo
    /\ IF /\ run \subseteq Ids(current.segs)
          /\ \A e \in Entries(current.segs, run) : Accepts(current.schema, e)
       THEN Goes(t, [at |-> "rewrite", run |-> run, todo |-> task[t].todo \ run,
                     snap |-> current])
       ELSE Goes(t, Idle)
    /\ UNCHANGED <<writer, schema, current, holder, truth>>

NextRun(c) == IF c.todo = {} THEN Idle ELSE [at |-> "compact", todo |-> c.todo]

\* Mutant: a delete that landed while the run was read goes unnoticed.
NeverStale(c) == FALSE

\* The recheck: how many rows are deleted now, and how many were when read.
Stale(c) == \E id \in c.run : Cardinality(Of(dead, {id}))
                              # Cardinality(Of(c.snap.dead, {id}))

\* retire, and the end of compact_run: the entries as they were read.
Retire(sources) ==
    /\ Free(Extents(sources))
    /\ Forget(Ids(sources))

\* Mutant: the entries rewritten stay in the manifest.
RewriteBeside(sources, rows, s) ==
    /\ txn < load.maxTxn
    /\ segs' = segs \cup NewSegment(rows, s)
    /\ nextId' = nextId + Cardinality(NewSegment(rows, s))
    /\ Retire(sources)
    /\ txn' = txn + 1
    /\ UNCHANGED <<mem, nextSeq>>
    /\ Publish(schema)

\* Mutant: an entry that changed since it was read stays in the manifest.
RewriteAsRead(sources, rows, s) ==
    /\ txn < load.maxTxn
    /\ segs' = (segs \ sources) \cup NewSegment(rows, s)
    /\ nextId' = nextId + Cardinality(NewSegment(rows, s))
    /\ Retire(sources)
    /\ txn' = txn + 1
    /\ UNCHANGED <<mem, nextSeq>>
    /\ Publish(schema)

\* Rewrite sources, as they were read, into one segment, and commit.
Rewritten(sources, rows, s) ==
    /\ txn < load.maxTxn
    /\ segs' = (segs \ Entries(segs, Ids(sources))) \cup NewSegment(rows, s)
    /\ nextId' = nextId + Cardinality(NewSegment(rows, s))
    /\ Retire(sources)
    /\ txn' = txn + 1
    /\ UNCHANGED <<mem, nextSeq>>
    /\ Publish(schema)

\* What a run read, and build_segment's refusal of batches of another schema.
RunSources(c) == Entries(c.snap.segs, c.run)
RunRows(c) == LiveRows(RunSources(c), c.snap.dead)
RunFits(c) == RunRows(c) # {} => c.snap.schema = schema

WriteRun(t) ==
    LET c == task[t]
    IN /\ c.at = "rewrite"
       /\ holder = {}
       /\ ~Stale(c)
       /\ RunFits(c)
       /\ Rewritten(RunSources(c), RunRows(c), schema)
       /\ Goes(t, NextRun(c))
       /\ UNCHANGED <<schema, holder, truth>>

\* The error ends the call.
RunFails(t) ==
    LET c == task[t]
    IN /\ c.at = "rewrite"
       /\ holder = {}
       /\ ~Stale(c) /\ RunFits(c)
       /\ CommitFails(t, c.run)
       /\ Goes(t, Idle)
       /\ UNCHANGED <<schema, holder, truth>>

\* A stale run is abandoned and the next one tried; batches of another schema
\* are an error that ends the call.
AbandonRun(t) ==
    LET c == task[t]
    IN /\ c.at = "rewrite"
       /\ holder = {}
       /\ Stale(c) \/ ~RunFits(c)
       /\ Goes(t, IF Stale(c) THEN NextRun(c) ELSE Idle)
       /\ UNCHANGED <<writer, schema, current, holder, truth>>

----------------------------------------------------------------------------
(* set_schema, for cast_column (which rewrites) and add_column (which does *)
(* not).                                                                   *)

\* Mutant: an added column is taken away.
ChangedBackwards(op, s) == IF op = "cast" THEN [s EXCEPT !.epoch = @ + 1]
                           ELSE [s EXCEPT !.width = @ - 1]

\* The new schema is derived from the one the handle holds at the call.
Changed(op, s) == IF op = "cast" THEN [s EXCEPT !.epoch = @ + 1]
                  ELSE [s EXCEPT !.width = @ + 1]

StartAlter(t, op) ==
    /\ Calls(t, op)
    /\ schema.epoch + schema.width <= load.maxChanges
    /\ Goes(t, [at |-> "alter", op |-> op, after |-> Changed(op, schema)])
    /\ UNCHANGED <<writer, schema, current, holder, truth>>

AlterFlush(t) ==
    /\ task[t].at = "alter"
    /\ holder = {}
    /\ \/ /\ mem = {} /\ dirty = {}
          /\ Goes(t, [task[t] EXCEPT !.at = "flushed"])
          /\ UNCHANGED <<writer, current>>
       \/ FlushLocked /\ Goes(t, [task[t] EXCEPT !.at = "flushed"])
       \/ FlushFails(t) /\ Goes(t, Idle)
    /\ UNCHANGED <<schema, holder, truth>>

\* before and then the sources are loaded without the mutex.
AlterLoad(t) ==
    /\ task[t].at = "flushed"
    /\ Goes(t, [at |-> "loaded", op |-> task[t].op, after |-> task[t].after,
                before |-> schema])
    /\ UNCHANGED <<writer, schema, current, holder, truth>>

AlterPin(t) ==
    LET c == task[t]
    IN /\ c.at = "loaded"
       /\ Goes(t, [at |-> "sourced", op |-> c.op, after |-> c.after,
                   before |-> c.before, snap |-> current])
       /\ UNCHANGED <<writer, schema, current, holder, truth>>

\* A write landed in between, or the sources do not read under before.
AlterRefused(t) ==
    LET c == task[t]
    IN /\ c.at = "sourced"
       /\ holder = {}
       /\ \/ mem # {}
          \/ c.op = "cast" /\ \E e \in LiveSegments(c.snap) : ~Accepts(c.before, e)
       /\ Refused(t)

\* The commit publishes a snapshot while the file still has the old schema.
AlterCommit(t) ==
    LET c == task[t]
        sources == LiveSegments(c.snap)
    IN /\ c.at = "sourced"
       /\ holder = {}
       /\ mem = {}
       /\ txn < load.maxTxn
       /\ IF c.op = "cast"
          THEN /\ \A e \in sources : Accepts(c.before, e)
               /\ Rewritten(sources, LiveRows(sources, c.snap.dead), c.after)
          ELSE /\ txn' = txn + 1
               /\ UNCHANGED <<segs, dead, dirty, mem, nextSeq, nextId, freed, doubled>>
               /\ Publish(schema)
       /\ holder' = {t}
       /\ Goes(t, [at |-> "adopt", after |-> c.after])
       /\ UNCHANGED <<schema, truth>>

\* Only a conversion has retired its sources when the commit fails.
AlterFails(t) ==
    LET c == task[t]
    IN /\ c.at = "sourced"
       /\ holder = {}
       /\ mem = {}
       /\ c.op = "cast" => \A e \in LiveSegments(c.snap) : Accepts(c.before, e)
       /\ CommitFails(t, IF c.op = "cast" THEN Ids(LiveSegments(c.snap)) ELSE {})
       /\ Goes(t, Idle)
       /\ UNCHANGED <<schema, holder, truth>>

\* Mutant: the second snapshot is built before the file has the new schema.
AdoptLate(t) ==
    /\ task[t].at = "adopt"
    /\ schema' = task[t].after
    /\ mem' = {}
    /\ UNCHANGED <<segs, dead, dirty, nextSeq, nextId, txn, freed, doubled>>
    /\ Publish(schema)
    /\ holder' = {}
    /\ Goes(t, Idle)
    /\ UNCHANGED truth

\* adopt_schema: the file, the memtable, the handle and a second snapshot.
AdoptSchema(t) ==
    /\ task[t].at = "adopt"
    /\ schema' = task[t].after
    /\ mem' = {}
    /\ UNCHANGED <<segs, dead, dirty, nextSeq, nextId, txn, freed, doubled>>
    /\ Publish(schema')
    /\ holder' = {}
    /\ Goes(t, Idle)
    /\ UNCHANGED truth

----------------------------------------------------------------------------

Step(t) ==
    \/ \E k \in Keys :
          \/ StartInsert(t, k)
          \/ \E op \in {"delete", "update"} : StartDml(t, op, k)
    \/ Insert(t)
    \/ ReadSegment(t) \/ ListSeqnos(t) \/ EndMatch(t) \/ ApplyDml(t) \/ RefuseDml(t)
    \/ Flush(t)
    \/ \E ids \in SUBSET Ids(segs) : DropSegments(t, ids) \/ DropFails(t, ids)
    \/ \E ids \in SUBSET Ids(current.segs) : StartCompact(t, ids)
    \/ \E run \in SUBSET (1 .. nextId) : ReadRun(t, run)
    \/ WriteRun(t) \/ RunFails(t) \/ AbandonRun(t)
    \/ \E op \in {"cast", "widen"} : StartAlter(t, op)
    \/ AlterFlush(t) \/ AlterLoad(t) \/ AlterPin(t) \/ AlterRefused(t)
    \/ AlterCommit(t) \/ AlterFails(t) \/ AdoptSchema(t)

Next == UNCHANGED load /\ \E t \in Tasks : Step(t)

Spec == Init /\ [][Next]_vars

----------------------------------------------------------------------------
(* Properties.                                                             *)

\* Every variable keeps its type.
TypeOK ==
    /\ load \in Workloads
    /\ segs \in SUBSET Segment
    /\ dead \in SUBSET Deleted
    /\ dirty \in SUBSET Nat
    /\ mem \in SUBSET Held
    /\ nextSeq \in Nat /\ nextId \in Nat /\ txn \in Nat
    /\ schema \in Schema
    /\ current \in Snapshot
    /\ holder \in SUBSET Tasks
    /\ \A t \in Tasks :
          task[t].at \in {"idle", "insert", "pinned", "matched", "ready", "compact",
                          "rewrite", "alter", "flushed", "loaded", "sourced", "adopt"}
    /\ freed \in SUBSET [id : Nat, map : Nat]
    /\ doubled \in SUBSET freed
    /\ truth \in SUBSET Row

\* No row reaches a scan from two places: "leaves a valid table at every
\* point", however compactions and conversions overlapped with the writes beside
\* them, and whichever commits failed.
NoRowTwice == Cardinality(Scan(current)) = Cardinality(Shown(current))

\* A scan returns the rows the acknowledged calls leave, each exactly once: what
\* was inserted is seen, what was deleted stays deleted, and a call that was
\* refused has changed nothing.
ScanShowsTruth == NoRowTwice /\ Shown(current) = truth

\* Task t changes the schema; it is the only one set to do anything.
Alters(t) == load.calls[t] \cap {"cast", "widen"} # {}
Alone(t) == \A u \in Tasks \ {t} : load.calls[u] = {}

\* Where no commit fails and no schema change runs beside other calls, scans
\* show what the acknowledged calls leave, whatever compaction rewrote
\* meanwhile.
ScanIsExact ==
    (\A t \in Tasks : ~MayFail(t) /\ (Alters(t) => Alone(t))) => ScanShowsTruth

\* A row that is gone from the scans stays gone: what a publication adds are
\* rows just inserted.  An acknowledged delete is not undone by the commits of
\* other calls.
GoneStaysGone == [][\A r \in Shown(current') \ Shown(current) : r.seq >= nextSeq]_vars

\* No extent is given to Manifest::free twice, and none that is still in use:
\* either way allocate would hand the same bytes to two owners.
FreedOnce == doubled = {} /\ Extents(segs) \cap freed = {}

\* The same, of a table only one task works on.
FreedOnceAlone == (\E t \in Tasks : Alone(t)) => FreedOnce

\* One task at most rewrites segments or drops them.
Removes(t) == load.calls[t] \cap {"compact", "cast", "drop"} # {}
OneRemoves == \A t, u \in Tasks : Removes(t) /\ Removes(u) => t = u

\* What a compaction frees are the entries it read, which a flush beside it may
\* have replaced.  The bytes of a segment are still freed once, and no entry names
\* them any more; only a bitmap that a flush superseded can be freed twice.
SegmentsFreedOnce ==
    OneRemoves => \A x \in doubled \cup (Extents(segs) \cap freed) : x.map # 0

\* Casts run beside nothing else, and where no segment is dropped and no commit
\* fails: either way the bitmap of an emptied segment is forgotten, and its rows,
\* of an old epoch, come back.
CastsAlone ==
    \A t \in Tasks : "cast" \in load.calls[t] =>
        Alone(t) /\ load.calls[t] \cap {"drop", "fault"} = {}

\* Outside a schema change's hold of the mutex, every segment a scan of the
\* published snapshot reads decodes under the schema published with it: nothing
\* the change published last mixes the old schema with the new segments.
SettledDecodes ==
    CastsAlone /\ holder = {} => \A e \in LiveSegments(current) : Accepts(current.schema, e)

\* "A segment always matches the schema in force": every segment of the table
\* does, the ones deletes have emptied too, for a compaction still reads those.
EverySegmentFits == holder = {} => \A e \in segs : Accepts(schema, e)

=============================================================================
