--------------------------- MODULE DurableWrites ---------------------------
(***************************************************************************)
(* The path of an acknowledged row: write-ahead log, memtable, flush,      *)
(* commit, replay (localtables-format/src/columnar/table/write.rs and      *)
(* mod.rs, wal/mod.rs, wal/file.rs, columnar/memtable.rs).                 *)
(*                                                                         *)
(* The table file is taken at its word: a commit replaces it as a whole    *)
(* (AtomicCommit, which module TableFile implements).  A row stands for    *)
(* a batch and for the sequence numbers its rows are given; a segment is   *)
(* the set of rows one flush wrote, and a bitmap a set of its rows.        *)
(*                                                                         *)
(* logs[i] is what log i holds; logImg[i] what it may hold after a crash.  *)
(* A torn record at the end of a log is cut by recover, so an image is a   *)
(* sequence of whole records.                                              *)
(***************************************************************************)
EXTENDS Naturals, Sequences, FiniteSets

CONSTANTS
    Rows,           \* the rows clients insert, each at most once
    MaxGroup,       \* bound: batches of one insert
    MaxLsn,         \* bound: records ever logged
    MaxGen,         \* bound: rotations of the log
    MaxCrashes,     \* bound: crashes
    MaxErrors       \* bound: I/O errors of an append or a flush

ASSUME DurableWritesAssumption ==
    /\ MaxGroup \in Nat /\ MaxLsn \in Nat /\ MaxGen \in Nat
    /\ MaxCrashes \in Nat /\ MaxErrors \in Nat

VARIABLES
    disk,       \* the committed table: segments, bitmaps, checkpoint_lsn
    logs,       \* log -> header and records
    logImg,     \* log -> what a crash may leave of it
    pc,         \* where the holder of the writer lock stands
    mem,        \* live rows of the memtable
    deletes,    \* deleted rows of segments (Writer::deletes)
    dirty,      \* segments whose bitmap the file does not hold yet
    nextLsn,
    active,     \* the log appends go to
    len,        \* log -> WalFile::len, in records
    writing,    \* the records of the append under way
    frozen,     \* rows and dirty segments a flush has taken out
    shown,      \* rows of the published snapshot
    acked,      \* history: rows whose insert was acknowledged, less deletes
    unsure,     \* history: operations that failed or were cut off by a crash
    lapses,     \* history: what has put acknowledged rows at risk
    crashes, errors

memVars == <<mem, deletes, dirty, nextLsn, active, len>>
history == <<acked, unsure, lapses>>
vars == <<disk, logs, logImg, pc, memVars, writing, frozen, shown, history,
          crashes, errors>>

----------------------------------------------------------------------------

Log == {0, 1}
Segment == [id : Nat, rows : SUBSET Rows]
Bitmap == [id : Nat, dead : SUBSET Rows]

\* WalRecord: Insert has only put, Delete only del and maps, Update all three.
WalRecord == [lsn : Nat, put : SUBSET Rows, del : SUBSET Rows, maps : SUBSET Bitmap]

NoHeader == [ok |-> FALSE, gen |-> 0, recs |-> <<>>]
Fresh(gen) == [ok |-> TRUE, gen |-> gen, recs |-> <<>>]

RowsIn(segs) == UNION {s.rows : s \in segs}
SeqRange(s) == {s[i] : i \in 1 .. Len(s)}
SetMax(S) == CHOOSE x \in S : \A y \in S : x >= y

\* build_snapshot: what a scan of the writer's state returns.
Visible(segs, dead, m) == (RowsIn(segs) \ dead) \cup m

----------------------------------------------------------------------------
(* The log.                                                                *)

\* append_group at the end this handle knows of.  A failed append may have
\* left records beyond it; those the new bytes do not cover may survive.
Left(i) == SubSeq(logs[i].recs, len[i] + 1, Len(logs[i].recs))
Base(i) == SubSeq(logs[i].recs, 1, len[i])

\* What WalFile::recover makes of a torn append: the records before the damage.
Cut(i, new) == {[logs[i] EXCEPT !.recs = Base(i) \o SubSeq(new, 1, k)] :
                   k \in 0 .. Len(new)}

WriteRecords(i, new) ==
    \E tail \in {<<>>, SubSeq(Left(i), Len(new) + 1, Len(Left(i)))} :
        LET full == [logs[i] EXCEPT !.recs = Base(i) \o new \o tail]
        IN /\ logs' = [logs EXCEPT ![i] = full]
           /\ logImg' = [logImg EXCEPT ![i] = @ \cup Cut(i, new) \cup {full}]

SetLog(i, c) ==
    /\ logs' = [logs EXCEPT ![i] = c]
    /\ logImg' = [logImg EXCEPT ![i] = @ \cup {c}]

\* A change of the file, synced before the call returns.
SetLogSynced(i, c) ==
    /\ logs' = [logs EXCEPT ![i] = c]
    /\ logImg' = [logImg EXCEPT ![i] = {c}]

\* Mutant: the generation is returned where the log's index is expected.
NewestGeneration(l) == IF l[1].gen > l[0].gen THEN l[1].gen ELSE l[0].gen

\* newest: the log with the higher generation, the first on a tie.
Newest(l) == IF l[1].gen > l[0].gen THEN 1 ELSE 0

----------------------------------------------------------------------------
(* Replay: the loop over the recovered records, in LSN order, as what it   *)
(* leaves behind.                                                          *)

Logged(l) == SeqRange(l[0].recs) \cup SeqRange(l[1].recs)

\* Mutant: the record the checkpoint names is replayed again.
PendingFromCheckpoint(l, cp) == {r \in Logged(l) : r.lsn >= cp}

Pending(l, cp) == {r \in Logged(l) : r.lsn > cp}

\* insert_at, and delete of what an earlier record put there.  An Update
\* deletes before it inserts.
ReplayedMem(l, cp) ==
    {x \in Rows : \E r \in Pending(l, cp) :
        /\ x \in r.put
        /\ \A q \in Pending(l, cp) : x \in q.del => q.lsn <= r.lsn}

\* apply_logged_deletes: the last logged bitmap of a segment replaces the one
\* the file holds; a segment that is gone has nothing to mark.
LoggedMaps(l, cp, segs) ==
    {b \in UNION {r.maps : r \in Pending(l, cp)} : \E s \in segs : s.id = b.id}
LastMaps(l, cp, segs) ==
    {b \in LoggedMaps(l, cp, segs) :
        \E r \in Pending(l, cp) :
            /\ b \in r.maps
            /\ \A q \in Pending(l, cp) : \A c \in q.maps : c.id = b.id => q.lsn <= r.lsn}
Remapped(dead, maps, segs) ==
    (dead \ RowsIn({s \in segs : \E b \in maps : b.id = s.id}))
        \cup UNION {b.dead : b \in maps}
ReplayedDeletes(l, d) ==
    Remapped(d.dead, LastMaps(l, d.cp, d.segs), d.segs)

ReplayedLsn(l, cp) == SetMax({cp} \cup {r.lsn : r \in Pending(l, cp)}) + 1

\* What the table would show if it were opened from these files.
Recovered(l, d) == Visible(d.segs, ReplayedDeletes(l, d), ReplayedMem(l, d.cp))

----------------------------------------------------------------------------

Init ==
    /\ disk = [segs |-> {}, dead |-> {}, cp |-> 0, nextId |-> 0]
    /\ logs = [i \in Log |-> Fresh(0)]
    /\ logImg = [i \in Log |-> {Fresh(0)}]
    /\ pc = "idle"
    /\ mem = {} /\ deletes = {} /\ dirty = {}
    /\ nextLsn = 1
    /\ active = 0
    /\ len = [i \in Log |-> 0]
    /\ writing = <<>>
    /\ frozen = [rows |-> {}, dirty |-> {}]
    /\ shown = {}
    /\ acked = {} /\ unsure = {} /\ lapses = {}
    /\ crashes = 0 /\ errors = 0

----------------------------------------------------------------------------
(* insert, delete, update: log first, then memory, then publish.           *)

Issued == acked \cup RowsIn(disk.segs) \cup mem \cup deletes
          \cup (UNION {r.put : r \in unsure})
\* A row no operation has named yet.
Unused == {x \in Rows : /\ x \notin Issued
                        /\ \A i \in Log : \A r \in SeqRange(logs[i].recs) :
                              x \notin r.put}

\* The records of one call as a whole, for the history of unsettled calls.
Statement(recs) ==
    LET all == SeqRange(recs)
    IN {[lsn |-> recs[1].lsn,
         put |-> UNION {r.put : r \in all},
         del |-> UNION {r.del : r \in all},
         maps |-> UNION {r.maps : r \in all}] : k \in 1 .. Len(recs)}

StartAppend(recs) ==
    /\ pc = "idle"
    /\ nextLsn + Len(recs) <= MaxLsn + 1
    /\ pc' = "appending"
    /\ writing' = recs
    /\ nextLsn' = nextLsn + Len(recs)
    /\ WriteRecords(active, recs)
    /\ UNCHANGED <<disk, mem, deletes, dirty, active, len, frozen, shown,
                   history, crashes, errors>>

\* One record per batch, one append for the group.
Insert(xs) ==
    StartAppend([k \in 1 .. Len(xs) |->
        [lsn |-> nextLsn + k - 1, put |-> {xs[k]}, del |-> {}, maps |-> {}]])

Touched(S) == {s \in disk.segs : s.rows \cap (S \ deletes) # {}}

\* Mutant: the bitmap starts empty instead of from the rows already deleted.
MapsFromScratch(S) == {[id |-> s.id, dead |-> S \cap s.rows] : s \in Touched(S)}

\* plan_deletes: the new bitmap of every segment that changes, and the
\* memtable rows that are not already deleted.
Maps(S) == {[id |-> s.id, dead |-> (deletes \cup S) \cap s.rows] : s \in Touched(S)}

\* Mutant: an update logs its deletes and its inserts as two records.
ReplaceInTwoRecords(S, new) ==
    /\ S \subseteq acked
    /\ StartAppend(<<[lsn |-> nextLsn, put |-> {}, del |-> S \cap mem,
                      maps |-> Maps(S)],
                     [lsn |-> nextLsn + 1, put |-> new, del |-> {}, maps |-> {}]>>)

Replace(S, new) ==
    /\ S \subseteq acked
    /\ StartAppend(<<[lsn |-> nextLsn, put |-> new, del |-> S \cap mem,
                      maps |-> Maps(S)]>>)

\* A plan that deletes nothing is not logged.
Delete(S) == (S \cap mem # {} \/ Touched(S) # {}) /\ Replace(S, {})
Update(S, new) == new # {} /\ Replace(S, new)

\* The sync returned: apply_deletes, insert_at, publish, and the caller knows.
FinishAppend ==
    LET recs == SeqRange(writing)
        put == UNION {r.put : r \in recs}
        gone == UNION {r.del : r \in recs}
        maps == UNION {r.maps : r \in recs}
    IN /\ pc = "appending"
       /\ pc' = "idle"
       /\ logImg' = [logImg EXCEPT ![active] = {logs[active]}]
       /\ len' = [len EXCEPT ![active] = @ + Len(writing)]
       /\ deletes' = Remapped(deletes, maps, disk.segs)
       /\ dirty' = dirty \cup {b.id : b \in maps}
       /\ mem' = (mem \ gone) \cup put
       /\ shown' = Visible(disk.segs, deletes', mem')
       /\ acked' = (acked \ (gone \cup UNION {b.dead : b \in maps})) \cup put
       /\ writing' = <<>>
       /\ UNCHANGED <<disk, logs, nextLsn, active, frozen, unsure, lapses,
                      crashes, errors>>

\* The write or the sync failed: the caller gets an error, the LSNs are spent,
\* and the bytes may or may not be in the file.
FailAppend ==
    /\ pc = "appending"
    /\ errors < MaxErrors
    /\ errors' = errors + 1
    /\ pc' = "idle"
    /\ unsure' = unsure \cup Statement(writing)
    /\ writing' = <<>>
    /\ UNCHANGED <<disk, logs, logImg, memVars, frozen, shown, acked,
                   lapses, crashes>>

----------------------------------------------------------------------------
(* flush_locked.                                                           *)

\* freeze and drain come first, before anything that can fail.
Freeze ==
    /\ pc = "idle"
    /\ logs[active].gen < MaxGen
    /\ frozen' = [rows |-> mem, dirty |-> dirty]
    /\ mem' = {}
    /\ dirty' = {}
    /\ pc' = IF mem = {} /\ dirty = {} THEN "idle" ELSE "frozen"
    /\ UNCHANGED <<disk, logs, logImg, deletes, nextLsn, active, len, writing,
                   shown, history, crashes, errors>>

\* WalFile::rotate of the other log: set_len(0) first, then the new header.
RotateTruncate ==
    LET other == 1 - active
    IN /\ pc = "frozen"
       /\ pc' = "rotating"
       /\ SetLog(other, NoHeader)
       /\ lapses' = lapses \cup
             {"exposed" : r \in Pending(logs, disk.cp) \cap SeqRange(logs[other].recs)}
       /\ UNCHANGED <<disk, memVars, writing, frozen, shown, acked, unsure,
                      crashes, errors>>

RotateHeader ==
    LET other == 1 - active
    IN /\ pc = "rotating"
       /\ pc' = "rotated"
       /\ SetLogSynced(other, Fresh(logs[active].gen + 1))
       /\ active' = other
       /\ len' = [len EXCEPT ![other] = 0]
       /\ UNCHANGED <<disk, mem, deletes, dirty, nextLsn, writing, frozen,
                      shown, history, crashes, errors>>

\* Segments, bitmaps, commit and publish.  A dirty segment's bitmap replaces
\* the one in the file; the others stay as committed.
CommitThrough(lsn) ==
    LET touched == RowsIn({s \in disk.segs : s.id \in frozen.dirty})
        new == IF frozen.rows = {} THEN {}
               ELSE {[id |-> disk.nextId, rows |-> frozen.rows]}
    IN /\ pc = "rotated"
       /\ pc' = "committed"
       /\ disk' = [segs |-> disk.segs \cup new,
                   dead |-> (disk.dead \ touched) \cup (deletes \cap touched),
                   cp |-> lsn,
                   nextId |-> disk.nextId + Cardinality(new)]
       /\ shown' = Visible(disk'.segs, deletes, mem)
       /\ lapses' = IF "aborted" \in lapses THEN {"lost"} ELSE lapses \ {"exposed"}
       /\ UNCHANGED <<logs, logImg, memVars, writing, frozen, acked, unsure,
                      crashes, errors>>

\* Mutant: the checkpoint covers a record that is yet to be logged.
CommitPastEnd == CommitThrough(nextLsn)

CommitTable == CommitThrough(nextLsn - 1)

\* The retired log's records are now inside the file.
TruncateRetired ==
    LET retired == 1 - active
    IN /\ pc = "committed"
       /\ pc' = "idle"
       /\ SetLogSynced(retired, [logs[retired] EXCEPT !.recs = <<>>])
       /\ len' = [len EXCEPT ![retired] = 0]
       /\ frozen' = [rows |-> {}, dirty |-> {}]
       /\ UNCHANGED <<disk, mem, deletes, dirty, nextLsn, active, writing,
                      shown, history, crashes, errors>>

\* An I/O error in any step returns to the caller; nothing is put back.  One
\* from rotate may leave its header behind, or not.
FailFlush ==
    /\ pc \in {"frozen", "rotating", "rotated", "committed"}
    /\ errors < MaxErrors
    /\ errors' = errors + 1
    /\ pc' = "idle"
    /\ frozen' = [rows |-> {}, dirty |-> {}]
    /\ \/ UNCHANGED <<logs, logImg>>
       \/ pc = "rotating" /\ SetLog(1 - active, Fresh(logs[active].gen + 1))
    /\ lapses' = IF pc = "committed" THEN lapses ELSE lapses \cup {"aborted"}
    /\ UNCHANGED <<disk, memVars, writing, shown, acked, unsure, crashes>>

----------------------------------------------------------------------------
(* Crash and open.                                                         *)

Crash ==
    /\ pc # "closed"
    /\ crashes < MaxCrashes
    /\ crashes' = crashes + 1
    /\ pc' = "closed"
    /\ \E a \in logImg[0], b \in logImg[1] :
          /\ logs' = [i \in Log |-> IF i = 0 THEN a ELSE b]
          /\ logImg' = [i \in Log |-> IF i = 0 THEN {a} ELSE {b}]
    /\ unsure' = unsure \cup Statement(writing)
    /\ mem' = {} /\ deletes' = {} /\ dirty' = {} /\ nextLsn' = 0
    /\ active' = 0
    /\ len' = [i \in Log |-> 0]
    /\ writing' = <<>>
    /\ frozen' = [rows |-> {}, dirty |-> {}]
    /\ shown' = {}
    /\ lapses' = IF "exposed" \in lapses THEN {"lost"} ELSE lapses \ {"aborted"}
    /\ UNCHANGED <<disk, acked, errors>>

\* from_file: both logs open, replay past the checkpoint, publish.  What the
\* cut-off operations came to is now known.
Open ==
    LET now == Recovered(logs, disk)
        doubt == UNION {r.put \cup r.del \cup UNION {b.dead : b \in r.maps} :
                           r \in unsure}
    IN /\ pc = "closed"
       /\ \A i \in Log : logs[i].ok
       /\ pc' = "idle"
       /\ mem' = ReplayedMem(logs, disk.cp)
       /\ deletes' = ReplayedDeletes(logs, disk)
       /\ dirty' = {b.id : b \in LoggedMaps(logs, disk.cp, disk.segs)}
       /\ nextLsn' = ReplayedLsn(logs, disk.cp)
       /\ active' = Newest(logs)
       /\ len' = [i \in Log |-> Len(logs[i].recs)]
       /\ shown' = now
       /\ acked' = (acked \ doubt) \cup (now \cap doubt)
       /\ unsure' = {}
       /\ UNCHANGED <<disk, logs, logImg, writing, frozen, lapses, crashes,
                      errors>>

Groups == {xs \in UNION {[1 .. n -> Unused] : n \in 1 .. MaxGroup} :
              \A i, j \in DOMAIN xs : xs[i] = xs[j] => i = j}

Next ==
    \/ \E xs \in Groups : Insert(xs)
    \/ \E S \in SUBSET acked : Delete(S)
    \/ \E S \in SUBSET acked, x \in Unused : Update(S, {x})
    \/ FinishAppend \/ FailAppend
    \/ Freeze \/ RotateTruncate \/ RotateHeader \/ CommitTable
    \/ TruncateRetired \/ FailFlush
    \/ Crash \/ Open

Spec == Init /\ [][Next]_vars

----------------------------------------------------------------------------
(* Properties.                                                             *)

LogFile == [ok : BOOLEAN, gen : Nat, recs : Seq(WalRecord)]

\* Every variable keeps its type.
TypeOK ==
    /\ disk \in [segs : SUBSET Segment, dead : SUBSET Rows, cp : Nat, nextId : Nat]
    /\ logs \in [Log -> LogFile]
    /\ logImg \in [Log -> SUBSET LogFile]
    /\ pc \in {"closed", "idle", "appending", "frozen", "rotating", "rotated",
              "committed"}
    /\ mem \in SUBSET Rows
    /\ deletes \in SUBSET Rows
    /\ dirty \in SUBSET Nat
    /\ nextLsn \in Nat
    /\ active \in Log
    /\ len \in [Log -> Nat]
    /\ writing \in Seq(WalRecord)
    /\ frozen \in [rows : SUBSET Rows, dirty : SUBSET Nat]
    /\ shown \in SUBSET Rows
    /\ acked \in SUBSET Rows
    /\ unsure \in SUBSET WalRecord
    /\ lapses \in SUBSET {"exposed", "aborted", "lost"}
    /\ crashes \in Nat /\ errors \in Nat

\* Rows an unacknowledged operation may have added, or removed.
MaybePut == UNION {r.put : r \in unsure}
Removes(r) == r.del \cup UNION {b.dead : b \in r.maps}
MaybeGone == UNION {Removes(r) : r \in unsure}

\* After a crash, what a reopened table shows is what was acknowledged, up to
\* the operations nobody was told about.
AckedRowsRecovered ==
    pc = "closed" /\ (\A i \in Log : logs[i].ok) =>
        /\ acked \ MaybeGone \subseteq Recovered(logs, disk)
        /\ Recovered(logs, disk) \subseteq acked \cup MaybePut

\* The same, unless a crash came after a rotation had reset a log whose records
\* no commit covered yet, or a flush committed past the rows a failed one had
\* dropped from memory: the two ways an acknowledged row is lost.  A failed
\* flush followed by a reopen loses nothing.
AckedRowsKept == "lost" \notin lapses => AckedRowsRecovered

\* No record is replayed into a memtable whose row a segment already holds.
ReplayedOnce ==
    pc = "closed" => /\ ReplayedMem(logs, disk.cp) \cap RowsIn(disk.segs) = {}
                     /\ \A s, t \in disk.segs : s.rows \cap t.rows # {} => s = t

\* A later record to be replayed replaces bitmap b of the record with this LSN.
Outdated(b, lsn) ==
    \E q \in Pending(logs, disk.cp) : q.lsn > lsn /\ \E c \in q.maps : c.id = b.id

\* An update cut off by a crash or an error never leaves the old rows gone and
\* their replacements missing, nor both in place.  The exception is a row of a
\* segment that a later statement deleted from: the bitmap that one logged
\* starts from the deletes in memory, which an update that failed is not among.
UpdateAllOrNothing ==
    LET now == Recovered(logs, disk)
        others(r) == UNION {Removes(q) : q \in unsure \ {r}}
        replaced(r) == r.del \cup UNION {b.dead : b \in {c \in r.maps : ~Outdated(c, r.lsn)}}
    IN pc = "closed" /\ "lost" \notin lapses =>
        \A r \in unsure :
            r.put # {} =>
                /\ r.put \subseteq now => replaced(r) \cap now = {}
                /\ ~(r.put \subseteq now) =>
                        (Removes(r) \cap acked) \ others(r) \subseteq now

\* A scan of an open table shows exactly the acknowledged rows, unless a flush
\* has failed since it was opened.
AckedRowsVisible ==
    pc # "closed" /\ lapses \cap {"aborted", "lost"} = {} => shown = acked

=============================================================================
