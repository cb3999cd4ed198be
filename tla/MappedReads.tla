---------------------------- MODULE MappedReads ----------------------------
(***************************************************************************)
(* Reads of sealed segments by several tasks of several processes, through *)
(* mappings of the file or through copies (localtables-format/src/io/      *)
(* mmap.rs, std_file.rs), under the file lock (io/lock.rs) and the         *)
(* quarantine that freed extents wait in (allocate of table_file.rs, with  *)
(* min_active_txn of snapshot.rs).                                         *)
(*                                                                         *)
(* A location holds one segment; its bytes are the commit that wrote it.   *)
(* A mapping shows what the file holds now, a copy what it held when read. *)
(* Crashes are the subject of TableFile.  A committed extent is never past *)
(* the end of the file nor empty, which map_extent and read_immutable      *)
(* treat apart.                                                            *)
(***************************************************************************)
EXTENDS Naturals, FiniteSets, FiniteSetsExt

CONSTANTS
    Processes,
    Tasks,
    MaxLoc,         \* bound: locations in the file
    MaxTxn,         \* bound: commits
    MaxSegs,        \* bound: segments in the table
    MaxBuffers      \* bound: buffers a task holds

ASSUME MappedAssumption ==
    /\ MaxLoc \in Nat \ {0} /\ MaxTxn \in Nat /\ MaxSegs \in Nat
    /\ MaxBuffers \in Nat

VARIABLES
    mapped,     \* whether the backend is MmapIo
    handle,     \* process -> the handle it has open: "none", "reader", "writer"
    file,       \* location -> the commit whose bytes it holds
    manifest,   \* the committed manifest
    draft,      \* what was written for the next commit, and the length it needs
    current,    \* process -> the snapshot its handle publishes
    task,       \* task -> what its read knows so far
    buffers,    \* buffers the tasks hold
    cache       \* MmapIo::cache of each process: weak references

mapVars == <<mapped, handle, file, manifest, draft, current, task, buffers, cache>>

----------------------------------------------------------------------------

Loc == 1 .. MaxLoc
Seg == [loc : Loc, by : Nat]
Manifest == [txn : Nat, segs : SUBSET Seg, free : SUBSET [loc : Loc, txn : Nat],
             len : Nat]
Draft == [segs : SUBSET Seg, len : Nat]
Weak == [process : Processes, loc : Loc, map : Nat]

\* A mapping, or the bytes of an owned copy.
Buffer == [task : Tasks, process : Processes, seg : Seg, map : Nat, bytes : Nat]

Idle == [at |-> "idle"]

\* The manifest of a table just created, and of a process without a handle.
Created == [txn |-> 0, segs |-> {}, free |-> {}, len |-> 0]
NoDraft == [segs |-> {}, len |-> 0]

MapInit ==
    /\ mapped \in BOOLEAN
    /\ handle = [p \in Processes |-> "none"]
    /\ file = [l \in Loc |-> 0]
    /\ manifest = Created
    /\ draft = NoDraft
    /\ current = [p \in Processes |-> Created]
    /\ task = [t \in Tasks |-> Idle]
    /\ buffers = {}
    /\ cache = {}

----------------------------------------------------------------------------
(* FileLock, taken by TableFile::open and released with the handle.        *)

\* Mutant: a writer takes the shared lock.
ExclusiveLikeShared(p) == \A q \in Processes \ {p} : handle[q] # "writer"

TryExclusive(p) == \A q \in Processes \ {p} : handle[q] = "none"
TryShared(p) == \A q \in Processes \ {p} : handle[q] # "writer"

\* The handle starts from the newest commit.
Open(p, kind) ==
    /\ handle[p] = "none"
    /\ \/ kind = "writer" /\ TryExclusive(p)
       \/ kind = "reader" /\ TryShared(p)
    /\ handle' = [handle EXCEPT ![p] = kind]
    /\ current' = [current EXCEPT ![p] = manifest]
    /\ UNCHANGED <<mapped, file, manifest, draft, task, buffers, cache>>

\* Task t reads through the handle of process p.
Reading(t, p) == task[t] # Idle /\ task[t].process = p

\* The last reference to the table goes: a task that reads holds one, a buffer
\* does not.  Segments written and not committed are forgotten; buffers that
\* outlive the handle are followed no further, since nothing protects them.
Close(p) ==
    /\ handle[p] # "none"
    /\ \A t \in Tasks : ~Reading(t, p)
    /\ handle' = [handle EXCEPT ![p] = "none"]
    /\ current' = [current EXCEPT ![p] = Created]
    /\ draft' = IF handle[p] = "writer" THEN NoDraft ELSE draft
    /\ cache' = {w \in cache : w.process # p}
    /\ buffers' = {b \in buffers : b.process # p}
    /\ UNCHANGED <<mapped, file, manifest, task>>

----------------------------------------------------------------------------
(* The writer: allocate and write a segment, then commit.                  *)

\* Snapshots the registry of process p still finds alive: the one its handle
\* publishes and those its tasks pin.  Buffers pin none.
Alive(p) == {current[p]} \cup {task[t].snap : t \in {u \in Tasks : Reading(u, p)}}

\* Mutant: a freed extent waits for the commit that freed it, not for readers.
ReusableOnceFreed(p) == {x \in manifest.free : x.txn < manifest.txn + 1}

\* freed_txn < min_active_txn: every snapshot alive is younger.
Reusable(p) == {x \in manifest.free : \A s \in Alive(p) : x.txn < s.txn}

\* allocate, then write_allocated: a reusable location, or the end of the file
\* when there is none.
Write(p) ==
    /\ handle[p] = "writer" /\ draft.segs = {}
    /\ manifest.txn < MaxTxn
    /\ \/ \E x \in Reusable(p) :
             /\ file' = [file EXCEPT ![x.loc] = manifest.txn + 1]
             /\ draft' = [segs |-> {[loc |-> x.loc, by |-> manifest.txn + 1]},
                          len |-> manifest.len]
       \/ /\ Reusable(p) = {} /\ manifest.len < MaxLoc
          /\ file' = [file EXCEPT ![manifest.len + 1] = manifest.txn + 1]
          /\ draft' = [segs |-> {[loc |-> manifest.len + 1, by |-> manifest.txn + 1]},
                       len |-> manifest.len + 1]
    /\ UNCHANGED <<mapped, handle, manifest, current, task, buffers, cache>>

\* The new segment replaces some of the others, which are freed.
Commit(p, gone) ==
    LET txn == manifest.txn + 1
        used == {s.loc : s \in draft.segs}
    IN /\ handle[p] = "writer" /\ draft.segs # {}
       /\ gone \subseteq manifest.segs
       /\ Cardinality(manifest.segs \ gone) < MaxSegs
       /\ manifest' = [txn |-> txn,
                       segs |-> (manifest.segs \ gone) \cup draft.segs,
                       free |-> {x \in manifest.free : x.loc \notin used}
                                \cup {[loc |-> s.loc, txn |-> txn] : s \in gone},
                       len |-> draft.len]
       /\ current' = [current EXCEPT ![p] = manifest']
       /\ draft' = NoDraft
       /\ UNCHANGED <<mapped, handle, file, task, buffers, cache>>

----------------------------------------------------------------------------
(* A task that reads: pins a snapshot, reads its segments, and passes the  *)
(* buffers on.                                                             *)

Pin(t, p) ==
    /\ task[t] = Idle /\ handle[p] # "none"
    /\ task' = [task EXCEPT ![t] = [at |-> "pinned", process |-> p, snap |-> current[p]]]
    /\ UNCHANGED <<mapped, handle, file, manifest, draft, current, buffers, cache>>

Unpin(t) ==
    /\ task[t].at = "pinned"
    /\ task' = [task EXCEPT ![t] = Idle]
    /\ UNCHANGED <<mapped, handle, file, manifest, draft, current, buffers, cache>>

\* The mappings of process p that something still refers to.
LiveMaps(p) ==
    {b.map : b \in {c \in buffers : c.process = p}} \cup
    {task[t].map : t \in {u \in Tasks : Reading(u, p) /\ task[u].at = "mapped"}}

\* cache.get and upgrade.
Cached(p, l) == {w.map : w \in {v \in cache :
                    v.process = p /\ v.loc = l /\ v.map \in LiveMaps(p)}}

Buffered(t, s, m, bytes) ==
    buffers' = buffers \cup {[task |-> t, process |-> task[t].process, seg |-> s, map |-> m, bytes |-> bytes]}

\* StdFileIo: the bytes are copied.
ReadCopy(t, s) ==
    /\ ~mapped
    /\ task[t].at = "pinned" /\ s \in task[t].snap.segs
    /\ Cardinality({b \in buffers : b.task = t}) < MaxBuffers
    /\ Buffered(t, s, 0, file[s.loc])
    /\ UNCHANGED <<mapped, handle, file, manifest, draft, current, task, cache>>

\* map_extent, the lookup: a live mapping is shared.
Lookup(t, s) ==
    /\ mapped
    /\ task[t].at = "pinned" /\ s \in task[t].snap.segs
    /\ Cardinality({b \in buffers : b.task = t}) < MaxBuffers
    /\ IF Cached(task[t].process, s.loc) # {}
       THEN /\ \E m \in Cached(task[t].process, s.loc) : Buffered(t, s, m, 0)
            /\ UNCHANGED task
       ELSE /\ task' = [task EXCEPT ![t] =
                           [at |-> "missed", process |-> task[t].process,
                            snap |-> task[t].snap, seg |-> s]]
            /\ UNCHANGED buffers
    /\ UNCHANGED <<mapped, handle, file, manifest, draft, current, cache>>

\* mmap, outside the cache's mutex.  The new mapping is told apart from those
\* alive and those a weak reference still names.
Map(t) ==
    LET p == task[t].process
        taken == LiveMaps(p) \cup {w.map : w \in {v \in cache : v.process = p}}
    IN /\ task[t].at = "missed"
       /\ task' = [task EXCEPT ![t] =
                      [at |-> "mapped", process |-> p,
                       snap |-> task[t].snap, seg |-> task[t].seg,
                       map |-> Min((1 .. Cardinality(taken) + 1) \ taken)]]
       /\ UNCHANGED <<mapped, handle, file, manifest, draft, current, buffers, cache>>

\* Mutant: the cache is not looked at again.
InsertUnchecked(t) ==
    LET c == task[t]
        p == c.process
    IN /\ c.at = "mapped"
       /\ Buffered(t, c.seg, c.map, 0)
       /\ cache' = {w \in cache : w.process = p => w.map \in LiveMaps(p) /\ w.loc # c.seg.loc}
                   \cup {[process |-> p, loc |-> c.seg.loc, map |-> c.map]}
       /\ task' = [task EXCEPT ![t] = [at |-> "pinned", process |-> p, snap |-> c.snap]]
       /\ UNCHANGED <<mapped, handle, file, manifest, draft, current>>

\* map_extent, under the mutex again: another task's mapping wins, otherwise dead
\* references are dropped and this one is remembered.
Insert(t) ==
    LET c == task[t]
        p == c.process
        found == Cached(p, c.seg.loc)
    IN /\ c.at = "mapped"
       /\ \/ \E m \in found : Buffered(t, c.seg, m, 0) /\ UNCHANGED cache
          \/ /\ found = {}
             /\ Buffered(t, c.seg, c.map, 0)
             /\ cache' = {w \in cache : w.process = p => w.map \in LiveMaps(p)
                                                         /\ w.loc # c.seg.loc}
                         \cup {[process |-> p, loc |-> c.seg.loc, map |-> c.map]}
       /\ task' = [task EXCEPT ![t] = [at |-> "pinned", process |-> p, snap |-> c.snap]]
       /\ UNCHANGED <<mapped, handle, file, manifest, draft, current>>

\* A batch and its buffers are dropped, before or after the snapshot.
DropBuffer(b) ==
    /\ buffers' = buffers \ {b}
    /\ UNCHANGED <<mapped, handle, file, manifest, draft, current, task, cache>>

----------------------------------------------------------------------------

MapNext ==
    \/ \E p \in Processes :
          \/ \E kind \in {"reader", "writer"} : Open(p, kind)
          \/ Close(p)
          \/ Write(p)
          \/ \E gone \in SUBSET manifest.segs : Commit(p, gone)
    \/ \E t \in Tasks :
          \/ \E p \in Processes : Pin(t, p)
          \/ Unpin(t) \/ Map(t) \/ Insert(t)
          \/ \E s \in manifest.segs \cup (IF task[t] = Idle THEN {} ELSE task[t].snap.segs) :
                ReadCopy(t, s) \/ Lookup(t, s)
    \/ \E b \in buffers : DropBuffer(b)

MapSpec == MapInit /\ [][MapNext]_mapVars

----------------------------------------------------------------------------
(* Properties.                                                             *)

\* Every variable keeps its type.
MapTypeOK ==
    /\ mapped \in BOOLEAN
    /\ handle \in [Processes -> {"none", "reader", "writer"}]
    /\ file \in [Loc -> Nat]
    /\ manifest \in Manifest
    /\ draft \in Draft
    /\ current \in [Processes -> Manifest]
    /\ \A t \in Tasks : task[t].at \in {"idle", "pinned", "missed", "mapped"}
    /\ buffers \in SUBSET Buffer
    /\ cache \in SUBSET Weak

Shows(b) == IF mapped THEN file[b.seg.loc] ELSE b.bytes

\* What a task reads stays the segment it asked for as long as it pins the
\* snapshot it read, whatever this process or another one writes: the lock, the
\* quarantine and the registry keep mapped bytes from being rewritten.
PinnedBytesStable == \A b \in buffers :
    LET c == task[b.task]
    IN Reading(b.task, b.process) /\ b.seg \in c.snap.segs => Shows(b) = b.seg.by

\* A process maps a location once: buffers over it share one mapping, however
\* the tasks that looked it up overlapped.
SharedMapping == \A a, b \in buffers :
    /\ a.process = b.process /\ a.seg.loc = b.seg.loc
    => a.map = b.map

=============================================================================
