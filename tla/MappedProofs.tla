---------------------------- MODULE MappedProofs ----------------------------
(***************************************************************************)
(* Proofs about MappedReads, for any number of processes, tasks, locations *)
(* and commits: the lock, the registry and the quarantine together keep    *)
(* the bytes a pinned snapshot names.                                      *)
(***************************************************************************)
EXTENDS MappedReads, TLAPS

----------------------------------------------------------------------------
(* The inductive invariant.                                                *)

\* The types the argument needs.
MapTypes ==
    /\ mapped \in BOOLEAN
    /\ handle \in [Processes -> {"none", "reader", "writer"}]
    /\ file \in [Loc -> Nat]
    /\ manifest \in Manifest
    /\ draft \in Draft
    /\ current \in [Processes -> Manifest]
    /\ DOMAIN task = Tasks

\* A call in progress reads a segment of the snapshot it pinned.
Pinning(t) == task[t] = Idle \/
    /\ task[t].at \in {"pinned", "missed", "mapped"}
    /\ task[t].process \in Processes
    /\ task[t].snap \in Manifest
    /\ task[t].at \in {"missed", "mapped"} => mapped /\ task[t].seg \in task[t].snap.segs

\* The lock: a writer is alone, and only a writer has a draft.
Locked ==
    /\ \A p, q \in Processes : handle[p] = "writer" /\ p # q => handle[q] = "none"
    /\ draft.segs # {} => \E p \in Processes : handle[p] = "writer"

\* Only an open handle is read through, and a writer's handle is up to date.
Handles ==
    /\ \A t \in Tasks : \A p \in Processes : Reading(t, p) => handle[p] # "none"
    /\ \A p \in Processes : handle[p] = "writer" => current[p] = manifest

\* The file holds every segment of snapshot s.
Intact(s) == \A e \in s.segs : file[e.loc] = e.by

\* Nothing snapshot s names can be handed out: what was freed of it was freed
\* after s, and the draft lies elsewhere.
Quarantined(s) ==
    /\ s.txn <= manifest.txn
    /\ \A e \in s.segs :
          /\ e.loc <= manifest.len
          /\ \A x \in manifest.free : x.loc = e.loc => s.txn < x.txn
          /\ \A d \in draft.segs : d.loc # e.loc

Kept(s) == Intact(s) /\ Quarantined(s)

\* The commit in force, the snapshot each open handle publishes, and every
\* snapshot a task pins.
SnapshotsKept ==
    /\ Kept(manifest)
    /\ \A p \in Processes : handle[p] # "none" => Kept(current[p])
    /\ \A t \in Tasks : task[t] # Idle => Kept(task[t].snap)

\* The free list is of the past, and the draft is written.
SpaceKept ==
    /\ \A x \in manifest.free : x.txn <= manifest.txn /\ x.loc <= manifest.len
    /\ \A d \in draft.segs :
          /\ file[d.loc] = d.by
          /\ d.loc <= draft.len
          /\ manifest.len <= draft.len

\* A copy holds the segment it was made of.
CopiesRight == \A b \in buffers : b.task \in Tasks /\ (~mapped => b.bytes = b.seg.by)

MapInv ==
    /\ MapTypes
    /\ \A t \in Tasks : Pinning(t)
    /\ Locked
    /\ Handles
    /\ SnapshotsKept
    /\ SpaceKept
    /\ CopiesRight

----------------------------------------------------------------------------
(* Lemmas.                                                                 *)

\* The fields of manifests, segments and drafts.
LEMMA ManifestFields ==
    /\ \A m \in Manifest : /\ m.txn \in Nat /\ m.len \in Nat /\ m.segs \in SUBSET Seg
                           /\ m.free \in SUBSET [loc : Loc, txn : Nat]
    /\ \A s \in Seg : s.loc \in Loc /\ s.by \in Nat
    /\ \A x \in [loc : Loc, txn : Nat] : x.loc \in Loc /\ x.txn \in Nat
    /\ \A d \in Draft : d.segs \in SUBSET Seg /\ d.len \in Nat
    /\ Created \in Manifest /\ NoDraft \in Draft
    /\ \A l \in Loc : l \in Nat
BY MappedAssumption DEF Manifest, Seg, Draft, Created, NoDraft, Loc

\* Steps that only change the buffers: a copy is one of an intact segment.
LEMMA BufferStep ==
    ASSUME MapInv,
           UNCHANGED <<mapped, handle, file, manifest, draft, current, task>>,
           \A b \in buffers' : b.task \in Tasks /\ (~mapped => b.bytes = b.seg.by)
    PROVE  MapInv'
BY DEF MapInv, MapTypes, Pinning, Locked, Handles, Reading, SnapshotsKept, Kept, Intact,
       Quarantined, SpaceKept, CopiesRight

\* Steps that move a task on: what it pins is kept and its handle is open.
LEMMA ReaderStep ==
    ASSUME MapInv, NEW t \in Tasks,
           UNCHANGED <<mapped, handle, file, manifest, draft, current>>,
           \E c : task' = [task EXCEPT ![t] = c] /\
              \/ c = Idle
              \/ /\ c.at \in {"pinned", "missed", "mapped"}
                 /\ c.process \in Processes
                 /\ handle[c.process] # "none"
                 /\ c.snap \in Manifest
                 /\ Kept(c.snap)
                 /\ c.at \in {"missed", "mapped"} => mapped /\ c.seg \in c.snap.segs,
           \A b \in buffers' : b.task \in Tasks /\ (~mapped => b.bytes = b.seg.by)
    PROVE  MapInv'
<1>1. PICK c : task' = [task EXCEPT ![t] = c] /\
              \/ c = Idle
              \/ /\ c.at \in {"pinned", "missed", "mapped"}
                 /\ c.process \in Processes
                 /\ handle[c.process] # "none"
                 /\ c.snap \in Manifest
                 /\ Kept(c.snap)
                 /\ c.at \in {"missed", "mapped"} => mapped /\ c.seg \in c.snap.segs
  OBVIOUS
<1>2. task'[t] = c /\ DOMAIN task' = Tasks /\ \A u \in Tasks : u # t => task'[u] = task[u]
  BY <1>1 DEF MapInv, MapTypes
<1>3. MapTypes'
  BY <1>2 DEF MapInv, MapTypes
<1>4. \A u \in Tasks : Pinning(u)'
  BY <1>1, <1>2 DEF MapInv, Pinning
<1>5. Locked' /\ SpaceKept' /\ CopiesRight'
  BY DEF MapInv, Locked, SpaceKept, CopiesRight
<1>6. Handles'
  <2>1. ASSUME NEW u \in Tasks, NEW p \in Processes, Reading(u, p)' PROVE handle'[p] # "none"
    <3>1. CASE u = t
      BY <1>1, <1>2, <2>1, <3>1 DEF Reading, Idle
    <3>2. CASE u # t
      BY <1>2, <2>1, <3>2 DEF Reading, MapInv, Handles
    <3> QED BY <3>1, <3>2
  <2> QED BY <2>1 DEF MapInv, Handles
<1>7. SnapshotsKept'
  <2>1. Kept(manifest)' /\ \A p \in Processes : handle'[p] # "none" => Kept(current[p])'
    BY DEF MapInv, SnapshotsKept, Kept, Intact, Quarantined
  <2>2. ASSUME NEW u \in Tasks, task'[u] # Idle PROVE Kept(task[u].snap)'
    <3>1. CASE u = t
      BY <1>1, <1>2, <2>2, <3>1 DEF Kept, Intact, Quarantined
    <3>2. CASE u # t
      BY <1>2, <2>2, <3>2 DEF MapInv, SnapshotsKept, Kept, Intact, Quarantined
    <3> QED BY <3>1, <3>2
  <2> QED BY <2>1, <2>2 DEF SnapshotsKept
<1> QED BY <1>3, <1>4, <1>5, <1>6, <1>7 DEF MapInv

\* What a task in progress knows.
LEMMA TaskFacts ==
    ASSUME MapInv, NEW t \in Tasks, task[t] # Idle
    PROVE  /\ task[t].process \in Processes
           /\ handle[task[t].process] # "none"
           /\ task[t].snap \in Manifest
           /\ Kept(task[t].snap)
           /\ task[t].at \in {"missed", "mapped"} => mapped /\ task[t].seg \in task[t].snap.segs
BY DEF MapInv, Pinning, Handles, Reading, SnapshotsKept

LEMMA ReaderInv ==
    ASSUME MapInv, NEW t \in Tasks,
           \/ \E p \in Processes : Pin(t, p)
           \/ Unpin(t) \/ Map(t) \/ Insert(t)
           \/ \E s : ReadCopy(t, s) \/ Lookup(t, s)
    PROVE  MapInv'
<1>0. \A b \in buffers : b.task \in Tasks /\ (~mapped => b.bytes = b.seg.by)
  BY DEF MapInv, CopiesRight
<1>1. ASSUME NEW p \in Processes, Pin(t, p) PROVE MapInv'
  <2> DEFINE c == [at |-> "pinned", process |-> p, snap |-> current[p]]
  <2>1. /\ task' = [task EXCEPT ![t] = c] /\ handle[p] # "none"
        /\ UNCHANGED <<mapped, handle, file, manifest, draft, current, buffers>>
    BY <1>1 DEF Pin
  <2>2. Kept(current[p]) /\ current[p] \in Manifest
    BY <2>1 DEF MapInv, SnapshotsKept, MapTypes
  <2>3. /\ c.at = "pinned" /\ c.process = p /\ c.snap = current[p]
    OBVIOUS
  <2> HIDE DEF c
  <2> QED BY <1>0, <2>1, <2>2, <2>3, ReaderStep
<1>2. ASSUME Unpin(t) PROVE MapInv'
  BY <1>0, <1>2, ReaderStep DEF Unpin
<1>3. ASSUME Map(t) PROVE MapInv'
  <2>1. task[t] # Idle /\ task[t].at = "missed"
    BY <1>3 DEF Map, Idle
  <2>2. PICK m : task' = [task EXCEPT ![t] =
                    [at |-> "mapped", process |-> task[t].process,
                     snap |-> task[t].snap, seg |-> task[t].seg, map |-> m]]
    BY <1>3 DEF Map
  <2> DEFINE c == [at |-> "mapped", process |-> task[t].process,
                   snap |-> task[t].snap, seg |-> task[t].seg, map |-> m]
  <2>3. /\ c.at = "mapped" /\ c.process = task[t].process /\ c.snap = task[t].snap
        /\ c.seg = task[t].seg
    OBVIOUS
  <2>4. task' = [task EXCEPT ![t] = c]
    BY <2>2
  <2>5. UNCHANGED <<mapped, handle, file, manifest, draft, current, buffers>>
    BY <1>3 DEF Map
  <2> HIDE DEF c
  <2> QED BY <1>0, <2>1, <2>3, <2>4, <2>5, TaskFacts, ReaderStep
<1>4. ASSUME Insert(t) PROVE MapInv'
  <2>1. task[t] # Idle /\ task[t].at = "mapped"
    BY <1>4 DEF Insert, Idle
  <2> DEFINE c == [at |-> "pinned", process |-> task[t].process, snap |-> task[t].snap]
  <2>2. /\ c.at = "pinned" /\ c.process = task[t].process /\ c.snap = task[t].snap
    OBVIOUS
  <2>3. /\ task' = [task EXCEPT ![t] = c]
        /\ UNCHANGED <<mapped, handle, file, manifest, draft, current>>
    BY <1>4 DEF Insert
  <2>4. mapped
    BY <2>1, TaskFacts
  <2>5. \A b \in buffers' : b \in buffers \/ b.task = t
    BY <1>4 DEF Insert, Buffered
  <2> HIDE DEF c
  <2> QED BY <1>0, <2>1, <2>2, <2>3, <2>4, <2>5, TaskFacts, ReaderStep
<1>5. ASSUME NEW s, ReadCopy(t, s) PROVE MapInv'
  <2>1. /\ task[t] # Idle /\ s \in task[t].snap.segs
        /\ UNCHANGED <<mapped, handle, file, manifest, draft, current>>
        /\ task' = task
        /\ Buffered(t, s, 0, file[s.loc])
    BY <1>5 DEF ReadCopy, Idle
  <2>2. file[s.loc] = s.by
    BY <2>1, TaskFacts DEF Kept, Intact
  <2>3. \A b \in buffers' : b.task \in Tasks /\ (~mapped => b.bytes = b.seg.by)
    BY <1>0, <2>1, <2>2 DEF Buffered
  <2> QED BY <2>1, <2>3, BufferStep
<1>6. ASSUME NEW s, Lookup(t, s) PROVE MapInv'
  <2>1. /\ task[t] # Idle /\ s \in task[t].snap.segs /\ mapped
        /\ UNCHANGED <<mapped, handle, file, manifest, draft, current>>
    BY <1>6 DEF Lookup, Idle
  <2>2. \A b \in buffers' : b \in buffers \/ b.task = t
    BY <1>6 DEF Lookup, Buffered
  <2> DEFINE c == [at |-> "missed", process |-> task[t].process, snap |-> task[t].snap, seg |-> s]
  <2>3. /\ c.at = "missed" /\ c.process = task[t].process /\ c.snap = task[t].snap
        /\ c.seg = s
    OBVIOUS
  <2>4. task' = task \/ task' = [task EXCEPT ![t] = c]
    BY <1>6 DEF Lookup
  <2> HIDE DEF c
  <2>5. CASE task' = task
    BY <1>0, <2>1, <2>2, <2>5, BufferStep
  <2>6. CASE task' = [task EXCEPT ![t] = c]
    BY <1>0, <2>1, <2>2, <2>3, <2>6, TaskFacts, ReaderStep
  <2> QED BY <2>4, <2>5, <2>6
<1> QED BY <1>1, <1>2, <1>3, <1>4, <1>5, <1>6

\* A buffer is dropped.
LEMMA DropInv == ASSUME MapInv, NEW b \in buffers, DropBuffer(b) PROVE MapInv'
BY BufferStep DEF DropBuffer, MapInv, CopiesRight

LEMMA OpenInv ==
    ASSUME MapInv, NEW p \in Processes, NEW kind \in {"reader", "writer"}, Open(p, kind)
    PROVE  MapInv'
<1>1. /\ handle[p] = "none" /\ handle' = [handle EXCEPT ![p] = kind]
      /\ current' = [current EXCEPT ![p] = manifest]
      /\ UNCHANGED <<mapped, file, manifest, draft, task, buffers>>
  BY DEF Open
<1>2. MapTypes'
  BY <1>1 DEF MapInv, MapTypes
<1>3. Locked'
  <2>1. CASE kind = "writer"
    BY <1>1, <2>1 DEF MapInv, MapTypes, Locked, Open, TryExclusive
  <2>2. CASE kind = "reader"
    BY <1>1, <2>2 DEF MapInv, MapTypes, Locked, Open, TryShared
  <2> QED BY <2>1, <2>2
<1>4. Handles'
  BY <1>1 DEF MapInv, MapTypes, Handles, Reading
<1>5. SnapshotsKept'
  BY <1>1 DEF MapInv, MapTypes, SnapshotsKept, Kept, Intact, Quarantined
<1> QED BY <1>1, <1>2, <1>3, <1>4, <1>5 DEF MapInv, Pinning, SpaceKept, CopiesRight

LEMMA CloseInv == ASSUME MapInv, NEW p \in Processes, Close(p) PROVE MapInv'
<1>1. /\ handle' = [handle EXCEPT ![p] = "none"]
      /\ current' = [current EXCEPT ![p] = Created]
      /\ draft' = IF handle[p] = "writer" THEN NoDraft ELSE draft
      /\ buffers' \subseteq buffers
      /\ UNCHANGED <<mapped, file, manifest, task>>
      /\ \A t \in Tasks : ~Reading(t, p)
  BY DEF Close
<1>2. draft'.segs \subseteq draft.segs /\ (draft' = draft \/ draft'.segs = {})
  BY <1>1 DEF NoDraft
<1>3. MapTypes'
  BY <1>1, ManifestFields DEF MapInv, MapTypes
<1>4. Locked'
  BY <1>1, <1>2 DEF MapInv, MapTypes, Locked, NoDraft
<1>5. Handles'
  BY <1>1 DEF MapInv, MapTypes, Handles, Reading
<1>7. SnapshotsKept'
  <2>1. Kept(manifest)'
    BY <1>1, <1>2 DEF MapInv, SnapshotsKept, Kept, Intact, Quarantined
  <2>2. ASSUME NEW q \in Processes, handle'[q] # "none" PROVE Kept(current[q])'
    <3>1. q # p /\ handle[q] # "none" /\ current'[q] = current[q]
      BY <1>1, <2>2 DEF MapInv, MapTypes
    <3> QED BY <1>1, <1>2, <3>1 DEF MapInv, SnapshotsKept, Kept, Intact, Quarantined
  <2>3. ASSUME NEW t \in Tasks, task'[t] # Idle PROVE Kept(task[t].snap)'
    BY <1>1, <1>2, <2>3 DEF MapInv, SnapshotsKept, Kept, Intact, Quarantined
  <2> QED BY <2>1, <2>2, <2>3 DEF SnapshotsKept
<1>8. SpaceKept'
  BY <1>1, <1>2 DEF MapInv, SpaceKept
<1> QED BY <1>1, <1>3, <1>4, <1>5, <1>7, <1>8 DEF MapInv, Pinning, CopiesRight

\* Snapshots alive while process p writes: nobody else has the file open.
LEMMA WriterAlone ==
    ASSUME MapInv, NEW p \in Processes, handle[p] = "writer"
    PROVE  /\ \A q \in Processes : handle[q] # "none" => q = p
           /\ \A t \in Tasks : task[t] # Idle => task[t].snap \in Alive(p)
           /\ current[p] = manifest /\ current[p] \in Alive(p)
<1>1. \A q \in Processes : handle[q] # "none" => q = p
  BY DEF MapInv, Locked
<1>2. ASSUME NEW t \in Tasks, task[t] # Idle PROVE task[t].snap \in Alive(p)
  <2>1. task[t].process \in Processes /\ handle[task[t].process] # "none"
    BY <1>2, TaskFacts
  <2>2. Reading(t, p)
    BY <1>1, <1>2, <2>1 DEF Reading
  <2> QED BY <2>2 DEF Alive
<1>3. current[p] = manifest
  BY DEF MapInv, Handles
<1> QED BY <1>1, <1>2, <1>3 DEF Alive

\* The place a segment is written to is named by no snapshot alive.
LEMMA PlaceUnnamed ==
    ASSUME MapInv, NEW p \in Processes, handle[p] = "writer", draft.segs = {},
           NEW l \in Loc,
           \/ \E x \in Reusable(p) : l = x.loc
           \/ l = manifest.len + 1,
           NEW s \in Manifest, s \in Alive(p), Quarantined(s)
    PROVE  \A e \in s.segs : e.loc # l
<1>0. /\ s.segs \in SUBSET Seg /\ s.txn \in Nat /\ manifest.len \in Nat
      /\ manifest.free \in SUBSET [loc : Loc, txn : Nat]
  BY ManifestFields DEF MapInv, MapTypes
<1> SUFFICES ASSUME NEW e \in s.segs, e.loc = l PROVE FALSE
  OBVIOUS
<1>1. CASE \E x \in Reusable(p) : l = x.loc
  <2>1. PICK x \in Reusable(p) : l = x.loc
    BY <1>1
  <2>2. x \in manifest.free /\ x.txn < s.txn /\ x.txn \in Nat
    BY <1>0, ManifestFields DEF Reusable
  <2>3. s.txn < x.txn
    BY <2>1, <2>2 DEF Quarantined
  <2> QED BY <1>0, <2>2, <2>3
<1>2. CASE l = manifest.len + 1
  <2>1. e.loc <= manifest.len
    BY DEF Quarantined
  <2> QED BY <1>0, <1>2, <2>1
<1> QED BY <1>1, <1>2

LEMMA WriteInv == ASSUME MapInv, NEW p \in Processes, Write(p) PROVE MapInv'
<1>0. /\ manifest \in Manifest /\ manifest.len \in Nat /\ manifest.txn \in Nat
      /\ manifest.free \in SUBSET [loc : Loc, txn : Nat]
      /\ file \in [Loc -> Nat]
  BY ManifestFields DEF MapInv, MapTypes
<1>1. /\ handle[p] = "writer" /\ draft.segs = {}
      /\ UNCHANGED <<mapped, handle, manifest, current, task, buffers>>
  BY DEF Write
<1>2. PICK l \in Loc :
         /\ (\E x \in Reusable(p) : l = x.loc) \/ l = manifest.len + 1
         /\ file' = [file EXCEPT ![l] = manifest.txn + 1]
         /\ draft'.segs = {[loc |-> l, by |-> manifest.txn + 1]}
         /\ draft'.len \in Nat /\ l <= draft'.len /\ manifest.len <= draft'.len
         /\ draft' \in Draft
  <2>1. CASE \E x \in Reusable(p) :
             /\ file' = [file EXCEPT ![x.loc] = manifest.txn + 1]
             /\ draft' = [segs |-> {[loc |-> x.loc, by |-> manifest.txn + 1]},
                          len |-> manifest.len]
    <3>1. PICK x \in Reusable(p) :
             /\ file' = [file EXCEPT ![x.loc] = manifest.txn + 1]
             /\ draft' = [segs |-> {[loc |-> x.loc, by |-> manifest.txn + 1]},
                          len |-> manifest.len]
      BY <2>1
    <3>2. x \in manifest.free /\ x.loc \in Loc
      BY <1>0, ManifestFields DEF Reusable
    <3>3. x.loc <= manifest.len
      BY <3>2 DEF MapInv, SpaceKept
    <3>4. draft' \in Draft
      BY <1>0, <3>1, <3>2 DEF Draft, Seg
    <3>5. /\ draft'.segs = {[loc |-> x.loc, by |-> manifest.txn + 1]}
          /\ draft'.len = manifest.len
      BY <3>1
    <3> x.loc \in Loc
      BY <3>2
    <3> WITNESS x.loc \in Loc
    <3>6. \E y \in Reusable(p) : x.loc = y.loc
      OBVIOUS
    <3>7. manifest.len <= manifest.len
      BY <1>0
    <3> QED BY <1>0, <3>1, <3>3, <3>4, <3>5, <3>6, <3>7
  <2>2. CASE /\ manifest.len < MaxLoc
             /\ file' = [file EXCEPT ![manifest.len + 1] = manifest.txn + 1]
             /\ draft' = [segs |-> {[loc |-> manifest.len + 1, by |-> manifest.txn + 1]},
                          len |-> manifest.len + 1]
    <3>1. manifest.len + 1 \in Loc
      BY <1>0, <2>2, MappedAssumption DEF Loc
    <3>2. draft' \in Draft
      BY <1>0, <2>2, <3>1 DEF Draft, Seg
    <3>3. /\ draft'.segs = {[loc |-> manifest.len + 1, by |-> manifest.txn + 1]}
          /\ draft'.len = manifest.len + 1
      BY <2>2
    <3> manifest.len + 1 \in Loc
      BY <3>1
    <3> WITNESS manifest.len + 1 \in Loc
    <3>4. manifest.len + 1 <= manifest.len + 1 /\ manifest.len <= manifest.len + 1
      BY <1>0
    <3> QED BY <1>0, <2>2, <3>2, <3>3, <3>4
  <2> QED BY <2>1, <2>2 DEF Write
<1>3. /\ \A q \in Processes : handle[q] # "none" => q = p
      /\ \A t \in Tasks : task[t] # Idle => task[t].snap \in Alive(p)
      /\ current[p] = manifest /\ manifest \in Alive(p)
  BY <1>1, WriterAlone
<1>4. ASSUME NEW s \in Manifest, s \in Alive(p), Kept(s) PROVE Kept(s)'
  <2>1. \A e \in s.segs : e.loc # l
    BY <1>1, <1>2, <1>4, PlaceUnnamed DEF Kept
  <2>2. \A d \in draft'.segs : d.loc = l
    BY <1>2
  <2>3. s.segs \in SUBSET Seg
    BY ManifestFields
  <2>4. \A e \in s.segs : file'[e.loc] = file[e.loc]
    BY <1>0, <1>2, <2>1, <2>3, ManifestFields
  <2> QED BY <1>1, <1>4, <2>1, <2>2, <2>4 DEF Kept, Intact, Quarantined
<1>5. MapTypes'
  BY <1>0, <1>1, <1>2 DEF MapInv, MapTypes
<1>6. Locked' /\ Handles'
  BY <1>1 DEF MapInv, Locked, Handles, Reading
<1>7. SnapshotsKept'
  <2>1. Kept(manifest)'
    <3>1. Kept(manifest)
      BY DEF MapInv, SnapshotsKept
    <3> QED BY <1>0, <1>1, <1>3, <1>4, <3>1 DEF Kept, Intact, Quarantined
  <2>2. ASSUME NEW q \in Processes, handle'[q] # "none" PROVE Kept(current[q])'
    <3>1. current'[q] = manifest /\ manifest' = manifest
      BY <1>1, <1>3, <2>2
    <3> QED BY <2>1, <3>1 DEF Kept, Intact, Quarantined
  <2>3. ASSUME NEW t \in Tasks, task'[t] # Idle PROVE Kept(task[t].snap)'
    <3>1. task' = task /\ task[t].snap \in Manifest /\ Kept(task[t].snap)
      BY <1>1, <2>3, TaskFacts
    <3>2. task[t].snap \in Alive(p)
      BY <1>3, <2>3, <3>1
    <3> DEFINE s == task[t].snap
    <3>3. \A e \in s.segs : e.loc # l
      BY <1>1, <1>2, <3>1, <3>2, PlaceUnnamed DEF Kept
    <3>4. s.segs \in SUBSET Seg
      BY <3>1, ManifestFields
    <3>5. \A e \in s.segs : file'[e.loc] = file[e.loc]
      BY <1>0, <1>2, <3>3, <3>4, ManifestFields
    <3> QED BY <1>1, <1>2, <3>1, <3>3, <3>5 DEF Kept, Intact, Quarantined
  <2> QED BY <2>1, <2>2, <2>3 DEF SnapshotsKept
<1>8. SpaceKept'
  <2>1. file'[l] = manifest.txn + 1
    BY <1>0, <1>2
  <2> QED BY <1>1, <1>2, <2>1 DEF MapInv, SpaceKept
<1> QED BY <1>1, <1>5, <1>6, <1>7, <1>8 DEF MapInv, Pinning, CopiesRight

LEMMA CommitInv ==
    ASSUME MapInv, NEW p \in Processes, NEW gone, Commit(p, gone) PROVE MapInv'
<1> DEFINE used == {d.loc : d \in draft.segs}
           kept == {x \in manifest.free : x.loc \notin used}
           freed == {[loc |-> s.loc, txn |-> manifest.txn + 1] : s \in gone}
<1>0. /\ manifest \in Manifest /\ manifest.len \in Nat /\ manifest.txn \in Nat
      /\ manifest.free \in SUBSET [loc : Loc, txn : Nat] /\ manifest.segs \in SUBSET Seg
      /\ draft.segs \in SUBSET Seg /\ draft.len \in Nat /\ draft \in Draft
      /\ file \in [Loc -> Nat]
  BY ManifestFields DEF MapInv, MapTypes
<1>1. /\ handle[p] = "writer" /\ draft.segs # {} /\ gone \subseteq manifest.segs
      /\ manifest' = [txn |-> manifest.txn + 1, segs |-> (manifest.segs \ gone) \cup draft.segs,
                      free |-> kept \cup freed, len |-> draft.len]
      /\ current' = [current EXCEPT ![p] = manifest']
      /\ draft' = NoDraft
      /\ UNCHANGED <<mapped, handle, file, task, buffers>>
  BY DEF Commit
<1>2. /\ manifest'.txn = manifest.txn + 1
      /\ manifest'.segs = (manifest.segs \ gone) \cup draft.segs
      /\ manifest'.free = kept \cup freed
      /\ manifest'.len = draft.len
      /\ draft'.segs = {}
  BY <1>1 DEF NoDraft
<1>3. manifest.len <= draft.len
  BY <1>1 DEF MapInv, SpaceKept
<1>4. /\ kept \subseteq [loc : Loc, txn : Nat]
      /\ freed \subseteq [loc : Loc, txn : Nat]
  <2>1. ASSUME NEW s \in gone PROVE [loc |-> s.loc, txn |-> manifest.txn + 1] \in [loc : Loc, txn : Nat]
    BY <1>0, <1>1, ManifestFields
  <2> QED BY <1>0, <2>1
<1>5. \A x \in kept : x \in manifest.free /\ \A d \in draft.segs : d.loc # x.loc
  OBVIOUS
<1>6. \A x \in freed : x.txn = manifest.txn + 1 /\ \E s \in gone : s.loc = x.loc
  OBVIOUS
<1>7. manifest' \in Manifest
  <2>1. (manifest.segs \ gone) \cup draft.segs \in SUBSET Seg
    BY <1>0
  <2>2. kept \cup freed \in SUBSET [loc : Loc, txn : Nat]
    BY <1>4
  <2> HIDE DEF kept, freed, used
  <2> QED BY <1>0, <1>1, <2>1, <2>2 DEF Manifest
<1> HIDE DEF used, kept, freed
<1>8. MapTypes'
  BY <1>1, <1>7, ManifestFields DEF MapInv, MapTypes
<1>9. /\ \A q \in Processes : handle[q] # "none" => q = p
      /\ current'[p] = manifest'
  BY <1>1, WriterAlone DEF MapInv, MapTypes
<1>10. Kept(manifest)
  BY DEF MapInv, SnapshotsKept
<1>11. Locked' /\ Handles'
  BY <1>1, <1>2, <1>9 DEF MapInv, Locked, Handles, Reading
<1>12. SpaceKept'
  <2>1. ASSUME NEW x \in manifest'.free PROVE x.txn <= manifest'.txn /\ x.loc <= manifest'.len
    <3>1. CASE x \in kept
      <4>1. x.txn <= manifest.txn /\ x.loc <= manifest.len /\ x.txn \in Nat /\ x.loc \in Nat
        BY <1>0, <1>5, <3>1, ManifestFields DEF MapInv, SpaceKept
      <4> QED BY <1>0, <1>2, <1>3, <4>1
    <3>2. CASE x \in freed
      <4>1. PICK s \in gone : s.loc = x.loc
        BY <1>6, <3>2
      <4>2. s.loc <= manifest.len /\ s.loc \in Nat
        BY <1>0, <1>1, <1>10, ManifestFields DEF Kept, Quarantined
      <4>3. x.txn = manifest.txn + 1
        BY <1>6, <3>2
      <4> QED BY <1>0, <1>2, <1>3, <4>1, <4>2, <4>3
    <3> QED BY <1>2, <3>1, <3>2
  <2> QED BY <1>2, <2>1 DEF SpaceKept
<1>13. ASSUME NEW s \in Manifest, Kept(s)
       PROVE  /\ \A e \in s.segs : file'[e.loc] = e.by /\ e.loc <= manifest'.len
              /\ \A e \in s.segs : \A x \in manifest'.free : x.loc = e.loc => s.txn < x.txn
              /\ s.txn <= manifest'.txn
  <2>1. s.txn \in Nat /\ s.segs \in SUBSET Seg /\ s.txn <= manifest.txn
    BY <1>13, ManifestFields DEF Kept, Quarantined
  <2>2. ASSUME NEW e \in s.segs PROVE file'[e.loc] = e.by /\ e.loc <= manifest'.len
    <3>1. file[e.loc] = e.by /\ e.loc <= manifest.len /\ e.loc \in Nat
      BY <1>13, <2>1, ManifestFields DEF Kept, Intact, Quarantined
    <3> QED BY <1>0, <1>1, <1>2, <1>3, <3>1
  <2>3. ASSUME NEW e \in s.segs, NEW x \in manifest'.free, x.loc = e.loc PROVE s.txn < x.txn
    <3>1. CASE x \in kept
      BY <1>5, <1>13, <2>3, <3>1 DEF Kept, Quarantined
    <3>2. CASE x \in freed
      <4>1. x.txn = manifest.txn + 1
        BY <1>6, <3>2
      <4> QED BY <1>0, <2>1, <4>1
    <3> QED BY <1>2, <3>1, <3>2
  <2> QED BY <1>0, <1>2, <2>1, <2>2, <2>3
<1>14. Kept(manifest)'
  <2>1. ASSUME NEW e \in manifest'.segs PROVE file'[e.loc] = e.by /\ e.loc <= manifest'.len
    <3>1. CASE e \in manifest.segs \ gone
      BY <1>0, <1>10, <1>13, <3>1
    <3>2. CASE e \in draft.segs
      BY <1>1, <1>2, <3>2 DEF MapInv, SpaceKept
    <3> QED BY <1>2, <3>1, <3>2
  <2>2. ASSUME NEW e \in manifest'.segs, NEW x \in manifest'.free, x.loc = e.loc PROVE FALSE
    <3>1. CASE x \in kept
      <4>1. e \in manifest.segs
        BY <1>2, <1>5, <2>2, <3>1
      <4>2. manifest.txn < x.txn /\ x.txn <= manifest.txn /\ x.txn \in Nat
        BY <1>0, <1>5, <1>10, <2>2, <3>1, <4>1, ManifestFields DEF Kept, Quarantined, MapInv, SpaceKept
      <4> QED BY <1>0, <4>2
    <3>2. CASE x \in freed
      <4>1. PICK g \in gone : g.loc = x.loc
        BY <1>6, <3>2
      <4>2. e \notin draft.segs
        BY <1>1, <1>10, <2>2, <4>1 DEF Kept, Quarantined
      <4>3. e \in manifest.segs /\ e \notin gone /\ g \in manifest.segs
        BY <1>1, <1>2, <4>1, <4>2
      <4>4. e.by = file[e.loc] /\ g.by = file[g.loc] /\ e.loc = g.loc
        BY <1>10, <2>2, <4>1, <4>3 DEF Kept, Intact
      <4>5. e = g
        BY <1>0, <4>3, <4>4 DEF Seg
      <4> QED BY <4>3, <4>5
    <3> QED BY <1>2, <3>1, <3>2
  <2>3. manifest'.txn <= manifest'.txn
    BY <1>0, <1>2
  <2> QED BY <1>2, <2>1, <2>2, <2>3 DEF Kept, Intact, Quarantined
<1>15. SnapshotsKept'
  <2>1. ASSUME NEW q \in Processes, handle'[q] # "none" PROVE Kept(current[q])'
    <3>1. current'[q] = manifest'
      BY <1>1, <1>9, <2>1
    <3> QED BY <1>14, <3>1 DEF Kept, Intact, Quarantined
  <2>2. ASSUME NEW t \in Tasks, task'[t] # Idle PROVE Kept(task[t].snap)'
    <3>1. task' = task /\ task[t].snap \in Manifest /\ Kept(task[t].snap)
      BY <1>1, <2>2, TaskFacts
    <3> DEFINE s == task[t].snap
    <3>2. /\ \A e \in s.segs : file'[e.loc] = e.by /\ e.loc <= manifest'.len
          /\ \A e \in s.segs : \A x \in manifest'.free : x.loc = e.loc => s.txn < x.txn
          /\ s.txn <= manifest'.txn
      BY <1>13, <3>1
    <3> QED BY <1>2, <3>1, <3>2 DEF Kept, Intact, Quarantined
  <2> QED BY <1>14, <2>1, <2>2 DEF SnapshotsKept
<1> QED BY <1>1, <1>8, <1>11, <1>12, <1>15 DEF MapInv, Pinning, CopiesRight

----------------------------------------------------------------------------
(* The theorems.                                                           *)

LEMMA MapInitInv == MapInit => MapInv
<1> SUFFICES ASSUME MapInit PROVE MapInv
  OBVIOUS
<1>1. MapTypes
  BY ManifestFields DEF MapInit, MapTypes
<1>2. Kept(Created)
  <2>1. Created.segs = {} /\ Created.txn = 0 /\ manifest = Created
    BY DEF MapInit, Created
  <2> QED BY <2>1 DEF Kept, Intact, Quarantined
<1>3. /\ manifest.free = {} /\ draft.segs = {} /\ buffers = {} /\ manifest = Created
      /\ \A p \in Processes : handle[p] = "none"
      /\ \A t \in Tasks : task[t] = Idle
  BY DEF MapInit, Created, NoDraft
<1> QED BY <1>1, <1>2, <1>3 DEF MapInv, Pinning, Locked, Handles, Reading, SnapshotsKept,
            SpaceKept, CopiesRight

LEMMA MapNextInv == MapInv /\ [MapNext]_mapVars => MapInv'
<1> SUFFICES ASSUME MapInv, [MapNext]_mapVars PROVE MapInv'
  OBVIOUS
<1>1. ASSUME NEW p \in Processes, \E kind \in {"reader", "writer"} : Open(p, kind) PROVE MapInv'
  BY <1>1, OpenInv
<1>2. ASSUME NEW p \in Processes, Close(p) PROVE MapInv'
  BY <1>2, CloseInv
<1>3. ASSUME NEW p \in Processes, Write(p) PROVE MapInv'
  BY <1>3, WriteInv
<1>4. ASSUME NEW p \in Processes, \E gone \in SUBSET manifest.segs : Commit(p, gone) PROVE MapInv'
  BY <1>4, CommitInv
<1>5. ASSUME NEW t \in Tasks,
             \/ \E p \in Processes : Pin(t, p)
             \/ Unpin(t) \/ Map(t) \/ Insert(t)
             \/ \E s : ReadCopy(t, s) \/ Lookup(t, s)
      PROVE MapInv'
  BY <1>5, ReaderInv
<1>6. ASSUME NEW b \in buffers, DropBuffer(b) PROVE MapInv'
  BY <1>6, DropInv
<1>7. CASE UNCHANGED mapVars
  BY <1>7, BufferStep DEF mapVars, MapInv, CopiesRight
<1> QED BY <1>1, <1>2, <1>3, <1>4, <1>5, <1>6, <1>7 DEF MapNext

\* The bytes a task sees through a buffer are those of the segment it asked for,
\* while the snapshot it read them from is pinned: for any number of processes and
\* tasks, the file lock, the registry and the quarantine of freed extents
\* (lock.rs, snapshot.rs, allocate of table_file.rs) keep map_extent of mmap.rs
\* safe.
THEOREM PinnedReadsStable == MapSpec => []PinnedBytesStable
<1>1. MapInv => PinnedBytesStable
  <2> SUFFICES ASSUME MapInv, NEW b \in buffers, Reading(b.task, b.process),
                      b.seg \in task[b.task].snap.segs
               PROVE  Shows(b) = b.seg.by
    BY DEF PinnedBytesStable
  <2>1. b.task \in Tasks /\ (~mapped => b.bytes = b.seg.by)
    BY DEF MapInv, CopiesRight
  <2>2. file[b.seg.loc] = b.seg.by
    BY <2>1, TaskFacts DEF Reading, Kept, Intact
  <2> QED BY <2>1, <2>2 DEF Shows
<1> QED BY <1>1, MapInitInv, MapNextInv, PTL DEF MapSpec

----------------------------------------------------------------------------
(* One mapping per location.                                               *)

\* Entry w of the cache names the mapping buffer b holds.
Names(w, b) == w.process = b.process /\ w.loc = b.seg.loc /\ w.map = b.map

\* The cache names every mapping a buffer holds, and one mapping per location.
CacheNames ==
    /\ \A b \in buffers : \E w \in cache : Names(w, b)
    /\ \A v, w \in cache : v.process = w.process /\ v.loc = w.loc => v.map = w.map

\* Copies have no mapping.
ShareInv == IF mapped THEN CacheNames ELSE \A b \in buffers : b.map = 0

\* Two buffers over a location are named by one cache entry.
LEMMA ShareImplies == ShareInv => SharedMapping
<1> SUFFICES ASSUME ShareInv, NEW a \in buffers, NEW b \in buffers,
                    a.process = b.process, a.seg.loc = b.seg.loc
             PROVE  a.map = b.map
  BY DEF SharedMapping
<1>1. CASE mapped
  <2>1. PICK v \in cache : Names(v, a)
    BY <1>1 DEF ShareInv, CacheNames
  <2>2. PICK w \in cache : Names(w, b)
    BY <1>1 DEF ShareInv, CacheNames
  <2> QED BY <1>1, <2>1, <2>2 DEF ShareInv, CacheNames, Names
<1>2. CASE ~mapped
  BY <1>2 DEF ShareInv
<1> QED BY <1>1, <1>2

\* A lookup hands out a mapping the cache names for that location.
LEMMA ShareFound ==
    ASSUME ShareInv, mapped, UNCHANGED <<mapped, cache>>,
           NEW t, NEW s, NEW m \in Cached(task[t].process, s.loc),
           Buffered(t, s, m, 0)
    PROVE  ShareInv'
<1> DEFINE p == task[t].process
           n == [task |-> t, process |-> p, seg |-> s, map |-> m, bytes |-> 0]
<1>1. buffers' = buffers \cup {n}
  BY DEF Buffered
<1>2. PICK w \in cache : w.process = p /\ w.loc = s.loc /\ w.map = m
  BY DEF Cached
<1>3. Names(w, n)
  BY <1>2 DEF Names
<1> HIDE DEF n
<1> QED BY <1>1, <1>3 DEF ShareInv, CacheNames

\* A mapping nobody has beaten replaces what the cache held for its location:
\* dead entries, since a buffer over it would have been found.
LEMMA ShareInsert ==
    ASSUME ShareInv, mapped, UNCHANGED mapped,
           NEW t, NEW s, NEW m, NEW p, p = task[t].process,
           Cached(p, s.loc) = {},
           Buffered(t, s, m, 0),
           cache' = {w \in cache : w.process = p => w.map \in LiveMaps(p)
                                                    /\ w.loc # s.loc}
                    \cup {[process |-> p, loc |-> s.loc, map |-> m]}
    PROVE  ShareInv'
<1> DEFINE n == [task |-> t, process |-> p, seg |-> s, map |-> m, bytes |-> 0]
           e == [process |-> p, loc |-> s.loc, map |-> m]
           kept == {w \in cache : w.process = p => w.map \in LiveMaps(p) /\ w.loc # s.loc}
<1>1. buffers' = buffers \cup {n} /\ cache' = kept \cup {e}
  BY DEF Buffered
<1>2. e.process = p /\ e.loc = s.loc /\ Names(e, n)
  BY DEF Names
<1>3. ASSUME NEW b \in buffers PROVE \E w \in kept : Names(w, b)
  <2>1. PICK w \in cache : Names(w, b)
    BY DEF ShareInv, CacheNames
  <2>2. ASSUME w.process = p PROVE w.map \in LiveMaps(p) /\ w.loc # s.loc
    <3>1. w.map \in LiveMaps(p)
      BY <2>1, <2>2 DEF Names, LiveMaps
    <3>2. w.loc # s.loc
      BY <2>2, <3>1 DEF Cached
    <3> QED BY <3>1, <3>2
  <2> QED BY <2>1, <2>2
<1>4. \A v \in kept : v \in cache /\ (v.process = p => v.loc # s.loc)
  OBVIOUS
<1> HIDE DEF n, e, kept
<1>5. \A v, w \in kept \cup {e} : v.process = w.process /\ v.loc = w.loc => v.map = w.map
  BY <1>2, <1>4 DEF ShareInv, CacheNames
<1> QED BY <1>1, <1>2, <1>3, <1>5 DEF ShareInv, CacheNames

\* Every step keeps the cache true to the buffers.
LEMMA ShareNext == MapInv /\ ShareInv /\ [MapNext]_mapVars => ShareInv'
<1> SUFFICES ASSUME MapInv, ShareInv, [MapNext]_mapVars PROVE ShareInv'
  OBVIOUS
<1>1. ASSUME UNCHANGED <<mapped, buffers, cache>> PROVE ShareInv'
  BY <1>1 DEF ShareInv, CacheNames
<1>2. ASSUME NEW p \in Processes, \E kind \in {"reader", "writer"} : Open(p, kind)
      PROVE  ShareInv'
  BY <1>1, <1>2 DEF Open
<1>3. ASSUME NEW p \in Processes, Close(p) PROVE ShareInv'
  <2>1. /\ UNCHANGED mapped
        /\ cache' = {w \in cache : w.process # p}
        /\ buffers' = {b \in buffers : b.process # p}
    BY <1>3 DEF Close
  <2> QED BY <2>1 DEF ShareInv, CacheNames, Names
<1>4. ASSUME NEW p \in Processes, Write(p) PROVE ShareInv'
  BY <1>1, <1>4 DEF Write
<1>5. ASSUME NEW p \in Processes, \E gone \in SUBSET manifest.segs : Commit(p, gone)
      PROVE  ShareInv'
  BY <1>1, <1>5 DEF Commit
<1>6. ASSUME NEW t \in Tasks, \/ \E p \in Processes : Pin(t, p)
                              \/ Unpin(t) \/ Map(t)
      PROVE  ShareInv'
  BY <1>1, <1>6 DEF Pin, Unpin, Map
<1>7. ASSUME NEW t \in Tasks, Insert(t) PROVE ShareInv'
  <2>1. task[t] # Idle /\ task[t].at = "mapped"
    BY <1>7 DEF Insert, Idle
  <2>2. mapped /\ UNCHANGED mapped
    BY <1>7, <2>1, TaskFacts DEF Insert
  <2>3. CASE \E m \in Cached(task[t].process, task[t].seg.loc) :
                 Buffered(t, task[t].seg, m, 0) /\ UNCHANGED cache
    BY <2>2, <2>3, ShareFound
  <2>4. CASE /\ Cached(task[t].process, task[t].seg.loc) = {}
             /\ Buffered(t, task[t].seg, task[t].map, 0)
             /\ cache' = {w \in cache : w.process = task[t].process =>
                             w.map \in LiveMaps(task[t].process)
                             /\ w.loc # task[t].seg.loc}
                         \cup {[process |-> task[t].process, loc |-> task[t].seg.loc,
                                map |-> task[t].map]}
    BY <2>2, <2>4, ShareInsert
  <2> QED BY <1>7, <2>3, <2>4 DEF Insert
<1>8. ASSUME NEW t \in Tasks, NEW s, Lookup(t, s) PROVE ShareInv'
  <2>1. mapped /\ UNCHANGED <<mapped, cache>>
    BY <1>8 DEF Lookup
  <2>2. CASE \E m \in Cached(task[t].process, s.loc) : Buffered(t, s, m, 0)
    BY <2>1, <2>2, ShareFound
  <2>3. CASE UNCHANGED buffers
    BY <1>1, <2>1, <2>3
  <2> QED BY <1>8, <2>2, <2>3 DEF Lookup
<1>9. ASSUME NEW t \in Tasks, NEW s, ReadCopy(t, s) PROVE ShareInv'
  BY <1>9 DEF ReadCopy, Buffered, ShareInv
<1>10. ASSUME NEW b \in buffers, DropBuffer(b) PROVE ShareInv'
  BY <1>10 DEF DropBuffer, ShareInv, CacheNames
<1>11. CASE UNCHANGED mapVars
  BY <1>1, <1>11 DEF mapVars
<1> QED BY <1>2, <1>3, <1>4, <1>5, <1>6, <1>7, <1>8, <1>9, <1>10, <1>11 DEF MapNext

\* However many tasks of a process miss the cache at once and map outside its
\* mutex, map_extent of mmap.rs leaves one mapping per location: the second
\* lookup under the mutex lets the first one in win.
THEOREM MappingsShared == MapSpec => []SharedMapping
<1>1. MapInit => ShareInv
  BY DEF MapInit, ShareInv, CacheNames
<1> QED BY <1>1, ShareNext, ShareImplies, MapInitInv, MapNextInv, PTL DEF MapSpec

=============================================================================
