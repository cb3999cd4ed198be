----------------------------- MODULE TableFile -----------------------------
(***************************************************************************)
(* The table file: shadow commits over two meta slots, reuse of freed      *)
(* extents, and recovery (localtables-format/src/table_file.rs, with the   *)
(* manifest of layout/manifest.rs and the reader pins of snapshot.rs).     *)
(*                                                                         *)
(* The file is a function from locations to contents.  A location holds    *)
(* one extent: the sizes and the alignment of extents are abstracted, so   *)
(* which free extent fits a write, and whether rounding up skips a         *)
(* location, are choices.  Locations SlotA and SlotB are the two meta      *)
(* pages.  The header page never changes after create and is left out.     *)
(*                                                                         *)
(* file[x] is what a read of x returns.  img[x] is the set of contents the *)
(* medium may turn out to hold at x after a crash: a write adds its bytes  *)
(* and a torn mixture, a sync leaves only what was written last.           *)
(***************************************************************************)
EXTENDS Naturals, FiniteSets

CONSTANTS
    Readers,        \* tasks that hold a snapshot of the table
    MaxTxn,         \* bound: commits are numbered up to this
    MaxLoc,         \* bound: the last location of the file
    MaxFaults,      \* bound: crashes and I/O errors together
    MaxLive,        \* bound: entries of a manifest while it grows
    Payloads,       \* what the bytes of a segment, bitmap or schema may say
    Rewrites,       \* does a schema change also rewrite the segments
    FlipFailures    \* may writing or syncing a meta page report an error

ASSUME TableFileAssumption ==
    /\ MaxTxn \in Nat
    /\ MaxLoc \in Nat /\ MaxLoc >= 4
    /\ MaxFaults \in Nat
    /\ MaxLive \in Nat
    /\ Payloads # {}
    /\ Rewrites \in BOOLEAN
    /\ FlipFailures \in BOOLEAN

VARIABLES
    file,       \* location -> what a read returns
    img,        \* location -> what a crash may leave there
    ioLen,      \* FileIo::len, in locations
    stableLen,  \* the length a crash cannot undercut
    pc,         \* where the one writer stands
    committed,  \* Committed: slot, manifest location, manifest
    nextMan,    \* next_slot_manifest, as a set of at most one location
    draft,      \* the manifest of the commit being prepared
    draftMan,   \* where that manifest was written
    minActive,  \* min_active_txn as the writer read it
    pins,       \* reader -> the snapshot it holds, a set of at most one
    faults      \* how many crashes and errors have happened

vars == <<file, img, ioLen, stableLen, pc, committed, nextMan, draft,
          draftMan, minActive, pins, faults>>

diskVars == <<file, img, ioLen, stableLen>>

----------------------------------------------------------------------------
(* Contents of the file.                                                   *)

Loc == 0 .. MaxLoc
SlotA == 0
SlotB == 1
Slots == {SlotA, SlotB}
DATA_START == 2

\* Mutant: the slot number is advanced without wrapping round.
OtherUnwrapped(s) == s + 1

Other(s) == 1 - s

\* An entry of the manifest that owns bytes: a segment or a delete vector.
Ref == [loc : Loc, tag : Payloads]
FreeExtent == [loc : Loc, txn : Nat]
Manifest == [txn : Nat, live : SUBSET Ref, free : SUBSET FreeExtent,
             fileLen : Nat, schema : Ref]

\* Bytes no frame check accepts: never written, torn, or overwritten in part.
Torn == [kind |-> "torn"]
MetaPage(txn, man) == [kind |-> "meta", txn |-> txn, man |-> man]
Record(m) == [kind |-> "manifest", body |-> m]
Bytes(tag) == [kind |-> "data", tag |-> tag]

Content == {Torn}
           \cup [kind : {"meta"}, txn : Nat, man : Loc]
           \cup [kind : {"manifest"}, body : Manifest]
           \cup [kind : {"data"}, tag : Payloads]

Max2(a, b) == IF a >= b THEN a ELSE b

\* The bytes an entry refers to are still the ones written for it.
Intact(f, r) == f[r.loc] = Bytes(r.tag)
TableIntact(f, m) == \A r \in m.live \cup {m.schema} : Intact(f, r)

----------------------------------------------------------------------------
(* The medium.                                                             *)

Write(x, c) ==
    /\ file' = [file EXCEPT ![x] = c]
    /\ img' = [img EXCEPT ![x] = @ \cup {c, Torn}]
    /\ ioLen' = Max2(ioLen, x + 1)
    /\ UNCHANGED stableLen

SyncData ==
    /\ img' = [x \in Loc |-> {file[x]}]
    /\ stableLen' = ioLen
    /\ UNCHANGED <<file, ioLen>>

\* Every file a crash may leave behind: each location written since the last
\* sync holds one of its images, and the length is back where it was synced,
\* where it is, or between.
Unsynced == {x \in Loc : Cardinality(img[x]) > 1}
Images == {g \in [Unsynced -> UNION {img[x] : x \in Unsynced}] :
              \A x \in Unsynced : g[x] \in img[x]}
AfterCrash(g, len) ==
    [x \in Loc |-> IF x >= len THEN Torn
                   ELSE IF x \in Unsynced THEN g[x] ELSE file[x]]

----------------------------------------------------------------------------
(* Recovery: read_committed.                                               *)

\* read_meta and read_manifest both succeed and agree on the txn.
Readable(f, s) ==
    /\ f[s].kind = "meta"
    /\ f[f[s].man].kind = "manifest"
    /\ f[f[s].man].body.txn = f[s].txn

\* The newest slot whose manifest reads back.
Winners(f) == {s \in Slots : /\ Readable(f, s)
                             /\ \A t \in Slots :
                                   Readable(f, t) => f[t].txn <= f[s].txn}

ManifestAt(f, s) == f[f[s].man].body
CommitAt(f, s) == [slot |-> s, man |-> f[s].man, manifest |-> ManifestAt(f, s)]

\* The manifest location the losing slot names; an unreadable one owns nothing.
LoserManifest(f, s) == IF f[Other(s)].kind = "meta" THEN {f[Other(s)].man} ELSE {}

----------------------------------------------------------------------------
(* create: both slots are seeded with a complete commit.                   *)

SchemaLoc == DATA_START
SeedLoc == DATA_START + 1
FirstLoc == DATA_START + 2
Seed(txn, len, p) == [txn |-> txn, live |-> {}, free |-> {}, fileLen |-> len,
                   schema |-> [loc |-> SchemaLoc, tag |-> p]]

Created(p) ==
    [x \in Loc |->
        CASE x = SlotA -> MetaPage(1, FirstLoc)
          [] x = SlotB -> MetaPage(0, SeedLoc)
          [] x = SchemaLoc -> Bytes(p)
          [] x = SeedLoc -> Record(Seed(0, SeedLoc + 1, p))
          [] x = FirstLoc -> Record(Seed(1, FirstLoc + 1, p))
          [] OTHER -> Torn]

\* A draft that was acknowledged, dropped or lost leaves nothing behind.
NoDraft(c) ==
    /\ draft' = c.manifest
    /\ draftMan' = c.man
    /\ minActive' = 0

Init ==
    \E p \in Payloads :
        /\ file = Created(p)
        /\ img = [x \in Loc |-> {Created(p)[x]}]
        /\ ioLen = FirstLoc + 1
        /\ stableLen = FirstLoc + 1
        /\ pc = "idle"
        /\ committed = [slot |-> SlotA, man |-> FirstLoc,
                        manifest |-> Seed(1, FirstLoc + 1, p)]
        /\ nextMan = {SeedLoc}
        /\ draft = Seed(1, FirstLoc + 1, p)
        /\ draftMan = FirstLoc
        /\ minActive = 0
        /\ pins = [r \in Readers |-> {}]
        /\ faults = 0

----------------------------------------------------------------------------
(* Readers: a snapshot stays pinned while a task holds its Arc.  The       *)
(* handle's own `current` keeps the newest one pinned.                     *)

PinnedTxns == {committed.manifest.txn} \cup
              {m.txn : m \in UNION {pins[r] : r \in Readers}}

\* Mutant: the oldest commit is the handle's own, and readers are not asked.
MinActiveOfHandle(t) == t = committed.manifest.txn

\* min_active_txn: t is the oldest commit any snapshot is pinned to.
MinActiveTxn(t) == \A u \in PinnedTxns : t <= u

Pin(r) ==
    /\ pc # "closed"
    /\ pins[r] = {}
    /\ pins' = [pins EXCEPT ![r] = {committed.manifest}]
    /\ UNCHANGED <<diskVars, pc, committed, nextMan, draft, draftMan,
                   minActive, faults>>

Unpin(r) ==
    /\ pins[r] # {}
    /\ pins' = [pins EXCEPT ![r] = {}]
    /\ UNCHANGED <<diskVars, pc, committed, nextMan, draft, draftMan,
                   minActive, faults>>

----------------------------------------------------------------------------
(* Preparing a commit, under the writer lock.                              *)

\* manifest().clone() with the next txn, and one read of min_active_txn.
Begin ==
    /\ pc = "idle"
    /\ committed.manifest.txn < MaxTxn
    /\ pc' = "draft"
    /\ draft' = [committed.manifest EXCEPT !.txn = @ + 1]
    /\ minActive' \in {t \in PinnedTxns : MinActiveTxn(t)}
    /\ UNCHANGED <<diskVars, committed, nextMan, draftMan, pins, faults>>

\* Mutant: quarantine ends one commit early.
ReusableEarly(m, oldest) == {f \in m.free : f.txn <= oldest}

\* Mutant: there is no quarantine.
ReusableAtOnce(m, oldest) == m.free

\* allocate: the extents quarantine has released.
Reusable(m, oldest) == {f \in m.free : f.txn < oldest}

\* write_allocated: the entry owns the extent, and its bytes are written.
Place(x, p, m) ==
    /\ pc = "draft"
    /\ Cardinality(draft.live) < MaxLive
    /\ draft' = [m EXCEPT !.live = @ \cup {[loc |-> x, tag |-> p]}]
    /\ Write(x, Bytes(p))
    /\ UNCHANGED <<pc, committed, nextMan, draftMan, minActive, pins, faults>>

\* A released extent fits.
WriteReused(f, p) ==
    /\ f \in Reusable(draft, minActive)
    /\ Place(f.loc, p, [draft EXCEPT !.free = @ \ {f}])

\* None does: the start is the manifest's own file_len rounded up, which may
\* or may not carry it past what the file holds beyond that.
WriteGrown(x, p) ==
    /\ x \in draft.fileLen .. Max2(draft.fileLen, ioLen)
    /\ x < MaxLoc
    /\ Place(x, p, [draft EXCEPT !.fileLen = x + 1])

\* A segment or a bitmap of the committed table is superseded: Manifest::free.
Supersede(r, txn) ==
    /\ pc = "draft"
    /\ r \in draft.live \cap committed.manifest.live
    /\ draft' = [draft EXCEPT
                    !.live = @ \ {r},
                    !.free = @ \cup {[loc |-> r.loc, txn |-> txn]}]
    /\ UNCHANGED <<diskVars, pc, committed, nextMan, draftMan, minActive,
                   pins, faults>>

\* Mutant: the extent is freed under the txn the draft was cloned from.
DropUnderOldTxn(r) == Supersede(r, committed.manifest.txn)

Drop(r) == Supersede(r, draft.txn)

\* set_schema: write_schema appends at the end of the file and leaves the
\* manifest's file_len alone.
WriteSchema(p) ==
    /\ pc = "idle"
    /\ committed.manifest.txn < MaxTxn
    /\ ioLen < MaxLoc
    /\ pc' = "altered"
    /\ draft' = [committed.manifest EXCEPT
                    !.txn = @ + 1,
                    !.schema = [loc |-> ioLen, tag |-> p]]
    /\ Write(ioLen, Bytes(p))
    /\ UNCHANGED <<committed, nextMan, draftMan, minActive, pins, faults>>

\* A schema change whose stored bytes no longer mean what the schema says goes
\* on to write segments (convert_segments) before it commits.
ConvertSegments ==
    /\ Rewrites
    /\ pc = "altered"
    /\ committed.manifest.live # {}
    /\ pc' = "draft"
    /\ minActive' \in {t \in PinnedTxns : MinActiveTxn(t)}
    /\ UNCHANGED <<diskVars, committed, nextMan, draft, draftMan, pins, faults>>

----------------------------------------------------------------------------
(* TableFile::commit.                                                      *)

\* Free a manifest and write the new one, at a location past the table.
PutManifest(at, freed) ==
    LET m == [draft EXCEPT
                !.free = @ \cup {[loc |-> l, txn |-> draft.txn] : l \in freed},
                !.fileLen = at + 1]
    IN /\ pc \in {"draft", "altered"}
       /\ at <= MaxLoc
       /\ pc' = "written"
       /\ draft' = m
       /\ draftMan' = at
       /\ Write(at, Record(m))
       /\ UNCHANGED <<committed, nextMan, minActive, pins, faults>>

\* Mutant: the manifest freed is the one the surviving slot still names.
FreeSurvivor == PutManifest(Max2(draft.fileLen, ioLen), {committed.man})

\* Mutant: the end of the file is taken from the manifest alone.
IgnoreFileLength == PutManifest(draft.fileLen, nextMan)

\* The manifest of the slot this commit overwrites is freed; write_manifest
\* goes at the end of the file.
WriteManifest == PutManifest(Max2(draft.fileLen, ioLen), nextMan)

\* Mutant: the first sync is left out.
SkipFirstSync ==
    /\ pc = "written"
    /\ pc' = "synced"
    /\ UNCHANGED <<diskVars, committed, nextMan, draft, draftMan, minActive,
                   pins, faults>>

\* Step 1: every byte the new meta page will point at is on disk.
SyncManifest ==
    /\ pc = "written"
    /\ pc' = "synced"
    /\ SyncData
    /\ UNCHANGED <<committed, nextMan, draft, draftMan, minActive, pins, faults>>

\* Step 2: write_meta points a slot at the new manifest.
Flip(slot) ==
    /\ pc = "synced"
    /\ pc' = "flipped"
    /\ Write(slot, MetaPage(draft.txn, draftMan))
    /\ UNCHANGED <<committed, nextMan, draft, draftMan, minActive, pins, faults>>

\* Mutant: the slot that holds the only acknowledged commit is overwritten.
FlipCurrentSlot == Flip(committed.slot)

\* The older slot is the one to flip.
WriteMeta == Flip(Other(committed.slot))

\* The second sync, the bookkeeping of commit and the publish of the snapshot:
\* the commit is acknowledged.
SyncMeta ==
    /\ pc = "flipped"
    /\ pc' = "idle"
    /\ SyncData
    /\ nextMan' = {committed.man}
    /\ committed' = [slot |-> Other(committed.slot), man |-> draftMan,
                     manifest |-> draft]
    /\ NoDraft(committed')
    /\ UNCHANGED <<pins, faults>>

\* An I/O error: the caller's draft is dropped and nothing else moves.
Fail ==
    /\ \/ pc \in {"draft", "altered", "written", "synced"}
       \/ FlipFailures /\ pc = "flipped"
    /\ faults < MaxFaults
    /\ faults' = faults + 1
    /\ pc' = "idle"
    /\ NoDraft(committed)
    /\ UNCHANGED <<diskVars, committed, nextMan, pins>>

----------------------------------------------------------------------------
(* Crash and open.                                                         *)

\* Memory is lost; committed keeps the last acknowledged commit as history.
Crash ==
    /\ pc # "closed"
    /\ faults < MaxFaults
    /\ faults' = faults + 1
    /\ pc' = "closed"
    /\ \E len \in stableLen .. ioLen, g \in Images :
          /\ file' = AfterCrash(g, len)
          /\ img' = [x \in Loc |-> {AfterCrash(g, len)[x]}]
          /\ ioLen' = len
          /\ stableLen' = len
    /\ pins' = [r \in Readers |-> {}]
    /\ NoDraft(committed)
    /\ UNCHANGED <<committed, nextMan>>

\* TableFile::open: read_committed, then the schema the manifest names.
Open ==
    /\ pc = "closed"
    /\ pc' = "idle"
    /\ \E s \in Winners(file) :
          /\ Intact(file, ManifestAt(file, s).schema)
          /\ committed' = CommitAt(file, s)
          /\ nextMan' = LoserManifest(file, s)
    /\ NoDraft(committed')
    /\ UNCHANGED <<diskVars, pins, faults>>

Next ==
    \/ Begin
    \/ \E p \in Payloads :
          \/ WriteSchema(p)
          \/ \E f \in draft.free : WriteReused(f, p)
          \/ \E x \in Loc : WriteGrown(x, p)
    \/ ConvertSegments
    \/ \E r \in draft.live : Drop(r)
    \/ WriteManifest \/ SyncManifest \/ WriteMeta \/ SyncMeta \/ Fail
    \/ Crash \/ Open
    \/ \E r \in Readers : Pin(r) \/ Unpin(r)

Spec == Init /\ [][Next]_vars

----------------------------------------------------------------------------
(* Properties.                                                             *)

\* Every variable keeps its type.
TypeOK ==
    /\ file \in [Loc -> Content]
    /\ img \in [Loc -> SUBSET Content]
    /\ ioLen \in Nat /\ stableLen \in Nat
    /\ pc \in {"closed", "idle", "draft", "altered", "written", "synced", "flipped"}
    /\ committed \in [slot : Slots, man : Loc, manifest : Manifest]
    /\ nextMan \in SUBSET Loc
    /\ draft \in Manifest
    /\ draftMan \in Loc
    /\ minActive \in Nat
    /\ pins \in [Readers -> SUBSET Manifest]
    /\ faults \in Nat

\* After any crash, whatever the medium kept, a meta slot leads to a readable
\* manifest whose schema and entries all hold the bytes written for them, and
\* it is the last acknowledged commit or the one whose flip was under way.
RecoversWholeCommit ==
    pc = "closed" =>
        \E s \in Winners(file) :
            /\ TableIntact(file, ManifestAt(file, s))
            /\ file[s].txn \in {committed.manifest.txn, committed.manifest.txn + 1}

\* A snapshot a reader still holds, and the current one, read segments and
\* bitmaps as they were committed: no write of allocate, of a schema change or
\* of a commit lands on an extent a pinned snapshot names.
SnapshotsReadable ==
    pc # "closed" =>
        \A m \in {committed.manifest} \cup UNION {pins[r] : r \in Readers} :
            \A q \in m.live : Intact(file, q)

\* Until a commit overwrites it, the older slot still leads to a whole table,
\* so the loss of the newest meta page costs one commit and not the table.
FallbackIntact ==
    LET s == Other(committed.slot)
    IN pc \notin {"closed", "flipped"} /\ Readable(file, s)
          => TableIntact(file, ManifestAt(file, s))

\* Entries, free extents and the schema of a manifest are pairwise apart and
\* lie inside the table, past the meta pages.
Geometry(m) ==
    /\ \A r, q \in m.live : r.loc = q.loc => r = q
    /\ \A f, g \in m.free : f.loc = g.loc => f = g
    /\ \A r \in m.live, f \in m.free : r.loc # f.loc
    /\ \A r \in m.live : /\ DATA_START <= r.loc /\ r.loc < m.fileLen
                         /\ r.loc # m.schema.loc
    /\ \A f \in m.free : /\ DATA_START <= f.loc /\ f.loc < m.fileLen
                         /\ f.loc # m.schema.loc
    /\ DATA_START <= m.schema.loc

\* Nothing of this manifest sits at x, and x is inside the table.
Apart(m, x) ==
    /\ DATA_START <= x /\ x < m.fileLen
    /\ x # m.schema.loc
    /\ \A r \in m.live : r.loc # x
    /\ \A f \in m.free : f.loc # x

\* No location has two owners: live entries, free extents, the schema and the
\* manifests both slots name never overlap, whatever was reused or given back.
SpaceAccounted ==
    pc # "closed" =>
        /\ Geometry(committed.manifest)
        /\ \A x \in {committed.man} \cup nextMan : Apart(committed.manifest, x)

\* The schema blob every pinned snapshot names still reads back: write_schema
\* says a blob stays reachable for every commit a reader may still hold.
SchemaReachable ==
    pc # "closed" =>
        \A m \in {committed.manifest} \cup UNION {pins[r] : r \in Readers} :
            Intact(file, m.schema)

----------------------------------------------------------------------------
(* Refinement: the table an application sees is what the committed         *)
(* manifest's entries read back as, and while the process is down it is    *)
(* what the next open will find.                                           *)

Contents(f, m) == [txn |-> m.txn,
                   entries |-> [r \in m.live |-> f[r.loc]],
                   schema |-> f[m.schema.loc]]

Recovered == ManifestAt(file, CHOOSE s \in Winners(file) : TRUE)

Atomic == INSTANCE AtomicCommit WITH
    table <- Contents(file, IF pc = "closed" THEN Recovered
                                             ELSE committed.manifest),
    pending <- IF pc = "flipped" THEN {Contents(file, draft)} ELSE {},
    up <- pc # "closed"

\* The file implements the atomic commit: bytes of the committed table never
\* change under it, a commit is seen whole or not at all, and only a commit
\* whose flip was under way may surface after a crash.
CommitIsAtomic == Atomic!Spec

----------------------------------------------------------------------------
(* The inductive invariant, for tables whose schema changes place no       *)
(* rewritten segment on the blob they wrote, and whose flips never report  *)
(* an error.                                                               *)

\* A medium with images i, synced up to n, holds c at x whatever happens.
Solid(i, n, x, c) == x < n /\ i[x] = {c}

Coherent ==
    /\ \A x \in Loc : file[x] \in img[x]
    /\ stableLen <= ioLen
    /\ ioLen <= MaxLoc + 1

\* A table nothing can undo: its manifest and all it names.
SolidTable(i, n, m, man) ==
    /\ m.fileLen <= n
    /\ m.schema.loc < m.fileLen
    /\ Solid(i, n, man, Record(m))
    /\ Solid(i, n, m.schema.loc, Bytes(m.schema.tag))
    /\ \A r \in m.live : Solid(i, n, r.loc, Bytes(r.tag))
    /\ Geometry(m)
    /\ Apart(m, man)

SolidCommit(i, n, c) ==
    /\ SolidTable(i, n, c.manifest, c.man)
    /\ Solid(i, n, c.slot, MetaPage(c.manifest.txn, c.man))

\* A page that loses to commit c in recovery, and whose manifest c leaves alone.
OlderMeta(d, c) ==
    \/ d = Torn
    \/ /\ d.kind = "meta"
       /\ d.txn < c.manifest.txn
       /\ d.man # c.man
       /\ Apart(c.manifest, d.man)

OlderSlot(i, c) == \A d \in i[Other(c.slot)] : OlderMeta(d, c)

\* Snapshot p survives every write that manifest m may lead to.
Held(f, p, m) ==
    \A q \in p.live \cup {p.schema} :
        /\ Intact(f, q)
        /\ q.loc < m.fileLen
        /\ \A e \in m.free : e.loc = q.loc => e.txn > p.txn

PinsHeld(f, ps, txn, m) ==
    \A r \in Readers : \A p \in ps[r] : p.txn <= txn /\ Held(f, p, m)

OpenInv ==
    /\ SolidCommit(img, stableLen, committed)
    /\ PinsHeld(file, pins, committed.manifest.txn, committed.manifest)
    /\ \A x \in nextMan : x # committed.man /\ Apart(committed.manifest, x)
    /\ pc # "flipped" => OlderSlot(img, committed)

DraftInv ==
    /\ draft.txn = committed.manifest.txn + 1
    /\ committed.manifest.fileLen <= draft.fileLen
    /\ draft.fileLen <= ioLen
    /\ draft.schema.loc < ioLen
    /\ Geometry(draft)
    /\ Apart(draft, committed.man)
    /\ Held(file, committed.manifest, draft)
    /\ PinsHeld(file, pins, committed.manifest.txn, draft)
    /\ TableIntact(file, draft)

\* Before the manifest is written.
PlacingInv ==
    /\ \A x \in nextMan : Apart(draft, x)
    /\ pc = "draft" =>
          /\ Rewrites \/ draft.schema.loc < draft.fileLen
          /\ minActive <= committed.manifest.txn
          /\ \A r \in Readers : \A p \in pins[r] : minActive <= p.txn

\* Once it is.
WrittenInv ==
    /\ draft.schema.loc < draft.fileLen
    /\ Apart(draft, draftMan)
    /\ draftMan # committed.man
    /\ file[draftMan] = Record(draft)

\* While the older slot is being overwritten.
FlippedInv ==
    /\ file[Other(committed.slot)] = MetaPage(draft.txn, draftMan)
    /\ \A d \in img[Other(committed.slot)] :
           OlderMeta(d, committed) \/ d = MetaPage(draft.txn, draftMan)

ClosedInv ==
    /\ \A r \in Readers : pins[r] = {}
    /\ \E s \in Slots :
          /\ Readable(file, s)
          /\ SolidCommit(img, stableLen, CommitAt(file, s))
          /\ OlderSlot(img, CommitAt(file, s))
          /\ file[s].txn \in {committed.manifest.txn, committed.manifest.txn + 1}

\* The strengthening that every action preserves.
IInv ==
    /\ TypeOK
    /\ Coherent
    /\ pc = "closed" => ClosedInv
    /\ pc # "closed" => OpenInv
    /\ pc \in {"draft", "altered", "written", "synced", "flipped"} => DraftInv
    /\ pc \in {"draft", "altered"} => PlacingInv
    /\ pc \in {"written", "synced", "flipped"} => WrittenInv
    /\ pc \in {"synced", "flipped"} => SolidTable(img, stableLen, draft, draftMan)
    /\ pc = "flipped" => FlippedInv

=============================================================================
