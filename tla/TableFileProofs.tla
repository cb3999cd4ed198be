-------------------------- MODULE TableFileProofs --------------------------
(***************************************************************************)
(* Proofs about module TableFile, for every number of commits, locations,  *)
(* faults and readers.                                                     *)
(***************************************************************************)
EXTENDS TableFile, TLAPS

USE DEF Loc, Slots, SlotA, SlotB, DATA_START, SchemaLoc, SeedLoc, FirstLoc

\* What is written to the file is a content of the right type.
LEMMA ContentType ==
    /\ Torn \in Content
    /\ \A t \in Nat, l \in Loc : MetaPage(t, l) \in Content
    /\ \A m \in Manifest : Record(m) \in Content
    /\ \A p \in Payloads : Bytes(p) \in Content
BY DEF Content, Torn, MetaPage, Record, Bytes

\* A page or a manifest read back has fields of the right type.
LEMMA ContentFields ==
    ASSUME NEW c \in Content
    PROVE  /\ c.kind = "meta" => c.txn \in Nat /\ c.man \in Loc
           /\ c.kind = "manifest" => c.body \in Manifest
           /\ c.kind = "data" => c.tag \in Payloads
BY DEF Content, Torn

\* A write keeps the types of the disk.
LEMMA WriteType ==
    ASSUME TypeOK, NEW x \in Loc, NEW c \in Content, Write(x, c)
    PROVE  /\ file' \in [Loc -> Content]
           /\ img' \in [Loc -> SUBSET Content]
           /\ ioLen' \in Nat /\ stableLen' \in Nat
BY ContentType DEF TypeOK, Write, Max2

\* sync_data keeps the types of the disk.
LEMMA SyncType ==
    ASSUME TypeOK, SyncData
    PROVE  /\ file' \in [Loc -> Content]
           /\ img' \in [Loc -> SUBSET Content]
           /\ ioLen' \in Nat /\ stableLen' \in Nat
BY DEF TypeOK, SyncData

\* Whatever a crash keeps of the unsynced writes is a file of the right type.
LEMMA CrashType ==
    ASSUME TypeOK, NEW g \in Images, NEW len \in Nat
    PROVE  AfterCrash(g, len) \in [Loc -> Content]
BY ContentType DEF TypeOK, Images, AfterCrash, Unsynced

\* The fields of a manifest, as the provers need them.
LEMMA ManifestFields ==
    ASSUME NEW m \in Manifest
    PROVE  /\ m.txn \in Nat /\ m.fileLen \in Nat
           /\ m.live \in SUBSET Ref /\ m.free \in SUBSET FreeExtent
           /\ m.schema \in Ref
BY DEF Manifest

\* The fields of segment entries and free extents.
LEMMA RefFields ==
    /\ \A r \in Ref : r.loc \in Loc /\ r.tag \in Payloads
    /\ \A f \in FreeExtent : f.loc \in Loc /\ f.txn \in Nat
    /\ \A x \in Loc, p \in Payloads : [loc |-> x, tag |-> p] \in Ref
    /\ \A x \in Loc, t \in Nat : [loc |-> x, txn |-> t] \in FreeExtent
BY DEF Ref, FreeExtent

\* Commits snapshots are pinned to are numbers.
LEMMA PinnedType == TypeOK => PinnedTxns \subseteq Nat
BY ManifestFields DEF TypeOK, PinnedTxns

\* A table file as create leaves it has the right types.
LEMMA InitType == Init => TypeOK
<1> SUFFICES ASSUME Init PROVE TypeOK
  OBVIOUS
<1> PICK p \in Payloads : Init!(p)
  BY DEF Init
<1> USE TableFileAssumption
<1>1. \A t \in Nat, n \in Nat : Seed(t, n, p) \in Manifest
  BY DEF Seed, Manifest, Ref
<1>2. Created(p) \in [Loc -> Content]
  <2> SUFFICES ASSUME NEW x \in Loc
               PROVE  Created(p)[x] \in Content
    BY DEF Created
  <2>1. /\ MetaPage(1, FirstLoc) \in Content
        /\ MetaPage(0, SeedLoc) \in Content
        /\ Bytes(p) \in Content
        /\ Torn \in Content
        /\ Record(Seed(0, SeedLoc + 1, p)) \in Content
        /\ Record(Seed(1, FirstLoc + 1, p)) \in Content
    BY <1>1, ContentType
  <2> QED
    BY <2>1 DEF Created
<1> QED
  BY <1>1, <1>2 DEF TypeOK

\* Every step of the writer, a reader, a crash or an open keeps the types.
LEMMA NextType == TypeOK /\ [Next]_vars => TypeOK'
<1> SUFFICES ASSUME TypeOK, [Next]_vars PROVE TypeOK'
  OBVIOUS
<1> USE TableFileAssumption
<1>1. CASE Begin
  <2>1. draft' \in Manifest
    <3>1. committed.manifest \in Manifest
      BY DEF TypeOK
    <3>2. draft' = [committed.manifest EXCEPT !.txn = @ + 1]
      BY <1>1 DEF Begin
    <3> QED
      BY <3>1, <3>2 DEF Manifest
  <2> QED
    BY <1>1, <2>1, PinnedType DEF Begin, TypeOK, diskVars
<1>2. ASSUME NEW p \in Payloads, WriteSchema(p)
      PROVE  TypeOK'
  <2>1. ioLen \in Loc /\ Bytes(p) \in Content
    BY <1>2, ContentType DEF WriteSchema, TypeOK
  <2>2. [loc |-> ioLen, tag |-> p] \in Ref
    BY <2>1, RefFields
  <2>3. draft' \in Manifest
    <3>1. committed.manifest \in Manifest
      BY DEF TypeOK
    <3>2. draft' = [committed.manifest EXCEPT
                      !.txn = @ + 1, !.schema = [loc |-> ioLen, tag |-> p]]
      BY <1>2 DEF WriteSchema
    <3> DEFINE s == [loc |-> ioLen, tag |-> p]
               t == committed.manifest.txn + 1
    <3>3. draft' = [committed.manifest EXCEPT !.txn = t, !.schema = s]
      BY <3>2
    <3>4. t \in Nat /\ s \in Ref
      BY <2>2, <3>1 DEF Manifest
    <3> HIDE DEF s, t
    <3> QED
      BY <3>1, <3>3, <3>4 DEF Manifest
  <2> QED
    BY <1>2, <2>1, <2>3, WriteType DEF WriteSchema, TypeOK
<1>3. ASSUME NEW x \in Loc, NEW p \in Payloads, NEW m \in Manifest, Place(x, p, m)
      PROVE  TypeOK'
  <2>1. Bytes(p) \in Content
    BY ContentType
  <2>2. draft' \in Manifest
    <3>1. draft' = [m EXCEPT !.live = @ \cup {[loc |-> x, tag |-> p]}]
      BY <1>3 DEF Place
    <3>2. [loc |-> x, tag |-> p] \in Ref
      BY RefFields
    <3> QED
      BY <3>1, <3>2 DEF Manifest
  <2> QED
    BY <1>3, <2>1, <2>2, WriteType DEF Place, TypeOK
<1>4. ASSUME NEW p \in Payloads, NEW f \in draft.free, WriteReused(f, p)
      PROVE  TypeOK'
  <2>1. [draft EXCEPT !.free = @ \ {f}] \in Manifest /\ f.loc \in Loc
    <3>1. draft \in Manifest
      BY DEF TypeOK
    <3> QED
      BY <3>1, RefFields DEF Manifest
  <2> QED
    BY <1>3, <1>4, <2>1 DEF WriteReused
<1>5. ASSUME NEW p \in Payloads, NEW x \in Loc, WriteGrown(x, p)
      PROVE  TypeOK'
  <2>1. [draft EXCEPT !.fileLen = x + 1] \in Manifest
    <3>1. draft \in Manifest
      BY DEF TypeOK
    <3> QED
      BY <3>1 DEF Manifest
  <2> QED
    BY <1>3, <1>5, <2>1 DEF WriteGrown
<1>6. CASE ConvertSegments
  BY <1>6, PinnedType DEF ConvertSegments, TypeOK, diskVars
<1>7. ASSUME NEW r \in draft.live, Drop(r)
      PROVE  TypeOK'
  <2>1. draft' \in Manifest
    <3>1. draft \in Manifest
      BY DEF TypeOK
    <3>2. draft' = [draft EXCEPT
                      !.live = @ \ {r},
                      !.free = @ \cup {[loc |-> r.loc, txn |-> draft.txn]}]
      BY <1>7 DEF Drop, Supersede
    <3>3. [loc |-> r.loc, txn |-> draft.txn] \in FreeExtent
      BY <3>1, RefFields DEF Manifest
    <3> QED
      BY <3>1, <3>2, <3>3 DEF Manifest
  <2> QED
    BY <1>7, <2>1 DEF Drop, Supersede, TypeOK, diskVars
<1>8. CASE WriteManifest
  <2> DEFINE at == Max2(draft.fileLen, ioLen)
             m == [draft EXCEPT
                     !.free = @ \cup {[loc |-> l, txn |-> draft.txn] : l \in nextMan},
                     !.fileLen = at + 1]
  <2>1. at \in Loc /\ at \in Nat
    BY <1>8 DEF WriteManifest, PutManifest, TypeOK, Manifest, Max2
  <2>2. m \in Manifest
    <3>1. draft \in Manifest /\ nextMan \in SUBSET Loc
      BY DEF TypeOK
    <3> DEFINE F == draft.free \cup {[loc |-> l, txn |-> draft.txn] : l \in nextMan}
               n == at + 1
    <3>2. F \in SUBSET FreeExtent /\ n \in Nat
      BY <2>1, <3>1, RefFields DEF Manifest
    <3>3. m = [draft EXCEPT !.free = F, !.fileLen = n]
      OBVIOUS
    <3> HIDE DEF at, F, n, m
    <3> QED
      BY <3>1, <3>2, <3>3 DEF Manifest
  <2>3. Record(m) \in Content
    BY <2>2, ContentType
  <2>4. /\ Write(at, Record(m)) /\ draft' = m /\ draftMan' = at /\ pc' = "written"
        /\ UNCHANGED <<committed, nextMan, minActive, pins, faults>>
    BY <1>8 DEF WriteManifest, PutManifest
  <2> HIDE DEF at, m
  <2> QED
    BY <2>1, <2>2, <2>3, <2>4, WriteType DEF TypeOK
<1>9. CASE SyncManifest
  BY <1>9, SyncType DEF SyncManifest, TypeOK
<1>10. CASE WriteMeta
  <2>1. Other(committed.slot) \in Loc /\ MetaPage(draft.txn, draftMan) \in Content
    BY ContentType DEF Other, TypeOK, Manifest
  <2> QED
    BY <1>10, <2>1, WriteType DEF WriteMeta, Flip, TypeOK
<1>11. CASE SyncMeta
  <2>1. committed' \in [slot : Slots, man : Loc, manifest : Manifest]
    BY <1>11 DEF SyncMeta, TypeOK, Other
  <2> QED
    BY <1>11, <2>1, SyncType DEF SyncMeta, TypeOK, NoDraft
<1>12. CASE Fail
  BY <1>12 DEF Fail, TypeOK, diskVars, NoDraft
<1>13. CASE Crash
  <2>1. PICK len \in stableLen .. ioLen, g \in Images :
           /\ file' = AfterCrash(g, len)
           /\ img' = [x \in Loc |-> {AfterCrash(g, len)[x]}]
           /\ ioLen' = len
           /\ stableLen' = len
    BY <1>13 DEF Crash
  <2>2. len \in Nat /\ AfterCrash(g, len) \in [Loc -> Content]
    BY CrashType DEF TypeOK
  <2> QED
    BY <1>13, <2>1, <2>2 DEF Crash, TypeOK, NoDraft
<1>14. CASE Open
  <2>1. PICK s \in Winners(file) :
           /\ committed' = CommitAt(file, s)
           /\ nextMan' = LoserManifest(file, s)
    BY <1>14 DEF Open
  <2>2. s \in Slots /\ Readable(file, s) /\ file[s] \in Content
    BY DEF Winners, TypeOK
  <2>3. file[s].man \in Loc
    BY <2>2, ContentFields DEF Readable
  <2>4. ManifestAt(file, s) \in Manifest
    BY <2>2, <2>3, ContentFields DEF Readable, ManifestAt, TypeOK
  <2>5. Other(s) \in Loc
    BY <2>2 DEF Other
  <2>6. LoserManifest(file, s) \in SUBSET Loc
    BY <2>5, ContentFields DEF LoserManifest, TypeOK
  <2> QED
    BY <1>14, <2>1, <2>2, <2>3, <2>4, <2>6
    DEF Open, TypeOK, diskVars, NoDraft, CommitAt
<1>15. ASSUME NEW r \in Readers, Pin(r) \/ Unpin(r)
       PROVE  TypeOK'
  <2>1. /\ UNCHANGED <<file, img, ioLen, stableLen, pc, committed, nextMan,
                       draft, draftMan, faults>>
        /\ minActive' = minActive
        /\ \E q \in SUBSET Manifest : pins' = [pins EXCEPT ![r] = q]
    BY <1>15 DEF Pin, Unpin, TypeOK, diskVars
  <2>2. pins' \in [Readers -> SUBSET Manifest]
    BY <2>1 DEF TypeOK
  <2> QED
    BY <2>1, <2>2 DEF TypeOK
<1>16. CASE UNCHANGED vars
  BY <1>16 DEF TypeOK, vars
<1> QED
  BY <1>1, <1>2, <1>4, <1>5, <1>6, <1>7, <1>8, <1>9, <1>10, <1>11, <1>12,
     <1>13, <1>14, <1>15, <1>16 DEF Next

\* Every variable keeps its type in every behaviour of the table file.
THEOREM TypeCorrect == Spec => []TypeOK
BY InitType, NextType, PTL DEF Spec

----------------------------------------------------------------------------
(* The inductive invariant.                                                *)

\* The two slots are distinct and lie before the data.
LEMMA SlotFacts ==
    \A s \in Slots : /\ s \in Loc /\ Other(s) \in Slots /\ Other(s) \in Loc
                     /\ Other(s) # s /\ Other(Other(s)) = s
                     /\ s < DATA_START
BY TableFileAssumption DEF Other

\* A write disturbs its own location and no other.
LEMMA WriteElsewhere ==
    ASSUME TypeOK, Coherent, NEW x \in Loc, NEW c, Write(x, c)
    PROVE  /\ \A y \in Loc : y # x => file'[y] = file[y] /\ img'[y] = img[y]
           /\ file'[x] = c /\ img'[x] = img[x] \cup {c, Torn}
           /\ stableLen' = stableLen
           /\ ioLen <= ioLen' /\ x < ioLen'
           /\ Coherent'
BY TableFileAssumption DEF TypeOK, Coherent, Write, Max2

\* A write past everything the commit and the pinned snapshots name leaves the
\* open table as it was.
LEMMA WriteKeepsOpen ==
    ASSUME IInv, pc \notin {"closed", "flipped"}, pc' \notin {"closed", "flipped"},
           NEW x \in Loc, NEW c, Write(x, c),
           UNCHANGED <<committed, nextMan, pins>>,
           DATA_START <= x,
           x # committed.man, x # committed.manifest.schema.loc,
           \A r \in committed.manifest.live : r.loc # x,
           \A r \in Readers : \A p \in pins[r] : \A q \in p.live \cup {p.schema} :
               q.loc # x
    PROVE  OpenInv'
<1> DEFINE M == committed.manifest
<1>1. TypeOK /\ Coherent /\ OpenInv
  BY DEF IInv
<1>2. /\ committed.slot \in Loc /\ Other(committed.slot) \in Loc
      /\ x # committed.slot /\ x # Other(committed.slot)
  BY <1>1, SlotFacts DEF TypeOK
<1>3. /\ committed.man \in Loc /\ M \in Manifest
      /\ M.schema.loc \in Loc
      /\ \A r \in M.live : r.loc \in Loc
  BY <1>1, ManifestFields, RefFields DEF TypeOK
<1>4. SolidCommit(img', stableLen', committed)
  BY <1>1, <1>2, <1>3, WriteElsewhere DEF OpenInv, SolidCommit, SolidTable, Solid
<1>5. PinsHeld(file', pins, M.txn, M)
  <2> SUFFICES ASSUME NEW r \in Readers, NEW p \in pins[r],
                      NEW q \in p.live \cup {p.schema}
               PROVE  file'[q.loc] = file[q.loc]
    BY <1>1 DEF OpenInv, PinsHeld, Held, Intact
  <2>1. q.loc \in Loc
    BY <1>1, ManifestFields, RefFields DEF TypeOK
  <2> QED
    BY <1>1, <2>1, WriteElsewhere
<1>6. OlderSlot(img', committed)
  BY <1>1, <1>2, WriteElsewhere DEF OpenInv, OlderSlot
<1> QED
  BY <1>1, <1>4, <1>5, <1>6 DEF OpenInv

\* Starting a commit: the draft is the committed manifest under the next txn.
LEMMA BeginInv ==
    ASSUME IInv, TypeOK', Begin PROVE IInv'
<1> DEFINE M == committed.manifest
<1>1. TypeOK /\ Coherent /\ OpenInv /\ pc = "idle" /\ pc' = "draft"
  BY DEF IInv, Begin
<1>2. /\ draft' = [M EXCEPT !.txn = @ + 1]
      /\ minActive' \in {t \in PinnedTxns : MinActiveTxn(t)}
      /\ UNCHANGED <<file, img, ioLen, stableLen, committed, nextMan, draftMan, pins>>
  BY DEF Begin, diskVars
<1>3. M \in Manifest
  BY <1>1 DEF TypeOK
<1>4. /\ draft'.txn = M.txn + 1 /\ draft'.live = M.live /\ draft'.free = M.free
      /\ draft'.fileLen = M.fileLen /\ draft'.schema = M.schema
  BY <1>2, <1>3 DEF Manifest
<1>5. Coherent' /\ OpenInv'
  BY <1>1, <1>2 DEF Coherent, OpenInv
<1>6. TableIntact(file, M)
  <2>1. \A q \in M.live \cup {M.schema} : q.loc \in Loc
    BY <1>3, ManifestFields, RefFields
  <2>2. \A q \in M.live \cup {M.schema} : img[q.loc] = {Bytes(q.tag)}
    BY <1>1 DEF OpenInv, SolidCommit, SolidTable, Solid
  <2>3. \A q \in M.live \cup {M.schema} : file[q.loc] \in img[q.loc]
    BY <1>1, <2>1 DEF Coherent
  <2> QED
    BY <2>2, <2>3 DEF TableIntact, Intact
<1>7. DraftInv'
  <2>1. Geometry(draft') /\ Apart(draft', committed.man)
    BY <1>1, <1>4 DEF OpenInv, SolidCommit, SolidTable, Geometry, Apart
  <2>2. Held(file, M, draft')
    BY <1>1, <1>4, <1>6
    DEF OpenInv, SolidCommit, SolidTable, Geometry, Held, TableIntact, Intact
  <2>3. PinsHeld(file, pins, M.txn, draft')
    BY <1>1, <1>4 DEF OpenInv, PinsHeld, Held
  <2>4. M.fileLen <= ioLen /\ M.schema.loc < ioLen
    <3>1. M.fileLen \in Nat /\ M.schema.loc \in Nat
      BY <1>3, ManifestFields, RefFields
    <3>2. ioLen \in Nat /\ stableLen \in Nat
      BY <1>1 DEF TypeOK
    <3>3. M.fileLen <= stableLen /\ M.schema.loc < stableLen
      BY <1>1 DEF OpenInv, SolidCommit, SolidTable, Solid
    <3>4. stableLen <= ioLen
      BY <1>1 DEF Coherent
    <3> QED
      BY ONLY <3>1, <3>2, <3>3, <3>4
  <2>5. TableIntact(file, draft')
    BY <1>4, <1>6 DEF TableIntact
  <2> QED
    BY <1>2, <1>3, <1>4, <2>1, <2>2, <2>3, <2>4, <2>5, ManifestFields DEF DraftInv
<1>8. PlacingInv'
  <2>1. \A x \in nextMan : Apart(draft', x)
    BY <1>1, <1>4 DEF OpenInv, Apart
  <2>2. \A u \in PinnedTxns : minActive' <= u
    BY <1>2 DEF MinActiveTxn
  <2>3. /\ M.txn \in PinnedTxns
        /\ \A r \in Readers : \A p \in pins[r] : p.txn \in PinnedTxns
    BY DEF PinnedTxns
  <2> QED
    BY <1>1, <1>2, <1>4, <2>1, <2>2, <2>3
    DEF PlacingInv, OpenInv, SolidCommit, SolidTable
<1> QED
  BY <1>1, <1>5, <1>7, <1>8 DEF IInv

\* A reader that pins the current snapshot is protected by what is already
\* kept for it.
LEMMA PinInv ==
    ASSUME IInv, TypeOK', NEW r \in Readers, Pin(r) \/ Unpin(r) PROVE IInv'
<1> DEFINE M == committed.manifest
<1>1. TypeOK /\ Coherent
  BY DEF IInv
<1>2. UNCHANGED <<file, img, ioLen, stableLen, pc, committed, nextMan, draft,
                  draftMan, minActive>>
  BY DEF Pin, Unpin, diskVars
<1>3. \A u \in Readers : \A p \in pins'[u] : p \in pins[u] \/ (pc # "closed" /\ p = M)
  BY <1>1 DEF Pin, Unpin, TypeOK
<1>4. M \in Manifest
  BY <1>1 DEF TypeOK
<1>5. ASSUME pc # "closed" PROVE Held(file, M, M)
  <2>1. OpenInv
    BY <1>5 DEF IInv
  <2> QED
    BY <1>1, <1>4, <2>1, ManifestFields, RefFields
    DEF OpenInv, SolidCommit, SolidTable, Solid, Coherent, Held, Intact, Geometry
<1>6. Coherent'
  BY <1>1, <1>2 DEF Coherent
<1>7. ASSUME pc # "closed" PROVE OpenInv'
  <2>1. OpenInv
    BY <1>7 DEF IInv
  <2>2. PinsHeld(file, pins', M.txn, M)
    BY <1>3, <1>4, <1>5, <1>7, <2>1, ManifestFields DEF OpenInv, PinsHeld
  <2> QED
    BY <1>2, <2>1, <2>2 DEF OpenInv
<1>8. ASSUME pc \in {"draft", "altered", "written", "synced", "flipped"}
      PROVE  DraftInv'
  <2>1. DraftInv
    BY <1>8 DEF IInv
  <2>2. PinsHeld(file, pins', M.txn, draft)
    BY <1>3, <1>4, <2>1, ManifestFields DEF DraftInv, PinsHeld
  <2> QED
    BY <1>2, <2>1, <2>2 DEF DraftInv
<1>9. ASSUME pc \in {"draft", "altered"} PROVE PlacingInv'
  BY <1>2, <1>3, <1>9 DEF IInv, PlacingInv
<1>10. ASSUME pc = "closed" PROVE ClosedInv'
  <2>1. ClosedInv
    BY <1>10 DEF IInv
  <2>2. \A u \in Readers : pins'[u] = {}
    BY <1>3, <1>10, <2>1 DEF ClosedInv
  <2> QED
    BY <1>2, <2>1, <2>2 DEF ClosedInv
<1> QED
  BY <1>1, <1>2, <1>6, <1>7, <1>8, <1>9, <1>10 DEF IInv, WrittenInv, FlippedInv

\* Superseding an entry: its location joins the free list under the new txn.
LEMMA DropInv ==
    ASSUME IInv, TypeOK', NEW r \in draft.live, Drop(r) PROVE IInv'
<1> DEFINE M == committed.manifest
           e == [loc |-> r.loc, txn |-> draft.txn]
<1>1. TypeOK /\ Coherent /\ OpenInv /\ DraftInv /\ PlacingInv /\ pc = "draft"
  BY DEF IInv, Drop, Supersede
<1>2. UNCHANGED <<file, img, ioLen, stableLen, pc, committed, nextMan, draftMan,
                  minActive, pins>>
  BY DEF Drop, Supersede, diskVars
<1>3. draft \in Manifest /\ M \in Manifest /\ r \in Ref
  BY <1>1, ManifestFields DEF TypeOK
<1>4. /\ draft'.txn = draft.txn /\ draft'.live = draft.live \ {r}
      /\ draft'.free = draft.free \cup {e}
      /\ draft'.fileLen = draft.fileLen /\ draft'.schema = draft.schema
  BY <1>3 DEF Drop, Supersede, Manifest
<1>5. e.loc = r.loc /\ e.txn = draft.txn /\ draft.txn = M.txn + 1
  BY <1>1 DEF DraftInv
<1> HIDE DEF e
<1>6. Geometry(draft')
  BY <1>1, <1>4, <1>5 DEF DraftInv, Geometry
<1>7. \A x : Apart(draft, x) => Apart(draft', x)
  BY <1>4, <1>5 DEF Apart
<1>8. ASSUME NEW p \in Manifest, p.txn <= M.txn, Held(file, p, draft)
      PROVE  Held(file, p, draft')
  BY <1>3, <1>4, <1>5, <1>8, ManifestFields DEF Held
<1>9. /\ Held(file, M, draft')
      /\ PinsHeld(file, pins, M.txn, draft')
  <2>1. \A u \in Readers : \A p \in pins[u] : p \in Manifest
    BY <1>1 DEF TypeOK
  <2> QED
    BY <1>1, <1>3, <1>8, <2>1, ManifestFields DEF DraftInv, PinsHeld
<1>10. TableIntact(file, draft')
  BY <1>1, <1>4 DEF DraftInv, TableIntact
<1>11. DraftInv'
  BY <1>1, <1>2, <1>4, <1>6, <1>7, <1>9, <1>10 DEF DraftInv
<1>12. PlacingInv'
  BY <1>1, <1>2, <1>4, <1>7 DEF PlacingInv
<1> QED
  BY <1>1, <1>2, <1>11, <1>12 DEF IInv, Coherent, OpenInv

\* Placing an entry at x, where neither the draft, the committed table nor a
\* pinned snapshot has anything.
LEMMA PlaceInv ==
    ASSUME IInv, TypeOK', NEW x \in Loc, NEW p \in Payloads, NEW m \in Manifest,
           Place(x, p, m),
           m.txn = draft.txn, m.live = draft.live, m.schema = draft.schema,
           m.free \subseteq draft.free,
           draft.fileLen <= m.fileLen, m.fileLen <= Max2(ioLen, x + 1),
           DATA_START <= x, x < m.fileLen,
           \A f \in m.free : f.loc # x,
           \A r \in draft.live : r.loc # x,
           x # draft.schema.loc, x # committed.man, x \notin nextMan,
           \A q \in committed.manifest.live \cup {committed.manifest.schema} : q.loc # x,
           \A r \in Readers : \A s \in pins[r] : \A q \in s.live \cup {s.schema} :
               q.loc # x
    PROVE  IInv'
<1> DEFINE M == committed.manifest
           n == [loc |-> x, tag |-> p]
<1>1. TypeOK /\ Coherent /\ OpenInv /\ DraftInv /\ PlacingInv /\ pc = "draft"
  BY DEF IInv, Place
<1>2. /\ Write(x, Bytes(p))
      /\ UNCHANGED <<pc, committed, nextMan, draftMan, minActive, pins>>
  BY DEF Place
<1>3. draft \in Manifest /\ M \in Manifest
  BY <1>1 DEF TypeOK
<1>4. /\ draft'.txn = m.txn /\ draft'.live = m.live \cup {n}
      /\ draft'.free = m.free
      /\ draft'.fileLen = m.fileLen /\ draft'.schema = m.schema
  BY DEF Place, Manifest
<1>5. n.loc = x /\ n.tag = p
  OBVIOUS
<1> HIDE DEF n
<1>6. /\ \A y \in Loc : y # x => file'[y] = file[y]
      /\ file'[x] = Bytes(p)
      /\ stableLen' = stableLen
      /\ ioLen' = Max2(ioLen, x + 1)
      /\ ioLen <= ioLen' /\ x < ioLen'
      /\ Coherent'
  BY <1>1, <1>2, WriteElsewhere DEF Write
<1>7. OpenInv'
  BY <1>1, <1>2, WriteKeepsOpen
<1>8. Geometry(draft')
  BY <1>1, <1>3, <1>4, <1>5, ManifestFields, RefFields DEF DraftInv, Geometry
<1>9. \A y \in Loc : y # x /\ Apart(draft, y) => Apart(draft', y)
  BY <1>3, <1>4, <1>5, ManifestFields DEF Apart
<1>10. ASSUME NEW s \in Manifest, Held(file, s, draft),
              \A q \in s.live \cup {s.schema} : q.loc # x
       PROVE  Held(file', s, draft')
  <2> SUFFICES ASSUME NEW q \in s.live \cup {s.schema}
               PROVE  /\ Intact(file', q)
                      /\ q.loc < draft'.fileLen
                      /\ \A e \in draft'.free : e.loc = q.loc => e.txn > s.txn
    BY DEF Held
  <2>1. q.loc \in Loc
    BY ManifestFields, RefFields
  <2> QED
    BY <1>3, <1>4, <1>6, <1>10, <2>1, ManifestFields DEF Held, Intact
<1>11. Held(file', M, draft') /\ PinsHeld(file', pins, M.txn, draft')
  <2>1. \A u \in Readers : \A s \in pins[u] : s \in Manifest
    BY <1>1 DEF TypeOK
  <2> QED
    BY <1>1, <1>3, <1>10, <2>1 DEF DraftInv, PinsHeld
<1>12. TableIntact(file', draft')
  <2>1. \A r \in draft.live \cup {draft.schema} : r.loc \in Loc
    BY <1>3, ManifestFields, RefFields
  <2> QED
    BY <1>1, <1>4, <1>5, <1>6, <2>1 DEF DraftInv, TableIntact, Intact
<1>13. DraftInv'
  <2>1. committed.man \in Loc
    BY <1>1 DEF TypeOK
  <2>2. draft.schema.loc \in Nat /\ ioLen \in Nat /\ ioLen' \in Nat
    <3>1. draft.schema.loc \in Nat
      BY <1>3, ManifestFields, RefFields
    <3>2. ioLen \in Nat /\ ioLen' \in Nat
      BY <1>1 DEF TypeOK
    <3> QED
      BY ONLY <3>1, <3>2
  <2> QED
    BY <1>1, <1>2, <1>3, <1>4, <1>6, <1>8, <1>9, <1>11, <1>12, <2>1, <2>2,
       ManifestFields DEF DraftInv
<1>14. PlacingInv'
  <2>1. Rewrites \/ draft'.schema.loc < draft'.fileLen
    BY <1>1, <1>3, <1>4, ManifestFields, RefFields DEF PlacingInv
  <2>2. \A y \in nextMan : y \in Loc /\ y # x
    BY <1>1 DEF TypeOK
  <2> QED
    BY <1>1, <1>2, <1>9, <2>1, <2>2 DEF PlacingInv
<1> QED
  BY <1>1, <1>2, <1>6, <1>7, <1>13, <1>14 DEF IInv

\* A freed extent is reused only when no pinned snapshot can still name it.
LEMMA ReusedInv ==
    ASSUME IInv, TypeOK', NEW f \in draft.free, NEW p \in Payloads,
           WriteReused(f, p)
    PROVE  IInv'
<1> DEFINE M == committed.manifest
           m == [draft EXCEPT !.free = @ \ {f}]
<1>1. /\ Place(f.loc, p, m) /\ f.txn < minActive
      /\ TypeOK /\ OpenInv /\ DraftInv /\ PlacingInv /\ pc = "draft"
  BY DEF IInv, WriteReused, Reusable, Place
<1>2. draft \in Manifest /\ M \in Manifest /\ f \in FreeExtent
  BY <1>1, ManifestFields DEF TypeOK
<1>3. /\ m \in Manifest
      /\ m.txn = draft.txn /\ m.live = draft.live /\ m.schema = draft.schema
      /\ m.free = draft.free \ {f} /\ m.fileLen = draft.fileLen
  BY <1>2 DEF Manifest
<1> HIDE DEF m
<1>4. /\ DATA_START <= f.loc /\ f.loc < m.fileLen
      /\ \A e \in m.free : e.loc # f.loc
      /\ \A r \in draft.live : r.loc # f.loc
      /\ f.loc # draft.schema.loc
      /\ f.loc # committed.man
      /\ f.loc \notin nextMan
  BY <1>1, <1>3 DEF DraftInv, PlacingInv, Geometry, Apart
<1>5. f.txn \in Nat /\ minActive \in Nat /\ f.loc \in Loc
  BY <1>1, <1>2, RefFields DEF TypeOK
<1>6. \A q \in M.live \cup {M.schema} : q.loc # f.loc
  BY <1>1, <1>2, <1>5, ManifestFields DEF DraftInv, PlacingInv, Held
<1>7. \A r \in Readers : \A s \in pins[r] : \A q \in s.live \cup {s.schema} :
         q.loc # f.loc
  <2>1. \A r \in Readers : \A s \in pins[r] : s.txn \in Nat
    BY <1>1, ManifestFields DEF TypeOK
  <2> QED
    BY <1>1, <1>5, <2>1 DEF DraftInv, PlacingInv, PinsHeld, Held
<1>8. draft.fileLen <= m.fileLen /\ m.fileLen <= Max2(ioLen, f.loc + 1)
  <2>1. draft.fileLen <= ioLen
    BY <1>1 DEF DraftInv
  <2>2. draft.fileLen \in Nat /\ m.fileLen = draft.fileLen
    BY <1>2, <1>3, ManifestFields
  <2>3. ioLen \in Nat /\ f.loc \in Nat
    BY <1>1, <1>5 DEF TypeOK
  <2> QED
    BY ONLY <2>1, <2>2, <2>3 DEF Max2
<1> QED
  BY <1>1, <1>3, <1>4, <1>5, <1>6, <1>7, <1>8, PlaceInv

\* The segments a schema change rewrites are not placed on the blob it wrote.
BlobClear == pc = "draft" => \A r \in draft.live : r.loc # draft.schema.loc

\* Growth starts at the draft's own end of the table, past all it names but for
\* the blob of a change that rewrites.
LEMMA GrownInv ==
    ASSUME IInv, TypeOK', Rewrites => BlobClear', NEW x \in Loc, NEW p \in Payloads,
           WriteGrown(x, p)
    PROVE  IInv'
<1> DEFINE M == committed.manifest
           m == [draft EXCEPT !.fileLen = x + 1]
<1>1. /\ Place(x, p, m) /\ draft.fileLen <= x
      /\ TypeOK /\ OpenInv /\ DraftInv /\ PlacingInv /\ pc = "draft"
  BY DEF IInv, WriteGrown, Place
<1>2. draft \in Manifest /\ M \in Manifest /\ x \in Nat /\ draft.fileLen \in Nat
  BY <1>1, ManifestFields DEF TypeOK
<1>3. /\ m \in Manifest
      /\ m.txn = draft.txn /\ m.live = draft.live /\ m.schema = draft.schema
      /\ m.free = draft.free /\ m.fileLen = x + 1
  BY <1>2 DEF Manifest
<1> HIDE DEF m
<1>4. \A y \in Nat : y < draft.fileLen => y # x
  BY <1>1, <1>2
<1>5. /\ committed.man \in Nat /\ nextMan \subseteq Nat
      /\ \A q \in draft.live \cup {draft.schema} : q.loc \in Nat
      /\ \A q \in M.live \cup {M.schema} : q.loc \in Nat
      /\ \A f \in draft.free : f.loc \in Nat
      /\ \A r \in Readers : \A s \in pins[r] : \A q \in s.live \cup {s.schema} :
            q.loc \in Nat
  <2>1. committed.man \in Nat /\ nextMan \subseteq Nat
    BY <1>1 DEF TypeOK
  <2>2. /\ \A q \in draft.live \cup {draft.schema} : q.loc \in Nat
        /\ \A q \in M.live \cup {M.schema} : q.loc \in Nat
        /\ \A f \in draft.free : f.loc \in Nat
    BY <1>2, ManifestFields, RefFields
  <2>3. \A r \in Readers : \A s \in pins[r] : s \in Manifest
    BY <1>1 DEF TypeOK
  <2>4. \A r \in Readers : \A s \in pins[r] : \A q \in s.live \cup {s.schema} :
           q.loc \in Nat
    BY <2>3, ManifestFields, RefFields
  <2> QED
    BY <2>1, <2>2, <2>4
<1>6. /\ committed.man < draft.fileLen /\ DATA_START <= committed.man
      /\ \A y \in nextMan : y < draft.fileLen
      /\ \A r \in draft.live : r.loc < draft.fileLen
      /\ \A f \in draft.free : f.loc < draft.fileLen
      /\ Rewrites \/ draft.schema.loc < draft.fileLen
      /\ \A q \in M.live \cup {M.schema} : q.loc < draft.fileLen
      /\ \A r \in Readers : \A s \in pins[r] : \A q \in s.live \cup {s.schema} :
            q.loc < draft.fileLen
  BY <1>1 DEF DraftInv, PlacingInv, Geometry, Apart, PinsHeld, Held
<1>6a. x # draft.schema.loc
  <2>1. ASSUME Rewrites PROVE x # draft.schema.loc
    <3> DEFINE n == [loc |-> x, tag |-> p]
    <3>1. pc' = "draft" /\ n \in draft'.live /\ draft'.schema = draft.schema
      BY <1>1, <1>3 DEF Place, Manifest
    <3>2. n.loc # draft'.schema.loc
      BY <2>1, <3>1 DEF BlobClear
    <3> QED
      BY <3>1, <3>2
  <2>2. ASSUME draft.schema.loc < draft.fileLen PROVE x # draft.schema.loc
    BY <1>4, <1>5, <2>2
  <2> QED
    BY <1>6, <2>1, <2>2
<1>7. /\ DATA_START <= x /\ x < m.fileLen
      /\ x # committed.man /\ x \notin nextMan /\ x # draft.schema.loc
      /\ \A f \in m.free : f.loc # x
      /\ \A r \in draft.live : r.loc # x
  BY <1>1, <1>2, <1>3, <1>4, <1>5, <1>6, <1>6a
<1>8. /\ \A q \in M.live \cup {M.schema} : q.loc # x
      /\ \A r \in Readers : \A s \in pins[r] : \A q \in s.live \cup {s.schema} :
            q.loc # x
  BY <1>4, <1>5, <1>6
<1>9. draft.fileLen <= m.fileLen /\ m.fileLen <= Max2(ioLen, x + 1)
  <2>1. ioLen \in Nat /\ draft.fileLen <= x
    BY <1>1 DEF TypeOK
  <2>2. x \in Nat /\ draft.fileLen \in Nat /\ m.fileLen = x + 1
    BY <1>2, <1>3
  <2> QED
    BY ONLY <2>1, <2>2 DEF Max2
<1> QED
  BY <1>1, <1>3, <1>7, <1>8, <1>9, PlaceInv

\* A schema change that rewrites goes on with the readers it finds.
LEMMA ConvertInv ==
    ASSUME IInv, TypeOK', ConvertSegments PROVE IInv'
<1>1. TypeOK /\ Coherent /\ OpenInv /\ DraftInv /\ PlacingInv /\ Rewrites
  BY DEF IInv, ConvertSegments
<1>2. /\ pc' = "draft" /\ minActive' \in PinnedTxns /\ MinActiveTxn(minActive')
      /\ UNCHANGED <<file, img, ioLen, stableLen, committed, nextMan, draft, draftMan, pins>>
  BY DEF ConvertSegments, diskVars
<1>3. /\ minActive' <= committed.manifest.txn
      /\ \A r \in Readers : \A p \in pins[r] : minActive' <= p.txn
  BY <1>2 DEF MinActiveTxn, PinnedTxns
<1>4. PlacingInv'
  BY <1>1, <1>2, <1>3 DEF PlacingInv
<1>5. Coherent' /\ DraftInv'
  BY <1>1, <1>2 DEF Coherent, DraftInv
<1>6. OpenInv'
  <2>1. pc = "altered"
    BY DEF ConvertSegments
  <2> QED
    BY <1>1, <1>2, <2>1 DEF OpenInv
<1> QED
  BY <1>2, <1>4, <1>5, <1>6 DEF IInv

\* A schema change appends its blob at the end of the file.
LEMMA SchemaInv ==
    ASSUME IInv, TypeOK', NEW p \in Payloads, WriteSchema(p) PROVE IInv'
<1> DEFINE M == committed.manifest
           b == [loc |-> ioLen, tag |-> p]
<1>1. TypeOK /\ Coherent /\ OpenInv /\ pc = "idle" /\ pc' = "altered"
  BY DEF IInv, WriteSchema
<1>2. /\ Write(ioLen, Bytes(p)) /\ ioLen \in Loc /\ ioLen \in Nat
      /\ UNCHANGED <<committed, nextMan, draftMan, minActive, pins>>
      /\ draft' = [M EXCEPT !.txn = M.txn + 1, !.schema = b]
  <2>1. ioLen \in Nat /\ ioLen < MaxLoc
    BY <1>1 DEF WriteSchema, TypeOK
  <2>2. ioLen \in Loc
    BY <2>1, TableFileAssumption
  <2> QED
    BY <2>1, <2>2 DEF WriteSchema
<1>3. M \in Manifest
  BY <1>1 DEF TypeOK
<1>4. b.loc = ioLen /\ b.tag = p
  OBVIOUS
<1> HIDE DEF b
<1>5. /\ draft'.txn = M.txn + 1 /\ draft'.live = M.live /\ draft'.free = M.free
      /\ draft'.fileLen = M.fileLen /\ draft'.schema = b
  BY <1>2, <1>3 DEF Manifest
<1>6. /\ M.fileLen \in Nat /\ M.fileLen <= stableLen /\ stableLen <= ioLen
      /\ stableLen \in Nat /\ M.fileLen <= ioLen
  <2>1. M.fileLen \in Nat
    BY <1>3, ManifestFields
  <2>2. ioLen \in Nat /\ stableLen \in Nat
    BY <1>1 DEF TypeOK
  <2>3. M.fileLen <= stableLen /\ stableLen <= ioLen
    BY <1>1 DEF OpenInv, SolidCommit, SolidTable, Coherent
  <2> QED
    BY ONLY <2>1, <2>2, <2>3
<1>7. /\ committed.man \in Nat /\ nextMan \subseteq Nat
      /\ \A q \in M.live \cup {M.schema} : q.loc \in Loc
      /\ \A f \in M.free : f.loc \in Nat
      /\ \A r \in Readers : \A s \in pins[r] : \A q \in s.live \cup {s.schema} :
            q.loc \in Loc
  BY <1>1, <1>3, ManifestFields, RefFields DEF TypeOK
<1>8. /\ committed.man < M.fileLen /\ DATA_START <= committed.man
      /\ \A y \in nextMan : y < M.fileLen
      /\ \A r \in M.live : r.loc < M.fileLen
      /\ \A f \in M.free : f.loc < M.fileLen
      /\ M.schema.loc < M.fileLen
      /\ \A r \in Readers : \A s \in pins[r] : \A q \in s.live \cup {s.schema} :
            q.loc < M.fileLen
  BY <1>1 DEF OpenInv, SolidCommit, SolidTable, Geometry, Apart, PinsHeld, Held
<1>9. /\ DATA_START <= ioLen
      /\ ioLen # committed.man /\ ioLen \notin nextMan
      /\ \A f \in M.free : f.loc # ioLen
      /\ \A q \in M.live \cup {M.schema} : q.loc # ioLen
      /\ \A r \in Readers : \A s \in pins[r] : \A q \in s.live \cup {s.schema} :
            q.loc # ioLen
  BY <1>2, <1>6, <1>7, <1>8
<1>10. /\ \A y \in Loc : y # ioLen => file'[y] = file[y]
       /\ file'[ioLen] = Bytes(p)
       /\ ioLen <= ioLen' /\ ioLen < ioLen' /\ Coherent'
  BY <1>1, <1>2, WriteElsewhere
<1>11. OpenInv'
  BY <1>1, <1>2, <1>9, WriteKeepsOpen
<1>12. Geometry(M) /\ Apart(M, committed.man) /\ TableIntact(file, M)
  <2>1. Geometry(M) /\ Apart(M, committed.man)
    BY <1>1 DEF OpenInv, SolidCommit, SolidTable
  <2>2. \A q \in M.live \cup {M.schema} : img[q.loc] = {Bytes(q.tag)}
    BY <1>1 DEF OpenInv, SolidCommit, SolidTable, Solid
  <2>3. \A q \in M.live \cup {M.schema} : file[q.loc] \in img[q.loc]
    BY <1>1, <1>7 DEF Coherent
  <2> QED
    BY <2>1, <2>2, <2>3 DEF TableIntact, Intact
<1>13. /\ Geometry(draft') /\ Apart(draft', committed.man)
       /\ \A y \in nextMan : Apart(draft', y)
  BY <1>1, <1>4, <1>5, <1>9, <1>12 DEF Geometry, Apart, OpenInv
<1>14. TableIntact(file', draft')
  BY <1>4, <1>5, <1>7, <1>9, <1>10, <1>12 DEF TableIntact, Intact
<1>15. Held(file', M, draft')
  BY <1>5, <1>7, <1>8, <1>9, <1>10, <1>12 DEF Held, TableIntact, Intact, Geometry
<1>16. PinsHeld(file', pins, M.txn, draft')
  BY <1>1, <1>5, <1>7, <1>9, <1>10 DEF OpenInv, PinsHeld, Held, Intact
<1>17. DraftInv'
  <2>1. draft'.fileLen <= ioLen' /\ draft'.schema.loc < ioLen'
    BY <1>2, <1>4, <1>5, <1>6, <1>10 DEF TypeOK
  <2> QED
    BY <1>2, <1>5, <1>6, <1>13, <1>14, <1>15, <1>16, <2>1 DEF DraftInv
<1>18. PlacingInv'
  BY <1>1, <1>2, <1>13 DEF PlacingInv
<1> QED
  BY <1>1, <1>10, <1>11, <1>17, <1>18 DEF IInv

\* Writing the manifest frees the manifest the flip will orphan, under a txn
\* no pinned snapshot has reached, and lands past all the table names.
LEMMA ManifestInv ==
    ASSUME IInv, TypeOK', WriteManifest PROVE IInv'
<1> DEFINE M == committed.manifest
           at == Max2(draft.fileLen, ioLen)
           N == {[loc |-> l, txn |-> draft.txn] : l \in nextMan}
           m == [draft EXCEPT !.free = draft.free \cup N, !.fileLen = at + 1]
<1>1. /\ TypeOK /\ Coherent /\ OpenInv /\ DraftInv /\ PlacingInv
      /\ pc \in {"draft", "altered"} /\ pc' = "written"
  BY DEF IInv, WriteManifest, PutManifest
<1>2. draft \in Manifest /\ M \in Manifest /\ ioLen \in Nat /\ draft.fileLen \in Nat
  BY <1>1, ManifestFields DEF TypeOK
<1>3. at \in Loc /\ at \in Nat /\ draft.fileLen <= at /\ ioLen <= at
  BY <1>1, <1>2, TableFileAssumption DEF WriteManifest, PutManifest, Max2
<1>4. /\ Write(at, Record(m)) /\ draft' = m /\ draftMan' = at
      /\ UNCHANGED <<committed, nextMan, minActive, pins>>
  BY DEF WriteManifest, PutManifest
<1>5. \A f \in N : f.loc \in nextMan /\ f.txn = draft.txn
  OBVIOUS
<1>6. \A f, g \in N : f.loc = g.loc => f = g
  OBVIOUS
<1> HIDE DEF at, N
<1>7. /\ draft'.txn = draft.txn /\ draft'.live = draft.live
      /\ draft'.free = draft.free \cup N
      /\ draft'.fileLen = at + 1 /\ draft'.schema = draft.schema
  BY <1>2, <1>3, <1>4 DEF Manifest
<1> HIDE DEF m
<1>8. /\ committed.man \in Nat /\ nextMan \subseteq Nat
      /\ \A q \in M.live \cup {M.schema} : q.loc \in Loc
      /\ \A q \in draft.live \cup {draft.schema} : q.loc \in Loc
      /\ \A f \in draft.free : f.loc \in Nat
      /\ \A r \in Readers : \A s \in pins[r] : \A q \in s.live \cup {s.schema} :
            q.loc \in Loc
  BY <1>1, <1>2, ManifestFields, RefFields DEF TypeOK
<1>9. /\ committed.man < draft.fileLen /\ DATA_START <= committed.man
      /\ \A y \in nextMan : y < draft.fileLen /\ DATA_START <= y
      /\ \A r \in draft.live : r.loc < draft.fileLen
      /\ \A f \in draft.free : f.loc < draft.fileLen
      /\ draft.schema.loc < ioLen
      /\ \A q \in M.live \cup {M.schema} : q.loc < draft.fileLen
      /\ \A r \in Readers : \A s \in pins[r] : \A q \in s.live \cup {s.schema} :
            q.loc < draft.fileLen
  BY <1>1 DEF DraftInv, PlacingInv, Geometry, Apart, PinsHeld, Held
<1>10. /\ DATA_START <= at
       /\ at # committed.man /\ at \notin nextMan
       /\ \A f \in draft.free : f.loc # at
       /\ \A q \in draft.live \cup {draft.schema} : q.loc # at
       /\ \A q \in M.live \cup {M.schema} : q.loc # at
       /\ \A r \in Readers : \A s \in pins[r] : \A q \in s.live \cup {s.schema} :
             q.loc # at
  BY <1>2, <1>3, <1>8, <1>9
<1>11. /\ \A y \in Loc : y # at => file'[y] = file[y]
       /\ file'[at] = Record(m)
       /\ ioLen <= ioLen' /\ at < ioLen' /\ Coherent' /\ ioLen' \in Nat
  BY <1>1, <1>3, <1>4, WriteElsewhere DEF TypeOK
<1>12. OpenInv'
  BY <1>1, <1>3, <1>4, <1>10, WriteKeepsOpen
<1>13. draft.txn = M.txn + 1 /\ M.txn \in Nat
  BY <1>1, <1>2, ManifestFields DEF DraftInv
<1>14. Geometry(draft')
  <2>1. \A r \in draft'.live : DATA_START <= r.loc /\ r.loc < draft'.fileLen
    BY <1>1, <1>2, <1>3, <1>7, <1>8, <1>9 DEF DraftInv, Geometry
  <2>2. \A f \in draft'.free : DATA_START <= f.loc /\ f.loc < draft'.fileLen
    <3>1. \A f \in draft.free : DATA_START <= f.loc
      BY <1>1 DEF DraftInv, Geometry
    <3>2. \A f \in N : /\ f.loc \in Nat /\ DATA_START <= f.loc
                       /\ f.loc < draft.fileLen
      BY <1>5, <1>8, <1>9
    <3>3. \A f \in draft'.free : /\ f.loc \in Nat /\ DATA_START <= f.loc
                                 /\ f.loc < draft.fileLen
      BY <1>7, <1>8, <1>9, <3>1, <3>2
    <3> QED
      BY <1>2, <1>3, <1>7, <3>3
  <2>3. \A f \in N : /\ f.loc # draft.schema.loc
                     /\ \A r \in draft.live : r.loc # f.loc
                     /\ \A g \in draft.free : g.loc # f.loc
    BY <1>1, <1>5 DEF PlacingInv, Apart
  <2>4. ASSUME NEW f \in draft'.free, NEW g \in draft'.free, f.loc = g.loc
        PROVE  f = g
    <3>1. \A a, b \in draft.free : a.loc = b.loc => a = b
      BY <1>1 DEF DraftInv, Geometry
    <3>2. CASE f \in draft.free /\ g \in draft.free
      BY <2>4, <3>1, <3>2
    <3>3. CASE f \in N /\ g \in N
      BY <1>6, <2>4, <3>3
    <3> QED
      BY <1>7, <2>3, <2>4, <3>2, <3>3
  <2>5. \A r \in draft'.live, f \in draft'.free : r.loc # f.loc
    BY <1>1, <1>7, <2>3 DEF DraftInv, Geometry
  <2>6. \A f \in draft'.free : f.loc # draft'.schema.loc
    BY <1>1, <1>7, <2>3 DEF DraftInv, Geometry
  <2> QED
    BY <1>1, <1>7, <2>1, <2>2, <2>4, <2>5, <2>6 DEF DraftInv, Geometry
<1>15. Apart(draft', committed.man)
  <2>1. \A f \in N : f.loc # committed.man
    BY <1>1, <1>5 DEF OpenInv
  <2> QED
    BY <1>1, <1>2, <1>3, <1>7, <1>8, <1>9, <2>1 DEF DraftInv, Apart
<1>16. Apart(draft', at)
  BY <1>3, <1>5, <1>7, <1>10 DEF Apart
<1>17. ASSUME NEW s \in Manifest, s.txn <= M.txn, Held(file, s, draft),
              \A q \in s.live \cup {s.schema} : q.loc \in Loc /\ q.loc # at
       PROVE  Held(file', s, draft')
  <2> SUFFICES ASSUME NEW q \in s.live \cup {s.schema}
               PROVE  /\ Intact(file', q)
                      /\ q.loc < draft'.fileLen
                      /\ \A e \in draft'.free : e.loc = q.loc => e.txn > s.txn
    BY DEF Held
  <2>1. Intact(file', q)
    BY <1>11, <1>17 DEF Held, Intact
  <2>2. q.loc < draft'.fileLen
    BY <1>2, <1>3, <1>7, <1>17 DEF Held
  <2>3. \A e \in N : e.txn > s.txn
    BY <1>5, <1>13, <1>17, ManifestFields
  <2> QED
    BY <1>7, <1>17, <2>1, <2>2, <2>3 DEF Held
<1>18. Held(file', M, draft') /\ PinsHeld(file', pins, M.txn, draft')
  <2>1. \A u \in Readers : \A s \in pins[u] : s \in Manifest
    BY <1>1 DEF TypeOK
  <2> QED
    BY <1>1, <1>2, <1>8, <1>10, <1>13, <1>17, <2>1 DEF DraftInv, PinsHeld
<1>19. TableIntact(file', draft')
  BY <1>1, <1>7, <1>8, <1>10, <1>11 DEF DraftInv, TableIntact, Intact
<1>20. DraftInv'
  <2>1. M.fileLen <= draft'.fileLen /\ draft'.fileLen <= ioLen'
    BY <1>1, <1>2, <1>3, <1>7, <1>11, ManifestFields DEF DraftInv
  <2>2. draft'.schema.loc < ioLen'
    BY <1>2, <1>7, <1>8, <1>9, <1>11
  <2> QED
    BY <1>4, <1>7, <1>13, <1>14, <1>15, <1>18, <1>19, <2>1, <2>2 DEF DraftInv
<1>21. WrittenInv'
  <2>1. draft'.schema.loc < draft'.fileLen
    BY <1>2, <1>3, <1>7, <1>8, <1>9
  <2> QED
    BY <1>4, <1>10, <1>11, <1>16, <2>1 DEF WrittenInv
<1> QED
  BY <1>1, <1>11, <1>12, <1>20, <1>21 DEF IInv

----------------------------------------------------------------------------
(* Syncs and the flip.                                                     *)

\* After a sync or a crash the medium holds f, up to length k, and nothing it
\* held fast has moved.
Settled(i, n, f, j, k) ==
    /\ n \in Nat /\ k \in Nat /\ n <= k
    /\ \A x \in Loc : x < n => f[x] \in i[x]
    /\ \A x \in Loc : j[x] = {f[x]}

\* What was synced before a sync or a crash is there after it ...
LEMMA SettledSolid ==
    ASSUME NEW i, NEW n, NEW f, NEW j, NEW k, Settled(i, n, f, j, k)
    PROVE  \A x \in Loc : \A c :
              Solid(i, n, x, c) => f[x] = c /\ Solid(j, k, x, c)
BY DEF Solid, Settled

\* ... so a whole table stays.
LEMMA SettledTable ==
    ASSUME NEW i, NEW n, NEW f, NEW j, NEW k, Settled(i, n, f, j, k),
           NEW m \in Manifest, NEW man \in Loc, SolidTable(i, n, m, man)
    PROVE  /\ SolidTable(j, k, m, man)
           /\ f[man] = Record(m)
           /\ TableIntact(f, m)
<1>1. /\ m.schema.loc \in Loc /\ m.fileLen \in Nat
      /\ \A r \in m.live : r.loc \in Loc
  BY ManifestFields, RefFields
<1>2. \A x \in Loc : \A c : Solid(i, n, x, c) => f[x] = c /\ Solid(j, k, x, c)
  BY SettledSolid
<1>3. SolidTable(j, k, m, man)
  BY <1>1, <1>2 DEF SolidTable, Settled
<1>4. f[man] = Record(m) /\ TableIntact(f, m)
  BY <1>1, <1>2 DEF SolidTable, TableIntact, Intact
<1> QED
  BY <1>3, <1>4

\* The slots lie within what a solid table keeps.
LEMMA SlotsStable ==
    ASSUME NEW i, NEW n \in Nat, NEW m \in Manifest, NEW man \in Loc,
           SolidTable(i, n, m, man)
    PROVE  \A s \in Slots : s < n
BY ManifestFields DEF SolidTable, Apart

\* The first sync makes the draft as solid as the committed table.
LEMMA SyncManifestInv ==
    ASSUME IInv, TypeOK', SyncManifest PROVE IInv'
<1> DEFINE M == committed.manifest
<1>1. /\ TypeOK /\ Coherent /\ OpenInv /\ DraftInv /\ WrittenInv
      /\ pc = "written" /\ pc' = "synced"
  BY DEF IInv, SyncManifest
<1>2. /\ img' = [y \in Loc |-> {file[y]}] /\ stableLen' = ioLen
      /\ UNCHANGED <<file, ioLen, committed, nextMan, draft, draftMan, pins>>
  BY DEF SyncManifest, SyncData
<1>3. /\ M \in Manifest /\ draft \in Manifest /\ committed.man \in Loc
      /\ draftMan \in Loc /\ committed.slot \in Slots
      /\ stableLen \in Nat /\ ioLen \in Nat /\ stableLen <= ioLen
      /\ Settled(img, stableLen, file, img', stableLen')
  BY <1>1, <1>2 DEF TypeOK, Coherent, Settled
<1>4. Coherent'
  BY <1>1, <1>2 DEF Coherent, TypeOK
<1>5. SolidTable(img', stableLen', M, committed.man)
  BY <1>1, <1>2, <1>3, SettledTable DEF OpenInv, SolidCommit
<1>6. Solid(img', stableLen', committed.slot, MetaPage(M.txn, committed.man))
  BY <1>1, <1>2, <1>3, SettledSolid, SlotFacts DEF OpenInv, SolidCommit
<1>7. OlderSlot(img', committed)
  BY <1>1, <1>2, <1>3, SlotFacts DEF OpenInv, OlderSlot, Coherent
<1>8. OpenInv'
  BY <1>1, <1>2, <1>5, <1>6, <1>7 DEF OpenInv, SolidCommit
<1>9. SolidTable(img', stableLen', draft, draftMan)
  <2>1. /\ draft.schema.loc \in Loc /\ draft.fileLen \in Nat
        /\ \A r \in draft.live : r.loc \in Loc
    BY <1>3, ManifestFields, RefFields
  <2>2. /\ draft.fileLen <= ioLen /\ draft.schema.loc < draft.fileLen
        /\ draftMan < draft.fileLen
        /\ \A r \in draft.live : r.loc < draft.fileLen
    BY <1>1 DEF DraftInv, WrittenInv, Geometry, Apart
  <2>3. /\ draftMan < ioLen /\ draft.schema.loc < ioLen
        /\ \A r \in draft.live : r.loc < ioLen
    BY <1>3, <2>1, <2>2
  <2> QED
    BY <1>1, <1>2, <1>3, <2>1, <2>2, <2>3
    DEF DraftInv, WrittenInv, SolidTable, Solid, TableIntact, Intact
<1> QED
  BY <1>1, <1>2, <1>4, <1>8, <1>9 DEF IInv, DraftInv, WrittenInv

\* The flip overwrites the older slot, which no snapshot reads.
LEMMA WriteMetaInv ==
    ASSUME IInv, TypeOK', WriteMeta PROVE IInv'
<1> DEFINE M == committed.manifest
           o == Other(committed.slot)
           c == MetaPage(draft.txn, draftMan)
<1>1. /\ TypeOK /\ Coherent /\ OpenInv /\ DraftInv /\ WrittenInv
      /\ SolidTable(img, stableLen, draft, draftMan)
      /\ pc = "synced" /\ pc' = "flipped"
  BY DEF IInv, WriteMeta, Flip
<1>2. /\ Write(o, c)
      /\ UNCHANGED <<committed, nextMan, draft, draftMan, pins>>
  BY DEF WriteMeta, Flip
<1>3. /\ M \in Manifest /\ draft \in Manifest /\ committed.man \in Loc
      /\ draftMan \in Loc /\ committed.slot \in Loc
      /\ o \in Loc /\ o # committed.slot /\ o < DATA_START
  BY <1>1, SlotFacts DEF TypeOK
<1>4. /\ \A y \in Loc : y # o => file'[y] = file[y] /\ img'[y] = img[y]
      /\ file'[o] = c /\ img'[o] = img[o] \cup {c, Torn}
      /\ stableLen' = stableLen
      /\ ioLen <= ioLen' /\ Coherent'
  BY <1>1, <1>2, <1>3, WriteElsewhere
<1>5. \A t : file[o] # Bytes(t)
  BY <1>1, <1>3 DEF OpenInv, OlderSlot, OlderMeta, Coherent, Torn, Bytes
<1>6. \A q \in Ref : Intact(file, q) => Intact(file', q)
  BY <1>4, <1>5, RefFields DEF Intact
<1>7. ASSUME NEW m \in Manifest, NEW man \in Loc, SolidTable(img, stableLen, m, man)
      PROVE  SolidTable(img', stableLen', m, man)
  <2>1. /\ m.schema.loc \in Loc /\ m.schema.loc # o /\ man # o
        /\ \A r \in m.live : r.loc \in Loc /\ r.loc # o
    BY <1>3, <1>7, ManifestFields, RefFields DEF SolidTable, Geometry, Apart
  <2> QED
    BY <1>4, <1>7, <2>1 DEF SolidTable, Solid
<1>8. SolidCommit(img', stableLen', committed)
  BY <1>1, <1>3, <1>4, <1>7 DEF OpenInv, SolidCommit, Solid
<1>9. ASSUME NEW s \in Manifest, NEW m, Held(file, s, m)
      PROVE  Held(file', s, m)
  BY <1>6, <1>9, ManifestFields DEF Held
<1>10. \A u \in Readers : \A s \in pins[u] : s \in Manifest
  BY <1>1 DEF TypeOK
<1>11. OpenInv'
  <2>1. PinsHeld(file', pins, M.txn, M)
    BY <1>1, <1>9, <1>10 DEF OpenInv, PinsHeld
  <2> QED
    BY <1>1, <1>2, <1>8, <2>1 DEF OpenInv
<1>12. DraftInv'
  <2>1. PinsHeld(file', pins, M.txn, draft) /\ Held(file', M, draft)
    BY <1>1, <1>3, <1>9, <1>10 DEF DraftInv, PinsHeld
  <2>2. TableIntact(file', draft)
    BY <1>1, <1>3, <1>6, ManifestFields DEF DraftInv, TableIntact
  <2>3. draft.fileLen <= ioLen' /\ draft.schema.loc < ioLen'
    <3>1. /\ draft.fileLen \in Nat /\ draft.schema \in Ref
      BY <1>3, ManifestFields
    <3>2. draft.schema.loc \in Nat
      BY <3>1, RefFields DEF Loc
    <3>3. ioLen \in Nat
      BY <1>1 DEF TypeOK
    <3>4. ioLen' \in Nat
      BY <1>1 DEF TypeOK
    <3>5. draft.fileLen <= ioLen /\ draft.schema.loc < ioLen
      BY <1>1 DEF DraftInv
    <3>6. ioLen <= ioLen'
      BY <1>4
    <3> QED
      BY ONLY <3>1, <3>2, <3>3, <3>4, <3>5, <3>6
  <2> QED
    BY <1>1, <1>2, <2>1, <2>2, <2>3 DEF DraftInv
<1>13. WrittenInv'
  BY <1>1, <1>2, <1>3, <1>4 DEF WrittenInv, Apart
<1>14. FlippedInv'
  <2>1. \A d \in img[o] : OlderMeta(d, committed)
    BY <1>1 DEF OpenInv, OlderSlot
  <2>2. OlderMeta(Torn, committed)
    BY DEF OlderMeta
  <2> QED
    BY <1>2, <1>4, <2>1, <2>2 DEF FlippedInv
<1>15. SolidTable(img', stableLen', draft, draftMan)
  BY <1>1, <1>3, <1>7
<1> QED
  BY <1>1, <1>2, <1>4, <1>11, <1>12, <1>13, <1>14, <1>15 DEF IInv

\* The commit a flip names, once its page is in place.
Flipped(c, m, man) == [slot |-> Other(c.slot), man |-> man, manifest |-> m]

\* The committed page loses to the one the flip writes.
LEMMA FlipOlder ==
    ASSUME IInv, pc = "flipped"
    PROVE  OlderMeta(MetaPage(committed.manifest.txn, committed.man),
                     Flipped(committed, draft, draftMan))
<1>1. /\ TypeOK /\ DraftInv /\ WrittenInv
  BY DEF IInv
<1>2. committed.manifest.txn \in Nat
  BY <1>1, ManifestFields DEF TypeOK
<1> QED
  BY <1>1, <1>2 DEF Flipped, OlderMeta, MetaPage, DraftInv, WrittenInv

\* The second sync acknowledges the commit.
LEMMA SyncMetaInv ==
    ASSUME IInv, TypeOK', SyncMeta PROVE IInv'
<1> DEFINE M == committed.manifest
           o == Other(committed.slot)
<1>1. /\ TypeOK /\ Coherent /\ OpenInv /\ DraftInv /\ WrittenInv /\ FlippedInv
      /\ SolidTable(img, stableLen, draft, draftMan)
      /\ pc = "flipped" /\ pc' = "idle"
  BY DEF IInv, SyncMeta
<1>2. /\ img' = [y \in Loc |-> {file[y]}] /\ stableLen' = ioLen
      /\ UNCHANGED <<file, ioLen, pins>>
      /\ committed' = Flipped(committed, draft, draftMan)
      /\ nextMan' = {committed.man}
  BY DEF SyncMeta, SyncData, Flipped
<1>3. /\ M \in Manifest /\ draft \in Manifest /\ committed.man \in Loc
      /\ draftMan \in Loc /\ committed.slot \in Slots /\ committed.slot \in Loc
      /\ o \in Loc /\ o \in Slots /\ Other(o) = committed.slot
      /\ stableLen \in Nat /\ ioLen \in Nat /\ stableLen <= ioLen
      /\ Settled(img, stableLen, file, img', stableLen')
  BY <1>1, <1>2, SlotFacts DEF TypeOK, Coherent, Settled
<1>4. /\ committed'.slot = o /\ committed'.man = draftMan
      /\ committed'.manifest = draft
  BY <1>2 DEF Flipped
<1>5. Coherent'
  BY <1>1, <1>2 DEF Coherent, TypeOK
<1>6. SolidTable(img', stableLen', draft, draftMan)
  BY <1>1, <1>3, SettledTable
<1>7. Solid(img', stableLen', o, MetaPage(draft.txn, draftMan))
  <2>1. o < ioLen
    BY <1>1, <1>3, SlotsStable
  <2> QED
    BY <1>1, <1>2, <1>3, <2>1 DEF FlippedInv, Solid
<1>8. PinsHeld(file, pins, draft.txn, draft)
  <2>1. \A u \in Readers : \A s \in pins[u] : s.txn \in Nat
    BY <1>1, ManifestFields DEF TypeOK
  <2> QED
    BY <1>1, <1>3, <2>1, ManifestFields DEF DraftInv, PinsHeld
<1>9. OlderSlot(img', Flipped(committed, draft, draftMan))
  <2>1. file[committed.slot] = MetaPage(M.txn, committed.man)
    BY <1>1, <1>3, SettledSolid DEF OpenInv, SolidCommit
  <2>2. img'[committed.slot] = {MetaPage(M.txn, committed.man)}
    BY <1>2, <1>3, <2>1
  <2>3. Flipped(committed, draft, draftMan).slot = o
    BY DEF Flipped
  <2> QED
    BY <1>1, <1>3, <2>2, <2>3, FlipOlder DEF OlderSlot
<1>10. OpenInv'
  <2>1. SolidCommit(img', stableLen', committed')
    BY <1>4, <1>6, <1>7 DEF SolidCommit
  <2>2. committed.man # draftMan /\ Apart(draft, committed.man)
    BY <1>1 DEF WrittenInv, DraftInv
  <2> QED
    BY <1>2, <1>4, <1>8, <1>9, <2>1, <2>2 DEF OpenInv
<1> QED
  BY <1>1, <1>5, <1>10 DEF IInv

\* An error before the flip drops the draft and leaves the open table.
LEMMA FailInv ==
    ASSUME IInv, TypeOK', ~FlipFailures, Fail PROVE IInv'
BY DEF IInv, Fail, diskVars, NoDraft, Coherent, OpenInv

----------------------------------------------------------------------------
(* Crash and open.                                                         *)

\* A solid commit with only an older page beside it is what recovery reads.
LEMMA ClosedFrom ==
    ASSUME NEW i, NEW n \in Nat, NEW f,
           \A x \in Loc : f[x] \in i[x],
           NEW c \in [slot : Slots, man : Loc, manifest : Manifest],
           SolidCommit(i, n, c)
    PROVE  /\ Readable(f, c.slot)
           /\ CommitAt(f, c.slot) = c
           /\ f[c.slot].txn = c.manifest.txn
<1>1. /\ c.slot \in Loc /\ c.man \in Loc
      /\ c = [slot |-> c.slot, man |-> c.man, manifest |-> c.manifest]
  BY SlotFacts
<1>2. f[c.slot] = MetaPage(c.manifest.txn, c.man) /\ f[c.man] = Record(c.manifest)
  BY <1>1 DEF SolidCommit, SolidTable, Solid
<1>3. /\ f[c.slot].kind = "meta" /\ f[c.slot].txn = c.manifest.txn
      /\ f[c.slot].man = c.man
      /\ f[c.man].kind = "manifest" /\ f[c.man].body = c.manifest
  BY <1>2 DEF MetaPage, Record
<1> QED
  BY <1>1, <1>3 DEF Readable, CommitAt, ManifestAt

\* Commit c is what recovery reads from file f, now and after another crash.
Survives(f, i, n, c) ==
    /\ c.slot \in Slots
    /\ SolidCommit(i, n, c)
    /\ OlderSlot(i, c)
    /\ Readable(f, c.slot)
    /\ CommitAt(f, c.slot) = c
    /\ f[c.slot].txn = c.manifest.txn

\* Whatever the crash leaves, one slot leads to a whole table: the committed
\* one, or the one the interrupted flip had named.
LEMMA CrashOutcome ==
    ASSUME IInv, TypeOK', Crash
    PROVE  /\ Coherent'
           /\ \/ Survives(file', img', stableLen', committed)
              \/ /\ pc = "flipped"
                 /\ draft.txn = committed.manifest.txn + 1
                 /\ Survives(file', img', stableLen',
                             Flipped(committed, draft, draftMan))
<1> DEFINE M == committed.manifest
           o == Other(committed.slot)
           F == Flipped(committed, draft, draftMan)
<1>1. /\ TypeOK /\ Coherent /\ OpenInv /\ pc # "closed" /\ pc' = "closed"
      /\ committed' = committed /\ pins' = [r \in Readers |-> {}]
  BY DEF IInv, Crash
<1>2. PICK len \in stableLen .. ioLen, g \in Images :
         /\ file' = AfterCrash(g, len)
         /\ img' = [x \in Loc |-> {AfterCrash(g, len)[x]}]
         /\ ioLen' = len
         /\ stableLen' = len
  BY DEF Crash
<1>3. /\ stableLen \in Nat /\ ioLen \in Nat /\ len \in Nat /\ stableLen <= len
      /\ len <= ioLen
  BY <1>1 DEF TypeOK
<1>4. \A x \in Loc : x < stableLen => file'[x] \in img[x]
  <2> SUFFICES ASSUME NEW x \in Loc, x < stableLen
               PROVE  file'[x] \in img[x]
    OBVIOUS
  <2>1. x < len
    BY <1>3
  <2>2. file'[x] = IF x \in Unsynced THEN g[x] ELSE file[x]
    BY <1>2, <1>3, <2>1 DEF AfterCrash
  <2>3. x \in Unsynced => g[x] \in img[x]
    BY DEF Images
  <2> QED
    BY <1>1, <2>2, <2>3 DEF Coherent
<1>5. Settled(img, stableLen, file', img', stableLen')
  BY <1>2, <1>3, <1>4 DEF Settled
<1>6. Coherent' /\ \A x \in Loc : file'[x] \in img'[x]
  <2>1. \A x \in Loc : file'[x] \in img'[x]
    BY <1>5 DEF Settled
  <2>2. stableLen' <= ioLen' /\ ioLen' <= MaxLoc + 1
    BY <1>1, <1>2, <1>3, TableFileAssumption DEF Coherent
  <2> QED
    BY <2>1, <2>2 DEF Coherent
<1>7. /\ M \in Manifest /\ draft \in Manifest /\ committed.man \in Loc
      /\ draftMan \in Loc /\ committed.slot \in Slots /\ committed.slot \in Loc
      /\ o \in Loc /\ o \in Slots /\ Other(o) = committed.slot
      /\ committed \in [slot : Slots, man : Loc, manifest : Manifest]
  BY <1>1, SlotFacts DEF TypeOK
<1>8. SolidCommit(img, stableLen, committed)
  BY <1>1 DEF OpenInv
<1>9. SolidCommit(img', stableLen', committed)
  BY <1>5, <1>7, <1>8, SettledTable, SettledSolid DEF SolidCommit
<1>10. stableLen' \in Nat
  BY <1>2, <1>3
<1>11. /\ Readable(file', committed.slot)
       /\ CommitAt(file', committed.slot) = committed
       /\ file'[committed.slot].txn = M.txn
  BY <1>6, <1>7, <1>9, <1>10, ClosedFrom
<1>12. file'[o] \in img[o] /\ img'[o] = {file'[o]}
  <2>1. o < stableLen
    BY <1>3, <1>7, <1>8, SlotsStable DEF SolidCommit
  <2> QED
    BY <1>4, <1>5, <1>7, <2>1 DEF Settled
<1>13. CASE OlderMeta(file'[o], committed)
  <2>1. OlderSlot(img', committed)
    BY <1>12, <1>13 DEF OlderSlot
  <2> QED
    BY <1>6, <1>7, <1>9, <1>11, <2>1 DEF Survives
<1>14. CASE ~OlderMeta(file'[o], committed)
  <2>1. pc = "flipped"
    BY <1>1, <1>12, <1>14 DEF OpenInv, OlderSlot
  <2>2. /\ FlippedInv /\ DraftInv /\ SolidTable(img, stableLen, draft, draftMan)
    BY <2>1 DEF IInv
  <2>3. file'[o] = MetaPage(draft.txn, draftMan)
    BY <1>12, <1>14, <2>2 DEF FlippedInv
  <2>4. SolidTable(img', stableLen', draft, draftMan)
    BY <1>5, <1>7, <2>2, SettledTable
  <2>5. /\ F.slot = o /\ F.man = draftMan /\ F.manifest = draft
        /\ F \in [slot : Slots, man : Loc, manifest : Manifest]
    BY <1>7 DEF Flipped
  <2>6. Solid(img', stableLen', o, MetaPage(draft.txn, draftMan))
    <3>1. o < stableLen'
      BY <1>7, <1>10, <2>4, SlotsStable
    <3> QED
      BY <1>12, <2>3, <3>1 DEF Solid
  <2>7. SolidCommit(img', stableLen', F)
    BY <2>4, <2>5, <2>6 DEF SolidCommit
  <2>8. OlderSlot(img', F)
    <3>1. img'[committed.slot] = {MetaPage(M.txn, committed.man)}
      BY <1>9 DEF SolidCommit, Solid
    <3> QED
      BY <1>7, <2>1, <2>5, <3>1, FlipOlder DEF OlderSlot
  <2>9. Readable(file', o) /\ CommitAt(file', o) = F /\ file'[o].txn = draft.txn
    BY <1>6, <1>10, <2>5, <2>7, ClosedFrom
  <2>10. draft.txn = M.txn + 1
    BY <2>2 DEF DraftInv
  <2> QED
    BY <1>6, <1>7, <2>1, <2>5, <2>7, <2>8, <2>9, <2>10 DEF Survives
<1> QED
  BY <1>13, <1>14

\* A crash at any step leaves one whole commit in one of the two slots.
LEMMA CrashInv ==
    ASSUME IInv, TypeOK', Crash PROVE IInv'
<1>1. pc' = "closed" /\ committed' = committed /\ \A r \in Readers : pins'[r] = {}
  BY DEF Crash
<1>2. PICK c : /\ Survives(file', img', stableLen', c)
               /\ c.manifest.txn \in {committed.manifest.txn,
                                      committed.manifest.txn + 1}
  BY CrashOutcome DEF Flipped
<1>3. ClosedInv'
  BY <1>1, <1>2 DEF ClosedInv, Survives
<1> QED
  BY <1>1, <1>3, CrashOutcome DEF IInv

\* Recovery picks the slot that holds the whole commit, and every page the
\* other slot may hold loses to it.
LEMMA OnlyWinner ==
    ASSUME NEW f \in [Loc -> Content], NEW i,
           \A x \in Loc : f[x] \in i[x],
           NEW s \in Slots, Readable(f, s), OlderSlot(i, CommitAt(f, s))
    PROVE  Winners(f) = {s}
<1> DEFINE c == CommitAt(f, s)
<1>1. /\ c.slot = s /\ c.manifest.txn = f[s].txn /\ f[s].txn \in Nat
      /\ s \in Loc /\ Other(s) \in Loc /\ \A t \in Slots : t = s \/ t = Other(s)
  BY ContentFields, SlotFacts DEF CommitAt, ManifestAt, Readable, Other
<1>2. f[Other(s)] \in Content /\ OlderMeta(f[Other(s)], c)
  BY <1>1 DEF OlderSlot
<1>3. Readable(f, Other(s)) => /\ f[Other(s)].txn < f[s].txn
                                  /\ f[Other(s)].txn \in Nat
  BY <1>1, <1>2, ContentFields DEF OlderMeta, Readable, Torn
<1> HIDE DEF c
<1>4. s \in Winners(f)
  BY <1>1, <1>3 DEF Winners
<1>5. Other(s) \notin Winners(f)
  BY <1>1, <1>3 DEF Winners
<1> QED
  BY <1>1, <1>4, <1>5 DEF Winners

\* Opening takes the whole commit, and owns what the losing slot names.
LEMMA OpenStepInv ==
    ASSUME IInv, TypeOK', Open PROVE IInv'
<1>1. TypeOK /\ Coherent /\ ClosedInv /\ pc = "closed" /\ pc' = "idle"
  BY DEF IInv, Open
<1>2. PICK s \in Slots :
         /\ Readable(file, s)
         /\ SolidCommit(img, stableLen, CommitAt(file, s))
         /\ OlderSlot(img, CommitAt(file, s))
  BY <1>1 DEF ClosedInv
<1>3. /\ committed' = CommitAt(file, s)
      /\ nextMan' = LoserManifest(file, s)
      /\ UNCHANGED <<file, img, ioLen, stableLen, pins>>
  BY <1>1, <1>2, OnlyWinner DEF Open, diskVars, TypeOK, Coherent
<1> DEFINE c == CommitAt(file, s)
<1>4. Other(s) \in Loc /\ c.slot = s
  BY SlotFacts DEF CommitAt
<1>5. OlderMeta(file[Other(s)], c)
  BY <1>1, <1>2, <1>4 DEF OlderSlot, Coherent
<1> HIDE DEF c
<1>6. \A x \in nextMan' : x # c.man /\ Apart(c.manifest, x)
  BY <1>3, <1>5 DEF LoserManifest, OlderMeta, Torn
<1>7. PinsHeld(file, pins, c.manifest.txn, c.manifest)
  BY <1>1 DEF ClosedInv, PinsHeld
<1>8. SolidCommit(img, stableLen, c) /\ OlderSlot(img, c)
  BY <1>2 DEF c
<1>9. OpenInv'
  <2>1. committed' = c
    BY <1>3 DEF c
  <2> QED
    BY <1>1, <1>3, <1>6, <1>7, <1>8, <2>1 DEF OpenInv
<1> QED
  BY <1>1, <1>3, <1>9 DEF IInv, Coherent

\* A freshly created file has two whole commits.
LEMMA InitInv == Init => IInv
<1> SUFFICES ASSUME Init PROVE IInv
  OBVIOUS
<1>1. TypeOK
  BY InitType
<1>0. PICK p \in Payloads : Init!(p)
  BY DEF Init
<1> USE TableFileAssumption
<1> DEFINE M == Seed(1, FirstLoc + 1, p)
<1>2. /\ Created(p)[0] = MetaPage(1, 4) /\ Created(p)[1] = MetaPage(0, 3)
      /\ Created(p)[2] = Bytes(p) /\ Created(p)[4] = Record(M)
  BY DEF Created
<1>3. /\ img[0] = {MetaPage(1, 4)} /\ img[1] = {MetaPage(0, 3)}
      /\ img[2] = {Bytes(p)} /\ img[4] = {Record(M)}
  BY <1>0, <1>2
<1>4. Coherent
  BY <1>0 DEF Coherent
<1>5. /\ M.txn = 1 /\ M.live = {} /\ M.free = {} /\ M.fileLen = 5
      /\ M.schema.loc = 2 /\ M.schema.tag = p
  BY DEF Seed
<1>6. /\ committed.slot = 0 /\ committed.man = 4 /\ committed.manifest = M
      /\ stableLen = 5 /\ nextMan = {3} /\ pc = "idle"
      /\ \A r \in Readers : pins[r] = {}
  BY <1>0
<1> HIDE DEF M
<1>7. Geometry(M) /\ Apart(M, 4) /\ Apart(M, 3)
  BY <1>5 DEF Geometry, Apart
<1>8. SolidCommit(img, stableLen, committed)
  BY <1>3, <1>5, <1>6, <1>7 DEF SolidCommit, SolidTable, Solid
<1>9. OlderSlot(img, committed)
  BY <1>3, <1>5, <1>6, <1>7 DEF OlderSlot, OlderMeta, Other, MetaPage
<1>10. OpenInv
  BY <1>6, <1>7, <1>8, <1>9 DEF OpenInv, PinsHeld
<1> QED
  BY <1>1, <1>4, <1>6, <1>10 DEF IInv

\* Every step keeps the inductive invariant.
LEMMA NextInv ==
    ASSUME ~FlipFailures, Rewrites => BlobClear', IInv, [Next]_vars PROVE IInv'
<1>1. TypeOK /\ TypeOK'
  BY NextType DEF IInv
<1>2. CASE UNCHANGED vars
  BY <1>1, <1>2 DEF vars, IInv, Coherent, ClosedInv, OpenInv, DraftInv, PlacingInv,
     WrittenInv, FlippedInv
<1>3. CASE Next
  <2>1. CASE Begin
    BY <1>1, <2>1, BeginInv
  <2>2. CASE \E p \in Payloads : WriteSchema(p)
    BY <1>1, <2>2, SchemaInv
  <2>3. CASE \E p \in Payloads : \E f \in draft.free : WriteReused(f, p)
    BY <1>1, <2>3, ReusedInv
  <2>4. CASE \E p \in Payloads : \E x \in Loc : WriteGrown(x, p)
    BY <1>1, <2>4, GrownInv
  <2>5. CASE ConvertSegments
    BY <1>1, <2>5, ConvertInv
  <2>6. CASE \E r \in draft.live : Drop(r)
    BY <1>1, <2>6, DropInv
  <2>7. CASE WriteManifest
    BY <1>1, <2>7, ManifestInv
  <2>8. CASE SyncManifest
    BY <1>1, <2>8, SyncManifestInv
  <2>9. CASE WriteMeta
    BY <1>1, <2>9, WriteMetaInv
  <2>10. CASE SyncMeta
    BY <1>1, <2>10, SyncMetaInv
  <2>11. CASE Fail
    BY <1>1, <2>11, FailInv
  <2>12. CASE Crash
    BY <1>1, <2>12, CrashInv
  <2>13. CASE Open
    BY <1>1, <2>13, OpenStepInv
  <2>14. CASE \E r \in Readers : Pin(r) \/ Unpin(r)
    BY <1>1, <2>14, PinInv
  <2> QED
    BY <1>3, <2>1, <2>2, <2>3, <2>4, <2>5, <2>6, <2>7, <2>8, <2>9, <2>10,
       <2>11, <2>12, <2>13, <2>14 DEF Next
<1> QED
  BY <1>2, <1>3

\* The inductive invariant holds in every behaviour, as long as a schema change
\* rewrites no segment and a flip never reports an error.
THEOREM Inductive ==
    ASSUME ~Rewrites, ~FlipFailures
    PROVE  Spec => []IInv
<1>1. IInv /\ [Next]_vars => IInv'
  BY NextInv
<1> QED
  BY <1>1, InitInv, PTL DEF Spec

\* It also holds while schema changes rewrite segments, for as long as
\* allocate happens not to place one of them on the blob of the same change.
LEMMA InductiveBesideBlobs ==
    ASSUME ~FlipFailures
    PROVE  Spec /\ []BlobClear => []IInv
<1>1. IInv /\ BlobClear' /\ [Next]_vars => IInv'
  BY NextInv
<1> QED
  BY <1>1, InitInv, PTL DEF Spec

----------------------------------------------------------------------------
(* What it gives.                                                          *)

\* A closed file that satisfies the invariant leads to a whole commit.
LEMMA ImpliesRecovery == IInv => RecoversWholeCommit
<1> SUFFICES ASSUME IInv, pc = "closed"
             PROVE  \E s \in Winners(file) :
                       /\ TableIntact(file, ManifestAt(file, s))
                       /\ file[s].txn \in {committed.manifest.txn,
                                           committed.manifest.txn + 1}
  BY DEF RecoversWholeCommit
<1>1. TypeOK /\ Coherent /\ ClosedInv
  BY DEF IInv
<1>2. PICK s \in Slots :
         /\ Readable(file, s)
         /\ SolidCommit(img, stableLen, CommitAt(file, s))
         /\ OlderSlot(img, CommitAt(file, s))
         /\ file[s].txn \in {committed.manifest.txn, committed.manifest.txn + 1}
  BY <1>1 DEF ClosedInv
<1>3. s \in Winners(file)
  <2>1. file \in [Loc -> Content] /\ \A x \in Loc : file[x] \in img[x]
    BY <1>1 DEF TypeOK, Coherent
  <2>2. Winners(file) = {s}
    BY ONLY <1>2, <2>1, OnlyWinner, Zenon
  <2> QED
    BY <2>2
<1> DEFINE m == ManifestAt(file, s)
<1>4. m \in Manifest
  <2>1. file[s] \in Content
    BY <1>1, SlotFacts DEF TypeOK
  <2>2. file[s].man \in Loc
    BY <1>2, <2>1, ContentFields DEF Readable
  <2> QED
    BY <1>1, <1>2, <2>2, ContentFields DEF Readable, ManifestAt, TypeOK
<1>5. SolidTable(img, stableLen, m, file[s].man)
  BY <1>2 DEF SolidCommit, CommitAt
<1> HIDE DEF m
<1>6. TableIntact(file, m)
  BY <1>1, <1>4, <1>5, ManifestFields, RefFields
  DEF SolidTable, Solid, Coherent, TableIntact, Intact
<1> QED
  BY <1>2, <1>3, <1>6 DEF m

\* Under the invariant every pinned snapshot reads the bytes it committed.
LEMMA ImpliesReadable == IInv => SnapshotsReadable /\ SchemaReachable
<1> SUFFICES ASSUME IInv, pc # "closed"
             PROVE  \A m \in {committed.manifest} \cup UNION {pins[r] : r \in Readers} :
                       TableIntact(file, m)
  BY DEF SnapshotsReadable, SchemaReachable, TableIntact
<1>1. TypeOK /\ Coherent /\ OpenInv
  BY DEF IInv
<1>2. TableIntact(file, committed.manifest)
  BY <1>1, ManifestFields, RefFields
  DEF TypeOK, OpenInv, SolidCommit, SolidTable, Solid, Coherent, TableIntact, Intact
<1>3. \A r \in Readers : \A m \in pins[r] : TableIntact(file, m)
  BY <1>1 DEF OpenInv, PinsHeld, Held, TableIntact
<1> QED
  BY <1>2, <1>3

\* Under the invariant no location has two owners.
LEMMA ImpliesAccounted == IInv => SpaceAccounted
BY DEF IInv, OpenInv, SolidCommit, SolidTable, SpaceAccounted

\* Whatever a crash leaves of an unfinished write, open finds one whole commit:
\* the last acknowledged one or the one whose flip was under way.
THEOREM RecoveryIsWhole ==
    ASSUME ~Rewrites, ~FlipFailures
    PROVE  Spec => []RecoversWholeCommit
BY Inductive, ImpliesRecovery, PTL

\* No reuse of freed space ever disturbs the bytes of a snapshot a reader holds,
\* however long it holds it.
THEOREM SnapshotsStayReadable ==
    ASSUME ~Rewrites, ~FlipFailures
    PROVE  Spec => []SnapshotsReadable
BY Inductive, ImpliesReadable, PTL

\* A segment the schema change itself rewrote is the only thing that can land on
\* a schema blob: in every behaviour, rewriting changes included, in which no
\* segment is placed on the blob of its own change, the blob each snapshot names
\* reads back for as long as it is held, though write_schema places blobs past a
\* file_len that does not count them.
THEOREM SchemasStayReachable ==
    ASSUME ~FlipFailures
    PROVE  Spec /\ []BlobClear => []SchemaReachable
BY InductiveBesideBlobs, ImpliesReadable, PTL

\* Space is never owned twice.
THEOREM SpaceHasOneOwner ==
    ASSUME ~Rewrites, ~FlipFailures
    PROVE  Spec => []SpaceAccounted
BY Inductive, ImpliesAccounted, PTL

----------------------------------------------------------------------------
(* The older slot: until a commit overwrites it, it leads to a whole table *)
(* one commit behind.                                                      *)

\* Table p, one commit behind m, outlives every write that m may lead to, and
\* its bytes are on the medium.
SpareTable(f, i, p, m) ==
    /\ p.txn + 1 = m.txn
    /\ Held(f, p, m)
    /\ \A q \in p.live \cup {p.schema} : i[q.loc] = {f[q.loc]}

\* The page of slot s and the manifest it names are on the medium, the
\* manifest is the one the next commit frees, and its table is a spare for m.
Spare(f, i, s, next, m) ==
    /\ i[s] = {f[s]}
    /\ f[s].kind = "meta" => /\ next = {f[s].man}
                             /\ i[f[s].man] = {f[f[s].man]}
    /\ Readable(f, s) => SpareTable(f, i, ManifestAt(f, s), m)

SpareInv ==
    /\ pc = "closed" =>
          \A s \in Winners(file) :
              Spare(file, img, Other(s), LoserManifest(file, s), ManifestAt(file, s))
    /\ pc \notin {"closed", "flipped"} =>
          Spare(file, img, Other(committed.slot), nextMan, committed.manifest)
    /\ (/\ pc \in {"draft", "altered", "written", "synced"}
        /\ Readable(file, Other(committed.slot)))
       => Held(file, ManifestAt(file, Other(committed.slot)), draft)
    /\ pc = "flipped" =>
          LET o == Other(committed.slot)
          IN \A d \in img[o] \ {Torn, MetaPage(draft.txn, draftMan)} :
                Spare([file EXCEPT ![o] = d], [img EXCEPT ![o] = {d}], o, nextMan,
                      committed.manifest)

\* The table a readable slot leads to, and the locations recovery reads for it.
LEMMA SpareFields ==
    ASSUME NEW f \in [Loc -> Content], NEW s \in Slots, Readable(f, s)
    PROVE  /\ f[s].man \in Loc /\ ManifestAt(f, s) \in Manifest
           /\ ManifestAt(f, s).txn \in Nat
           /\ \A q \in ManifestAt(f, s).live \cup {ManifestAt(f, s).schema} :
                 q.loc \in Loc
<1>1. s \in Loc /\ f[s] \in Content
  BY SlotFacts
<1>2. f[s].man \in Loc
  BY <1>1, ContentFields DEF Readable
<1>3. f[f[s].man] \in Content
  BY <1>2
<1>4. ManifestAt(f, s) \in Manifest
  BY <1>3, ContentFields DEF Readable, ManifestAt
<1> QED
  BY <1>2, <1>4, ManifestFields, RefFields

\* A write past the meta pages, away from the manifest the older slot names and
\* from the bytes of its table, leaves the slot as it was.
LEMMA SpareWrite ==
    ASSUME TypeOK, Coherent, NEW x \in Loc, NEW c, Write(x, c), DATA_START <= x,
           NEW s \in Slots, NEW m, Spare(file, img, s, nextMan, m),
           x \notin nextMan,
           Readable(file, s) =>
               \A q \in ManifestAt(file, s).live \cup {ManifestAt(file, s).schema} :
                   q.loc # x
    PROVE  /\ Spare(file', img', s, nextMan, m)
           /\ Readable(file', s) => Readable(file, s)
           /\ Readable(file, s) =>
                 /\ ManifestAt(file', s) = ManifestAt(file, s)
                 /\ \A n : Held(file, ManifestAt(file, s), n)
                           => Held(file', ManifestAt(file, s), n)
<1>1. file \in [Loc -> Content] /\ s \in Loc /\ s # x
  BY SlotFacts DEF TypeOK
<1>2. /\ \A y \in Loc : y # x => file'[y] = file[y] /\ img'[y] = img[y]
  BY WriteElsewhere
<1>3. file'[s] = file[s] /\ img'[s] = img[s]
  BY <1>1, <1>2
<1>4. file[s].kind = "meta" =>
         /\ file[s].man \in Loc /\ file[s].man # x
         /\ file'[file[s].man] = file[file[s].man]
         /\ img'[file[s].man] = img[file[s].man]
  <2> SUFFICES ASSUME file[s].kind = "meta"
               PROVE  file[s].man \in Loc /\ file[s].man # x
    BY <1>2
  <2>1. file[s] \in Content
    BY <1>1
  <2>2. file[s].man \in Loc
    BY <2>1, ContentFields
  <2>3. file[s].man \in nextMan
    BY DEF Spare
  <2> QED
    BY <2>2, <2>3
<1>5. Readable(file', s) <=> Readable(file, s)
  BY <1>3, <1>4 DEF Readable
<1>6. ASSUME Readable(file, s)
      PROVE  /\ ManifestAt(file', s) = ManifestAt(file, s)
             /\ \A q \in ManifestAt(file, s).live \cup {ManifestAt(file, s).schema} :
                   file'[q.loc] = file[q.loc] /\ img'[q.loc] = img[q.loc]
  <2>1. ManifestAt(file', s) = ManifestAt(file, s)
    BY <1>3, <1>4, <1>6 DEF ManifestAt, Readable
  <2>2. \A q \in ManifestAt(file, s).live \cup {ManifestAt(file, s).schema} :
           q.loc \in Loc /\ q.loc # x
    BY <1>1, <1>6, SpareFields
  <2> QED
    BY <1>2, <2>1, <2>2
<1>7. Readable(file, s) => \A n : Held(file, ManifestAt(file, s), n)
                                  => Held(file', ManifestAt(file, s), n)
  BY <1>6 DEF Held, Intact
<1>8. Readable(file, s) => SpareTable(file', img', ManifestAt(file, s), m)
  BY <1>6, <1>7 DEF Spare, SpareTable
<1> QED
  BY <1>3, <1>4, <1>5, <1>6, <1>7, <1>8 DEF Spare

\* What an open table knows of the older slot.
LEMMA SpareOpen ==
    ASSUME IInv, SpareInv, pc \notin {"closed", "flipped"}
    PROVE  /\ TypeOK /\ Coherent /\ OpenInv
           /\ Other(committed.slot) \in Slots
           /\ Spare(file, img, Other(committed.slot), nextMan, committed.manifest)
           /\ committed.manifest.txn \in Nat
           /\ Readable(file, Other(committed.slot)) =>
                 LET p == ManifestAt(file, Other(committed.slot))
                 IN /\ p \in Manifest /\ p.txn \in Nat
                    /\ p.txn + 1 = committed.manifest.txn
                    /\ \A q \in p.live \cup {p.schema} : q.loc \in Loc
                    /\ Held(file, p, committed.manifest)
<1>1. TypeOK /\ Coherent /\ OpenInv
  BY DEF IInv
<1>2. Other(committed.slot) \in Slots /\ committed.manifest.txn \in Nat
      /\ file \in [Loc -> Content]
  BY <1>1, SlotFacts, ManifestFields DEF TypeOK
<1>3. Spare(file, img, Other(committed.slot), nextMan, committed.manifest)
  BY DEF SpareInv
<1>4. Readable(file, Other(committed.slot)) =>
         SpareTable(file, img, ManifestAt(file, Other(committed.slot)),
                    committed.manifest)
  BY <1>3 DEF Spare
<1> QED
  BY <1>1, <1>2, <1>3, <1>4, SpareFields DEF SpareTable

\* Starting a commit writes nothing and frees nothing.
LEMMA SpareBegin ==
    ASSUME IInv, SpareInv, Begin PROVE SpareInv'
<1> DEFINE o == Other(committed.slot)
<1>1. /\ pc = "idle" /\ pc' = "draft" /\ UNCHANGED <<file, img, committed, nextMan>>
      /\ draft' = [committed.manifest EXCEPT !.txn = @ + 1]
  BY DEF Begin, diskVars
<1>2. committed.manifest \in Manifest
  BY DEF IInv, TypeOK
<1>3. draft'.free = committed.manifest.free
      /\ draft'.fileLen = committed.manifest.fileLen
  BY <1>1, <1>2 DEF Manifest
<1>4. Readable(file, o) => Held(file, ManifestAt(file, o), draft')
  BY <1>1, <1>3, SpareOpen DEF Held
<1> QED
  BY <1>1, <1>4 DEF SpareInv

\* What a draft drops is quarantined past the spare table's own txn.
LEMMA SpareDrop ==
    ASSUME IInv, SpareInv, NEW r \in draft.live, Drop(r) PROVE SpareInv'
<1> DEFINE o == Other(committed.slot)
<1>1. /\ pc = "draft" /\ pc' = "draft" /\ UNCHANGED <<file, img, committed, nextMan>>
      /\ draft' = [draft EXCEPT !.live = @ \ {r},
                     !.free = @ \cup {[loc |-> r.loc, txn |-> draft.txn]}]
  BY DEF Drop, Supersede, diskVars
<1>2. draft \in Manifest /\ DraftInv
  BY <1>1 DEF IInv, TypeOK
<1>3. /\ draft'.free = draft.free \cup {[loc |-> r.loc, txn |-> draft.txn]}
      /\ draft'.fileLen = draft.fileLen
  BY <1>1, <1>2 DEF Manifest
<1>4. ASSUME Readable(file, o)
      PROVE  Held(file, ManifestAt(file, o), draft')
  <2>1. Held(file, ManifestAt(file, o), draft)
    BY <1>1, <1>4 DEF SpareInv
  <2>2. /\ ManifestAt(file, o).txn \in Nat /\ committed.manifest.txn \in Nat
        /\ ManifestAt(file, o).txn + 1 = committed.manifest.txn
    BY <1>1, <1>4, SpareOpen
  <2>3. draft.txn > ManifestAt(file, o).txn
    BY <1>2, <2>2 DEF DraftInv
  <2> QED
    BY <1>3, <2>1, <2>3 DEF Held
<1> QED
  BY <1>1, <1>4 DEF SpareInv

\* A segment goes where the spare table has nothing, so it stays a spare.
LEMMA SparePlace ==
    ASSUME IInv, SpareInv, NEW x \in Loc, NEW p \in Payloads,
           NEW m \in Manifest, Place(x, p, m),
           DATA_START <= x, x \notin nextMan,
           m.free \subseteq draft.free, draft.fileLen <= m.fileLen,
           Readable(file, Other(committed.slot)) =>
               \A q \in ManifestAt(file, Other(committed.slot)).live
                        \cup {ManifestAt(file, Other(committed.slot)).schema} :
                   q.loc # x
    PROVE  SpareInv'
<1> DEFINE o == Other(committed.slot)
<1>1. /\ pc = "draft" /\ pc' = "draft" /\ UNCHANGED <<committed, nextMan>>
      /\ draft' = [m EXCEPT !.live = @ \cup {[loc |-> x, tag |-> p]}]
      /\ Write(x, Bytes(p))
  BY DEF Place
<1>2. draft'.free = m.free /\ draft'.fileLen = m.fileLen
  BY <1>1 DEF Manifest
<1>3. /\ TypeOK /\ Coherent /\ o \in Slots
      /\ Spare(file, img, o, nextMan, committed.manifest)
  BY <1>1, SpareOpen
<1>4. /\ Spare(file', img', o, nextMan, committed.manifest)
      /\ Readable(file', o) => Readable(file, o)
      /\ Readable(file, o) =>
            /\ ManifestAt(file', o) = ManifestAt(file, o)
            /\ \A n : Held(file, ManifestAt(file, o), n)
                      => Held(file', ManifestAt(file, o), n)
  BY <1>1, <1>3, SpareWrite
<1>5. ASSUME Readable(file, o)
      PROVE  Held(file', ManifestAt(file, o), draft')
  <2>1. Held(file, ManifestAt(file, o), draft)
    BY <1>1, <1>5 DEF SpareInv
  <2>2. /\ \A q \in ManifestAt(file, o).live \cup {ManifestAt(file, o).schema} :
              q.loc \in Nat
        /\ draft.fileLen \in Nat /\ m.fileLen \in Nat
    BY <1>1, <1>3, <1>5, SpareOpen, ManifestFields DEF TypeOK
  <2>3. Held(file, ManifestAt(file, o), draft')
    BY <1>2, <2>1, <2>2 DEF Held
  <2> QED
    BY <1>4, <1>5, <2>3
<1>6. Spare(file, img, o, nextMan, committed.manifest)' /\ o' = o
  BY <1>1, <1>4
<1> QED
  BY <1>1, <1>4, <1>5, <1>6 DEF SpareInv

\* A reused extent was freed before the spare table was committed.
LEMMA SpareReused ==
    ASSUME IInv, SpareInv, NEW f \in draft.free, NEW p \in Payloads,
           WriteReused(f, p)
    PROVE  SpareInv'
<1> DEFINE o == Other(committed.slot)
           m == [draft EXCEPT !.free = @ \ {f}]
<1>1. /\ Place(f.loc, p, m) /\ f.txn < minActive /\ pc = "draft"
      /\ TypeOK /\ DraftInv /\ PlacingInv
  BY DEF IInv, WriteReused, Reusable, Place
<1>2. draft \in Manifest /\ f \in FreeExtent /\ draft.fileLen \in Nat
  BY <1>1, ManifestFields DEF TypeOK
<1>3. m \in Manifest /\ m.free = draft.free \ {f} /\ m.fileLen = draft.fileLen
  BY <1>2 DEF Manifest
<1> HIDE DEF m
<1>4. /\ f.loc \in Loc /\ f.txn \in Nat /\ minActive \in Nat
      /\ committed.manifest.txn \in Nat /\ minActive <= committed.manifest.txn
  BY <1>1, <1>2, RefFields, ManifestFields DEF TypeOK, PlacingInv
<1>5. DATA_START <= f.loc /\ f.loc \notin nextMan
  BY <1>1 DEF DraftInv, PlacingInv, Geometry, Apart
<1>6. ASSUME Readable(file, o)
      PROVE  \A q \in ManifestAt(file, o).live \cup {ManifestAt(file, o).schema} :
                q.loc # f.loc
  <2>1. Held(file, ManifestAt(file, o), draft)
    BY <1>1, <1>6 DEF SpareInv
  <2>2. /\ ManifestAt(file, o).txn \in Nat
        /\ ManifestAt(file, o).txn + 1 = committed.manifest.txn
    BY <1>1, <1>6, SpareOpen
  <2> QED
    BY <1>1, <1>4, <2>1, <2>2 DEF Held
<1>7. m.free \subseteq draft.free /\ draft.fileLen <= m.fileLen
  BY <1>2, <1>3
<1> QED
  BY <1>1, <1>3, <1>4, <1>5, <1>6, <1>7, SparePlace

\* Growth starts past everything the spare table names.
LEMMA SpareGrown ==
    ASSUME IInv, SpareInv, NEW x \in Loc, NEW p \in Payloads, WriteGrown(x, p)
    PROVE  SpareInv'
<1> DEFINE o == Other(committed.slot)
           m == [draft EXCEPT !.fileLen = x + 1]
<1>1. /\ Place(x, p, m) /\ draft.fileLen <= x /\ pc = "draft"
      /\ TypeOK /\ DraftInv /\ PlacingInv
  BY DEF IInv, WriteGrown, Place
<1>2. draft \in Manifest /\ draft.fileLen \in Nat /\ x \in Nat
  BY <1>1, ManifestFields DEF TypeOK
<1>3. m \in Manifest /\ m.free = draft.free /\ m.fileLen = x + 1
  BY <1>2 DEF Manifest
<1> HIDE DEF m
<1>4. DATA_START <= x /\ x \notin nextMan
  <2>1. committed.man \in Nat /\ nextMan \subseteq Nat
    BY <1>1 DEF TypeOK
  <2>2. /\ DATA_START <= committed.man /\ committed.man < draft.fileLen
        /\ \A y \in nextMan : y < draft.fileLen
    BY <1>1 DEF DraftInv, PlacingInv, Apart
  <2> QED
    BY <1>1, <1>2, <2>1, <2>2
<1>5. ASSUME Readable(file, o)
      PROVE  \A q \in ManifestAt(file, o).live \cup {ManifestAt(file, o).schema} :
                q.loc # x
  <2>1. Held(file, ManifestAt(file, o), draft)
    BY <1>1, <1>5 DEF SpareInv
  <2>2. \A q \in ManifestAt(file, o).live \cup {ManifestAt(file, o).schema} :
           q.loc \in Nat
    BY <1>1, <1>5, SpareOpen
  <2> QED
    BY <1>1, <1>2, <2>1, <2>2 DEF Held
<1>6. m.free \subseteq draft.free /\ draft.fileLen <= m.fileLen
  BY <1>1, <1>2, <1>3
<1> QED
  BY <1>1, <1>3, <1>4, <1>5, <1>6, SparePlace

\* A location past the end of the file holds nothing of the spare table.
LEMMA SpareBelow ==
    ASSUME IInv, SpareInv, pc \notin {"closed", "flipped"},
           NEW x \in Loc, committed.manifest.fileLen <= x
    PROVE  /\ DATA_START <= x /\ x \notin nextMan
           /\ Readable(file, Other(committed.slot)) =>
                 \A q \in ManifestAt(file, Other(committed.slot)).live
                          \cup {ManifestAt(file, Other(committed.slot)).schema} :
                     q.loc # x
<1> DEFINE o == Other(committed.slot)
<1>1. TypeOK /\ OpenInv
  BY DEF IInv
<1>2. /\ committed.manifest.fileLen \in Nat /\ x \in Nat
      /\ committed.man \in Nat /\ nextMan \subseteq Nat
  BY <1>1, ManifestFields DEF TypeOK
<1>3. DATA_START <= x /\ x \notin nextMan
  <2>1. /\ DATA_START <= committed.man /\ committed.man < committed.manifest.fileLen
        /\ \A y \in nextMan : y < committed.manifest.fileLen
    BY <1>1 DEF OpenInv, SolidCommit, SolidTable, Apart
  <2> QED
    BY <1>2, <2>1
<1>4. ASSUME Readable(file, o)
      PROVE  \A q \in ManifestAt(file, o).live \cup {ManifestAt(file, o).schema} :
                q.loc # x
  <2>1. /\ Held(file, ManifestAt(file, o), committed.manifest)
        /\ \A q \in ManifestAt(file, o).live \cup {ManifestAt(file, o).schema} :
              q.loc \in Nat
    BY <1>4, SpareOpen
  <2> QED
    BY <1>2, <2>1 DEF Held
<1> QED
  BY <1>3, <1>4

\* A schema blob goes at the end of the file.
LEMMA SpareSchema ==
    ASSUME IInv, SpareInv, NEW p \in Payloads, WriteSchema(p) PROVE SpareInv'
<1> DEFINE o == Other(committed.slot)
<1>1. /\ pc = "idle" /\ pc' = "altered" /\ UNCHANGED <<committed, nextMan>>
      /\ draft' = [committed.manifest EXCEPT !.txn = @ + 1,
                      !.schema = [loc |-> ioLen, tag |-> p]]
      /\ Write(ioLen, Bytes(p)) /\ ioLen < MaxLoc
  BY DEF WriteSchema
<1>2. /\ TypeOK /\ Coherent /\ OpenInv /\ o \in Slots
      /\ Spare(file, img, o, nextMan, committed.manifest)
  BY <1>1, SpareOpen
<1>3. committed.manifest \in Manifest /\ committed.manifest.fileLen \in Nat
      /\ ioLen \in Nat /\ stableLen \in Nat
  BY <1>2, ManifestFields DEF TypeOK
<1>4. /\ draft'.free = committed.manifest.free
      /\ draft'.fileLen = committed.manifest.fileLen
  BY <1>1, <1>3 DEF Manifest
<1>5. ioLen \in Loc /\ committed.manifest.fileLen <= ioLen
  <2>1. committed.manifest.fileLen <= stableLen /\ stableLen <= ioLen
    BY <1>2 DEF OpenInv, SolidCommit, SolidTable, Coherent
  <2> QED
    BY <1>1, <1>3, <2>1, TableFileAssumption
<1>6. /\ DATA_START <= ioLen /\ ioLen \notin nextMan
      /\ Readable(file, o) =>
            \A q \in ManifestAt(file, o).live \cup {ManifestAt(file, o).schema} :
                q.loc # ioLen
  BY <1>1, <1>5, SpareBelow
<1>7. /\ Spare(file', img', o, nextMan, committed.manifest)
      /\ Readable(file', o) => Readable(file, o)
      /\ Readable(file, o) =>
            /\ ManifestAt(file', o) = ManifestAt(file, o)
            /\ \A n : Held(file, ManifestAt(file, o), n)
                      => Held(file', ManifestAt(file, o), n)
  BY <1>1, <1>2, <1>5, <1>6, SpareWrite
<1>8. Readable(file, o) => Held(file', ManifestAt(file, o), draft')
  BY <1>1, <1>4, <1>7, SpareOpen DEF Held
<1>9. Spare(file, img, o, nextMan, committed.manifest)' /\ o' = o
  BY <1>1, <1>7
<1> QED
  BY <1>1, <1>7, <1>8, <1>9 DEF SpareInv

\* So does a manifest, and what it frees is freed after the spare was committed.
LEMMA SpareManifest ==
    ASSUME IInv, SpareInv, WriteManifest PROVE SpareInv'
<1> DEFINE o == Other(committed.slot)
           at == Max2(draft.fileLen, ioLen)
           m == [draft EXCEPT !.free = @ \cup {[loc |-> l, txn |-> draft.txn] : l \in nextMan},
                              !.fileLen = at + 1]
<1>1. /\ pc \in {"draft", "altered"} /\ pc' = "written"
      /\ UNCHANGED <<committed, nextMan>>
      /\ draft' = m /\ at <= MaxLoc /\ Write(at, Record(m))
  BY DEF WriteManifest, PutManifest
<1>2. /\ TypeOK /\ Coherent /\ OpenInv /\ o \in Slots
      /\ Spare(file, img, o, nextMan, committed.manifest)
  BY <1>1, SpareOpen
<1>3. DraftInv
  BY <1>1 DEF IInv
<1>4. draft \in Manifest /\ draft.fileLen \in Nat /\ draft.txn \in Nat
      /\ committed.manifest.fileLen \in Nat /\ ioLen \in Nat
  BY <1>2, ManifestFields DEF TypeOK
<1>5. /\ draft'.free = draft.free \cup {[loc |-> l, txn |-> draft.txn] : l \in nextMan}
      /\ draft'.fileLen = at + 1
  BY <1>1, <1>4 DEF Manifest
<1>6. at \in Nat /\ draft.fileLen <= at /\ at \in Loc
      /\ committed.manifest.fileLen <= at
  BY <1>1, <1>3, <1>4, TableFileAssumption DEF Max2, DraftInv
<1> HIDE DEF at, m
<1>7. /\ DATA_START <= at /\ at \notin nextMan
      /\ Readable(file, o) =>
            \A q \in ManifestAt(file, o).live \cup {ManifestAt(file, o).schema} :
                q.loc # at
  BY <1>1, <1>6, SpareBelow
<1>8. /\ Spare(file', img', o, nextMan, committed.manifest)
      /\ Readable(file', o) => Readable(file, o)
      /\ Readable(file, o) =>
            /\ ManifestAt(file', o) = ManifestAt(file, o)
            /\ \A n : Held(file, ManifestAt(file, o), n)
                      => Held(file', ManifestAt(file, o), n)
  BY <1>1, <1>2, <1>6, <1>7, SpareWrite
<1>9. ASSUME Readable(file, o)
      PROVE  Held(file', ManifestAt(file, o), draft')
  <2>1. Held(file, ManifestAt(file, o), draft)
    BY <1>1, <1>9 DEF SpareInv
  <2>2. /\ ManifestAt(file, o).txn \in Nat /\ committed.manifest.txn \in Nat
        /\ ManifestAt(file, o).txn + 1 = committed.manifest.txn
        /\ \A q \in ManifestAt(file, o).live \cup {ManifestAt(file, o).schema} :
              q.loc \in Nat
    BY <1>1, <1>9, SpareOpen
  <2>3. draft.txn > ManifestAt(file, o).txn
    BY <1>3, <2>2 DEF DraftInv
  <2>4. Held(file, ManifestAt(file, o), draft')
    BY <1>4, <1>5, <1>6, <2>1, <2>2, <2>3 DEF Held
  <2> QED
    BY <1>8, <1>9, <2>4
<1>10. Spare(file, img, o, nextMan, committed.manifest)' /\ o' = o
  BY <1>1, <1>8
<1> QED
  BY <1>1, <1>8, <1>9, <1>10 DEF SpareInv

\* The first sync leaves the file as it reads.
LEMMA SpareSync ==
    ASSUME IInv, SpareInv, SyncManifest PROVE SpareInv'
<1> DEFINE o == Other(committed.slot)
<1>1. /\ pc = "written" /\ pc' = "synced" /\ UNCHANGED <<file, committed, nextMan, draft>>
      /\ img' = [x \in Loc |-> {file[x]}]
  BY DEF SyncManifest, SyncData
<1>2. TypeOK /\ o \in Slots /\ Spare(file, img, o, nextMan, committed.manifest)
  BY <1>1, SpareOpen
<1>3. o \in Loc /\ file \in [Loc -> Content] /\ file[o] \in Content
  BY <1>2, SlotFacts DEF TypeOK
<1>4. file[o].kind = "meta" => file[o].man \in Loc
  BY <1>3, ContentFields
<1>5. Readable(file, o) => SpareTable(file, img', ManifestAt(file, o), committed.manifest)
  <2> SUFFICES ASSUME Readable(file, o)
               PROVE  SpareTable(file, img', ManifestAt(file, o), committed.manifest)
    OBVIOUS
  <2>1. \A q \in ManifestAt(file, o).live \cup {ManifestAt(file, o).schema} :
           q.loc \in Loc
    BY <1>1, SpareOpen
  <2>2. SpareTable(file, img, ManifestAt(file, o), committed.manifest)
    BY <1>2 DEF Spare
  <2> QED
    BY <1>1, <2>1, <2>2 DEF SpareTable
<1>6. Spare(file, img', o, nextMan, committed.manifest)
  BY <1>1, <1>2, <1>3, <1>4, <1>5 DEF Spare
<1> QED
  BY <1>1, <1>6 DEF SpareInv

\* An error, a reader's pin and a stutter leave file and medium alone.
LEMMA SpareQuiet ==
    ASSUME IInv, SpareInv,
           \/ ~FlipFailures /\ Fail
           \/ \E r \in Readers : Pin(r) \/ Unpin(r)
           \/ UNCHANGED vars
    PROVE  SpareInv'
<1>1. CASE ~FlipFailures /\ Fail
  BY <1>1 DEF Fail, diskVars, SpareInv
<1>2. CASE \E r \in Readers : Pin(r) \/ Unpin(r)
  BY <1>2 DEF Pin, Unpin, diskVars, SpareInv
<1>3. CASE UNCHANGED vars
  BY <1>3 DEF vars, SpareInv
<1> QED
  BY <1>1, <1>2, <1>3

\* Overwriting the older slot leaves the spare as what a crash may bring back.
LEMMA SpareFlip ==
    ASSUME IInv, SpareInv, WriteMeta PROVE SpareInv'
<1> DEFINE o == Other(committed.slot)
           new == MetaPage(draft.txn, draftMan)
<1>1. /\ pc = "synced" /\ pc' = "flipped"
      /\ UNCHANGED <<committed, nextMan, draft, draftMan>>
      /\ Write(o, new)
  BY DEF WriteMeta, Flip
<1>2. /\ TypeOK /\ o \in Slots
      /\ Spare(file, img, o, nextMan, committed.manifest)
  BY <1>1, SpareOpen
<1>3. /\ o \in Loc /\ img[o] = {file[o]}
      /\ file' = [file EXCEPT ![o] = new]
      /\ img' = [img EXCEPT ![o] = @ \cup {new, Torn}]
      /\ file \in [Loc -> Content] /\ img \in [Loc -> SUBSET Content]
  BY <1>1, <1>2, SlotFacts DEF Spare, Write, TypeOK
<1>4. ASSUME NEW d \in img'[o] \ {Torn, new}
      PROVE  Spare([file' EXCEPT ![o] = d], [img' EXCEPT ![o] = {d}], o, nextMan,
                   committed.manifest)
  <2>1. d = file[o]
    BY <1>3
  <2>2. [file' EXCEPT ![o] = d] = file /\ [img' EXCEPT ![o] = {d}] = img
    BY <1>3, <2>1
  <2> QED
    BY <1>2, <2>2
<1> QED
  BY <1>1, <1>4 DEF SpareInv

\* An acknowledged commit leaves the one before it as its spare.
LEMMA SpareCommit ==
    ASSUME NEW f \in [Loc -> Content], NEW j, \A x \in Loc : j[x] = {f[x]},
           NEW c \in [slot : Slots, man : Loc, manifest : Manifest],
           NEW m \in Manifest,
           m.txn = c.manifest.txn + 1, Held(f, c.manifest, m),
           f[c.slot] = MetaPage(c.manifest.txn, c.man),
           f[c.man] = Record(c.manifest)
    PROVE  Spare(f, j, c.slot, {c.man}, m)
<1>1. c.slot \in Loc /\ c.man \in Loc
  BY SlotFacts
<1>2. /\ f[c.slot].kind = "meta" /\ f[c.slot].man = c.man
      /\ f[c.man].kind = "manifest" /\ f[c.man].body = c.manifest
  BY DEF MetaPage, Record
<1>3. ManifestAt(f, c.slot) = c.manifest
  BY <1>2 DEF ManifestAt
<1>4. \A q \in c.manifest.live \cup {c.manifest.schema} : q.loc \in Loc
  BY ManifestFields, RefFields
<1>5. SpareTable(f, j, c.manifest, m)
  BY <1>4 DEF SpareTable
<1> QED
  BY <1>1, <1>2, <1>3, <1>5 DEF Spare

\* The second sync turns the committed table into the spare of the new one.
LEMMA SpareSyncMeta ==
    ASSUME IInv, TypeOK', SpareInv, SyncMeta PROVE SpareInv'
<1>1. /\ TypeOK /\ Coherent /\ OpenInv /\ DraftInv
      /\ pc = "flipped" /\ pc' = "idle"
  BY DEF IInv, SyncMeta
<1>2. /\ img' = [y \in Loc |-> {file[y]}] /\ file' = file
      /\ committed' = Flipped(committed, draft, draftMan)
      /\ nextMan' = {committed.man}
  BY DEF SyncMeta, SyncData, Flipped
<1>3. /\ file \in [Loc -> Content] /\ draft \in Manifest
      /\ committed \in [slot : Slots, man : Loc, manifest : Manifest]
      /\ committed.slot \in Loc /\ committed.man \in Loc
      /\ committed.manifest \in Manifest
      /\ Other(Other(committed.slot)) = committed.slot
  BY <1>1, SlotFacts DEF TypeOK
<1>4. committed'.manifest = draft /\ Other(committed'.slot) = committed.slot
  BY <1>2, <1>3 DEF Flipped
<1>5. /\ file[committed.slot] = MetaPage(committed.manifest.txn, committed.man)
      /\ file[committed.man] = Record(committed.manifest)
  BY <1>1, <1>3 DEF OpenInv, SolidCommit, SolidTable, Solid, Coherent
<1>6. draft.txn = committed.manifest.txn + 1 /\ Held(file, committed.manifest, draft)
  BY <1>1 DEF DraftInv
<1>7. Spare(file, img', committed.slot, {committed.man}, draft)
  BY <1>2, <1>3, <1>5, <1>6, SpareCommit
<1> QED
  BY <1>1, <1>2, <1>4, <1>7 DEF SpareInv

\* What a crash leaves of the spare: a page that was not being overwritten, its
\* manifest and its table are all on the medium, below the synced length.
LEMMA SpareSettled ==
    ASSUME NEW f \in [Loc -> Content], NEW i, NEW n, NEW g \in [Loc -> Content],
           NEW j, NEW k, Settled(i, n, g, j, k),
           NEW s \in Slots, NEW next, NEW m \in Manifest, Spare(f, i, s, next, m),
           s < n, m.fileLen <= n, \A x \in next : x < n
    PROVE  /\ g[s] = f[s]
           /\ Spare(g, j, s, next, m)
<1>1. s \in Loc /\ f[s] \in Content /\ m.fileLen \in Nat /\ n \in Nat
  BY SlotFacts, ManifestFields DEF Settled
<1>2. \A x \in Loc : x < n /\ i[x] = {f[x]} => g[x] = f[x]
  BY DEF Settled
<1>3. \A x \in Loc : j[x] = {g[x]}
  BY DEF Settled
<1>4. g[s] = f[s] /\ j[s] = {g[s]}
  BY <1>1, <1>2, <1>3 DEF Spare
<1>5. f[s].kind = "meta" => /\ f[s].man \in Loc /\ next = {f[s].man}
                            /\ g[f[s].man] = f[f[s].man]
                            /\ j[f[s].man] = {g[f[s].man]}
  <2> SUFFICES ASSUME f[s].kind = "meta"
               PROVE  /\ f[s].man \in Loc /\ next = {f[s].man}
                      /\ g[f[s].man] = f[f[s].man]
    BY <1>3
  <2>1. f[s].man \in Loc
    BY <1>1, ContentFields
  <2>2. next = {f[s].man} /\ i[f[s].man] = {f[f[s].man]}
    BY DEF Spare
  <2> QED
    BY <1>2, <2>1, <2>2
<1>6. Readable(g, s) <=> Readable(f, s)
  BY <1>4, <1>5 DEF Readable
<1>7. Readable(f, s) => SpareTable(g, j, ManifestAt(g, s), m)
  <2> SUFFICES ASSUME Readable(f, s) PROVE SpareTable(g, j, ManifestAt(g, s), m)
    OBVIOUS
  <2> DEFINE p == ManifestAt(f, s)
  <2>1. ManifestAt(g, s) = p
    BY <1>4, <1>5 DEF ManifestAt, Readable
  <2>2. \A q \in p.live \cup {p.schema} : q.loc \in Loc
    BY SpareFields
  <2>3. SpareTable(f, i, p, m)
    BY DEF Spare
  <2> HIDE DEF p
  <2>4. \A q \in p.live \cup {p.schema} : q.loc \in Nat /\ q.loc < n
    BY <1>1, <2>2, <2>3 DEF SpareTable, Held
  <2>5. \A q \in p.live \cup {p.schema} : g[q.loc] = f[q.loc] /\ j[q.loc] = {g[q.loc]}
    BY <1>2, <1>3, <2>2, <2>3, <2>4 DEF SpareTable
  <2>6. SpareTable(g, j, p, m)
    BY <2>3, <2>5 DEF SpareTable, Held, Intact
  <2> QED
    BY <2>1, <2>6
<1> QED
  BY <1>4, <1>5, <1>6, <1>7 DEF Spare

\* A crash keeps the spare, tears it, or makes the committed table one.
LEMMA SpareCrash ==
    ASSUME IInv, TypeOK', SpareInv, Crash PROVE SpareInv'
<1> DEFINE o == Other(committed.slot)
           F == Flipped(committed, draft, draftMan)
<1>1. /\ TypeOK /\ Coherent /\ OpenInv /\ pc # "closed" /\ pc' = "closed"
  BY DEF IInv, Crash
<1>2. PICK len \in stableLen .. ioLen, g \in Images :
         /\ file' = AfterCrash(g, len)
         /\ img' = [x \in Loc |-> {AfterCrash(g, len)[x]}]
         /\ stableLen' = len
  BY DEF Crash
<1>3. /\ stableLen \in Nat /\ ioLen \in Nat /\ len \in Nat /\ stableLen <= len
  BY <1>1 DEF TypeOK
<1>4. \A x \in Loc : x < stableLen => file'[x] \in img[x]
  <2> SUFFICES ASSUME NEW x \in Loc, x < stableLen
               PROVE  file'[x] \in img[x]
    OBVIOUS
  <2>1. x < len
    BY <1>3
  <2>2. file'[x] = IF x \in Unsynced THEN g[x] ELSE file[x]
    BY <1>2, <1>3, <2>1 DEF AfterCrash
  <2>3. x \in Unsynced => g[x] \in img[x]
    BY DEF Images
  <2> QED
    BY <1>1, <2>2, <2>3 DEF Coherent
<1>5. Settled(img, stableLen, file', img', stableLen')
  BY <1>2, <1>3, <1>4 DEF Settled
<1>6. /\ file \in [Loc -> Content] /\ file' \in [Loc -> Content]
      /\ committed \in [slot : Slots, man : Loc, manifest : Manifest]
      /\ committed.slot \in Slots /\ committed.slot \in Loc /\ o \in Slots /\ o \in Loc
      /\ Other(o) = committed.slot
      /\ committed.manifest \in Manifest /\ committed.man \in Loc /\ draft \in Manifest
  BY <1>1, SlotFacts DEF TypeOK
<1>7. /\ \A x \in Loc : file'[x] \in img'[x]
      /\ \A x \in Loc : img'[x] = {file'[x]}
  BY <1>5 DEF Settled
<1>8. o < stableLen
  BY <1>1, <1>3, <1>6, SlotsStable DEF OpenInv, SolidCommit
<1>9. file'[committed.slot] = MetaPage(committed.manifest.txn, committed.man)
      /\ file'[committed.man] = Record(committed.manifest)
  <2>1. /\ Solid(img, stableLen, committed.slot,
                 MetaPage(committed.manifest.txn, committed.man))
        /\ Solid(img, stableLen, committed.man, Record(committed.manifest))
    BY <1>1 DEF OpenInv, SolidCommit, SolidTable
  <2>2. \A x \in Loc : \A c : Solid(img, stableLen, x, c) => file'[x] = c
    BY <1>5, SettledSolid
  <2> QED
    BY <1>6, <2>1, <2>2
<1>10. CASE Survives(file', img', stableLen', committed)
  <2>1. /\ committed.slot \in Slots /\ Readable(file', committed.slot)
        /\ OlderSlot(img', CommitAt(file', committed.slot))
        /\ CommitAt(file', committed.slot) = committed
    BY <1>10 DEF Survives
  <2>2. Winners(file') = {committed.slot}
    BY <1>6, <1>7, <2>1, OnlyWinner
  <2>3. ManifestAt(file', committed.slot) = committed.manifest
    BY <2>1 DEF CommitAt
  <2>4. /\ committed.manifest.fileLen <= stableLen
        /\ \A x \in nextMan : x < stableLen
    <3>1. /\ committed.manifest.fileLen <= stableLen
          /\ \A x \in nextMan : x < committed.manifest.fileLen
      BY <1>1 DEF OpenInv, SolidCommit, SolidTable, Apart
    <3>2. committed.manifest.fileLen \in Nat /\ nextMan \subseteq Nat
      BY <1>1, <1>6, ManifestFields DEF TypeOK
    <3> QED
      BY <1>3, <3>1, <3>2
  <2>5. ASSUME Spare(file', img', o, nextMan, committed.manifest)
        PROVE  SpareInv'
    <3>1. file'[o].kind = "meta" => LoserManifest(file', committed.slot) = nextMan
      BY <2>5 DEF LoserManifest, Spare
    <3>2. Spare(file', img', o, LoserManifest(file', committed.slot), committed.manifest)
      BY <2>5, <3>1 DEF Spare
    <3> QED
      BY <1>1, <2>2, <2>3, <3>2 DEF SpareInv
  <2>6. CASE pc # "flipped"
    <3>1. Spare(file, img, o, nextMan, committed.manifest)
      BY <1>1, <2>6 DEF SpareInv
    <3>2. Spare(file', img', o, nextMan, committed.manifest)
      <4> HIDE DEF o, Slots, Loc
      <4>1. /\ file \in [Loc -> Content] /\ file' \in [Loc -> Content]
            /\ o \in Slots /\ committed.manifest \in Manifest
        BY <1>6
      <4> QED
        BY ONLY <4>1, <1>5, <1>8, <2>4, <3>1, SpareSettled
    <3> QED
      BY <2>5, <3>2
  <2>7. CASE pc = "flipped"
    <3>1. file'[o] \in img[o]
      BY <1>4, <1>6, <1>8
    <3>2. DraftInv
      BY <2>7 DEF IInv
    <3>3. OlderMeta(file'[o], committed)
      BY <1>6, <1>7, <1>10 DEF Survives, OlderSlot
    <3>4. file'[o] # MetaPage(draft.txn, draftMan)
      <4>1. /\ draft.txn = committed.manifest.txn + 1
            /\ committed.manifest.txn \in Nat
        BY <1>6, <3>2, ManifestFields DEF DraftInv
      <4> QED
        BY <3>3, <4>1 DEF OlderMeta, MetaPage, Torn
    <3>5. CASE file'[o] = Torn
      <4>1. file'[o].kind = "torn"
        BY <3>5 DEF Torn
      <4>2. Spare(file', img', o, LoserManifest(file', committed.slot),
                  committed.manifest)
        BY <1>6, <1>7, <4>1 DEF Spare, Readable
      <4> QED
        BY <1>1, <2>2, <2>3, <4>2 DEF SpareInv
    <3>6. CASE file'[o] # Torn
      <4> DEFINE f == [file EXCEPT ![o] = file'[o]]
                 i == [img EXCEPT ![o] = {file'[o]}]
      <4>1. Spare(f, i, o, nextMan, committed.manifest)
        BY <2>7, <3>1, <3>4, <3>6 DEF SpareInv
      <4>2. f \in [Loc -> Content]
        BY <1>6
      <4>3. Settled(i, stableLen, file', img', stableLen')
        BY <1>1, <1>5, <1>6 DEF Settled, TypeOK
      <4> HIDE DEF f, i, o, Slots, Loc
      <4>4. file' \in [Loc -> Content] /\ o \in Slots /\ committed.manifest \in Manifest
        BY <1>6
      <4>5. Spare(file', img', o, nextMan, committed.manifest)
        BY ONLY <1>8, <2>4, <4>1, <4>2, <4>3, <4>4, SpareSettled
      <4> QED
        BY <2>5, <4>5
    <3> QED
      BY <3>5, <3>6
  <2> QED
    BY <2>6, <2>7
<1>11. CASE /\ pc = "flipped"
            /\ Survives(file', img', stableLen', F)
  <2>1. F.slot = o /\ F.manifest = draft
    BY DEF Flipped
  <2>2. /\ o \in Slots /\ Readable(file', o)
        /\ OlderSlot(img', CommitAt(file', o))
        /\ CommitAt(file', o) = F
    BY <1>11, <2>1 DEF Survives
  <2>3. Winners(file') = {o}
    BY <1>6, <1>7, <2>2, OnlyWinner
  <2>4. ManifestAt(file', o) = draft
    BY <2>1, <2>2 DEF CommitAt
  <2>5. DraftInv
    BY <1>11 DEF IInv
  <2>6. draft.txn = committed.manifest.txn + 1
    BY <2>5 DEF DraftInv
  <2>7. Held(file', committed.manifest, draft)
    <3>1. \A q \in committed.manifest.live \cup {committed.manifest.schema} :
             q.loc \in Loc
      BY <1>6, ManifestFields, RefFields
    <3>2. TableIntact(file', committed.manifest)
      BY <1>1, <1>5, <1>6, SettledTable DEF OpenInv, SolidCommit
    <3> QED
      BY <2>5, <3>2 DEF DraftInv, Held, TableIntact
  <2>8. Spare(file', img', committed.slot, {committed.man}, draft)
    BY <1>6, <1>7, <1>9, <2>6, <2>7, SpareCommit
  <2>9. LoserManifest(file', o) = {committed.man}
    BY <1>6, <1>9 DEF LoserManifest, MetaPage
  <2> QED
    BY <1>1, <1>6, <2>3, <2>4, <2>8, <2>9 DEF SpareInv
<1> QED
  BY <1>10, <1>11, CrashOutcome

\* Opening takes the winner, and the loser is its spare.
LEMMA SpareOpenStep ==
    ASSUME IInv, SpareInv, Open PROVE SpareInv'
<1>1. pc = "closed" /\ pc' = "idle" /\ UNCHANGED <<file, img>>
  BY DEF Open, diskVars
<1>2. PICK s \in Winners(file) :
         committed' = CommitAt(file, s) /\ nextMan' = LoserManifest(file, s)
  BY DEF Open
<1>3. committed'.slot = s /\ committed'.manifest = ManifestAt(file, s)
  BY <1>2 DEF CommitAt
<1>4. Spare(file, img, Other(s), LoserManifest(file, s), ManifestAt(file, s))
  BY <1>1 DEF SpareInv
<1> QED
  BY <1>1, <1>2, <1>3, <1>4 DEF SpareInv

\* A created file holds two tables, the second a spare of the first.
LEMMA SpareInit == Init => SpareInv
<1> SUFFICES ASSUME Init PROVE SpareInv
  OBVIOUS
<1>0. PICK p \in Payloads : Init!(p)
  BY DEF Init
<1> USE TableFileAssumption
<1> DEFINE M == Seed(1, FirstLoc + 1, p)
           S == Seed(0, SeedLoc + 1, p)
<1>1. /\ file[1] = MetaPage(0, 3) /\ file[2] = Bytes(p) /\ file[3] = Record(S)
      /\ \A x \in Loc : img[x] = {file[x]}
  BY <1>0 DEF Created
<1>2. /\ M.txn = 1 /\ M.live = {} /\ M.free = {} /\ M.fileLen = 5
      /\ S.txn = 0 /\ S.live = {} /\ S.schema.loc = 2 /\ S.schema.tag = p
  BY DEF Seed
<1>3. /\ committed.slot = 0 /\ committed.manifest = M /\ nextMan = {3}
      /\ pc = "idle" /\ Other(0) = 1
  BY <1>0 DEF Other
<1>4. /\ file[1].kind = "meta" /\ file[1].man = 3 /\ file[3].body = S
  BY <1>1 DEF MetaPage, Record
<1> HIDE DEF M, S
<1>5. ManifestAt(file, 1) = S
  BY <1>4 DEF ManifestAt
<1>6. SpareTable(file, img, S, M)
  BY <1>1, <1>2 DEF SpareTable, Held, Intact
<1>7. Spare(file, img, 1, {3}, M)
  BY <1>1, <1>4, <1>5, <1>6 DEF Spare
<1> QED
  BY <1>3, <1>7 DEF SpareInv

\* Every step keeps the spare.
LEMMA SpareNext ==
    ASSUME ~Rewrites, ~FlipFailures, IInv, SpareInv, [Next]_vars PROVE SpareInv'
<1>1. TypeOK'
  BY NextType DEF IInv
<1>2. CASE UNCHANGED vars
  BY <1>2, SpareQuiet
<1>3. CASE Next
  <2>1. CASE Begin
    BY <2>1, SpareBegin
  <2>2. CASE \E p \in Payloads : WriteSchema(p)
    BY <2>2, SpareSchema
  <2>3. CASE \E p \in Payloads : \E f \in draft.free : WriteReused(f, p)
    BY <2>3, SpareReused
  <2>4. CASE \E p \in Payloads : \E x \in Loc : WriteGrown(x, p)
    BY <2>4, SpareGrown
  <2>5. CASE ConvertSegments
    BY <2>5 DEF ConvertSegments
  <2>6. CASE \E r \in draft.live : Drop(r)
    BY <2>6, SpareDrop
  <2>7. CASE WriteManifest
    BY <2>7, SpareManifest
  <2>8. CASE SyncManifest
    BY <2>8, SpareSync
  <2>9. CASE WriteMeta
    BY <2>9, SpareFlip
  <2>10. CASE SyncMeta
    BY <1>1, <2>10, SpareSyncMeta
  <2>11. CASE Fail
    BY <2>11, SpareQuiet
  <2>12. CASE Crash
    BY <1>1, <2>12, SpareCrash
  <2>13. CASE Open
    BY <2>13, SpareOpenStep
  <2>14. CASE \E r \in Readers : Pin(r) \/ Unpin(r)
    BY <2>14, SpareQuiet
  <2> QED
    BY <1>3, <2>1, <2>2, <2>3, <2>4, <2>5, <2>6, <2>7, <2>8, <2>9, <2>10,
       <2>11, <2>12, <2>13, <2>14 DEF Next
<1> QED
  BY <1>2, <1>3

\* The older slot leads to a whole table until the moment a commit overwrites
\* it: no reuse, growth, schema change, failed commit or crash costs the table
\* its second copy.
THEOREM OlderSlotStaysWhole ==
    ASSUME ~Rewrites, ~FlipFailures
    PROVE  Spec => []FallbackIntact
<1>1. IInv /\ SpareInv /\ [Next]_vars => SpareInv'
  BY SpareNext
<1>2. IInv /\ SpareInv => FallbackIntact
  BY SpareOpen DEF FallbackIntact, TableIntact, Held
<1> QED
  BY <1>1, <1>2, Inductive, SpareInit, PTL DEF Spec

----------------------------------------------------------------------------
(* The file implements the atomic commit.                                  *)

\* What a table reads as when all its bytes are the ones written for it.
Ideal(m) == [txn |-> m.txn,
             entries |-> [r \in m.live |-> Bytes(r.tag)],
             schema |-> Bytes(m.schema.tag)]

\* A table whose bytes are all intact reads as the ideal one.
LEMMA IntactContents ==
    ASSUME NEW f, NEW m, TableIntact(f, m)
    PROVE  Contents(f, m) = Ideal(m)
BY DEF TableIntact, Intact, Contents, Ideal

\* While the file is open it is the committed table.
OpenView ==
    /\ pc # "closed" =>
          Contents(file, committed.manifest) = Ideal(committed.manifest)
    /\ pc = "flipped" => Contents(file, draft) = Ideal(draft)

\* Under the invariant the open file reads as the committed table.
LEMMA ImpliesOpenView == IInv => OpenView
<1> SUFFICES ASSUME IInv PROVE OpenView
  OBVIOUS
<1>1. pc # "closed" => TableIntact(file, committed.manifest)
  BY ImpliesReadable DEF SnapshotsReadable, SchemaReachable, TableIntact
<1>2. pc = "flipped" => TableIntact(file, draft)
  BY DEF IInv, DraftInv
<1> QED
  BY <1>1, <1>2, IntactContents DEF OpenView

\* A commit that survives is what the next open will find.
LEMMA SurvivorView ==
    ASSUME NEW f \in [Loc -> Content], NEW i, NEW n,
           \A x \in Loc : f[x] \in i[x],
           NEW c, Survives(f, i, n, c)
    PROVE  /\ Winners(f) = {c.slot}
           /\ ManifestAt(f, CHOOSE s \in Winners(f) : TRUE) = c.manifest
           /\ Contents(f, c.manifest) = Ideal(c.manifest)
<1>1. Winners(f) = {c.slot}
  <2>1. /\ c.slot \in Slots /\ Readable(f, c.slot)
        /\ OlderSlot(i, CommitAt(f, c.slot))
    BY DEF Survives
  <2> QED
    BY <2>1, OnlyWinner, Zenon
<1>2. ManifestAt(f, c.slot) = c.manifest /\ c.man = f[c.slot].man
  BY DEF Survives, CommitAt
<1>3. (CHOOSE s \in Winners(f) : TRUE) = c.slot
  BY <1>1
<1>4. c.manifest \in Manifest
  <2>1. f[c.slot].man \in Loc
    BY ContentFields, SlotFacts DEF Survives, Readable
  <2> QED
    <3>1. f[c.man] \in Content
      BY <1>2, <2>1
    <3>2. f[c.man].kind = "manifest" /\ f[c.man].body = c.manifest
      BY <1>2 DEF Survives, Readable, ManifestAt
    <3> QED
      BY <3>1, <3>2, ContentFields
<1>5. TableIntact(f, c.manifest)
  <2>1. \A r \in c.manifest.live \cup {c.manifest.schema} :
           i[r.loc] = {Bytes(r.tag)}
    BY DEF Survives, SolidCommit, SolidTable, Solid
  <2>2. \A r \in c.manifest.live \cup {c.manifest.schema} : r.loc \in Loc
    BY <1>4, ManifestFields, RefFields
  <2>3. \A r \in c.manifest.live \cup {c.manifest.schema} : f[r.loc] \in i[r.loc]
    BY <2>2
  <2> QED
    BY <2>1, <2>3 DEF TableIntact, Intact
<1> QED
  BY <1>1, <1>2, <1>3, <1>5, IntactContents

\* While it is closed it is the table of the one slot recovery can pick.
LEMMA ClosedView ==
    ASSUME IInv, pc = "closed", NEW s \in Winners(file)
    PROVE  /\ Recovered = ManifestAt(file, s)
           /\ Contents(file, Recovered) = Ideal(ManifestAt(file, s))
<1>1. TypeOK /\ Coherent /\ ClosedInv
  BY DEF IInv
<1>2. PICK w \in Slots : Winners(file) = {w}
  BY <1>1, OnlyWinner DEF ClosedInv, TypeOK, Coherent
<1>3. Recovered = ManifestAt(file, s)
  BY <1>2 DEF Recovered
<1>4. TableIntact(file, ManifestAt(file, s))
  BY <1>2, ImpliesRecovery DEF RecoversWholeCommit
<1> QED
  BY <1>3, <1>4, IntactContents

\* A crash leaves the committed table or the one the flip had named.
LEMMA CrashView ==
    ASSUME IInv, IInv', Crash
    PROVE  \/ Contents(file', Recovered') = Ideal(committed.manifest)
           \/ /\ pc = "flipped"
              /\ Contents(file', Recovered') = Ideal(draft)
<1>1. file' \in [Loc -> Content] /\ \A x \in Loc : file'[x] \in img'[x]
  BY DEF IInv, TypeOK, Coherent
<1>2. ASSUME NEW c, Survives(file', img', stableLen', c)
      PROVE  Contents(file', Recovered') = Ideal(c.manifest)
  <2>1. /\ ManifestAt(file', CHOOSE s \in Winners(file') : TRUE) = c.manifest
        /\ Contents(file', c.manifest) = Ideal(c.manifest)
    BY <1>1, <1>2, SurvivorView
  <2> QED
    BY <2>1 DEF Recovered
<1>3. TypeOK'
  BY DEF IInv
<1> QED
  BY <1>2, <1>3, CrashOutcome DEF Flipped

\* Every step of the file is a step of the atomic commit or leaves its view.
LEMMA StepView ==
    ASSUME ~FlipFailures, IInv, IInv', OpenView, OpenView', [Next]_vars
    PROVE  [Atomic!Next]_(Atomic!vars)
<1> DEFINE M == committed.manifest
           T == Contents(file, IF pc = "closed" THEN Recovered ELSE M)
           P == IF pc = "flipped" THEN {Contents(file, draft)} ELSE {}
<1>1. CASE SyncMeta
  <2>1. /\ pc = "flipped" /\ pc' = "idle" /\ committed'.manifest = draft
    BY <1>1 DEF SyncMeta
  <2>2. T' = Ideal(draft) /\ P = {Ideal(draft)} /\ P' = {}
    BY <2>1 DEF OpenView
  <2>3. Atomic!Acknowledge
    BY <2>1, <2>2 DEF Atomic!Acknowledge
  <2> QED
    BY <2>3 DEF Atomic!Next
<1>2. CASE WriteMeta
  <2>1. /\ pc = "synced" /\ pc' = "flipped" /\ draft' = draft
        /\ committed' = committed
    BY <1>2 DEF WriteMeta, Flip
  <2>2. T = Ideal(M) /\ T' = Ideal(M) /\ P = {} /\ P' = {Ideal(draft)}
    BY <2>1 DEF OpenView
  <2>3. draft.txn = M.txn + 1
    BY <2>1 DEF IInv, DraftInv
  <2>4. Atomic!Propose
    BY <2>1, <2>2, <2>3 DEF Atomic!Propose, Ideal
  <2> QED
    BY <2>4 DEF Atomic!Next
<1>3. CASE Crash
  <2>1. pc # "closed" /\ pc' = "closed"
    BY <1>3 DEF Crash
  <2>2. T = Ideal(M) /\ P = (IF pc = "flipped" THEN {Ideal(draft)} ELSE {}) /\ P' = {}
    BY <2>1 DEF OpenView
  <2>3. T' = Contents(file', Recovered')
    BY <2>1
  <2>4. T' \in {T} \cup P
    BY <1>3, <2>2, <2>3, CrashView
  <2>5. Atomic!Crash
    BY <2>1, <2>2, <2>4 DEF Atomic!Crash
  <2> QED
    BY <2>5 DEF Atomic!Next
<1>4. CASE Open
  <2>1. pc = "closed" /\ pc' = "idle" /\ file' = file
    BY <1>4 DEF Open, diskVars
  <2>2. PICK s \in Winners(file) : committed' = CommitAt(file, s)
    BY <1>4 DEF Open
  <2>3. committed'.manifest = ManifestAt(file, s)
    BY <2>2 DEF CommitAt
  <2>4. T' = Ideal(ManifestAt(file, s)) /\ T = Ideal(ManifestAt(file, s))
    BY <2>1, <2>3, ClosedView DEF OpenView
  <2>5. Atomic!Recover
    BY <2>1, <2>4 DEF Atomic!Recover
  <2> QED
    BY <2>5 DEF Atomic!Next
<1>5. ASSUME UNCHANGED <<file, pc, committed, draft>>
      PROVE  UNCHANGED Atomic!vars
  <2>1. Recovered' = Recovered
    BY <1>5 DEF Recovered
  <2> QED
    BY <1>5, <2>1 DEF Atomic!vars
<1>6. ASSUME pc \notin {"closed", "flipped"}, pc' \notin {"closed", "flipped"},
             committed' = committed
      PROVE  UNCHANGED Atomic!vars
  BY <1>6 DEF Atomic!vars, OpenView
<1>7. CASE UNCHANGED vars
  BY <1>5, <1>7 DEF vars
<1>8. CASE Begin
  BY <1>6, <1>8 DEF Begin
<1>9. CASE \E p \in Payloads : WriteSchema(p)
  BY <1>6, <1>9 DEF WriteSchema
<1>10. CASE \E p \in Payloads : \E f \in draft.free : WriteReused(f, p)
  BY <1>6, <1>10 DEF WriteReused, Place
<1>11. CASE \E p \in Payloads : \E x \in Loc : WriteGrown(x, p)
  BY <1>6, <1>11 DEF WriteGrown, Place
<1>12. CASE ConvertSegments
  BY <1>6, <1>12 DEF ConvertSegments
<1>13. CASE \E r \in draft.live : Drop(r)
  BY <1>6, <1>13 DEF Drop, Supersede
<1>14. CASE WriteManifest
  BY <1>6, <1>14 DEF WriteManifest, PutManifest
<1>15. CASE SyncManifest
  BY <1>6, <1>15 DEF SyncManifest
<1>16. CASE Fail
  BY <1>6, <1>16 DEF Fail
<1>17. CASE \E r \in Readers : Pin(r) \/ Unpin(r)
  BY <1>5, <1>17 DEF Pin, Unpin, diskVars
<1> QED
  BY <1>1, <1>2, <1>3, <1>4, <1>7, <1>8, <1>9, <1>10, <1>11, <1>12, <1>13,
     <1>14, <1>15, <1>16, <1>17 DEF Next

\* The two-slot file implements the atomic commit: the table an application
\* sees changes only as a whole, when a commit is acknowledged or when a crash
\* lets the one whose flip was under way through.
THEOREM FileImplementsAtomicCommit ==
    ASSUME ~Rewrites, ~FlipFailures
    PROVE  Spec => CommitIsAtomic
<1>1. Init => Atomic!Init
  BY DEF Init, Atomic!Init
<1>2. IInv /\ IInv' /\ OpenView /\ OpenView' /\ [Next]_vars
         => [Atomic!Next]_(Atomic!vars)
  BY StepView
<1> QED
  BY <1>1, <1>2, Inductive, ImpliesOpenView, PTL DEF Spec, CommitIsAtomic, Atomic!Spec

============================================================================
