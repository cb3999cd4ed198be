--------------------------- MODULE ColumnarProofs ---------------------------
(***************************************************************************)
(* Proofs about ColumnarTable, for any tasks, keys and workloads.          *)
(*                                                                         *)
(* The layers rest on one another: types and finiteness, the identities of *)
(* segments and rows, and on those, each under the workloads it holds for, *)
(* extents freed once, segments that fit the schema, rows held once and    *)
(* scans that are exact.                                                   *)
(***************************************************************************)
EXTENDS ColumnarTable, FiniteSetTheorems, TLAPS

----------------------------------------------------------------------------
(* Types, with the finiteness that counting rows needs.                    *)

Fin(S) == {x \in SUBSET S : IsFiniteSet(x)}

FSegment == [id : Nat, rows : Fin(Row), schema : Schema, map : SUBSET Nat]
FSnapshot == [segs : Fin(FSegment), dead : Fin(Deleted), mem : Fin(Held),
              schema : Schema]
Hit == [id : Nat, row : Row, schema : Schema]
Dml == {"delete", "update"}

Inserting == [at : {"insert"}, key : Keys, schema : Schema]
Pinned == [at : {"pinned"}, op : Dml, key : Keys, snap : FSnapshot,
           left : Fin(FSegment), hits : Fin(Hit)]
Matching == [at : {"matched", "ready"}, op : Dml, key : Keys, snap : FSnapshot,
             hits : Fin(Hit), seqs : SUBSET Nat, old : Fin(Row),
             schemas : Fin(Schema)]
Compacting == [at : {"compact"}, todo : SUBSET Nat]
Rewriting == [at : {"rewrite"}, run : SUBSET Nat, todo : SUBSET Nat, snap : FSnapshot]
Altering == [at : {"alter", "flushed"}, op : {"cast", "widen"}, after : Schema]
Loaded == [at : {"loaded"}, op : {"cast", "widen"}, after : Schema, before : Schema]
Sourced == [at : {"sourced"}, op : {"cast", "widen"}, after : Schema,
            before : Schema, snap : FSnapshot]
Adopting == [at : {"adopt"}, after : Schema]

TaskState == {Idle} \cup Inserting \cup Pinned \cup Matching \cup Compacting
             \cup Rewriting \cup Altering \cup Loaded \cup Sourced \cup Adopting

TypeInv ==
    /\ load \in Workloads
    /\ segs \in Fin(FSegment)
    /\ dead \in Fin(Deleted)
    /\ dirty \in SUBSET Nat
    /\ mem \in Fin(Held)
    /\ nextSeq \in Nat /\ nextId \in Nat /\ txn \in Nat
    /\ schema \in Schema
    /\ current \in FSnapshot
    /\ holder \in SUBSET Tasks
    /\ task \in [Tasks -> TaskState]
    /\ freed \in SUBSET [id : Nat, map : Nat]
    /\ doubled \in SUBSET freed
    /\ truth \in SUBSET Row

\* What a task knows at each place of its call.
LEMMA TaskAt ==
    ASSUME NEW c \in TaskState
    PROVE  /\ c.at \in {"idle", "insert", "pinned", "matched", "ready", "compact",
                        "rewrite", "alter", "flushed", "loaded", "sourced", "adopt"}
           /\ c.at = "idle" => c = Idle
           /\ c.at = "insert" => c \in Inserting
           /\ c.at = "pinned" => c \in Pinned
           /\ c.at \in {"matched", "ready"} => c \in Matching
           /\ c.at = "compact" => c \in Compacting
           /\ c.at = "rewrite" => c \in Rewriting
           /\ c.at \in {"alter", "flushed"} => c \in Altering
           /\ c.at = "loaded" => c \in Loaded
           /\ c.at = "sourced" => c \in Sourced
           /\ c.at = "adopt" => c \in Adopting
<1>1. Idle.at = "idle"
      BY DEF Idle
<1>2. /\ c \in Inserting => c.at = "insert"
      /\ c \in Pinned => c.at = "pinned"
      /\ c \in Matching => c.at \in {"matched", "ready"}
      /\ c \in Compacting => c.at = "compact"
      /\ c \in Rewriting => c.at = "rewrite"
      /\ c \in Altering => c.at \in {"alter", "flushed"}
      /\ c \in Loaded => c.at = "loaded"
      /\ c \in Sourced => c.at = "sourced"
      /\ c \in Adopting => c.at = "adopt"
      BY DEF Inserting, Pinned, Matching, Compacting, Rewriting, Altering, Loaded,
             Sourced, Adopting
<1> QED BY <1>1, <1>2 DEF TaskState

----------------------------------------------------------------------------
(* Finite sets of rows and segments.                                       *)

\* The image of a finite set is finite.
LEMMA ImageFinite ==
    ASSUME NEW S, IsFiniteSet(S), NEW f
    PROVE  IsFiniteSet({f[x] : x \in S})
<1> DEFINE T == {f[x] : x \in S}
           g == [x \in S |-> f[x]]
<1>1. g \in Surjection(S, T)
      BY DEF Surjection
<1> QED BY <1>1, FS_Surjection

\* The image of a finite set is a finite part of U.
LEMMA ImageFin ==
    ASSUME NEW S, IsFiniteSet(S), NEW f, NEW U, NEW T \in SUBSET U,
           T = {f[x] : x \in S}
    PROVE  T \in Fin(U)
BY ImageFinite DEF Fin

\* Rows that bitmaps keep.
LEMMA LiveFinite ==
    ASSUME NEW es \in Fin(FSegment), NEW d
    PROVE  /\ LiveRows(es, d) \in Fin(Row)
           /\ \A e \in es : Live(e, d) \in Fin(Row)
<1>1. \A e \in es : Live(e, d) \in Fin(Row)
  <2> SUFFICES ASSUME NEW e \in es PROVE Live(e, d) \in Fin(Row)
      OBVIOUS
  <2>1. e.rows \in Fin(Row)
        BY DEF Fin, FSegment
  <2>2. Live(e, d) \in SUBSET e.rows
        BY DEF Live
  <2>3. IsFiniteSet(Live(e, d))
        BY <2>1, <2>2, FS_Subset DEF Fin
  <2> QED BY <2>1, <2>2, <2>3 DEF Fin
<1> DEFINE f == [e \in es |-> Live(e, d)]
<1>2. {Live(e, d) : e \in es} = {f[e] : e \in es}
      OBVIOUS
<1> HIDE DEF f
<1>3. IsFiniteSet({Live(e, d) : e \in es})
      BY <1>2, ImageFinite DEF Fin
<1>4. IsFiniteSet(UNION {Live(e, d) : e \in es})
      BY <1>1, <1>3, FS_UNION DEF Fin
<1> QED BY <1>1, <1>4 DEF LiveRows, Fin

\* Finite parts of S are closed under what the actions do to them.
LEMMA FinClosed ==
    ASSUME NEW S, NEW A \in Fin(S)
    PROVE  /\ {} \in Fin(S)
           /\ \A x \in S : {x} \in Fin(S)
           /\ \A B \in Fin(S) : A \cup B \in Fin(S)
           /\ \A B \in SUBSET A : B \in Fin(S)
           /\ \A B : A \ B \in Fin(S)
<1>1. \A B \in Fin(S) : A \cup B \in Fin(S)
      BY FS_Union DEF Fin
<1>2. \A B \in SUBSET A : B \in Fin(S)
      BY FS_Subset DEF Fin
<1> QED BY <1>1, <1>2, FS_EmptySet, FS_Singleton DEF Fin

\* write_segment adds at most one segment.
LEMMA NewSegmentType ==
    ASSUME nextId \in Nat, NEW rows \in Fin(Row), NEW s \in Schema
    PROVE  /\ NewSegment(rows, s) \in Fin(FSegment)
           /\ Cardinality(NewSegment(rows, s)) = IF rows = {} THEN 0 ELSE 1
<1>1. CASE rows = {}
      BY <1>1, FS_EmptySet DEF NewSegment, Fin
<1>2. CASE rows # {}
  <2>1. [id |-> nextId, rows |-> rows, schema |-> s, map |-> {}] \in FSegment
        BY DEF FSegment
  <2> QED BY <1>2, <2>1, FS_Singleton DEF NewSegment, Fin
<1> QED BY <1>1, <1>2

\* Bitmaps are written in the place of the ones before.
LEMMA RemapType ==
    ASSUME segs \in Fin(FSegment), txn \in Nat
    PROVE  /\ {Remap(e) : e \in segs} \in Fin(FSegment)
           /\ \A e \in segs : /\ Remap(e) \in FSegment
                              /\ Remap(e).id = e.id /\ Remap(e).rows = e.rows
                              /\ Remap(e).schema = e.schema
                              /\ Remap(e).map = e.map \/ Remap(e).map = {txn + 1}
<1>1. ASSUME NEW e \in segs
      PROVE  /\ Remap(e) \in FSegment
             /\ Remap(e).id = e.id /\ Remap(e).rows = e.rows
             /\ Remap(e).schema = e.schema
             /\ Remap(e).map = e.map \/ Remap(e).map = {txn + 1}
  <2>1. e \in FSegment
        BY DEF Fin
  <2>2. {txn + 1} \in SUBSET Nat
        OBVIOUS
  <2>3. CASE Remap(e) = e
        BY <2>1, <2>3
  <2>4. CASE Remap(e) = [e EXCEPT !.map = {txn + 1}]
        BY <2>1, <2>2, <2>4 DEF FSegment
  <2> QED BY <2>3, <2>4 DEF Remap
<1> DEFINE f == [e \in segs |-> Remap(e)]
<1>2. {Remap(e) : e \in segs} = {f[e] : e \in segs}
      OBVIOUS
<1> HIDE DEF f
<1>3. IsFiniteSet({Remap(e) : e \in segs})
      BY <1>2, ImageFinite DEF Fin
<1> QED BY <1>1, <1>3 DEF Fin

\* Extents are pairs of a segment and a bitmap of it.
LEMMA ExtentsType ==
    ASSUME NEW es, es \subseteq FSegment
    PROVE  Extents(es) \subseteq [id : Nat, map : Nat]
BY DEF Extents, FSegment

\* A call moves on; the other tasks stay where they are.
LEMMA GoesType ==
    ASSUME task \in [Tasks -> TaskState], NEW t \in Tasks, NEW c \in TaskState, Goes(t, c)
    PROVE  /\ task' \in [Tasks -> TaskState]
           /\ task'[t] = c
           /\ \A u \in Tasks : u # t => task'[u] = task[u]
BY DEF Goes

\* publish makes a snapshot.
LEMMA PublishType ==
    ASSUME segs' \in Fin(FSegment), dead' \in Fin(Deleted), mem' \in Fin(Held),
           NEW s \in Schema, Publish(s)
    PROVE  current' \in FSnapshot
BY DEF Publish, FSnapshot

\* What is freed twice has been freed.
LEMMA FreeType ==
    ASSUME freed \in SUBSET [id : Nat, map : Nat], doubled \in SUBSET freed,
           NEW xs, xs \subseteq [id : Nat, map : Nat], Free(xs)
    PROVE  freed' \in SUBSET [id : Nat, map : Nat] /\ doubled' \in SUBSET freed'
BY DEF Free


----------------------------------------------------------------------------
(* Every step keeps the types.                                             *)

LEMMA InsertType ==
    ASSUME TypeInv, NEW t \in Tasks, Insert(t), UNCHANGED load
    PROVE  TypeInv'
<1> DEFINE r == [seq |-> nextSeq, key |-> task[t].key]
<1>1. task[t] \in Inserting /\ Idle \in TaskState
      BY TaskAt DEF TypeInv, Insert, TaskState
<1>2. r \in Row /\ [row |-> r, schema |-> task[t].schema, batch |-> nextSeq] \in Held
      BY <1>1 DEF TypeInv, Row, Held, Inserting
<1>3. mem' \in Fin(Held)
      BY <1>2, FinClosed DEF TypeInv, Insert
<1>4. current' \in FSnapshot
      BY <1>3, PublishType DEF TypeInv, Insert
<1>5. task' \in [Tasks -> TaskState]
      BY <1>1, GoesType DEF TypeInv, Insert
<1> QED BY <1>2, <1>3, <1>4, <1>5 DEF TypeInv, Insert

\* A call starts, and a DML statement reads.
LEMMA QuietType ==
    ASSUME TypeInv, UNCHANGED <<load, writer, schema, current, holder>>,
           truth' \subseteq truth, NEW t \in Tasks, NEW c \in TaskState, Goes(t, c)
    PROVE  TypeInv'
<1>1. task' \in [Tasks -> TaskState]
      BY GoesType DEF TypeInv
<1> QED BY <1>1 DEF TypeInv, writer

\* What a statement finds in one segment.
Part(e, d, k, s) ==
    {[id |-> e.id, row |-> r, schema |-> s] : r \in {x \in Live(e, d) : x.key = k}}

LEMMA PartFinite ==
    ASSUME NEW es \in Fin(FSegment), NEW e \in es, NEW d, NEW k, NEW s \in Schema
    PROVE  Part(e, d, k, s) \in Fin(Hit)
<1> DEFINE M == {x \in Live(e, d) : x.key = k}
           part == {[id |-> e.id, row |-> r, schema |-> s] : r \in M}
           f == [r \in M |-> [id |-> e.id, row |-> r, schema |-> s]]
<1>0. Live(e, d) \in Fin(Row) /\ M \in SUBSET Live(e, d)
      BY LiveFinite
<1>1. M \in Fin(Row)
      BY <1>0, FinClosed
<1>2. part = {f[r] : r \in M}
      OBVIOUS
<1>3. part \in SUBSET Hit
      BY <1>1 DEF Hit, Fin, FSegment
<1> HIDE DEF f, M
<1>4. IsFiniteSet(M)
      BY <1>1 DEF Fin
<1> HIDE DEF part
<1>5. part \in Fin(Hit)
      BY <1>2, <1>3, <1>4, ImageFin
<1> QED BY <1>5 DEF part, M, Part

\* The two outcomes of reading a segment.
LEMMA ReadSegmentIs ==
    ASSUME NEW t, ReadSegment(t)
    PROVE  /\ task[t].at = "pinned"
           /\ UNCHANGED <<writer, schema, current, holder, truth>>
           /\ \E e \in task[t].left :
                \/ Goes(t, Idle)
                \/ /\ Accepts(schema, e)
                   /\ Goes(t, [task[t] EXCEPT !.left = @ \ {e},
                         !.hits = @ \cup Part(e, task[t].snap.dead, task[t].key, schema)])
BY Zenon DEF ReadSegment, Part

\* A statement goes on with what it found, or ends.
LEMMA ReadSegmentGoes ==
    ASSUME TypeInv, NEW t \in Tasks, ReadSegment(t)
    PROVE  /\ task[t].at = "pinned" /\ task[t] \in Pinned
           /\ \/ task'[t] = Idle
              \/ /\ task'[t].at = "pinned" /\ task'[t].op = task[t].op
                 /\ task'[t].key = task[t].key /\ task'[t].snap = task[t].snap
                 /\ \E e \in task[t].left :
                      /\ Accepts(schema, e)
                      /\ task'[t].left = task[t].left \ {e}
                      /\ task'[t].hits = task[t].hits \cup
                            Part(e, task[t].snap.dead, task[t].key, schema)
<1>1. task[t].at = "pinned" /\ task[t] \in Pinned
      BY ReadSegmentIs, TaskAt DEF TypeInv
<1> DEFINE c == task[t]
           read(e) == [c EXCEPT !.left = @ \ {e},
                         !.hits = @ \cup Part(e, c.snap.dead, c.key, schema)]
<1>2. PICK e \in c.left : Goes(t, Idle) \/ (Accepts(schema, e) /\ Goes(t, read(e)))
      BY ReadSegmentIs
<1>3. /\ read(e).at = "pinned" /\ read(e).op = c.op /\ read(e).key = c.key
      /\ read(e).snap = c.snap /\ read(e).left = c.left \ {e}
      /\ read(e).hits = c.hits \cup Part(e, c.snap.dead, c.key, schema)
      BY <1>1 DEF Pinned
<1> HIDE DEF read
<1>4. task'[t] = Idle \/ (Accepts(schema, e) /\ task'[t] = read(e))
      BY <1>2 DEF Goes, TypeInv
<1> QED BY <1>1, <1>2, <1>3, <1>4

\* ReadSegment keeps the types.
LEMMA ReadSegmentType ==
    ASSUME TypeInv, NEW t \in Tasks, ReadSegment(t), UNCHANGED load
    PROVE  TypeInv'
<1> DEFINE c == task[t]
           part(e) == Part(e, c.snap.dead, c.key, schema)
           read(e) == [c EXCEPT !.left = @ \ {e}, !.hits = @ \cup part(e)]
<1>1. c \in Pinned /\ Idle \in TaskState
      BY ReadSegmentIs, TaskAt DEF TypeInv, TaskState
<1>2. c.left \in Fin(FSegment) /\ c.hits \in Fin(Hit)
      BY <1>1 DEF Pinned
<1>3. PICK e \in c.left : Goes(t, Idle) \/ Goes(t, read(e))
      BY ReadSegmentIs
<1>4. part(e) \in Fin(Hit)
  <2>1. schema \in Schema
        BY DEF TypeInv
  <2> QED BY <1>2, <2>1, PartFinite
<1> HIDE DEF part
<1>5. c.left \ {e} \in Fin(FSegment) /\ c.hits \cup part(e) \in Fin(Hit)
      BY <1>2, <1>4, FinClosed
<1>6. read(e) \in Pinned
      BY <1>1, <1>5 DEF Pinned
<1> HIDE DEF read
<1>7. read(e) \in TaskState
      BY <1>6 DEF TaskState
<1>8. UNCHANGED <<load, writer, schema, current, holder>> /\ truth' \subseteq truth
      BY ReadSegmentIs
<1> QED BY <1>1, <1>3, <1>7, <1>8, QuietType

\* ListSeqnos keeps the types.
LEMMA ListSeqnosType ==
    ASSUME TypeInv, NEW t \in Tasks, ListSeqnos(t), UNCHANGED load
    PROVE  TypeInv'
<1> DEFINE c == task[t]
           match == {x \in c.snap.mem : x.row.key = c.key}
           seqno(x) == SeqnoOf(x, c.snap.mem, mem)
           found == {x \in match : \E y \in match : y.batch = x.batch /\ seqno(y) # {}}
           seqs == UNION {seqno(x) : x \in found}
           old == {x.row : x \in found} \cup {h.row : h \in c.hits}
           schemas == {x.schema : x \in found} \cup {h.schema : h \in c.hits}
           matched == [at |-> "matched", op |-> c.op, key |-> c.key, snap |-> c.snap,
                       hits |-> c.hits, seqs |-> seqs, old |-> old, schemas |-> schemas]
<1>1. c \in Pinned
      BY TaskAt DEF TypeInv, ListSeqnos
<1>2. c.snap.mem \in Fin(Held) /\ c.hits \in Fin(Hit)
      BY <1>1 DEF Pinned, FSnapshot
<1>3. Goes(t, matched)
      BY DEF ListSeqnos
<1>4. \A x : seqno(x) \subseteq Nat
      BY DEF SeqnoOf, SeqsOf, TypeInv, Fin, Held, Row
<1>5. seqs \subseteq Nat
      BY <1>4
<1>6. found \in Fin(Held)
  <2>1. found \in SUBSET c.snap.mem
        OBVIOUS
  <2> QED BY <1>2, <2>1, FinClosed
<1> HIDE DEF found, seqs
<1> DEFINE hits == c.hits
<1>6a. IsFiniteSet(found) /\ IsFiniteSet(hits)
       BY <1>2, <1>6 DEF Fin
<1>7. old \in Fin(Row)
  <2> DEFINE A == {x.row : x \in found}
             B == {h.row : h \in c.hits}
             f == [x \in found |-> x.row]
             g == [h \in c.hits |-> h.row]
  <2>1. A = {f[x] : x \in found} /\ B = {g[h] : h \in hits} /\ old = A \cup B
        BY DEF old
  <2>2. A \in SUBSET Row /\ B \in SUBSET Row
        BY <1>2, <1>6 DEF Fin, Held, Hit
  <2> HIDE DEF f, g, A, B, hits, old
  <2>4. A \in Fin(Row)
        BY <1>6a, <2>1, <2>2, ImageFin
  <2>5. B \in Fin(Row)
        BY <1>6a, <2>1, <2>2, ImageFin
  <2> QED BY <2>1, <2>4, <2>5, FinClosed
<1>8. schemas \in Fin(Schema)
  <2> DEFINE A == {x.schema : x \in found}
             B == {h.schema : h \in c.hits}
             f == [x \in found |-> x.schema]
             g == [h \in c.hits |-> h.schema]
  <2>1. A = {f[x] : x \in found} /\ B = {g[h] : h \in hits} /\ schemas = A \cup B
        BY DEF schemas
  <2>2. A \in SUBSET Schema /\ B \in SUBSET Schema
        BY <1>2, <1>6 DEF Fin, Held, Hit
  <2> HIDE DEF f, g, A, B, hits, schemas
  <2>4. A \in Fin(Schema)
        BY <1>6a, <2>1, <2>2, ImageFin
  <2>5. B \in Fin(Schema)
        BY <1>6a, <2>1, <2>2, ImageFin
  <2> QED BY <2>1, <2>4, <2>5, FinClosed
<1> HIDE DEF old, schemas, hits
<1>9. matched \in Matching
      BY <1>1, <1>5, <1>7, <1>8 DEF Matching, Pinned
<1> HIDE DEF matched
<1>10. matched \in TaskState
       BY <1>9 DEF TaskState
<1> QED BY <1>3, <1>10, QuietType DEF ListSeqnos


\* EndMatch keeps the types.
LEMMA EndMatchType ==
    ASSUME TypeInv, NEW t \in Tasks, EndMatch(t), UNCHANGED load
    PROVE  TypeInv'
<1> DEFINE c == task[t]
           ready == [c EXCEPT !.at = "ready"]
<1>1. c \in Matching /\ Idle \in TaskState
      BY TaskAt DEF TypeInv, EndMatch, TaskState
<1>2. ready \in Matching
      BY <1>1 DEF Matching
<1>3. Goes(t, Idle) \/ Goes(t, ready)
      BY DEF EndMatch
<1>4. truth' \subseteq truth
      BY DEF EndMatch
<1> HIDE DEF ready
<1>5. ready \in TaskState
      BY <1>2 DEF TaskState
<1> QED BY <1>1, <1>3, <1>4, <1>5, QuietType DEF EndMatch

\* The rows an UPDATE appends: as many as it replaces, numbered in their order.
LEMMA Appended ==
    ASSUME nextSeq \in Nat, NEW old \in Fin(Row)
    PROVE  LET place(r) == nextSeq + Before({o.seq : o \in old}, r.seq)
               new == {[seq |-> place(r), key |-> r.key] : r \in old}
           IN new \in Fin(Row) /\ Cardinality(new) \in Nat
<1> DEFINE S == {o.seq : o \in old}
           f == [o \in old |-> o.seq]
           place(r) == nextSeq + Before(S, r.seq)
           new == {[seq |-> place(r), key |-> r.key] : r \in old}
           g == [r \in old |-> [seq |-> place(r), key |-> r.key]]
<1>0. IsFiniteSet(old) /\ old \subseteq Row
      BY DEF Fin
<1>1. S \in Fin(Nat)
  <2>1. S = {f[o] : o \in old} /\ S \in SUBSET Nat
        BY <1>0 DEF Row
  <2> HIDE DEF S, f
  <2>2. IsFiniteSet({f[o] : o \in old})
        BY <1>0, ImageFinite
  <2> QED BY <2>1, <2>2 DEF Fin
<1>2. \A q : Before(S, q) \in Nat
  <2> SUFFICES ASSUME NEW q PROVE Before(S, q) \in Nat
      OBVIOUS
  <2> HIDE DEF S
  <2> DEFINE T == {x \in S : x < q}
  <2>1. T \in SUBSET S
        OBVIOUS
  <2> HIDE DEF T
  <2>2. IsFiniteSet(T)
        BY <1>1, <2>1, FS_Subset DEF Fin
  <2>3. Cardinality(T) \in Nat
        BY <2>2, FS_CardinalityType
  <2> QED BY <2>3 DEF Before, T
<1>3. new \in SUBSET Row
  <2> HIDE DEF S
  <2>1. \A r \in old : place(r) \in Nat /\ r.key \in Keys
        BY <1>0, <1>2 DEF Row
  <2> QED BY <2>1 DEF Row
<1>4. new = {g[r] : r \in old}
      OBVIOUS
<1> HIDE DEF new, g
<1>5. new \in Fin(Row)
      BY <1>0, <1>3, <1>4, ImageFin
<1>6. Cardinality(new) \in Nat
      BY <1>5, FS_CardinalityType DEF Fin
<1> QED BY <1>5, <1>6 DEF new

\* What ApplyDml makes of a statement's rows.
Replacements(c) ==
    LET place(r) == nextSeq + Before({o.seq : o \in c.old}, r.seq)
    IN {[seq |-> place(r), key |-> r.key] : r \in IF c.op = "update" THEN c.old ELSE {}}
Marked(c) == {[id |-> h.id, seq |-> h.row.seq] : h \in c.hits} \ dead

\* An update writes finitely many new rows.
LEMMA ReplacementsType ==
    ASSUME nextSeq \in Nat, NEW c, c.old \in Fin(Row)
    PROVE  Replacements(c) \in Fin(Row) /\ Cardinality(Replacements(c)) \in Nat
<1>1. CASE c.op = "update"
      BY <1>1, Appended DEF Replacements
<1>2. CASE c.op # "update"
      BY <1>2, FS_EmptySet DEF Replacements, Fin
<1> QED BY <1>1, <1>2

\* The bits a statement sets.
LEMMA MarkedType ==
    ASSUME NEW c, c.hits \in Fin(Hit)
    PROVE  Marked(c) \in Fin(Deleted) /\ {x.id : x \in Marked(c)} \subseteq Nat
<1> DEFINE hits == c.hits
           A == {[id |-> h.id, seq |-> h.row.seq] : h \in hits}
           f == [h \in hits |-> [id |-> h.id, seq |-> h.row.seq]]
<1>1. IsFiniteSet(hits) /\ hits \subseteq Hit
      BY DEF Fin
<1>2. A \in SUBSET Deleted
      BY <1>1 DEF Hit, Row, Deleted
<1>3. A = {f[h] : h \in hits}
      OBVIOUS
<1>4. Marked(c) = A \ dead
      BY DEF Marked
<1> HIDE DEF A, f, hits
<1>5. A \in Fin(Deleted)
      BY <1>1, <1>2, <1>3, ImageFin
<1>6. Marked(c) \in Fin(Deleted)
      BY <1>4, <1>5, FinClosed
<1> QED BY <1>6 DEF Fin, Deleted

\* Finitely many rows under finitely many schemas.
LEMMA PairsFinite ==
    ASSUME NEW A \in Fin(Row), NEW B \in Fin(Schema), NEW n \in Nat
    PROVE  [row : A, schema : B, batch : {n}] \in Fin(Held)
<1> DEFINE P == A \X B
           T == [row : A, schema : B, batch : {n}]
           f == [p \in P |-> [row |-> p[1], schema |-> p[2], batch |-> n]]
<1>1. IsFiniteSet(P)
      BY FS_Product DEF Fin
<1>2. T \in SUBSET Held
      BY DEF Fin, Held
<1>3. T = {f[p] : p \in P}
  <2>1. ASSUME NEW x \in T PROVE x \in {f[p] : p \in P}
    <3>1. <<x.row, x.schema>> \in P /\ x.batch = n
          OBVIOUS
    <3>2. f[<<x.row, x.schema>>] = x
          BY <3>1
    <3> QED BY <3>1, <3>2
  <2>2. ASSUME NEW p \in P PROVE f[p] \in T
        OBVIOUS
  <2> QED BY <2>1, <2>2
<1> HIDE DEF P, T, f
<1>4. T \in Fin(Held)
      BY <1>1, <1>2, <1>3, ImageFin
<1> QED BY <1>4 DEF T


\* ApplyDml keeps the types.
LEMMA ApplyDmlType ==
    ASSUME TypeInv, NEW t \in Tasks, ApplyDml(t), UNCHANGED load
    PROVE  TypeInv'
<1> DEFINE c == task[t]
           new == Replacements(c)
           gone == Marked(c)
<1>1. /\ c \in Matching /\ Idle \in TaskState
      /\ c.old \in Fin(Row) /\ c.hits \in Fin(Hit) /\ c.schemas \in Fin(Schema)
      BY TaskAt DEF TypeInv, ApplyDml, TaskState, Matching
<1>2. /\ dead' = dead \cup gone
      /\ dirty' = dirty \cup {x.id : x \in gone}
      /\ mem' = {x \in mem : x.row.seq \notin c.seqs}
                \cup [row : new, schema : c.schemas, batch : {nextSeq}]
      /\ nextSeq' = nextSeq + Cardinality(new)
      /\ UNCHANGED <<segs, nextId, txn, freed, doubled, schema, holder>>
      /\ UNCHANGED current \/ Publish(schema)
      /\ Goes(t, Idle)
      BY DEF ApplyDml, Replacements, Marked
<1>3. new \in Fin(Row) /\ Cardinality(new) \in Nat
      BY <1>1, ReplacementsType DEF TypeInv
<1>4. gone \in Fin(Deleted) /\ {x.id : x \in gone} \subseteq Nat
      BY <1>1, MarkedType
<1>5. truth' \subseteq truth \cup Row
  <2> DEFINE place(r) == nextSeq + Before({o.seq : o \in c.old}, r.seq)
             kept == {[seq |-> place(r), key |-> r.key] :
                         r \in IF c.op = "update" THEN c.old \cap truth ELSE {}}
  <2>1. kept \subseteq new
        BY DEF Replacements
  <2>2. truth' = (truth \ Selected(c)) \cup kept
        BY DEF ApplyDml
  <2> QED BY <2>1, <2>2, <1>3 DEF Fin
<1> HIDE DEF c, new, gone
<1>6. dead' \in Fin(Deleted) /\ dirty' \in SUBSET Nat
      BY <1>2, <1>4, FinClosed DEF TypeInv
<1>7. mem' \in Fin(Held)
  <2>1. [row : new, schema : c.schemas, batch : {nextSeq}] \in Fin(Held)
        BY <1>1, <1>3, PairsFinite DEF TypeInv
  <2>2. {x \in mem : x.row.seq \notin c.seqs} \in SUBSET mem /\ mem \in Fin(Held)
        BY DEF TypeInv
  <2>3. {x \in mem : x.row.seq \notin c.seqs} \in Fin(Held)
        BY <2>2, FinClosed
  <2> QED BY <1>2, <2>1, <2>3, FinClosed
<1>8. nextSeq' \in Nat
      BY <1>2, <1>3 DEF TypeInv
<1>9. current' \in FSnapshot
      BY <1>2, <1>6, <1>7, PublishType DEF TypeInv
<1>10. task' \in [Tasks -> TaskState]
       BY <1>1, <1>2, GoesType DEF TypeInv
<1> QED BY <1>2, <1>5, <1>6, <1>7, <1>8, <1>9, <1>10 DEF TypeInv

\* What flush_locked leaves of the types.
LEMMA FlushLockedType ==
    ASSUME TypeInv, FlushLocked
    PROVE  /\ segs' \in Fin(FSegment) /\ dead' = dead /\ dirty' = {} /\ mem' = {}
           /\ nextSeq' = nextSeq /\ nextId' \in Nat /\ txn' \in Nat
           /\ current' \in FSnapshot
           /\ freed' \in SUBSET [id : Nat, map : Nat] /\ doubled' \in SUBSET freed'
           /\ {x.row : x \in mem} \in Fin(Row)
<1> DEFINE rows == {x.row : x \in mem}
           f == [x \in mem |-> x.row]
           new == NewSegment(rows, schema)
           old == {Remap(e) : e \in segs}
<1>1. rows \in Fin(Row)
  <2>1. rows = {f[x] : x \in mem} /\ rows \in SUBSET Row /\ IsFiniteSet(mem)
        BY DEF TypeInv, Fin, Held
  <2> HIDE DEF rows, f
  <2> QED BY <2>1, ImageFin
<1>2. new \in Fin(FSegment) /\ Cardinality(new) \in Nat
  <2> HIDE DEF rows
  <2> QED BY <1>1, NewSegmentType DEF TypeInv
<1>3. old \in Fin(FSegment)
      BY RemapType DEF TypeInv
<1>4. segs' = old \cup new /\ nextId' = nextId + Cardinality(new)
      BY DEF FlushLocked
<1> HIDE DEF new, old
<1>5. segs' \in Fin(FSegment) /\ nextId' \in Nat
      BY <1>2, <1>3, <1>4, FinClosed DEF TypeInv
<1>6. dead' \in Fin(Deleted) /\ mem' \in Fin(Held)
      BY FS_EmptySet DEF FlushLocked, TypeInv, Fin
<1>7. current' \in FSnapshot
      BY <1>5, <1>6, PublishType DEF FlushLocked, TypeInv
<1>8. freed' \in SUBSET [id : Nat, map : Nat] /\ doubled' \in SUBSET freed'
  <2>1. segs \subseteq FSegment
        BY DEF TypeInv, Fin
  <2>2. Extents(segs) \ Extents(segs') \subseteq [id : Nat, map : Nat]
        BY <2>1, ExtentsType
  <2> QED BY <2>2, FreeType DEF FlushLocked, TypeInv
<1> QED BY <1>1, <1>5, <1>7, <1>8 DEF FlushLocked, TypeInv

\* What the commit of a rewrite leaves of them.
LEMMA RewrittenType ==
    ASSUME TypeInv, NEW sources \in Fin(FSegment), NEW rows \in Fin(Row),
           NEW s \in Schema, Rewritten(sources, rows, s)
    PROVE  /\ segs' \in Fin(FSegment) /\ dead' \in Fin(Deleted) /\ dirty' \in SUBSET Nat
           /\ mem' = mem /\ nextSeq' = nextSeq /\ nextId' \in Nat /\ txn' \in Nat
           /\ current' \in FSnapshot
           /\ freed' \in SUBSET [id : Nat, map : Nat] /\ doubled' \in SUBSET freed'
<1> DEFINE new == NewSegment(rows, s)
           kept == segs \ Entries(segs, Ids(sources))
<1>1. new \in Fin(FSegment) /\ Cardinality(new) \in Nat
      BY NewSegmentType DEF TypeInv
<1>2. kept \in Fin(FSegment)
      BY FinClosed DEF TypeInv
<1>3. segs' = kept \cup new /\ nextId' = nextId + Cardinality(new)
      BY DEF Rewritten
<1> HIDE DEF new, kept
<1>4. segs' \in Fin(FSegment) /\ nextId' \in Nat
      BY <1>1, <1>2, <1>3, FinClosed DEF TypeInv
<1>5. dead' \in Fin(Deleted) /\ dirty' \in SUBSET Nat
  <2>1. dead' = dead \ Of(dead, Ids(sources)) /\ dirty' = dirty \ Ids(sources)
        BY DEF Rewritten, Retire, Forget
  <2> QED BY <2>1, FinClosed DEF TypeInv
<1>6. mem' \in Fin(Held)
      BY DEF Rewritten, TypeInv
<1>7. current' \in FSnapshot
      BY <1>4, <1>5, <1>6, PublishType DEF Rewritten, TypeInv
<1>8. freed' \in SUBSET [id : Nat, map : Nat] /\ doubled' \in SUBSET freed'
  <2>1. Extents(sources) \subseteq [id : Nat, map : Nat]
        BY ExtentsType DEF Fin
  <2> QED BY <2>1, FreeType DEF Rewritten, Retire, TypeInv
<1> QED BY <1>4, <1>5, <1>7, <1>8 DEF Rewritten, TypeInv


\* Flush keeps the types.
LEMMA FlushType ==
    ASSUME TypeInv, NEW t \in Tasks, Flush(t), UNCHANGED load
    PROVE  TypeInv'
<1>1. CASE FlushLocked
      BY <1>1, FlushLockedType, FS_EmptySet DEF TypeInv, Flush, Fin
<1>2. CASE FlushFails(t)
      BY <1>2, FS_EmptySet DEF TypeInv, Flush, FlushFails, Fin
<1> QED BY <1>1, <1>2 DEF Flush

\* DropSegments keeps the types.
LEMMA DropSegmentsType ==
    ASSUME TypeInv, NEW t \in Tasks, NEW ids, DropSegments(t, ids), UNCHANGED load
    PROVE  TypeInv'
<1> DEFINE gone == Entries(segs, ids)
<1>1. gone \in Fin(FSegment) /\ segs \ gone \in Fin(FSegment)
      BY FinClosed DEF TypeInv, Entries
<1>2. dead' \in Fin(Deleted) /\ dirty' \in SUBSET Nat /\ mem' \in Fin(Held)
  <2>1. dead' = dead \ Of(dead, ids) /\ dirty' = dirty \ ids /\ mem' = mem
        BY DEF DropSegments, Forget
  <2> QED BY <2>1, FinClosed DEF TypeInv
<1>3. CASE UNCHANGED <<segs, txn, freed, doubled, current>>
      BY <1>2, <1>3 DEF TypeInv, DropSegments
<1>4. CASE segs' = segs \ gone /\ Free(Extents(gone)) /\ txn' = txn + 1 /\ Publish(schema)
  <2>1. segs' \in Fin(FSegment) /\ txn' \in Nat
        BY <1>1, <1>4 DEF TypeInv
  <2>2. current' \in FSnapshot
        BY <1>2, <1>4, <2>1, PublishType DEF TypeInv
  <2>3. Extents(gone) \subseteq [id : Nat, map : Nat]
        BY <1>1, ExtentsType DEF Fin
  <2>4. freed' \in SUBSET [id : Nat, map : Nat] /\ doubled' \in SUBSET freed'
        BY <1>4, <2>3, FreeType DEF TypeInv
  <2> QED BY <1>2, <2>1, <2>2, <2>4 DEF TypeInv, DropSegments
<1> QED BY <1>3, <1>4 DEF DropSegments

\* ReadRun keeps the types.
LEMMA ReadRunType ==
    ASSUME TypeInv, NEW t \in Tasks, NEW run \in SUBSET (1 .. nextId), ReadRun(t, run),
           UNCHANGED load
    PROVE  TypeInv'
<1> DEFINE c == [at |-> "rewrite", run |-> run, todo |-> task[t].todo \ run,
                 snap |-> current]
<1>1. task[t] \in Compacting /\ Idle \in TaskState
      BY TaskAt DEF TypeInv, ReadRun, TaskState
<1>2. run \in SUBSET Nat
      BY DEF TypeInv
<1>3. c \in Rewriting
      BY <1>1, <1>2 DEF TypeInv, Rewriting, Compacting
<1>4. Goes(t, c) \/ Goes(t, Idle)
      BY DEF ReadRun
<1> HIDE DEF c
<1>5. c \in TaskState
      BY <1>3 DEF TaskState
<1> QED BY <1>1, <1>4, <1>5, QuietType DEF ReadRun

\* A compaction goes on to its next run or returns.
LEMMA NextRunType ==
    ASSUME NEW c \in Rewriting
    PROVE  NextRun(c) \in TaskState
<1>1. NextRun(c) = Idle \/ NextRun(c) \in Compacting
      BY DEF NextRun, Compacting, Rewriting
<1> QED BY <1>1 DEF TaskState

\* What a run reads.
LEMMA RunType ==
    ASSUME NEW c \in Rewriting
    PROVE  RunSources(c) \in Fin(FSegment) /\ RunRows(c) \in Fin(Row)
<1>1. c.snap.segs \in Fin(FSegment)
      BY DEF Rewriting, FSnapshot
<1>2. RunSources(c) \in SUBSET c.snap.segs
      BY DEF RunSources, Entries
<1>3. RunSources(c) \in Fin(FSegment)
      BY <1>1, <1>2, FinClosed
<1> QED BY <1>3, LiveFinite DEF RunRows

\* WriteRun keeps the types.
LEMMA WriteRunType ==
    ASSUME TypeInv, NEW t \in Tasks, WriteRun(t), UNCHANGED load
    PROVE  TypeInv'
<1> DEFINE c == task[t]
<1>1. c \in Rewriting
      BY TaskAt DEF TypeInv, WriteRun
<1>2. RunSources(c) \in Fin(FSegment) /\ RunRows(c) \in Fin(Row)
      BY <1>1, RunType
<1>3. Rewritten(RunSources(c), RunRows(c), schema)
      BY DEF WriteRun
<1>4. /\ segs' \in Fin(FSegment) /\ dead' \in Fin(Deleted) /\ dirty' \in SUBSET Nat
      /\ mem' = mem /\ nextSeq' = nextSeq /\ nextId' \in Nat /\ txn' \in Nat
      /\ current' \in FSnapshot
      /\ freed' \in SUBSET [id : Nat, map : Nat] /\ doubled' \in SUBSET freed'
  <2>1. schema \in Schema
        BY DEF TypeInv
  <2> HIDE DEF c
  <2> QED BY <1>2, <1>3, <2>1, RewrittenType
<1>5. task' \in [Tasks -> TaskState]
      BY <1>1, NextRunType, GoesType DEF WriteRun, TypeInv
<1> QED BY <1>4, <1>5 DEF WriteRun, TypeInv

\* AbandonRun keeps the types.
LEMMA AbandonRunType ==
    ASSUME TypeInv, NEW t \in Tasks, AbandonRun(t), UNCHANGED load
    PROVE  TypeInv'
<1>1. task[t] \in Rewriting /\ Idle \in TaskState
      BY TaskAt DEF TypeInv, AbandonRun, TaskState
<1>2. Goes(t, NextRun(task[t])) \/ Goes(t, Idle)
      BY DEF AbandonRun
<1> QED BY <1>1, <1>2, NextRunType, QuietType DEF AbandonRun

\* AlterFlush keeps the types.
LEMMA AlterFlushType ==
    ASSUME TypeInv, NEW t \in Tasks, AlterFlush(t), UNCHANGED load
    PROVE  TypeInv'
<1> DEFINE c == [task[t] EXCEPT !.at = "flushed"]
<1>1. task[t] \in Altering /\ Idle \in TaskState
      BY TaskAt DEF TypeInv, AlterFlush, TaskState
<1>2. c \in TaskState
      BY <1>1 DEF Altering, TaskState
<1> HIDE DEF c
<1>3. CASE Goes(t, c) /\ UNCHANGED <<writer, current>>
      BY <1>2, <1>3, QuietType DEF AlterFlush
<1>4. CASE FlushLocked /\ Goes(t, c)
  <2>1. task' \in [Tasks -> TaskState]
        BY <1>2, <1>4, GoesType DEF TypeInv
  <2> QED BY <1>4, <2>1, FlushLockedType, FS_EmptySet DEF TypeInv, AlterFlush, Fin
<1>5. CASE FlushFails(t) /\ Goes(t, Idle)
  <2>1. task' \in [Tasks -> TaskState]
        BY <1>1, <1>5, GoesType DEF TypeInv
  <2> QED BY <1>5, <2>1, FS_EmptySet DEF TypeInv, AlterFlush, FlushFails, Fin
<1> QED BY <1>3, <1>4, <1>5 DEF AlterFlush, c

\* The loads of a schema change keep the types.
LEMMA AlterLoadsType ==
    ASSUME TypeInv, NEW t \in Tasks, AlterLoad(t) \/ AlterPin(t), UNCHANGED load
    PROVE  TypeInv'
<1> DEFINE c == [at |-> "loaded", op |-> task[t].op, after |-> task[t].after,
                 before |-> schema]
           d == [at |-> "sourced", op |-> task[t].op, after |-> task[t].after,
                 before |-> task[t].before, snap |-> current]
<1>1. CASE AlterLoad(t)
  <2>1. task[t] \in Altering
        BY <1>1, TaskAt DEF TypeInv, AlterLoad
  <2>2. c \in Loaded
        BY <2>1 DEF TypeInv, Altering, Loaded
  <2>3. Goes(t, c) /\ c \in TaskState
        BY <1>1, <2>2 DEF AlterLoad, TaskState
  <2> HIDE DEF c
  <2> QED BY <1>1, <2>3, QuietType DEF AlterLoad
<1>2. CASE AlterPin(t)
  <2>1. task[t] \in Loaded
        BY <1>2, TaskAt DEF TypeInv, AlterPin
  <2>2. d \in Sourced
        BY <2>1 DEF TypeInv, Loaded, Sourced
  <2>3. Goes(t, d) /\ d \in TaskState
        BY <1>2, <2>2 DEF AlterPin, TaskState
  <2> HIDE DEF d
  <2> QED BY <1>2, <2>3, QuietType DEF AlterPin
<1> QED BY <1>1, <1>2

\* What a conversion rewrites.
LEMMA SourcesType ==
    ASSUME NEW c \in Sourced
    PROVE  /\ LiveSegments(c.snap) \in Fin(FSegment)
           /\ LiveRows(LiveSegments(c.snap), c.snap.dead) \in Fin(Row)
           /\ c.after \in Schema
<1>1. c.snap.segs \in Fin(FSegment) /\ c.after \in Schema
      BY DEF Sourced, FSnapshot
<1>2. LiveSegments(c.snap) \in SUBSET c.snap.segs
      BY DEF LiveSegments
<1>3. LiveSegments(c.snap) \in Fin(FSegment)
      BY <1>1, <1>2, FinClosed
<1> QED BY <1>1, <1>3, LiveFinite

\* AlterCommit keeps the types.
LEMMA AlterCommitType ==
    ASSUME TypeInv, NEW t \in Tasks, AlterCommit(t), UNCHANGED load
    PROVE  TypeInv'
<1> DEFINE c == task[t]
           sources == LiveSegments(c.snap)
           rows == LiveRows(sources, c.snap.dead)
           d == [at |-> "adopt", after |-> c.after]
<1>1. c \in Sourced
      BY TaskAt DEF TypeInv, AlterCommit
<1>2. sources \in Fin(FSegment) /\ rows \in Fin(Row) /\ c.after \in Schema
      BY <1>1, SourcesType
<1>3. d \in TaskState /\ Goes(t, d)
      BY <1>2 DEF AlterCommit, TaskState, Adopting
<1>4. \/ Rewritten(sources, rows, c.after)
      \/ /\ txn' = txn + 1
         /\ UNCHANGED <<segs, dead, dirty, mem, nextSeq, nextId, freed, doubled>>
         /\ Publish(schema)
      BY DEF AlterCommit
<1>5. UNCHANGED <<schema, truth>> /\ holder' = {t}
      BY DEF AlterCommit
<1> HIDE DEF c, sources, rows, d
<1>6. task' \in [Tasks -> TaskState]
      BY <1>3, GoesType DEF TypeInv
<1>7. CASE Rewritten(sources, rows, c.after)
      BY <1>2, <1>5, <1>6, <1>7, RewrittenType DEF TypeInv
<1>8. CASE /\ txn' = txn + 1
           /\ UNCHANGED <<segs, dead, dirty, mem, nextSeq, nextId, freed, doubled>>
           /\ Publish(schema)
  <2>1. current' \in FSnapshot
        BY <1>8, PublishType DEF TypeInv
  <2> QED BY <1>5, <1>6, <1>8, <2>1 DEF TypeInv
<1> QED BY <1>4, <1>7, <1>8

\* AdoptSchema keeps the types.
LEMMA AdoptSchemaType ==
    ASSUME TypeInv, NEW t \in Tasks, AdoptSchema(t), UNCHANGED load
    PROVE  TypeInv'
<1>1. task[t] \in Adopting /\ Idle \in TaskState
      BY TaskAt DEF TypeInv, AdoptSchema, TaskState
<1>2. schema' \in Schema /\ mem' \in Fin(Held)
      BY <1>1, FS_EmptySet DEF AdoptSchema, Adopting, Fin
<1>3. current' \in FSnapshot
      BY <1>2, PublishType DEF AdoptSchema, TypeInv
<1>4. task' \in [Tasks -> TaskState]
      BY <1>1, GoesType DEF AdoptSchema, TypeInv
<1> QED BY <1>2, <1>3, <1>4 DEF AdoptSchema, TypeInv

\* The commits that fail: bitmaps are forgotten, and nothing else of the table
\* changes.
Faults(t) ==
    \/ \E ids \in SUBSET Ids(segs) : DropFails(t, ids)
    \/ RunFails(t)
    \/ AlterFails(t)

LEMMA FaultIs ==
    ASSUME NEW t, Faults(t)
    PROVE  /\ MayFail(t) /\ holder = {}
           /\ UNCHANGED <<segs, mem, nextSeq, nextId, txn, freed, doubled>>
           /\ UNCHANGED <<current, schema, holder, truth>>
           /\ dead' \subseteq dead /\ dirty' \subseteq dirty
           /\ \/ UNCHANGED task
              \/ task[t].at \in {"rewrite", "sourced"} /\ Goes(t, Idle)
<1>1. ASSUME NEW ids, CommitFails(t, ids)
      PROVE  /\ MayFail(t)
             /\ UNCHANGED <<segs, mem, nextSeq, nextId, txn, freed, doubled, current>>
             /\ dead' \subseteq dead /\ dirty' \subseteq dirty
      BY <1>1 DEF CommitFails, Forget
<1>2. ASSUME NEW ids, DropFails(t, ids)
      PROVE  CommitFails(t, ids) /\ holder = {} /\ UNCHANGED <<schema, holder, task, truth>>
      BY <1>2 DEF DropFails
<1>3. CASE \E ids \in SUBSET Ids(segs) : DropFails(t, ids)
      BY <1>1, <1>2, <1>3
<1>4. CASE RunFails(t)
  <2>1. /\ CommitFails(t, task[t].run) /\ holder = {} /\ UNCHANGED <<schema, holder, truth>>
        /\ task[t].at = "rewrite" /\ Goes(t, Idle)
        BY <1>4 DEF RunFails
  <2> QED BY <1>1, <2>1
<1>5. CASE AlterFails(t)
  <2> DEFINE ids == IF task[t].op = "cast" THEN Ids(LiveSegments(task[t].snap)) ELSE {}
  <2>1. /\ CommitFails(t, ids) /\ holder = {} /\ UNCHANGED <<schema, holder, truth>>
        /\ task[t].at = "sourced" /\ Goes(t, Idle)
        BY <1>5 DEF AlterFails
  <2> HIDE DEF ids
  <2> QED BY <1>1, <2>1
<1> QED BY <1>3, <1>4, <1>5 DEF Faults

\* A failing commit keeps the types.
LEMMA FaultType ==
    ASSUME TypeInv, NEW t \in Tasks, Faults(t), UNCHANGED load
    PROVE  TypeInv'
<1>1. dead' \in Fin(Deleted) /\ dirty' \in SUBSET Nat
      BY FaultIs, FinClosed DEF TypeInv
<1>2. task' \in [Tasks -> TaskState]
      BY FaultIs, GoesType DEF TypeInv, TaskState
<1> QED BY <1>1, <1>2, FaultIs DEF TypeInv

\* The calls that only note what they were given.
Starts(t) ==
    \/ \E k \in Keys :
          \/ StartInsert(t, k)
          \/ \E op \in {"delete", "update"} : StartDml(t, op, k)
    \/ \E ids \in SUBSET Ids(current.segs) : StartCompact(t, ids)
    \/ \E op \in {"cast", "widen"} : StartAlter(t, op)

\* A changed schema is a schema.
LEMMA ChangedType ==
    ASSUME NEW op, NEW s \in Schema
    PROVE  Changed(op, s) \in Schema
BY DEF Changed, Schema

\* The starts of calls keep the types.
LEMMA StartsType ==
    ASSUME TypeInv, NEW t \in Tasks, Starts(t), UNCHANGED load
    PROVE  TypeInv'
<1>1. ASSUME NEW k \in Keys, StartInsert(t, k) PROVE TypeInv'
  <2> DEFINE c == [at |-> "insert", key |-> k, schema |-> schema]
  <2>1. c \in TaskState /\ Goes(t, c)
        BY <1>1 DEF TypeInv, StartInsert, TaskState, Inserting
  <2> HIDE DEF c
  <2> QED BY <1>1, <2>1, QuietType DEF StartInsert
<1>2. ASSUME NEW k \in Keys, NEW op \in {"delete", "update"}, StartDml(t, op, k)
      PROVE  TypeInv'
  <2> DEFINE c == [at |-> "pinned", op |-> op, key |-> k, snap |-> current,
                   left |-> LiveSegments(current), hits |-> {}]
  <2>0. LiveSegments(current) \in SUBSET current.segs /\ current.segs \in Fin(FSegment)
        BY DEF TypeInv, FSnapshot, LiveSegments
  <2>1a. LiveSegments(current) \in Fin(FSegment)
        BY <2>0, FinClosed
  <2>1b. {} \in Fin(Hit)
        BY FS_EmptySet DEF Fin
  <2>1. c \in Pinned /\ Goes(t, c)
        BY <1>2, <2>1a, <2>1b DEF TypeInv, StartDml, Pinned, Dml
  <2> HIDE DEF c
  <2>2. c \in TaskState
        BY <2>1 DEF TaskState
  <2> QED BY <1>2, <2>1, <2>2, QuietType DEF StartDml
<1>3. ASSUME NEW ids \in SUBSET Ids(current.segs), StartCompact(t, ids) PROVE TypeInv'
  <2> DEFINE c == [at |-> "compact", todo |-> ids]
  <2>1. Ids(current.segs) \subseteq Nat
        BY DEF TypeInv, Ids, FSnapshot, Fin, FSegment
  <2>2. c \in TaskState /\ Goes(t, c)
        BY <1>3, <2>1 DEF StartCompact, TaskState, Compacting
  <2> HIDE DEF c
  <2> QED BY <1>3, <2>2, QuietType DEF StartCompact
<1>4. ASSUME NEW op \in {"cast", "widen"}, StartAlter(t, op) PROVE TypeInv'
  <2> DEFINE c == [at |-> "alter", op |-> op, after |-> Changed(op, schema)]
  <2>1. c \in Altering /\ Goes(t, c)
        BY <1>4, ChangedType DEF TypeInv, StartAlter, Altering
  <2> HIDE DEF c
  <2>2. c \in TaskState
        BY <2>1 DEF TaskState
  <2> QED BY <1>4, <2>1, <2>2, QuietType DEF StartAlter
<1> QED BY <1>1, <1>2, <1>3, <1>4 DEF Starts

\* Calls that return an error keep the types.
LEMMA RefusedType ==
    ASSUME TypeInv, NEW t \in Tasks, Refused(t), UNCHANGED load
    PROVE  TypeInv'
BY QuietType DEF Refused, TaskState

\* Every action keeps the types.
LEMMA TypeStep ==
    ASSUME TypeInv, [Next]_vars
    PROVE  TypeInv'
<1>1. ASSUME UNCHANGED load, NEW t \in Tasks, Step(t) PROVE TypeInv'
  <2>1. CASE Starts(t)
        BY <1>1, <2>1, StartsType
  <2>2. CASE Insert(t) \/ ReadSegment(t) \/ ListSeqnos(t) \/ EndMatch(t) \/ ApplyDml(t)
        BY <1>1, <2>2, InsertType, ReadSegmentType, ListSeqnosType, EndMatchType, ApplyDmlType
  <2>3. CASE RefuseDml(t) \/ AlterRefused(t)
        BY <1>1, <2>3, RefusedType DEF RefuseDml, AlterRefused
  <2>4. CASE Flush(t) \/ \E ids \in SUBSET Ids(segs) : DropSegments(t, ids)
        BY <1>1, <2>4, FlushType, DropSegmentsType
  <2>5. CASE \/ \E run \in SUBSET (1 .. nextId) : ReadRun(t, run)
             \/ WriteRun(t) \/ AbandonRun(t)
        BY <1>1, <2>5, ReadRunType, WriteRunType, AbandonRunType
  <2>6. CASE AlterFlush(t) \/ AlterLoad(t) \/ AlterPin(t) \/ AlterCommit(t) \/ AdoptSchema(t)
        BY <1>1, <2>6, AlterFlushType, AlterLoadsType, AlterCommitType, AdoptSchemaType
  <2>7. CASE Faults(t)
        BY <1>1, <2>7, FaultType
  <2> QED BY <1>1, <2>1, <2>2, <2>3, <2>4, <2>5, <2>6, <2>7 DEF Step, Starts, Faults
<1>2. CASE UNCHANGED vars
      BY <1>2 DEF vars, writer, TypeInv
<1> QED BY <1>1, <1>2 DEF Next

\* The types hold at the start.
LEMMA TypeInit ==
    ASSUME Init
    PROVE  TypeInv
<1>1. {} \in Fin(FSegment) /\ {} \in Fin(Deleted) /\ {} \in Fin(Held)
      BY FS_EmptySet DEF Fin
<1>2. schema \in Schema
      BY DEF Init, Schema
<1>3. current \in FSnapshot
      BY <1>1, <1>2 DEF Init, FSnapshot
<1> QED BY <1>1, <1>2, <1>3 DEF Init, TypeInv, TaskState

\* The types hold throughout.
LEMMA TypesHold == Spec => []TypeInv
BY TypeInit, TypeStep, PTL DEF Spec

\* The writer, the published snapshot and every call under way keep their types,
\* and the rows and segments in memory stay finite.
THEOREM TableTypes == Spec => []TypeOK
<1>1. TypeInv => TypeOK
  <2> SUFFICES ASSUME TypeInv PROVE TypeOK
      OBVIOUS
  <2>1. FSegment \subseteq Segment
        BY DEF FSegment, Segment, Fin
  <2>2. segs \in SUBSET Segment /\ dead \in SUBSET Deleted /\ mem \in SUBSET Held
        BY <2>1 DEF TypeInv, Fin
  <2>3. current \in Snapshot
        BY <2>1 DEF TypeInv, FSnapshot, Snapshot, Fin
  <2>4. \A t \in Tasks :
            task[t].at \in {"idle", "insert", "pinned", "matched", "ready", "compact",
                            "rewrite", "alter", "flushed", "loaded", "sourced", "adopt"}
        BY TaskAt DEF TypeInv
  <2> QED BY <2>2, <2>3, <2>4 DEF TypeInv, TypeOK
<1> QED BY <1>1, TypesHold, PTL


----------------------------------------------------------------------------
(* Identities: segments, rows, commits and the holder of the mutex.        *)

HasSnap(c) == c.at \in {"pinned", "matched", "ready", "rewrite", "sourced"}

\* The writer's state, as build_snapshot would take it.
Now == [segs |-> segs, dead |-> dead, mem |-> mem, schema |-> schema]

\* Snapshot s is of a time when no segment had identity n, no row number q, and
\* k commits had been made.
Known(s, n, q, k) ==
    /\ \A e \in s.segs : /\ 0 < e.id /\ e.id < n
                         /\ \A r \in e.rows : r.seq < q
                         /\ \A b \in e.map : 0 < b /\ b <= k
    /\ \A e, f \in s.segs : e.id = f.id => e = f
    /\ \A x \in s.dead : x.id < n
    /\ \A x \in s.mem : x.row.seq < q

IdInv ==
    /\ current.segs = segs /\ current.schema = schema
    /\ 0 < nextId
    /\ Known(Now, nextId, nextSeq, txn)
    /\ Known(current, nextId, nextSeq, txn)
    /\ \A t \in Tasks : HasSnap(task[t]) => Known(task[t].snap, nextId, nextSeq, txn)
    /\ \A x \in freed : x.id < nextId /\ x.map <= txn
    /\ holder = {} \/ \E t \in Tasks : holder = {t}
    /\ \A t \in Tasks : task[t].at = "adopt" <=> holder = {t}

\* Counters only grow, so what a snapshot names stays known.
LEMMA KnownGrows ==
    ASSUME NEW s \in FSnapshot, NEW n \in Nat, NEW q \in Nat, NEW k \in Nat,
           NEW n2 \in Nat, NEW q2 \in Nat, NEW k2 \in Nat,
           n <= n2, q <= q2, k <= k2, Known(s, n, q, k)
    PROVE  Known(s, n2, q2, k2)
<1>1. ASSUME NEW e \in s.segs
      PROVE  /\ 0 < e.id /\ e.id < n2
             /\ \A r \in e.rows : r.seq < q2
             /\ \A b \in e.map : 0 < b /\ b <= k2
  <2>1. e.id \in Nat /\ (\A r \in e.rows : r.seq \in Nat) /\ e.map \subseteq Nat
        BY DEF FSnapshot, FSegment, Fin, Row
  <2> QED BY <2>1 DEF Known
<1>2. \A x \in s.dead : x.id < n2
  <2>1. \A x \in s.dead : x.id \in Nat
        BY DEF FSnapshot, Deleted, Fin
  <2> QED BY <2>1 DEF Known
<1>3. \A x \in s.mem : x.row.seq < q2
  <2>1. \A x \in s.mem : x.row.seq \in Nat
        BY DEF FSnapshot, Held, Row, Fin
  <2> QED BY <2>1 DEF Known
<1> QED BY <1>1, <1>2, <1>3 DEF Known

\* Every snapshot a call knows of was published when it took it.
SnapsFlow ==
    \A u \in Tasks : HasSnap(task'[u]) =>
        \/ task'[u].snap = current
        \/ HasSnap(task[u]) /\ task'[u].snap = task[u].snap

\* The mutex is kept between two actions by a schema change alone.
HolderFlow ==
    (\A u \in Tasks : task[u].at = "adopt" <=> holder = {u}) =>
        (\A u \in Tasks : task'[u].at = "adopt" <=> holder' = {u})

\* One task goes to c: c's snapshot is the one it had or the current one.
LEMMA OneFlows ==
    ASSUME TypeInv, NEW t \in Tasks, NEW c, Goes(t, c),
           HasSnap(c) => \/ c.snap = current
                         \/ HasSnap(task[t]) /\ c.snap = task[t].snap,
           c.at # "adopt", task[t].at # "adopt", holder' = holder
    PROVE  SnapsFlow /\ HolderFlow
<1>1. task'[t] = c /\ \A u \in Tasks : u # t => task'[u] = task[u]
      BY DEF TypeInv, Goes
<1> QED BY <1>1 DEF SnapsFlow, HolderFlow


\* Where a snapshot held by a call comes from: the starts of calls.
LEMMA FlowStarts ==
    ASSUME TypeInv, NEW t \in Tasks, Starts(t)
    PROVE  SnapsFlow /\ HolderFlow
<1> USE DEF HasSnap
<1>1. Idle.at = "idle"
      BY DEF Idle
<1>2. ASSUME NEW k \in Keys, StartInsert(t, k) PROVE SnapsFlow /\ HolderFlow
      BY <1>1, <1>2, OneFlows DEF StartInsert, Calls
<1>3. ASSUME NEW k \in Keys, NEW op \in {"delete", "update"}, StartDml(t, op, k)
      PROVE  SnapsFlow /\ HolderFlow
      BY <1>1, <1>3, OneFlows DEF StartDml, Calls
<1>4. ASSUME NEW ids \in SUBSET Ids(current.segs), StartCompact(t, ids)
      PROVE  SnapsFlow /\ HolderFlow
      BY <1>1, <1>4, OneFlows DEF StartCompact, Calls
<1>5. ASSUME NEW op \in {"cast", "widen"}, StartAlter(t, op) PROVE SnapsFlow /\ HolderFlow
      BY <1>1, <1>5, OneFlows DEF StartAlter, Calls
<1> QED BY <1>2, <1>3, <1>4, <1>5 DEF Starts

\* The same for inserts and statements.
LEMMA FlowDml ==
    ASSUME TypeInv, NEW t \in Tasks,
           \/ Insert(t) \/ ReadSegment(t) \/ ListSeqnos(t) \/ EndMatch(t)
           \/ ApplyDml(t) \/ RefuseDml(t)
    PROVE  SnapsFlow /\ HolderFlow
<1> USE DEF HasSnap
<1>0. Idle.at = "idle"
      BY DEF Idle
<1>1. CASE Insert(t) \/ ApplyDml(t) \/ RefuseDml(t)
  <2>1. /\ Goes(t, Idle) /\ holder' = holder
        /\ task[t].at \in {"insert", "ready"}
        BY <1>1 DEF Insert, ApplyDml, RefuseDml, Refused
  <2> QED BY <1>0, <2>1, OneFlows
<1>2. CASE ReadSegment(t)
  <2>1. task[t].at = "pinned" /\ holder' = holder /\ task[t] \in Pinned
        BY <1>2, ReadSegmentIs, TaskAt DEF TypeInv
  <2>2. PICK c : Goes(t, c)
        BY <1>2, ReadSegmentIs
  <2>3. c = Idle \/ (c.at = "pinned" /\ c.snap = task[t].snap)
        BY <1>2, <2>2, ReadSegmentGoes DEF Goes, TypeInv
  <2> QED BY <1>0, <2>1, <2>2, <2>3, OneFlows
<1>3. CASE ListSeqnos(t)
  <2>1. task[t].at = "pinned" /\ holder' = holder
        BY <1>3 DEF ListSeqnos
  <2>2. PICK c : Goes(t, c) /\ c.at = "matched" /\ c.snap = task[t].snap
        BY <1>3 DEF ListSeqnos
  <2> QED BY <2>1, <2>2, OneFlows
<1>4. CASE EndMatch(t)
  <2>1. task[t].at = "matched" /\ holder' = holder /\ task[t] \in Matching
        BY <1>4, TaskAt DEF EndMatch, TypeInv
  <2>2. PICK c : Goes(t, c) /\ (c = Idle \/ c = [task[t] EXCEPT !.at = "ready"])
        BY <1>4 DEF EndMatch
  <2>3. c = Idle \/ (c.at = "ready" /\ c.snap = task[t].snap)
        BY <2>1, <2>2 DEF Matching
  <2> QED BY <1>0, <2>1, <2>2, <2>3, OneFlows
<1> QED BY <1>1, <1>2, <1>3, <1>4

\* The same for compactions and schema changes.
LEMMA FlowMaintain ==
    ASSUME TypeInv, NEW t \in Tasks,
           \/ \E run \in SUBSET (1 .. nextId) : ReadRun(t, run)
           \/ WriteRun(t) \/ AbandonRun(t)
           \/ AlterFlush(t) \/ AlterLoad(t) \/ AlterPin(t) \/ AlterRefused(t)
    PROVE  SnapsFlow /\ HolderFlow
<1> USE DEF HasSnap
<1>0. Idle.at = "idle"
      BY DEF Idle
<1>1. ASSUME NEW run \in SUBSET (1 .. nextId), ReadRun(t, run)
      PROVE  SnapsFlow /\ HolderFlow
  <2>1. task[t].at = "compact" /\ holder' = holder
        BY <1>1 DEF ReadRun
  <2>2. PICK c : Goes(t, c) /\ (c = Idle \/ (c.at = "rewrite" /\ c.snap = current))
        BY <1>1 DEF ReadRun
  <2> QED BY <1>0, <2>1, <2>2, OneFlows
<1>2. CASE WriteRun(t) \/ AbandonRun(t)
  <2>1. task[t].at = "rewrite" /\ holder' = holder
        BY <1>2 DEF WriteRun, AbandonRun
  <2>2. PICK c : Goes(t, c) /\ (c = Idle \/ c.at = "compact")
        BY <1>2 DEF WriteRun, AbandonRun, NextRun
  <2> QED BY <1>0, <2>1, <2>2, OneFlows
<1>3. CASE AlterFlush(t)
  <2>1. task[t].at = "alter" /\ holder' = holder /\ task[t] \in Altering
        BY <1>3, TaskAt DEF AlterFlush, TypeInv
  <2>2. PICK c : Goes(t, c) /\ (c = Idle \/ c = [task[t] EXCEPT !.at = "flushed"])
        BY <1>3 DEF AlterFlush
  <2>3. c = Idle \/ c.at = "flushed"
        BY <2>1, <2>2 DEF Altering
  <2> QED BY <1>0, <2>1, <2>2, <2>3, OneFlows
<1>4. CASE AlterPin(t)
  <2>1. task[t].at = "loaded" /\ holder' = holder
        BY <1>4 DEF AlterPin
  <2>2. PICK c : Goes(t, c) /\ c.at = "sourced" /\ c.snap = current
        BY <1>4 DEF AlterPin
  <2> QED BY <2>1, <2>2, OneFlows
<1>5. CASE AlterRefused(t)
  <2>1. Goes(t, Idle) /\ holder' = holder /\ task[t].at = "sourced"
        BY <1>5 DEF AlterRefused, Refused
  <2> QED BY <1>0, <2>1, OneFlows
<1>6. CASE AlterLoad(t)
  <2>1. task[t].at = "flushed" /\ holder' = holder
        BY <1>6 DEF AlterLoad
  <2>2. PICK c : Goes(t, c) /\ c.at = "loaded"
        BY <1>6 DEF AlterLoad
  <2> QED BY <2>1, <2>2, OneFlows
<1> QED BY <1>1, <1>2, <1>3, <1>4, <1>5, <1>6

\* The schema change takes the mutex at its commit and gives it back when the
\* new schema is adopted.
LEMMA FlowHold ==
    ASSUME TypeInv, NEW t \in Tasks, AlterCommit(t) \/ AdoptSchema(t)
    PROVE  SnapsFlow /\ HolderFlow
<1>1. task[t].at \in {"sourced", "adopt"}
      BY DEF AlterCommit, AdoptSchema
<1>2. CASE AlterCommit(t)
  <2>1. PICK c : Goes(t, c) /\ c.at = "adopt"
        BY <1>2 DEF AlterCommit
  <2>2. task'[t] = c /\ \A u \in Tasks : u # t => task'[u] = task[u]
        BY <2>1 DEF TypeInv, Goes
  <2>3. holder = {} /\ holder' = {t}
        BY <1>2 DEF AlterCommit
  <2> QED BY <2>1, <2>2, <2>3 DEF SnapsFlow, HolderFlow, HasSnap
<1>3. CASE AdoptSchema(t)
  <2>1. task'[t] = Idle /\ \A u \in Tasks : u # t => task'[u] = task[u]
        BY <1>3 DEF TypeInv, Goes, AdoptSchema
  <2>2. task[t].at = "adopt" /\ holder' = {} /\ Idle.at = "idle"
        BY <1>3 DEF AdoptSchema, Idle
  <2> QED BY <2>1, <2>2 DEF SnapsFlow, HolderFlow, HasSnap
<1> QED BY <1>2, <1>3

\* The same for every step.
LEMMA FlowStep ==
    ASSUME TypeInv, NEW t \in Tasks, Step(t)
    PROVE  SnapsFlow /\ HolderFlow
<1>1. CASE Flush(t) \/ \E ids \in SUBSET Ids(segs) : DropSegments(t, ids)
  <2>1. task' = task /\ holder' = holder
        BY <1>1 DEF Flush, DropSegments
  <2> QED BY <2>1 DEF SnapsFlow, HolderFlow
<1>2. CASE Starts(t)
      BY <1>2, FlowStarts
<1>3. CASE \/ Insert(t) \/ ReadSegment(t) \/ ListSeqnos(t) \/ EndMatch(t)
           \/ ApplyDml(t) \/ RefuseDml(t)
      BY <1>3, FlowDml
<1>4. CASE \/ \E run \in SUBSET (1 .. nextId) : ReadRun(t, run)
           \/ WriteRun(t) \/ AbandonRun(t)
           \/ AlterFlush(t) \/ AlterLoad(t) \/ AlterPin(t) \/ AlterRefused(t)
      BY <1>4, FlowMaintain
<1>5. CASE AlterCommit(t) \/ AdoptSchema(t)
      BY <1>5, FlowHold
<1>6. CASE Faults(t)
  <2>1. CASE UNCHANGED task
        BY <1>6, <2>1, FaultIs DEF SnapsFlow, HolderFlow
  <2>2. CASE task[t].at \in {"rewrite", "sourced"} /\ Goes(t, Idle)
        BY <1>6, <2>2, FaultIs, OneFlows DEF Idle, HasSnap
  <2> QED BY <1>6, <2>1, <2>2, FaultIs
<1> QED BY <1>1, <1>2, <1>3, <1>4, <1>5, <1>6 DEF Step, Starts, Faults


\* Counting the smaller members of a set numbers it.
LEMMA Ranks ==
    ASSUME NEW S \in Fin(Nat)
    PROVE  /\ \A q : Before(S, q) \in Nat
           /\ \A a \in S : Before(S, a) < Cardinality(S)
           /\ \A a, b \in S : a < b => Before(S, a) < Before(S, b)
           /\ \A a, b \in S : Before(S, a) = Before(S, b) => a = b
<1> DEFINE B(q) == {x \in S : x < q}
<1>0. S \subseteq Nat /\ IsFiniteSet(S) /\ Cardinality(S) \in Nat
      BY FS_CardinalityType DEF Fin
<1>1. \A q : IsFiniteSet(B(q)) /\ Cardinality(B(q)) \in Nat
  <2> SUFFICES ASSUME NEW q PROVE IsFiniteSet(B(q)) /\ Cardinality(B(q)) \in Nat
      OBVIOUS
  <2>1. B(q) \in SUBSET S
        OBVIOUS
  <2>2. IsFiniteSet(B(q))
        BY <1>0, <2>1, FS_Subset
  <2> QED BY <2>2, FS_CardinalityType
<1>2. ASSUME NEW a \in S PROVE Cardinality(B(a)) < Cardinality(S)
  <2>1. B(a) \in SUBSET S /\ B(a) # S
        BY <1>0
  <2>2. Cardinality(B(a)) <= Cardinality(S) /\ Cardinality(B(a)) # Cardinality(S)
        BY <1>0, <2>1, FS_Subset
  <2> QED BY <1>0, <1>1, <2>2
<1>3. ASSUME NEW a \in S, NEW b \in S, a < b PROVE Cardinality(B(a)) < Cardinality(B(b))
  <2>0. a \in Nat /\ b \in Nat /\ \A x \in S : x \in Nat
        BY <1>0
  <2>7. \A x \in S : x < a => x < b
        BY <2>0, <1>3
  <2>1. B(a) \in SUBSET B(b)
        BY <2>7
  <2>2. a \in B(b) /\ a \notin B(a)
        BY <1>0, <1>3
  <2> DEFINE X == B(a)
             Y == B(b)
  <2>3. X \in SUBSET Y /\ X # Y /\ IsFiniteSet(Y)
        BY <2>1, <2>2, <1>1
  <2> HIDE DEF X, Y
  <2>4. Cardinality(X) <= Cardinality(Y) /\ Cardinality(X) # Cardinality(Y)
        BY <2>3, FS_Subset
  <2>5. Cardinality(X) \in Nat /\ Cardinality(Y) \in Nat
        BY <1>1 DEF X, Y
  <2>6. Cardinality(X) < Cardinality(Y)
        BY <2>4, <2>5
  <2> QED BY <2>6 DEF X, Y
<1>4. \A q : Before(S, q) = Cardinality(B(q))
      BY DEF Before
<1> HIDE DEF B
<1>5. \A a, b \in S : Before(S, a) = Before(S, b) => a = b
  <2> SUFFICES ASSUME NEW a \in S, NEW b \in S, Before(S, a) = Before(S, b), a # b
               PROVE  FALSE
      OBVIOUS
  <2>1. a < b \/ b < a
        BY <1>0
  <2>2. Before(S, a) < Before(S, b) \/ Before(S, b) < Before(S, a)
        BY <2>1, <1>3, <1>4
  <2> QED BY <2>2, <1>1, <1>4
<1> QED BY <1>1, <1>2, <1>3, <1>4, <1>5

\* The sequence numbers of a set of rows.
LEMMA SeqsFinite ==
    ASSUME NEW old \in Fin(Row)
    PROVE  {o.seq : o \in old} \in Fin(Nat)
<1> DEFINE S == {o.seq : o \in old}
           f == [o \in old |-> o.seq]
<1>1. S = {f[o] : o \in old} /\ S \in SUBSET Nat /\ IsFiniteSet(old)
      BY DEF Row, Fin
<1> HIDE DEF S, f
<1>2. IsFiniteSet({f[o] : o \in old})
      BY <1>1, ImageFinite
<1>3. S \in Fin(Nat)
      BY <1>1, <1>2 DEF Fin
<1> QED BY <1>3 DEF S

\* The replacements of an UPDATE take the next sequence numbers, no more than
\* the writer counts on by.
LEMMA Numbered ==
    ASSUME nextSeq \in Nat, NEW c, c.old \in Fin(Row)
    PROVE  \A n \in Replacements(c) :
               /\ nextSeq <= n.seq
               /\ n.seq < nextSeq + Cardinality(Replacements(c))
<1> DEFINE S == {o.seq : o \in c.old}
           R == Replacements(c)
<1>1. CASE c.op # "update"
      BY <1>1 DEF Replacements
<1>2. CASE c.op = "update"
  <2>1. R = {[seq |-> nextSeq + Before(S, r.seq), key |-> r.key] : r \in c.old}
        BY <1>2 DEF Replacements
  <2>2. S \in Fin(Nat) /\ S \subseteq Nat
        BY SeqsFinite DEF Fin
  <2>3. \A r \in c.old : r.seq \in S
        OBVIOUS
  <2>4. R \in Fin(Row) /\ Cardinality(R) \in Nat
        BY ReplacementsType
  <2>9. \A s \in S : \E r \in c.old : r.seq = s
        OBVIOUS
  <2> HIDE DEF S, R
  <2> DEFINE f == [n \in R |-> CHOOSE s \in S : nextSeq + Before(S, s) = n.seq]
  <2>5. \A a \in S : Before(S, a) \in Nat /\ Before(S, a) < Cardinality(S)
        BY <2>2, Ranks
  <2>6. ASSUME NEW r \in c.old, NEW n \in R,
               n = [seq |-> nextSeq + Before(S, r.seq), key |-> r.key]
        PROVE  f[n] = r.seq
    <3>1. r.seq \in S /\ nextSeq + Before(S, r.seq) = n.seq
          BY <2>3, <2>6
    <3>2. \A s \in S : nextSeq + Before(S, s) = n.seq => s = r.seq
      <4> SUFFICES ASSUME NEW s \in S, nextSeq + Before(S, s) = n.seq
                   PROVE  s = r.seq
          OBVIOUS
      <4>1. Before(S, s) = Before(S, r.seq)
            BY <3>1, <2>5
      <4> QED BY <4>1, <3>1, <2>2, Ranks
    <3> QED BY <3>1, <3>2
  <2>7. f \in Surjection(R, S)
    <3>1. \A n \in R : f[n] \in S
      <4> SUFFICES ASSUME NEW n \in R PROVE f[n] \in S
          OBVIOUS
      <4>1. PICK r \in c.old : n = [seq |-> nextSeq + Before(S, r.seq), key |-> r.key]
            BY <2>1
      <4> QED BY <4>1, <2>3, <2>6
    <3>2. \A s \in S : \E n \in R : f[n] = s
      <4> SUFFICES ASSUME NEW s \in S PROVE \E n \in R : f[n] = s
          OBVIOUS
      <4>1. PICK r \in c.old : r.seq = s
            BY <2>9
      <4>2. [seq |-> nextSeq + Before(S, r.seq), key |-> r.key] \in R
            BY <2>1
      <4> QED BY <4>1, <4>2, <2>6
    <3> QED BY <3>1, <3>2 DEF Surjection
  <2> HIDE DEF f
  <2>8. Cardinality(S) <= Cardinality(R)
        BY <2>4, <2>7, FS_Surjection DEF Fin
  <2>10. Cardinality(S) \in Nat
         BY <2>2, FS_CardinalityType DEF Fin
  <2>11. ASSUME NEW n \in R PROVE nextSeq <= n.seq /\ n.seq < nextSeq + Cardinality(R)
    <3>1. PICK r \in c.old : n = [seq |-> nextSeq + Before(S, r.seq), key |-> r.key]
          BY <2>1
    <3>2. n.seq = nextSeq + Before(S, r.seq) /\ r.seq \in S
          BY <3>1, <2>3
    <3> QED BY <3>2, <2>4, <2>5, <2>8, <2>10
  <2> QED BY <2>11 DEF R
<1> QED BY <1>1, <1>2


\* A step keeps identities when the writer's new state is known and published.
LEMMA IdKeep ==
    ASSUME TypeInv, TypeInv', IdInv, SnapsFlow, HolderFlow,
           nextId <= nextId', nextSeq <= nextSeq', txn <= txn',
           Known(Now', nextId', nextSeq', txn'),
           UNCHANGED <<segs, schema, current>> \/ Publish(schema'),
           \A x \in freed' : x.id < nextId' /\ x.map <= txn',
           holder' = holder \/ holder' = {} \/ \E t \in Tasks : holder' = {t}
    PROVE  IdInv'
<1>1. \A s \in FSnapshot :
          Known(s, nextId, nextSeq, txn) => Known(s, nextId', nextSeq', txn')
      BY KnownGrows DEF TypeInv
<1>2. current' = current \/ current' = Now'
      BY DEF Publish, Now
<1>3. current'.segs = segs' /\ current'.schema = schema'
      BY <1>2 DEF Now, IdInv, Publish
<1>4. Known(current', nextId', nextSeq', txn')
      BY <1>1, <1>2 DEF IdInv, TypeInv
<1>5. ASSUME NEW t \in Tasks, HasSnap(task'[t])
      PROVE  Known(task'[t].snap, nextId', nextSeq', txn')
  <2>1. CASE task'[t].snap = current
        BY <2>1, <1>1 DEF IdInv, TypeInv
  <2>2. CASE HasSnap(task[t]) /\ task'[t].snap = task[t].snap
    <3>1. task[t].snap \in FSnapshot
          BY <2>2, TaskAt DEF TypeInv, HasSnap, Pinned, Matching, Rewriting, Sourced
    <3> QED BY <2>2, <3>1, <1>1 DEF IdInv
  <2> QED BY <1>5, <2>1, <2>2 DEF SnapsFlow
<1>6. 0 < nextId'
      BY DEF IdInv, TypeInv
<1>7. \A t \in Tasks : task'[t].at = "adopt" <=> holder' = {t}
      BY DEF IdInv, HolderFlow
<1>8. holder' = {} \/ \E t \in Tasks : holder' = {t}
      BY DEF IdInv
<1> QED BY <1>3, <1>4, <1>5, <1>6, <1>7, <1>8 DEF IdInv

\* What KnownNow says of the writer's state, part by part.
LEMMA KnownNow ==
    ASSUME NEW n, NEW q, NEW k
    PROVE  Known(Now, n, q, k) <=>
               /\ \A e \in segs : /\ 0 < e.id /\ e.id < n
                                  /\ \A r \in e.rows : r.seq < q
                                  /\ \A b \in e.map : 0 < b /\ b <= k
               /\ \A e, f \in segs : e.id = f.id => e = f
               /\ \A x \in dead : x.id < n
               /\ \A x \in mem : x.row.seq < q
BY DEF Known, Now

\* Extents of known segments are below the counters.
LEMMA ExtentsKnown ==
    ASSUME NEW es, NEW n, NEW k \in Nat,
           \A e \in es : e.id < n /\ \A b \in e.map : b <= k
    PROVE  \A x \in Extents(es) : x.id < n /\ x.map <= k
BY DEF Extents

\* A step that leaves the writer alone keeps identities apart.
LEMMA QuietId ==
    ASSUME TypeInv, TypeInv', IdInv, SnapsFlow, HolderFlow,
           UNCHANGED <<writer, schema, current, holder>>
    PROVE  IdInv'
<1>1. Now' = Now
      BY DEF Now, writer
<1>2. nextId <= nextId' /\ nextSeq <= nextSeq' /\ txn <= txn'
      BY DEF TypeInv, writer
<1>3. Known(Now', nextId', nextSeq', txn')
      BY <1>1 DEF IdInv, writer
<1>4. \A x \in freed' : x.id < nextId' /\ x.map <= txn'
      BY DEF IdInv, writer
<1>5. UNCHANGED <<segs, schema, current>>
      BY DEF writer
<1> QED BY <1>2, <1>3, <1>4, <1>5, IdKeep

\* Insert keeps identities apart.
LEMMA InsertId ==
    ASSUME TypeInv, TypeInv', IdInv, SnapsFlow, HolderFlow, NEW t \in Tasks, Insert(t)
    PROVE  IdInv'
<1>1. /\ UNCHANGED <<segs, dead, nextId, txn, freed, schema, holder>>
      /\ nextSeq' = nextSeq + 1 /\ Publish(schema')
      BY DEF Insert
<1>2. \A x \in mem' : x.row.seq < nextSeq'
  <2>1. \A x \in mem' : x \in mem \/ x.row.seq = nextSeq
        BY DEF Insert
  <2>2. \A x \in mem : x.row.seq \in Nat /\ x.row.seq < nextSeq
        BY KnownNow DEF IdInv, TypeInv, Fin, Held, Row
  <2> QED BY <1>1, <2>1, <2>2 DEF TypeInv
<1>3. \A e \in segs' : \A r \in e.rows : r.seq < nextSeq'
  <2>1. \A e \in segs : \A r \in e.rows : r.seq \in Nat /\ r.seq < nextSeq
        BY KnownNow DEF IdInv, TypeInv, Fin, FSegment, Row
  <2> QED BY <1>1, <2>1 DEF TypeInv
<1>4. Known(Now', nextId', nextSeq', txn')
      BY <1>1, <1>2, <1>3, KnownNow DEF Known, Now, IdInv
<1> QED BY <1>1, <1>4, IdKeep DEF IdInv, TypeInv

\* ApplyDml keeps identities apart.
LEMMA ApplyDmlId ==
    ASSUME TypeInv, TypeInv', IdInv, SnapsFlow, HolderFlow, NEW t \in Tasks, ApplyDml(t)
    PROVE  IdInv'
<1> DEFINE c == task[t]
           new == Replacements(c)
<1>1. c.old \in Fin(Row) /\ c.hits \in Fin(Hit)
      BY TaskAt DEF TypeInv, ApplyDml, Matching
<1>2. /\ dead' = dead \cup Marked(c)
      /\ mem' = {x \in mem : x.row.seq \notin c.seqs}
                \cup [row : new, schema : c.schemas, batch : {nextSeq}]
      /\ nextSeq' = nextSeq + Cardinality(new)
      /\ UNCHANGED <<segs, nextId, txn, freed, doubled, schema, holder>>
      /\ UNCHANGED current \/ Publish(schema)
      /\ {h.id : h \in c.hits} \subseteq Ids(segs)
      BY DEF ApplyDml, Replacements, Marked
<1>3. Cardinality(new) \in Nat /\ \A n \in new : n.seq < nextSeq'
      BY <1>1, <1>2, ReplacementsType, Numbered DEF TypeInv
<1>4. nextSeq <= nextSeq'
      BY <1>2, <1>3 DEF TypeInv
<1>5. \A x \in mem' : x.row.seq < nextSeq'
  <2>1. \A x \in mem : x.row.seq \in Nat /\ x.row.seq < nextSeq
        BY KnownNow DEF IdInv, TypeInv, Fin, Held, Row
  <2>2. \A x \in mem : x.row.seq < nextSeq'
        BY <1>4, <2>1 DEF TypeInv
  <2> HIDE DEF new, c
  <2> QED BY <1>2, <1>3, <2>2
<1>6. \A e \in segs' : \A r \in e.rows : r.seq < nextSeq'
  <2>1. \A e \in segs : \A r \in e.rows : r.seq \in Nat /\ r.seq < nextSeq
        BY KnownNow DEF IdInv, TypeInv, Fin, FSegment, Row
  <2> QED BY <1>2, <1>4, <2>1 DEF TypeInv
<1>7. \A x \in dead' : x.id < nextId'
  <2>1. \A x \in Marked(c) : x.id \in Ids(segs)
        BY <1>2 DEF Marked
  <2>2. \A i \in Ids(segs) : i < nextId
        BY KnownNow DEF IdInv, Ids
  <2>3. \A x \in dead : x.id < nextId
        BY KnownNow DEF IdInv
  <2> QED BY <1>2, <2>1, <2>2, <2>3
<1> HIDE DEF new, c
<1>8. Known(Now', nextId', nextSeq', txn')
      BY <1>2, <1>5, <1>6, <1>7, KnownNow DEF Known, Now, IdInv
<1>9. nextId <= nextId' /\ txn <= txn' /\ \A x \in freed' : x.id < nextId' /\ x.map <= txn'
      BY <1>2 DEF IdInv, TypeInv
<1>10. UNCHANGED <<segs, schema, current>> \/ Publish(schema')
       BY <1>2
<1> QED BY <1>2, <1>4, <1>8, <1>9, <1>10, IdKeep


\* What a flush makes of the segments.
LEMMA FlushedSegments ==
    ASSUME TypeInv, IdInv, FlushLocked
    PROVE  /\ \A e \in segs' :
                 \/ \E f \in segs : e = Remap(f)
                 \/ /\ e.id = nextId /\ e.rows = {x.row : x \in mem}
                    /\ e.rows # {} /\ e.map = {} /\ e.schema = schema
           /\ \A f \in segs : Remap(f) \in segs'
           /\ nextId' = nextId + (IF mem = {} THEN 0 ELSE 1)
           /\ mem # {} => \E e \in segs' : e.id = nextId /\ e.rows = {x.row : x \in mem}
<1> DEFINE rows == {x.row : x \in mem}
           new == NewSegment(rows, schema)
<1>1. rows \in Fin(Row)
      BY FlushLockedType
<1>2. segs' = {Remap(e) : e \in segs} \cup new /\ nextId' = nextId + Cardinality(new)
      BY DEF FlushLocked
<1>3. new = IF rows = {} THEN {}
            ELSE {[id |-> nextId, rows |-> rows, schema |-> schema, map |-> {}]}
      BY DEF NewSegment
<1>4. rows = {} <=> mem = {}
      OBVIOUS
<1>5. Cardinality(new) = IF mem = {} THEN 0 ELSE 1
  <2>1. nextId \in Nat /\ schema \in Schema
        BY DEF TypeInv
  <2> HIDE DEF rows
  <2> QED BY <1>1, <1>4, <2>1, NewSegmentType
<1> HIDE DEF new
<1>6. \A e \in new : /\ e.id = nextId /\ e.rows = rows
                    /\ rows # {} /\ e.map = {} /\ e.schema = schema
  <2> HIDE DEF rows
  <2> QED BY <1>3
<1>7. mem # {} => \E e \in new : e.id = nextId /\ e.rows = rows
  <2> HIDE DEF rows
  <2> QED BY <1>3, <1>4
<1>8. \A f \in segs : Remap(f) \in segs'
      BY <1>2
<1>9. \A e \in segs' : (\E f \in segs : e = Remap(f)) \/ e \in new
      BY <1>2
<1>10. \A e \in new : e \in segs'
       BY <1>2
<1> QED BY <1>2, <1>5, <1>6, <1>7, <1>8, <1>9, <1>10

\* FlushLocked keeps identities apart.
LEMMA FlushLockedId ==
    ASSUME TypeInv, TypeInv', IdInv, SnapsFlow, HolderFlow, FlushLocked,
           UNCHANGED <<schema, holder>>
    PROVE  IdInv'
<1>1. /\ \A e \in segs' :
            \/ \E f \in segs : e = Remap(f)
            \/ /\ e.id = nextId /\ e.rows = {x.row : x \in mem} /\ e.map = {}
      /\ nextId' = nextId + (IF mem = {} THEN 0 ELSE 1)
      /\ mem # {} \/ \A e \in segs' : \E f \in segs : e = Remap(f)
  <2>1. mem = {} => {x.row : x \in mem} = {}
        OBVIOUS
  <2> QED BY <2>1, FlushedSegments
<1>2. /\ dead' = dead /\ mem' = {} /\ nextSeq' = nextSeq /\ txn' = txn + 1 /\ Publish(schema')
      /\ Free(Extents(segs) \ Extents(segs'))
      BY DEF FlushLocked
<1>3. /\ \A e \in segs : e.id \in Nat /\ 0 < e.id /\ e.id < nextId
      /\ \A e \in segs : \A r \in e.rows : r.seq < nextSeq
      /\ \A e \in segs : \A b \in e.map : b \in Nat /\ 0 < b /\ b <= txn
      /\ \A e, f \in segs : e.id = f.id => e = f
      /\ \A x \in dead : x.id \in Nat /\ x.id < nextId
      /\ \A x \in mem : x.row.seq < nextSeq
      /\ nextId \in Nat /\ txn \in Nat /\ 0 < nextId
      BY KnownNow DEF IdInv, TypeInv, Fin, FSegment, Deleted
<1>4. \A e \in segs : /\ Remap(e).id = e.id /\ Remap(e).rows = e.rows
                      /\ Remap(e).map = e.map \/ Remap(e).map = {txn + 1}
      BY RemapType DEF TypeInv
<1>5. nextId' \in Nat /\ nextId <= nextId' /\ (mem # {} => nextId < nextId')
      BY <1>1, <1>3
<1>6. ASSUME NEW e \in segs'
      PROVE  /\ 0 < e.id /\ e.id < nextId'
             /\ \A r \in e.rows : r.seq < nextSeq'
             /\ \A b \in e.map : 0 < b /\ b <= txn'
  <2>1. CASE \E f \in segs : e = Remap(f)
    <3>1. PICK f \in segs : e = Remap(f)
          BY <2>1
    <3>2. 0 < e.id /\ e.id < nextId' /\ \A r \in e.rows : r.seq < nextSeq'
          BY <3>1, <1>2, <1>3, <1>4, <1>5
    <3>3. \A b \in e.map : 0 < b /\ b <= txn'
          BY <3>1, <1>2, <1>3, <1>4
    <3> QED BY <3>2, <3>3
  <2>2. CASE /\ e.id = nextId /\ e.rows = {x.row : x \in mem} /\ e.map = {} /\ mem # {}
        BY <2>2, <1>2, <1>3, <1>5
  <2> QED BY <1>1, <2>1, <2>2
<1>7. ASSUME NEW e \in segs', NEW f \in segs', e.id = f.id PROVE e = f
  <2>1. CASE \E g \in segs : e = Remap(g)
    <3>1. \E h \in segs : f = Remap(h)
          BY <2>1, <1>1, <1>3, <1>4, <1>7
    <3> QED BY <2>1, <3>1, <1>3, <1>4, <1>7
  <2>2. CASE ~ \E g \in segs : e = Remap(g)
    <3>1. e.id = nextId
          BY <2>2, <1>1
    <3>2. ~ \E g \in segs : f = Remap(g)
          BY <3>1, <1>3, <1>4, <1>7
    <3>3. PICK n : NewSegment({x.row : x \in mem}, schema) \subseteq {n}
          BY DEF NewSegment
    <3>4. e \in NewSegment({x.row : x \in mem}, schema) /\ f \in NewSegment({x.row : x \in mem}, schema)
          BY <2>2, <3>2 DEF FlushLocked
    <3> QED BY <3>3, <3>4
  <2> QED BY <2>1, <2>2
<1>8. Known(Now', nextId', nextSeq', txn')
  <2>1. \A x \in dead' : x.id < nextId'
        BY <1>2, <1>3, <1>5
  <2> QED BY <1>2, <1>6, <1>7, <2>1 DEF Known, Now
<1>9. \A x \in freed' : x.id < nextId' /\ x.map <= txn'
  <2>1. \A x \in Extents(segs) : x.id < nextId /\ x.map <= txn
        BY <1>3, ExtentsKnown
  <2>2. \A x \in freed' : x.id < nextId /\ x.map <= txn
        BY <1>2, <2>1 DEF Free, IdInv
  <2>3. \A x \in freed' : x.id \in Nat /\ x.map \in Nat
        BY DEF TypeInv
  <2> QED BY <1>2, <1>3, <1>5, <2>2, <2>3
<1>10. nextSeq <= nextSeq' /\ txn <= txn'
       BY <1>2 DEF TypeInv
<1> QED BY <1>2, <1>5, <1>8, <1>9, <1>10, IdKeep

\* FlushFails keeps identities apart.
LEMMA FlushFailsId ==
    ASSUME TypeInv, TypeInv', IdInv, SnapsFlow, HolderFlow, NEW t, FlushFails(t),
           UNCHANGED <<schema, holder>>
    PROVE  IdInv'
<1>1. UNCHANGED <<segs, dead, nextSeq, nextId, txn, freed, doubled, current>> /\ mem' = {}
      BY DEF FlushFails
<1>2. Known(Now', nextId', nextSeq', txn')
      BY <1>1, KnownNow DEF Known, Now, IdInv
<1> QED BY <1>1, <1>2, IdKeep DEF IdInv, TypeInv

\* A failing commit keeps identities apart.
LEMMA FaultId ==
    ASSUME TypeInv, TypeInv', IdInv, SnapsFlow, HolderFlow, NEW t, Faults(t)
    PROVE  IdInv'
<1>1. /\ UNCHANGED <<segs, mem, nextSeq, nextId, txn, freed>> /\ dead' \subseteq dead
      /\ UNCHANGED <<current, schema, holder>>
      BY FaultIs
<1>2. Known(Now', nextId', nextSeq', txn')
      BY <1>1, KnownNow DEF Known, Now, IdInv
<1> QED BY <1>1, <1>2, IdKeep DEF IdInv, TypeInv

\* DropSegments keeps identities apart.
LEMMA DropSegmentsId ==
    ASSUME TypeInv, TypeInv', IdInv, SnapsFlow, HolderFlow,
           NEW t \in Tasks, NEW ids, DropSegments(t, ids)
    PROVE  IdInv'
<1> DEFINE gone == Entries(segs, ids)
<1>1. /\ dead' \subseteq dead /\ UNCHANGED <<mem, nextSeq, nextId, schema, holder>>
      /\ \/ UNCHANGED <<segs, txn, freed, current>>
         \/ /\ segs' = segs \ gone /\ Free(Extents(gone)) /\ txn' = txn + 1
            /\ Publish(schema')
      BY DEF DropSegments, Forget
<1>2. /\ \A e \in segs : e.id < nextId /\ 0 < e.id /\ \A r \in e.rows : r.seq < nextSeq
      /\ \A e \in segs : \A b \in e.map : b \in Nat /\ 0 < b /\ b <= txn
      /\ \A e, f \in segs : e.id = f.id => e = f
      /\ \A x \in dead : x.id < nextId
      /\ \A x \in mem : x.row.seq < nextSeq
      /\ txn \in Nat /\ gone \subseteq segs
      BY KnownNow DEF IdInv, TypeInv, Fin, FSegment, Entries
<1>3. txn <= txn' /\ nextId <= nextId' /\ nextSeq <= nextSeq' /\ segs' \subseteq segs
      BY <1>1 DEF TypeInv
<1>4. \A e \in segs : \A b \in e.map : b <= txn'
      BY <1>2, <1>3, <1>1
<1>5. Known(Now', nextId', nextSeq', txn')
      BY <1>1, <1>2, <1>3, <1>4 DEF Known, Now
<1>6. \A x \in freed' : x.id < nextId' /\ x.map <= txn'
  <2>1. \A x \in Extents(gone) : x.id < nextId /\ x.map <= txn
        BY <1>2, ExtentsKnown
  <2>2. \A x \in freed' : x.id < nextId /\ x.map <= txn
        BY <1>1, <2>1 DEF Free, IdInv
  <2>3. \A x \in freed' : x.id \in Nat /\ x.map \in Nat
        BY DEF TypeInv
  <2> QED BY <1>1, <1>2, <2>2, <2>3
<1>7. UNCHANGED <<segs, schema, current>> \/ Publish(schema')
      BY <1>1
<1> QED BY <1>1, <1>3, <1>5, <1>6, <1>7, IdKeep

\* The commit of a rewrite, whose sources were read from a snapshot.
LEMMA RewrittenId ==
    ASSUME TypeInv, TypeInv', IdInv, SnapsFlow, HolderFlow,
           NEW snap \in FSnapshot, Known(snap, nextId, nextSeq, txn),
           NEW sources \in SUBSET snap.segs, NEW d, NEW s,
           Rewritten(sources, LiveRows(sources, d), s), LiveRows(sources, d) \in Fin(Row),
           s \in Schema, UNCHANGED schema, holder' = holder \/ \E t \in Tasks : holder' = {t}
    PROVE  IdInv'
<1> DEFINE rows == LiveRows(sources, d)
           new == NewSegment(rows, s)
<1>1. /\ segs' = (segs \ Entries(segs, Ids(sources))) \cup new
      /\ nextId' = nextId + Cardinality(new) /\ mem' = mem /\ nextSeq' = nextSeq
      /\ txn' = txn + 1 /\ Publish(schema') /\ dead' \subseteq dead
      /\ Free(Extents(sources))
      BY DEF Rewritten, Retire, Forget
<1>2. /\ \A e \in segs : e.id \in Nat /\ e.id < nextId /\ 0 < e.id
      /\ \A e \in segs : \A r \in e.rows : r.seq < nextSeq
      /\ \A e \in segs : \A b \in e.map : b \in Nat /\ 0 < b /\ b <= txn
      /\ \A e, f \in segs : e.id = f.id => e = f
      /\ \A x \in dead : x.id \in Nat /\ x.id < nextId
      /\ \A x \in mem : x.row.seq < nextSeq
      /\ txn \in Nat /\ nextId \in Nat /\ 0 < nextId
      BY KnownNow DEF IdInv, TypeInv, Fin, FSegment, Deleted
<1>3. /\ Cardinality(new) = IF rows = {} THEN 0 ELSE 1
      /\ \A e \in new : e.id = nextId /\ e.rows = rows /\ e.map = {} /\ rows # {}
      /\ \A e, f \in new : e = f
  <2> HIDE DEF rows
  <2>1. Cardinality(new) = IF rows = {} THEN 0 ELSE 1
        BY NewSegmentType DEF TypeInv, rows
  <2> QED BY <2>1 DEF NewSegment
<1>4. \A r \in rows : r.seq < nextSeq
      BY DEF LiveRows, Live, Known
<1> HIDE DEF rows, new
<1>5. nextId' \in Nat /\ nextId <= nextId' /\ txn <= txn' /\ nextSeq <= nextSeq'
      BY <1>1, <1>2, <1>3 DEF TypeInv
<1>6. ASSUME NEW e \in segs'
      PROVE  /\ 0 < e.id /\ e.id < nextId'
             /\ \A r \in e.rows : r.seq < nextSeq'
             /\ \A b \in e.map : 0 < b /\ b <= txn'
  <2>1. CASE e \in segs
        BY <2>1, <1>1, <1>2, <1>5
  <2>2. CASE e \in new
        BY <2>2, <1>1, <1>2, <1>3, <1>4
  <2> QED BY <1>1, <2>1, <2>2
<1>7. \A e, f \in segs' : e.id = f.id => e = f
      BY <1>1, <1>2, <1>3
<1>8. Known(Now', nextId', nextSeq', txn')
  <2>1. \A x \in dead' : x.id < nextId'
        BY <1>1, <1>2, <1>5
  <2>2. \A x \in mem' : x.row.seq < nextSeq'
        BY <1>1, <1>2
  <2> QED BY <1>6, <1>7, <2>1, <2>2 DEF Known, Now
<1>9. \A x \in freed' : x.id < nextId' /\ x.map <= txn'
  <2>1. \A x \in Extents(sources) : x.id < nextId /\ x.map <= txn
        BY <1>2, ExtentsKnown DEF Known
  <2>2. \A x \in freed' : x.id < nextId /\ x.map <= txn
        BY <1>1, <2>1 DEF Free, IdInv
  <2>3. \A x \in freed' : x.id \in Nat /\ x.map \in Nat
        BY DEF TypeInv
  <2> QED BY <1>1, <1>2, <1>5, <2>2, <2>3
<1> QED BY <1>1, <1>5, <1>8, <1>9, IdKeep


\* WriteRun keeps identities apart.
LEMMA WriteRunId ==
    ASSUME TypeInv, TypeInv', IdInv, SnapsFlow, HolderFlow, NEW t \in Tasks, WriteRun(t)
    PROVE  IdInv'
<1> DEFINE c == task[t]
<1>1. c \in Rewriting /\ c.snap \in FSnapshot
      BY TaskAt DEF TypeInv, WriteRun, Rewriting
<1>2. Known(c.snap, nextId, nextSeq, txn)
      BY DEF IdInv, WriteRun, HasSnap
<1>3. /\ Rewritten(RunSources(c), LiveRows(RunSources(c), c.snap.dead), schema)
      /\ UNCHANGED <<schema, holder>>
      BY DEF WriteRun, RunRows
<1>4. LiveRows(RunSources(c), c.snap.dead) \in Fin(Row)
      BY <1>1, RunType DEF RunRows
<1>5. RunSources(c) \in SUBSET c.snap.segs /\ schema \in Schema
      BY DEF RunSources, Entries, TypeInv
<1> HIDE DEF c
<1> QED BY <1>1, <1>2, <1>3, <1>4, <1>5, RewrittenId

\* AlterCommit keeps identities apart.
LEMMA AlterCommitId ==
    ASSUME TypeInv, TypeInv', IdInv, SnapsFlow, HolderFlow, NEW t \in Tasks, AlterCommit(t)
    PROVE  IdInv'
<1> DEFINE c == task[t]
           sources == LiveSegments(c.snap)
<1>1. c \in Sourced /\ c.snap \in FSnapshot /\ c.after \in Schema
      BY TaskAt DEF TypeInv, AlterCommit, Sourced
<1>2. Known(c.snap, nextId, nextSeq, txn)
      BY DEF IdInv, AlterCommit, HasSnap
<1>3. LiveRows(sources, c.snap.dead) \in Fin(Row) /\ sources \in SUBSET c.snap.segs
      BY <1>1, SourcesType DEF LiveSegments
<1>4. UNCHANGED schema /\ holder' = {t}
      BY DEF AlterCommit
<1>5. \/ Rewritten(sources, LiveRows(sources, c.snap.dead), c.after)
      \/ /\ txn' = txn + 1
         /\ UNCHANGED <<segs, dead, dirty, mem, nextSeq, nextId, freed, doubled>>
         /\ Publish(schema)
      BY DEF AlterCommit
<1>6. CASE Rewritten(sources, LiveRows(sources, c.snap.dead), c.after)
  <2> HIDE DEF c, sources
  <2> QED BY <1>1, <1>2, <1>3, <1>4, <1>6, RewrittenId
<1>7. CASE /\ txn' = txn + 1
           /\ UNCHANGED <<segs, dead, dirty, mem, nextSeq, nextId, freed, doubled>>
           /\ Publish(schema)
  <2>1. Now \in FSnapshot /\ txn \in Nat /\ txn' \in Nat /\ nextId \in Nat /\ nextSeq \in Nat
        BY <1>7 DEF TypeInv, Now, FSnapshot
  <2>2. Known(Now, nextId, nextSeq, txn')
        BY <1>7, <2>1, KnownGrows DEF IdInv
  <2>3. Now' = Now
        BY <1>4, <1>7 DEF Now
  <2>4. \A x \in freed' : x.id < nextId' /\ x.map <= txn'
        BY <1>7, <2>1 DEF IdInv, TypeInv
  <2>5. nextId <= nextId' /\ nextSeq <= nextSeq' /\ txn <= txn'
        BY <1>7, <2>1
  <2> QED BY <1>4, <1>7, <2>2, <2>3, <2>4, <2>5, IdKeep
<1> QED BY <1>5, <1>6, <1>7

\* AdoptSchema keeps identities apart.
LEMMA AdoptSchemaId ==
    ASSUME TypeInv, TypeInv', IdInv, SnapsFlow, HolderFlow, NEW t \in Tasks, AdoptSchema(t)
    PROVE  IdInv'
<1>1. /\ UNCHANGED <<segs, dead, dirty, nextSeq, nextId, txn, freed, doubled>>
      /\ mem' = {} /\ holder' = {} /\ Publish(schema')
      BY DEF AdoptSchema
<1>2. Known(Now', nextId', nextSeq', txn')
      BY <1>1, KnownNow DEF Known, Now, IdInv
<1> QED BY <1>1, <1>2, IdKeep DEF IdInv, TypeInv

\* Steps that change only what a call knows.
Asks(t) ==
    \/ Starts(t)
    \/ ReadSegment(t) \/ ListSeqnos(t) \/ EndMatch(t) \/ RefuseDml(t)
    \/ \E run \in SUBSET (1 .. nextId) : ReadRun(t, run)
    \/ AbandonRun(t) \/ AlterLoad(t) \/ AlterPin(t) \/ AlterRefused(t)
    \/ AlterFlush(t) /\ UNCHANGED <<writer, current>>

Flushes(t) ==
    /\ Flush(t) \/ AlterFlush(t)
    /\ FlushLocked \/ FlushFails(t)

\* The steps there are.
LEMMA StepIs ==
    ASSUME NEW t \in Tasks, Step(t)
    PROVE  \/ Asks(t) \/ Insert(t) \/ ApplyDml(t) \/ Flushes(t)
           \/ \E ids \in SUBSET Ids(segs) : DropSegments(t, ids)
           \/ WriteRun(t) \/ AlterCommit(t) \/ AdoptSchema(t) \/ Faults(t)
<1>1. CASE Flush(t)
      BY <1>1 DEF Flush, Flushes
<1>2. CASE AlterFlush(t)
  <2>1. UNCHANGED <<writer, current>> \/ FlushLocked \/ FlushFails(t)
        BY <1>2 DEF AlterFlush
  <2> QED BY <1>2, <2>1 DEF Asks, Flushes
<1>3. CASE /\ ~Flush(t) /\ ~AlterFlush(t)
      BY <1>3 DEF Step, Asks, Starts, Faults
<1> QED BY <1>1, <1>2, <1>3

\* Calls that only read or refuse change nothing shared.
LEMMA AsksLeave ==
    ASSUME NEW t \in Tasks, Asks(t)
    PROVE  UNCHANGED <<writer, schema, current, holder>>
BY DEF Asks, Starts, StartInsert, StartDml, StartCompact, StartAlter, ReadSegment,
       ListSeqnos, EndMatch, RefuseDml, ReadRun, AbandonRun, AlterLoad, AlterPin,
       AlterRefused, AlterFlush, Refused

\* Every flush is flush_locked, finished or failed.
LEMMA FlushesLeave ==
    ASSUME NEW t \in Tasks, Flushes(t)
    PROVE  UNCHANGED <<schema, holder, truth>> /\ (FlushLocked \/ FlushFails(t))
BY DEF Flushes, Flush, AlterFlush

\* Every action keeps identities apart.
LEMMA IdStep ==
    ASSUME TypeInv, TypeInv', IdInv, [Next]_vars
    PROVE  IdInv'
<1>1. ASSUME NEW t \in Tasks, Step(t) PROVE IdInv'
  <2>0. SnapsFlow /\ HolderFlow
        BY <1>1, FlowStep
  <2>1. CASE Asks(t)
        BY <2>0, <2>1, AsksLeave, QuietId
  <2>2. CASE Insert(t) \/ ApplyDml(t) \/ WriteRun(t) \/ AlterCommit(t) \/ AdoptSchema(t)
        BY <2>0, <2>2, InsertId, ApplyDmlId, WriteRunId, AlterCommitId, AdoptSchemaId
  <2>3. CASE Flushes(t)
        BY <2>0, <2>3, FlushesLeave, FlushLockedId, FlushFailsId
  <2>4. CASE \E ids \in SUBSET Ids(segs) : DropSegments(t, ids)
        BY <2>0, <2>4, DropSegmentsId
  <2>5. CASE Faults(t)
        BY <2>0, <2>5, FaultId
  <2> QED BY <1>1, <2>1, <2>2, <2>3, <2>4, <2>5, StepIs
<1>2. CASE UNCHANGED vars
  <2>1. SnapsFlow /\ HolderFlow
        BY <1>2 DEF vars, SnapsFlow, HolderFlow
  <2> QED BY <1>2, <2>1, QuietId DEF vars
<1> QED BY <1>1, <1>2 DEF Next

\* Identities are apart at the start.
LEMMA IdInit ==
    ASSUME Init
    PROVE  IdInv
<1>1. Now = current /\ Known(current, nextId, nextSeq, txn)
      BY DEF Init, Now, Known
<1>2. \A t \in Tasks : task[t].at = "idle"
      BY DEF Init, Idle
<1> QED BY <1>1, <1>2 DEF Init, IdInv, HasSnap

Base == TypeInv /\ IdInv

\* Types and identities hold throughout.
LEMMA BaseHolds == Spec => []Base
<1>1. Init => Base
      BY TypeInit, IdInit DEF Base
<1>2. Base /\ [Next]_vars => Base'
      BY TypeStep, IdStep DEF Base
<1> QED BY <1>1, <1>2, PTL DEF Spec


----------------------------------------------------------------------------
(* A task that works alone.                                                *)

LoneInv ==
    \A t \in Tasks : Alone(t) =>
        /\ \A u \in Tasks : u # t => task[u] = Idle
        /\ HasSnap(task[t]) => task[t].snap = current

\* A task that calls nothing never does anything.
LEMMA IdleStays ==
    ASSUME NEW t \in Tasks, task[t] = Idle, load.calls[t] = {}
    PROVE  ~Step(t)
<1>1. task[t].at = "idle" /\ \A op : ~Calls(t, op)
      BY DEF Idle, Calls
<1>2. ~Faults(t)
      BY <1>1, FaultIs DEF Faults, MayFail
<1>3. ~ReadSegment(t)
      BY <1>1, ReadSegmentIs
<1> QED BY <1>1, <1>2, <1>3
        DEF Step, Faults, StartInsert, StartDml, Insert, ListSeqnos, EndMatch, ApplyDml,
            RefuseDml, Flush, DropSegments, StartCompact, ReadRun, WriteRun, AbandonRun,
            StartAlter, AlterFlush, AlterLoad, AlterPin, AlterRefused, AlterCommit,
            AdoptSchema

\* A step that publishes leaves its task without a snapshot.
LEMMA PublishedBy ==
    ASSUME TypeInv, NEW t \in Tasks, Step(t), current' # current
    PROVE  ~HasSnap(task'[t])
<1>0. ~HasSnap(Idle)
      BY DEF HasSnap, Idle
<1>1. ~Asks(t)
      BY AsksLeave
<1>2. CASE Insert(t) \/ ApplyDml(t) \/ AdoptSchema(t)
  <2>1. task'[t] = Idle
        BY <1>2 DEF Insert, ApplyDml, AdoptSchema, Goes, TypeInv
  <2> QED BY <1>0, <2>1
<1>3. CASE \/ Flush(t) \/ \E ids \in SUBSET Ids(segs) : DropSegments(t, ids)
  <2>1. task' = task /\ task[t] = Idle
        BY <1>3 DEF Flush, DropSegments, Calls
  <2> QED BY <1>0, <2>1
<1>4. CASE AlterFlush(t)
  <2>1. task'[t] = Idle \/ task'[t] = [task[t] EXCEPT !.at = "flushed"]
        BY <1>4 DEF AlterFlush, Goes, TypeInv
  <2>2. task[t] \in Altering
        BY <1>4, TaskAt DEF AlterFlush, TypeInv
  <2>3. [task[t] EXCEPT !.at = "flushed"].at = "flushed"
        BY <2>2 DEF Altering
  <2> QED BY <1>0, <2>1, <2>3 DEF HasSnap
<1>5. CASE WriteRun(t) \/ AlterCommit(t)
  <2>1. task'[t] = Idle \/ task'[t].at \in {"compact", "adopt"}
        BY <1>5 DEF WriteRun, AlterCommit, NextRun, Goes, TypeInv
  <2> QED BY <1>0, <2>1 DEF HasSnap
<1>6. ~Faults(t)
      BY FaultIs
<1> QED BY <1>1, <1>2, <1>3, <1>4, <1>5, <1>6, StepIs DEF Flushes

\* A step moves its own task and no other.
LEMMA OthersWait ==
    ASSUME TypeInv, NEW t \in Tasks, Step(t)
    PROVE  \A u \in Tasks : u # t => task'[u] = task[u]
<1>1. (\E c : Goes(t, c)) \/ task' = task
  <2>1. CASE ReadSegment(t)
        BY <2>1, ReadSegmentIs
  <2>2. CASE Faults(t)
        BY <2>2, FaultIs
  <2>3. CASE ~ReadSegment(t) /\ ~Faults(t)
        BY <2>3 DEF Step, Faults, StartInsert, StartDml, Insert, ListSeqnos, EndMatch,
             ApplyDml, RefuseDml, Refused, Flush, DropSegments, StartCompact, ReadRun,
             WriteRun, AbandonRun, StartAlter, AlterFlush, AlterLoad, AlterPin,
             AlterRefused, AlterCommit, AdoptSchema
  <2> QED BY <2>1, <2>2, <2>3
<1> QED BY <1>1 DEF Goes, TypeInv

\* A task alone stays alone, and its snapshot is the published one.
LEMMA LoneStep ==
    ASSUME TypeInv, LoneInv, [Next]_vars
    PROVE  LoneInv'
<1> SUFFICES ASSUME NEW t \in Tasks, Alone(t)'
             PROVE  /\ \A u \in Tasks : u # t => task'[u] = Idle
                    /\ HasSnap(task'[t]) => task'[t].snap = current'
    BY DEF LoneInv
<1>0. load' = load
      BY DEF Next, vars
<1>1. /\ Alone(t)
      /\ \A u \in Tasks : u # t => task[u] = Idle
      /\ HasSnap(task[t]) => task[t].snap = current
      BY <1>0 DEF LoneInv, Alone
<1>2. CASE UNCHANGED vars
      BY <1>1, <1>2 DEF vars
<1>3. ASSUME NEW v \in Tasks, Step(v)
      PROVE  /\ \A u \in Tasks : u # t => task'[u] = Idle
             /\ HasSnap(task'[t]) => task'[t].snap = current'
  <2>1. v = t
        BY <1>1, <1>3, IdleStays DEF Alone
  <2>2. \A u \in Tasks : u # t => task'[u] = Idle
        BY <1>1, <1>3, <2>1, OthersWait
  <2>3. HasSnap(task'[t]) => task'[t].snap = current
        BY <1>1, <1>3, <2>1, FlowStep DEF SnapsFlow
  <2> QED BY <1>3, <2>1, <2>2, <2>3, PublishedBy
<1> QED BY <1>2, <1>3 DEF Next

\* Nobody has a call under way at the start.
LEMMA LoneInit ==
    ASSUME Init
    PROVE  LoneInv
BY DEF Init, LoneInv, Idle, HasSnap

----------------------------------------------------------------------------
(* Extents freed once.                                                     *)

LEMMA ExtentsAre ==
    ASSUME NEW es, NEW x
    PROVE  x \in Extents(es) <=>
               \E e \in es : \/ x = [id |-> e.id, map |-> 0]
                             \/ \E b \in e.map : x = [id |-> e.id, map |-> b]
BY DEF Extents

\* Segments G leave the manifest and their extents are freed.
LEMMA FreeEntries ==
    ASSUME Base, FreedOnce, NEW G \in SUBSET segs, NEW new,
           \A e \in new : e.id = nextId /\ e.map = {},
           segs' = (segs \ G) \cup new, Free(Extents(G))
    PROVE  FreedOnce'
<1>1. /\ \A e, f \in segs : e.id = f.id => e = f
      /\ \A x \in freed : x.id < nextId /\ x.id \in Nat
      /\ \A e \in segs : e.id < nextId /\ e.id \in Nat
      /\ nextId \in Nat
      BY KnownNow DEF Base, IdInv, TypeInv, Fin, FSegment
<1>2. \A x : x \in Extents(G) => x \in Extents(segs)
      BY DEF Extents
<1>3. doubled' = {} /\ freed' = freed \cup Extents(G)
      BY <1>2 DEF FreedOnce, Free
<1>4. ASSUME NEW x \in Extents(segs'), x \in freed' PROVE FALSE
  <2>1. PICK e \in segs' : \/ x = [id |-> e.id, map |-> 0]
                           \/ \E b \in e.map : x = [id |-> e.id, map |-> b]
        BY <1>4, ExtentsAre
  <2>2. x.id = e.id
        BY <2>1
  <2>3. CASE e \in new
    <3>1. x \notin freed
          BY <2>2, <2>3, <1>1
    <3>2. \A f \in G : f.id # x.id
          BY <2>2, <2>3, <1>1
    <3>3. x \notin Extents(G)
          BY <3>2, ExtentsAre
    <3> QED BY <1>3, <1>4, <3>1, <3>3
  <2>4. CASE e \in segs \ G
    <3>1. x \in Extents(segs)
          BY <2>1, <2>4, ExtentsAre
    <3>2. x \notin freed
          BY <3>1 DEF FreedOnce
    <3>3. \A f \in G : f.id # x.id
          BY <2>2, <2>4, <1>1
    <3>4. x \notin Extents(G)
          BY <3>3, ExtentsAre
    <3> QED BY <1>3, <1>4, <3>2, <3>4
  <2> QED BY <2>3, <2>4
<1> QED BY <1>3, <1>4 DEF FreedOnce

\* flush_locked frees the bitmaps it replaces, and only once.
LEMMA FlushFrees ==
    ASSUME Base, FreedOnce, FlushLocked
    PROVE  FreedOnce'
<1>1. /\ \A x \in freed : x.id < nextId /\ x.id \in Nat /\ x.map <= txn /\ x.map \in Nat
      /\ nextId \in Nat /\ txn \in Nat
      BY DEF Base, IdInv, TypeInv
<1>2. Free(Extents(segs) \ Extents(segs'))
      BY DEF FlushLocked
<1>3. doubled' = {} /\ freed' = freed \cup (Extents(segs) \ Extents(segs'))
      BY <1>2 DEF FreedOnce, Free
<1>4. ASSUME NEW x \in Extents(segs'), x \in freed PROVE FALSE
  <2>1. PICK e \in segs' : \/ x = [id |-> e.id, map |-> 0]
                           \/ \E b \in e.map : x = [id |-> e.id, map |-> b]
        BY <1>4, ExtentsAre
  <2>2. x.id = e.id /\ e.id # nextId
        BY <2>1, <1>1, <1>4
  <2>3. PICK f \in segs : e = Remap(f)
        BY <2>2, FlushedSegments DEF Base
  <2>4. e.id = f.id /\ (e.map = f.map \/ e.map = {txn + 1})
        BY <2>3, RemapType DEF Base, TypeInv
  <2>5. x.map # txn + 1
        BY <1>1, <1>4
  <2>6. \/ x = [id |-> f.id, map |-> 0]
        \/ \E b \in f.map : x = [id |-> f.id, map |-> b]
        BY <2>1, <2>4, <2>5
  <2>7. x \in Extents(segs)
        BY <2>6, ExtentsAre
  <2> QED BY <2>7, <1>4 DEF FreedOnce
<1> QED BY <1>3, <1>4 DEF FreedOnce

\* A lone task's rewrite finds its sources as it read them.
LEMMA LoneRewrite ==
    ASSUME Base, FreedOnce, NEW sources \in SUBSET segs, NEW rows, NEW s,
           Rewritten(sources, rows, s)
    PROVE  FreedOnce'
<1>1. Entries(segs, Ids(sources)) = sources
  <2>1. \A e, f \in segs : e.id = f.id => e = f
        BY KnownNow DEF Base, IdInv
  <2> QED BY <2>1 DEF Entries, Ids
<1>2. /\ segs' = (segs \ sources) \cup NewSegment(rows, s)
      /\ Free(Extents(sources))
      BY <1>1 DEF Rewritten, Retire
<1>3. \A e \in NewSegment(rows, s) : e.id = nextId /\ e.map = {}
      BY DEF NewSegment
<1> QED BY <1>2, <1>3, FreeEntries

FreeInv == LoneInv /\ FreedOnceAlone

\* A lone task frees each extent once.
LEMMA FreeStep ==
    ASSUME Base, FreeInv, [Next]_vars
    PROVE  FreeInv'
<1>1. LoneInv'
      BY LoneStep DEF Base, FreeInv
<1> SUFFICES ASSUME NEW t \in Tasks, Alone(t)'
             PROVE  FreedOnce'
    BY <1>1 DEF FreeInv, FreedOnceAlone
<1>0. load' = load
      BY DEF Next, vars
<1>2. /\ Alone(t) /\ FreedOnce
      /\ HasSnap(task[t]) => task[t].snap = current
      /\ \A u \in Tasks : u # t => task[u] = Idle
      BY <1>0 DEF FreeInv, FreedOnceAlone, LoneInv, Alone
<1>3. CASE UNCHANGED <<segs, freed, doubled>>
      BY <1>2, <1>3 DEF FreedOnce
<1>4. ASSUME NEW v \in Tasks, Step(v) PROVE FreedOnce'
  <2>1. v = t
        BY <1>2, <1>4, IdleStays DEF Alone
  <2>2. current.segs = segs
        BY DEF Base, IdInv
  <2>3. CASE Asks(t) \/ Insert(t) \/ ApplyDml(t) \/ AdoptSchema(t)
        BY <1>3, <2>3, AsksLeave DEF writer, Insert, ApplyDml, AdoptSchema
  <2>4. CASE Flushes(t)
    <3>1. FlushLocked \/ FlushFails(t)
          BY <2>4, FlushesLeave
    <3> QED BY <1>2, <1>3, <3>1, FlushFrees DEF FlushFails
  <2>5. ASSUME NEW ids, DropSegments(t, ids) PROVE FreedOnce'
    <3>1. \/ UNCHANGED <<segs, freed, doubled>>
          \/ segs' = segs \ Entries(segs, ids) /\ Free(Extents(Entries(segs, ids)))
          BY <2>5 DEF DropSegments
    <3>2. CASE segs' = segs \ Entries(segs, ids) /\ Free(Extents(Entries(segs, ids)))
      <4>1. Entries(segs, ids) \in SUBSET segs
            BY DEF Entries
      <4>2. segs' = (segs \ Entries(segs, ids)) \cup {}
            BY <3>2
      <4> QED BY <1>2, <3>2, <4>1, <4>2, FreeEntries
    <3> QED BY <1>3, <3>1, <3>2
  <2>6. CASE WriteRun(t)
    <3>1. task[t].snap = current
          BY <1>2, <2>6 DEF WriteRun, HasSnap
    <3>2. RunSources(task[t]) \in SUBSET segs
          BY <2>2, <3>1 DEF RunSources, Entries
    <3>3. Rewritten(RunSources(task[t]), RunRows(task[t]), schema)
          BY <2>6 DEF WriteRun
    <3> QED BY <1>2, <3>2, <3>3, LoneRewrite
  <2>7. CASE AlterCommit(t)
    <3>1. task[t].snap = current
          BY <1>2, <2>7 DEF AlterCommit, HasSnap
    <3>2. LiveSegments(task[t].snap) \in SUBSET segs
          BY <2>2, <3>1 DEF LiveSegments
    <3>3. \/ UNCHANGED <<segs, freed, doubled>>
          \/ Rewritten(LiveSegments(task[t].snap),
                       LiveRows(LiveSegments(task[t].snap), task[t].snap.dead), task[t].after)
          BY <2>7 DEF AlterCommit
    <3> QED BY <1>2, <1>3, <3>2, <3>3, LoneRewrite
  <2>8. CASE Faults(t)
        BY <1>3, <2>8, FaultIs
  <2> QED BY <1>4, <2>1, <2>3, <2>4, <2>5, <2>6, <2>7, <2>8, StepIs
<1> QED BY <1>3, <1>4 DEF Next, vars, writer

\* A table only one task works on never gives an extent to Manifest::free twice
\* or while a segment still uses it, in any order of its inserts, deletes,
\* updates, flushes, dropped segments, compactions and schema changes, and
\* whichever of their commits fail.
THEOREM LoneTaskFreesOnce == Spec => []FreedOnceAlone
<1>1. Init => FreeInv
  <2>1. Init => FreedOnceAlone
        BY DEF Init, FreedOnceAlone, FreedOnce
  <2> QED BY <2>1, LoneInit DEF FreeInv
<1>2. Base /\ FreeInv /\ [Next]_vars => FreeInv'
      BY FreeStep
<1>3. FreeInv => FreedOnceAlone
      BY DEF FreeInv
<1> QED BY <1>1, <1>2, <1>3, BaseHolds, PTL DEF Spec


----------------------------------------------------------------------------
(* Segments that fit the schema.                                           *)

\* Schema changes are one task's, and casts run alone.
OneAlters == \A t, u \in Tasks : Alters(t) /\ Alters(u) => t = u
OrderlyChanges == OneAlters /\ CastsAlone

Changing == {"alter", "flushed", "loaded", "sourced"}

AfterInv ==
    /\ \A t \in Tasks : task[t].at \in Changing =>
          /\ task[t].op \in load.calls[t] \cap {"cast", "widen"}
          /\ task[t].after = Changed(task[t].op, schema)
    /\ \A t \in Tasks : task[t].at = "adopt" =>
          \E op \in load.calls[t] \cap {"cast", "widen"} :
              task[t].after = Changed(op, schema)

\* How a schema change moves on.
AlterFlow(u) ==
    /\ task'[u].at \in Changing =>
          \/ /\ task[u].at \in Changing
             /\ task'[u].op = task[u].op /\ task'[u].after = task[u].after
          \/ /\ task'[u].op \in load.calls[u] \cap {"cast", "widen"}
             /\ task'[u].after = Changed(task'[u].op, schema)
    /\ task'[u].at = "adopt" =>
          /\ task[u].at \in {"sourced", "adopt"}
          /\ task'[u].after = task[u].after

\* How a schema change moves from step to step.
LEMMA AlterFlows ==
    ASSUME TypeInv, NEW t \in Tasks, Step(t)
    PROVE  AlterFlow(t)
<1> USE DEF AlterFlow, Changing
<1>0. Idle.at = "idle"
      BY DEF Idle
<1>1. ASSUME task'[t] = Idle \/ task'[t] = task[t] \/ task'[t].at \in {"insert", "pinned",
                 "matched", "ready", "compact", "rewrite"}
      PROVE  AlterFlow(t)
      BY <1>0, <1>1
<1>2. CASE Starts(t)
  <2>1. ASSUME NEW k \in Keys, StartInsert(t, k) PROVE AlterFlow(t)
    <3>1. task'[t].at = "insert"
          BY <2>1 DEF StartInsert, Goes, TypeInv
    <3> QED BY <1>1, <3>1
  <2>2. ASSUME NEW k \in Keys, NEW op \in {"delete", "update"}, StartDml(t, op, k)
        PROVE  AlterFlow(t)
    <3>1. task'[t].at = "pinned"
          BY <2>2 DEF StartDml, Goes, TypeInv
    <3> QED BY <1>1, <3>1
  <2>3. ASSUME NEW ids \in SUBSET Ids(current.segs), StartCompact(t, ids) PROVE AlterFlow(t)
    <3>1. task'[t].at = "compact"
          BY <2>3 DEF StartCompact, Goes, TypeInv
    <3> QED BY <1>1, <3>1
  <2>4. ASSUME NEW op \in {"cast", "widen"}, StartAlter(t, op) PROVE AlterFlow(t)
    <3>1. task'[t] = [at |-> "alter", op |-> op, after |-> Changed(op, schema)]
          BY <2>4 DEF StartAlter, Goes, TypeInv
    <3>2. op \in load.calls[t]
          BY <2>4 DEF StartAlter, Calls
    <3> QED BY <3>1, <3>2
  <2> QED BY <1>2, <2>1, <2>2, <2>3, <2>4 DEF Starts
<1>3. CASE Insert(t) \/ ApplyDml(t) \/ RefuseDml(t) \/ AlterRefused(t) \/ AdoptSchema(t)
  <2>1. task'[t] = Idle
        BY <1>3 DEF Insert, ApplyDml, RefuseDml, AlterRefused, Refused, AdoptSchema, Goes, TypeInv
  <2> QED BY <1>1, <2>1
<1>4. CASE ReadSegment(t)
  <2>1. task'[t] = Idle \/ task'[t].at = "pinned"
        BY <1>4, ReadSegmentGoes
  <2> QED BY <1>1, <2>1
<1>5. CASE ListSeqnos(t)
  <2>1. task'[t].at = "matched"
        BY <1>5 DEF ListSeqnos, Goes, TypeInv
  <2> QED BY <1>1, <2>1
<1>6. CASE EndMatch(t)
  <2>1. task'[t] = Idle \/ task'[t] = [task[t] EXCEPT !.at = "ready"]
        BY <1>6 DEF EndMatch, Goes, TypeInv
  <2>2. task[t] \in Matching
        BY <1>6, TaskAt DEF EndMatch, TypeInv
  <2>3. task'[t] = Idle \/ task'[t].at = "ready"
        BY <2>1, <2>2 DEF Matching
  <2> QED BY <1>1, <2>3
<1>7. CASE Flush(t) \/ \E ids \in SUBSET Ids(segs) : DropSegments(t, ids)
  <2>1. task' = task
        BY <1>7 DEF Flush, DropSegments
  <2> QED BY <1>1, <2>1
<1>8. CASE \/ \E run \in SUBSET (1 .. nextId) : ReadRun(t, run)
           \/ WriteRun(t) \/ AbandonRun(t)
  <2>1. task'[t] = Idle \/ task'[t].at \in {"rewrite", "compact"}
        BY <1>8 DEF ReadRun, WriteRun, AbandonRun, NextRun, Goes, TypeInv
  <2> QED BY <1>1, <2>1
<1>9. CASE AlterFlush(t)
  <2>1. task'[t] = Idle \/ task'[t] = [task[t] EXCEPT !.at = "flushed"]
        BY <1>9 DEF AlterFlush, Goes, TypeInv
  <2>2. task[t] \in Altering /\ task[t].at = "alter"
        BY <1>9, TaskAt DEF AlterFlush, TypeInv
  <2>3. LET c == [task[t] EXCEPT !.at = "flushed"]
        IN c.at = "flushed" /\ c.op = task[t].op /\ c.after = task[t].after
        BY <2>2 DEF Altering
  <2> QED BY <1>0, <2>1, <2>2, <2>3
<1>10. CASE AlterLoad(t) \/ AlterPin(t)
  <2>1. /\ task[t].at \in {"flushed", "loaded"} /\ task'[t].at \in {"loaded", "sourced"}
        /\ task'[t].op = task[t].op /\ task'[t].after = task[t].after
        BY <1>10 DEF AlterLoad, AlterPin, Goes, TypeInv
  <2> QED BY <2>1
<1>11. CASE AlterCommit(t)
  <2>1. task[t].at = "sourced" /\ task'[t].at = "adopt" /\ task'[t].after = task[t].after
        BY <1>11 DEF AlterCommit, Goes, TypeInv
  <2> QED BY <2>1
<1>12. CASE Faults(t)
  <2>1. task'[t] = Idle \/ task'[t] = task[t]
        BY <1>12, FaultIs DEF Goes, TypeInv
  <2> QED BY <1>1, <2>1
<1> QED BY <1>2, <1>3, <1>4, <1>5, <1>6, <1>7, <1>8, <1>9, <1>10, <1>11, <1>12
        DEF Step, Starts, Faults

\* The schema changes when a change is adopted, and then to what it derived.
LEMMA SchemaMoves ==
    ASSUME NEW t \in Tasks, Step(t), schema' # schema
    PROVE  AdoptSchema(t) /\ schema' = task[t].after
<1>1. ~Asks(t) /\ ~Flushes(t) /\ ~Faults(t)
      BY AsksLeave, FlushesLeave, FaultIs
<1>2. ~(Insert(t) \/ ApplyDml(t) \/ WriteRun(t) \/ AlterCommit(t))
      BY DEF Insert, ApplyDml, WriteRun, AlterCommit
<1>3. ~ \E ids \in SUBSET Ids(segs) : DropSegments(t, ids)
      BY DEF DropSegments
<1> QED BY <1>1, <1>2, <1>3, StepIs DEF AdoptSchema

\* The schema a change is about to publish follows the one in force.
LEMMA AfterStep ==
    ASSUME OrderlyChanges, TypeInv, AfterInv, [Next]_vars
    PROVE  AfterInv'
<1>0. load' = load /\ OneAlters
      BY DEF Next, vars, OrderlyChanges, TypeInv
<1>1. CASE UNCHANGED vars
  <2>1. task' = task /\ schema' = schema
        BY <1>1 DEF vars
  <2> QED BY <1>0, <2>1 DEF AfterInv
<1>2. ASSUME NEW t \in Tasks, Step(t) PROVE AfterInv'
  <2>1. AlterFlow(t) /\ \A u \in Tasks : u # t => task'[u] = task[u]
        BY <1>2, AlterFlows, OthersWait
  <2>2. CASE schema' = schema
    <3>1. AfterInv' <=>
              /\ \A u \in Tasks : task'[u].at \in Changing =>
                    /\ task'[u].op \in load.calls[u] \cap {"cast", "widen"}
                    /\ task'[u].after = Changed(task'[u].op, schema)
              /\ \A u \in Tasks : task'[u].at = "adopt" =>
                    \E op \in load.calls[u] \cap {"cast", "widen"} :
                        task'[u].after = Changed(op, schema)
          BY <1>0, <2>2 DEF AfterInv
    <3>2. ASSUME NEW u \in Tasks, task'[u].at \in Changing
          PROVE  /\ task'[u].op \in load.calls[u] \cap {"cast", "widen"}
                 /\ task'[u].after = Changed(task'[u].op, schema)
      <4>1. CASE u = t
        <5>1. CASE /\ task[t].at \in Changing
                   /\ task'[t].op = task[t].op /\ task'[t].after = task[t].after
              BY <4>1, <5>1 DEF AfterInv
        <5> QED BY <3>2, <4>1, <5>1, <2>1 DEF AlterFlow
      <4>2. CASE u # t
            BY <3>2, <4>2, <2>1 DEF AfterInv
      <4> QED BY <4>1, <4>2
    <3>3. ASSUME NEW u \in Tasks, task'[u].at = "adopt"
          PROVE  \E op \in load.calls[u] \cap {"cast", "widen"} :
                     task'[u].after = Changed(op, schema)
      <4>1. CASE u = t
            BY <3>3, <4>1, <2>1 DEF AfterInv, AlterFlow, Changing
      <4>2. CASE u # t
            BY <3>3, <4>2, <2>1 DEF AfterInv
      <4> QED BY <4>1, <4>2
    <3> QED BY <3>1, <3>2, <3>3
  <2>3. CASE schema' # schema
    <3>1. AdoptSchema(t)
          BY <1>2, <2>3, SchemaMoves
    <3>2. task[t].at = "adopt" /\ task'[t].at = "idle"
          BY <3>1 DEF AdoptSchema, Goes, TypeInv, Idle
    <3>3. load.calls[t] \cap {"cast", "widen"} # {}
          BY <3>2 DEF AfterInv
    <3>4. \A u \in Tasks : u # t => task[u].at \notin Changing /\ task[u].at # "adopt"
          BY <1>0, <3>3 DEF AfterInv, OneAlters, Alters
    <3>5. \A u \in Tasks : task'[u].at \notin Changing /\ task'[u].at # "adopt"
          BY <2>1, <3>2, <3>4 DEF Changing
    <3> QED BY <3>5 DEF AfterInv, Changing
  <2> QED BY <2>2, <2>3
<1> QED BY <1>1, <1>2 DEF Next


NoCasts == \A t \in Tasks : "cast" \notin load.calls[t]

\* The schema the table will have once task t lets go of the mutex.
Target(t) == IF task[t].at = "adopt" THEN task[t].after ELSE schema

FitInv ==
    /\ NoCasts => \A e \in segs : Accepts(schema, e)
    /\ \A t \in Tasks : "cast" \in load.calls[t] =>
          /\ current.dead = dead
          /\ \A e \in segs : Live(e, dead) # {} => Accepts(Target(t), e)

\* A rewrite's segments are the ones it leaves and at most one new.
LEMMA RewrittenSegments ==
    ASSUME NEW sources, NEW rows, NEW s, Rewritten(sources, rows, s)
    PROVE  /\ \A e \in segs' :
                 \/ e \in segs /\ e.id \notin Ids(sources)
                 \/ e.schema = s /\ e.rows = rows /\ e.id = nextId /\ rows # {}
           /\ dead' = {x \in dead : x.id \notin Ids(sources)}
           /\ current'.dead = dead'
BY DEF Rewritten, Retire, Forget, Entries, NewSegment, Of, Publish

\* Segments keep their schema, and new ones have the one in force, unless a cast
\* commits.
LEMMA SegmentSchemas ==
    ASSUME Base, NEW t \in Tasks, Step(t), ~(AlterCommit(t) /\ task[t].op = "cast")
    PROVE  \A e \in segs' :
               \/ \E f \in segs : f.id = e.id /\ f.rows = e.rows /\ f.schema = e.schema
               \/ e.schema = schema /\ e.id = nextId
<1>1. CASE segs' \subseteq segs
      BY <1>1
<1>2. CASE Asks(t) \/ Insert(t) \/ ApplyDml(t) \/ AdoptSchema(t)
      BY <1>1, <1>2, AsksLeave DEF writer, Insert, ApplyDml, AdoptSchema
<1>3. CASE Flushes(t)
  <2>1. FlushFails(t) => segs' = segs
        BY DEF FlushFails
  <2>2. CASE FlushLocked
    <3>1. \A f \in segs : Remap(f).id = f.id /\ Remap(f).rows = f.rows /\ Remap(f).schema = f.schema
          BY RemapType DEF Base, TypeInv
    <3>2. \A e \in segs' : (\E f \in segs : e = Remap(f)) \/ (e.schema = schema /\ e.id = nextId)
          BY <2>2, FlushedSegments DEF Base
    <3> QED BY <3>1, <3>2
  <2> QED BY <1>1, <1>3, <2>1, <2>2, FlushesLeave
<1>4. CASE \E ids \in SUBSET Ids(segs) : DropSegments(t, ids)
  <2>1. segs' \subseteq segs
        BY <1>4 DEF DropSegments
  <2> QED BY <1>1, <2>1
<1>5. CASE WriteRun(t)
  <2>1. Rewritten(RunSources(task[t]), RunRows(task[t]), schema)
        BY <1>5 DEF WriteRun
  <2> QED BY <2>1, RewrittenSegments
<1>6. CASE AlterCommit(t)
  <2>1. task[t].op # "cast"
        BY <1>6
  <2>2. segs' = segs
        BY <1>6, <2>1 DEF AlterCommit
  <2> QED BY <1>1, <2>2
<1>7. CASE Faults(t)
      BY <1>1, <1>7, FaultIs
<1> QED BY <1>2, <1>3, <1>4, <1>5, <1>6, <1>7, StepIs

\* An added column keeps every segment readable.
LEMMA WidenAccepts ==
    ASSUME NEW s \in Schema, NEW e, e.schema \in Schema, Accepts(s, e)
    PROVE  Accepts(Changed("widen", s), e)
<1>1. /\ Changed("widen", s).epoch = s.epoch /\ Changed("widen", s).width = s.width + 1
      BY DEF Changed, Schema
<1> QED BY <1>1 DEF Accepts, Schema

\* A segment is read under the schema it was written with.
LEMMA OwnAccepts ==
    ASSUME NEW s \in Schema, NEW e, e.schema = s
    PROVE  Accepts(s, e)
BY DEF Accepts, Schema

\* Without casts every segment fits the schema, step by step.
LEMMA NoCastsStep ==
    ASSUME Base, Base', AfterInv, NoCasts, \A e \in segs : Accepts(schema, e),
           NEW t \in Tasks, Step(t), UNCHANGED load
    PROVE  \A e \in segs' : Accepts(schema', e)
<1>0. /\ schema \in Schema
      /\ \A e \in segs : e.schema \in Schema
      /\ \A e \in segs' : e.schema \in Schema
      BY DEF Base, TypeInv, Fin, FSegment
<1>1. ~(AlterCommit(t) /\ task[t].op = "cast")
      BY DEF AfterInv, NoCasts, AlterCommit, Changing
<1>2. \A e \in segs' : Accepts(schema, e)
  <2> SUFFICES ASSUME NEW e \in segs' PROVE Accepts(schema, e)
      OBVIOUS
  <2>1. CASE \E f \in segs : f.schema = e.schema
        BY <2>1 DEF Accepts
  <2>2. CASE e.schema = schema
        BY <1>0, <2>2, OwnAccepts
  <2> QED BY <1>1, <2>1, <2>2, SegmentSchemas
<1>3. CASE schema' = schema
      BY <1>2, <1>3
<1>4. CASE schema' # schema
  <2>1. AdoptSchema(t) /\ schema' = task[t].after
        BY <1>4, SchemaMoves
  <2>2. schema' = Changed("widen", schema)
        BY <2>1 DEF AdoptSchema, AfterInv, NoCasts
  <2> QED BY <1>0, <1>2, <2>2, WidenAccepts
<1> QED BY <1>3, <1>4

\* Live rows depend on the segment's rows and identity.
LEMMA SameLive ==
    ASSUME NEW e, NEW f, NEW d, e.id = f.id, e.rows = f.rows
    PROVE  Live(e, d) = Live(f, d)
BY DEF Live

\* The step of a task that casts, and so works alone.
LEMMA CastStep ==
    ASSUME Base, Base', AfterInv, LoneInv, NEW t \in Tasks, Alone(t),
           "cast" \in load.calls[t], load.calls[t] \cap {"drop", "fault"} = {},
           current.dead = dead,
           \A e \in segs : Live(e, dead) # {} => Accepts(Target(t), e),
           Step(t), UNCHANGED load
    PROVE  /\ current'.dead = dead'
           /\ \A e \in segs' : Live(e, dead') # {} => Accepts(Target(t)', e)
<1>0. /\ schema \in Schema
      /\ \A e \in segs : e.schema \in Schema
      /\ \A e \in segs' : e.schema \in Schema
      /\ HasSnap(task[t]) => task[t].snap = current
      /\ current.segs = segs
      BY DEF Base, TypeInv, Fin, FSegment, LoneInv, IdInv
<1>1. ASSUME schema' = schema, holder' = holder PROVE Target(t)' = Target(t)
  <2>1. task'[t].at = "adopt" <=> task[t].at = "adopt"
        BY <1>1 DEF Base, IdInv
  <2>2. task'[t].at = "adopt" => task'[t].after = task[t].after
        BY AlterFlows DEF Base, AlterFlow
  <2> QED BY <1>1, <2>1, <2>2 DEF Target
<1>2. CASE Asks(t)
  <2>1. UNCHANGED <<segs, dead, current, schema, holder>>
        BY <1>2, AsksLeave DEF writer
  <2> QED BY <1>1, <2>1
<1>3. CASE Insert(t)
  <2>1. UNCHANGED <<segs, dead, schema, holder>> /\ current'.dead = dead'
        BY <1>3 DEF Insert, Publish
  <2> QED BY <1>1, <2>1
<1>4. CASE ApplyDml(t)
  <2>1. UNCHANGED <<segs, schema, holder>> /\ dead' = dead \cup Marked(task[t])
        BY <1>4 DEF ApplyDml, Marked
  <2>2. current'.dead = dead'
    <3>1. (Marked(task[t]) = {} /\ UNCHANGED current) \/ Publish(schema)
          BY <1>4 DEF ApplyDml, Marked
    <3> QED BY <2>1, <3>1 DEF Publish
  <2>3. \A e \in segs : Live(e, dead') # {} => Live(e, dead) # {}
        BY <2>1 DEF Live
  <2> QED BY <1>1, <2>1, <2>2, <2>3
<1>5. CASE Flushes(t)
  <2>1. UNCHANGED <<schema, holder>> /\ (FlushLocked \/ FlushFails(t))
        BY <1>5, FlushesLeave
  <2>2. CASE FlushFails(t)
        BY <1>1, <2>1, <2>2 DEF FlushFails
  <2>3. CASE FlushLocked
    <3>1. dead' = dead /\ current'.dead = dead'
          BY <2>3 DEF FlushLocked, Publish
    <3>2. Target(t) = schema
      <4>1. holder = {}
            BY <2>3 DEF FlushLocked
      <4> QED BY <4>1 DEF Base, IdInv, Target
    <3>3. ~(AlterCommit(t) /\ task[t].op = "cast")
          BY <2>1, <2>3 DEF AlterCommit, FlushLocked
    <3>4. ASSUME NEW e \in segs', Live(e, dead) # {} PROVE Accepts(schema, e)
      <4>1. CASE e.schema = schema
            BY <1>0, <4>1, OwnAccepts
      <4>2. CASE \E f \in segs : f.id = e.id /\ f.rows = e.rows /\ f.schema = e.schema
        <5>1. PICK f \in segs : f.id = e.id /\ f.rows = e.rows /\ f.schema = e.schema
              BY <4>2
        <5>2. Accepts(schema, f)
              BY <3>2, <3>4, <5>1, SameLive
        <5> QED BY <5>1, <5>2 DEF Accepts
      <4> QED BY <3>3, <4>1, <4>2, SegmentSchemas
    <3> QED BY <1>1, <2>1, <3>1, <3>2, <3>4
  <2> QED BY <2>1, <2>2, <2>3
<1>6. CASE \E ids \in SUBSET Ids(segs) : DropSegments(t, ids)
      BY <1>6 DEF DropSegments, Calls
<1>7. ASSUME NEW sources, NEW rows, NEW s \in Schema, Rewritten(sources, rows, s),
             Target(t)' = s,
             \A e \in segs : /\ e.id \notin Ids(sources) /\ Live(e, dead) # {}
                             => Accepts(s, e)
      PROVE  /\ current'.dead = dead'
             /\ \A e \in segs' : Live(e, dead') # {} => Accepts(Target(t)', e)
  <2>1. current'.dead = dead' /\ dead' = {x \in dead : x.id \notin Ids(sources)}
        BY <1>7, RewrittenSegments
  <2>2. ASSUME NEW e \in segs', Live(e, dead') # {} PROVE Accepts(s, e)
    <3>1. CASE e \in segs /\ e.id \notin Ids(sources)
      <4>1. Live(e, dead) = Live(e, dead')
            BY <2>1, <3>1 DEF Live
      <4> QED BY <1>7, <2>2, <3>1, <4>1
    <3>2. CASE e.schema = s
          BY <3>2, OwnAccepts
    <3> QED BY <1>7, <3>1, <3>2, RewrittenSegments
  <2> QED BY <1>7, <2>1, <2>2
<1>8. CASE WriteRun(t)
  <2>1. Rewritten(RunSources(task[t]), RunRows(task[t]), schema) /\ UNCHANGED <<schema, holder>>
        BY <1>8 DEF WriteRun
  <2>2. Target(t) = schema
        BY <1>8 DEF WriteRun, Target
  <2>3. Target(t)' = schema
        BY <1>1, <2>1, <2>2
  <2> QED BY <1>0, <1>7, <2>1, <2>2, <2>3
<1>9. CASE AlterCommit(t)
  <2>1. task[t].at = "sourced" /\ task[t].after = Changed(task[t].op, schema)
        BY <1>9 DEF AlterCommit, AfterInv, Changing
  <2>2. Target(t) = schema /\ Target(t)' = task[t].after
    <3>1. task'[t] = [at |-> "adopt", after |-> task[t].after]
          BY <1>9 DEF AlterCommit, Goes, Base, TypeInv
    <3> QED BY <2>1, <3>1 DEF Target
  <2>3. CASE task[t].op = "cast"
    <3> DEFINE sources == LiveSegments(task[t].snap)
    <3>1. Rewritten(sources, LiveRows(sources, task[t].snap.dead), task[t].after)
          BY <1>9, <2>3 DEF AlterCommit
    <3>2. task[t].snap = current
          BY <1>0, <2>1 DEF HasSnap
    <3>3. \A e \in segs : e.id \notin Ids(sources) => Live(e, dead) = {}
          BY <1>0, <3>2 DEF LiveSegments, Ids
    <3>4. task[t].after \in Schema
          BY <1>0, <2>1, ChangedType
    <3> HIDE DEF sources
    <3> QED BY <1>7, <2>2, <3>1, <3>3, <3>4
  <2>4. CASE task[t].op # "cast"
    <3>1. UNCHANGED <<segs, dead>> /\ current'.dead = dead'
          BY <1>9, <2>4 DEF AlterCommit, Publish
    <3>2. task[t].after = Changed("widen", schema)
          BY <2>1, <2>4 DEF AfterInv, Changing
    <3> QED BY <1>0, <2>2, <3>1, <3>2, WidenAccepts
  <2> QED BY <2>3, <2>4
<1>10. CASE AdoptSchema(t)
  <2>1. UNCHANGED <<segs, dead>> /\ current'.dead = dead' /\ schema' = task[t].after
        BY <1>10 DEF AdoptSchema, Publish
  <2>2. Target(t)' = Target(t)
    <3>1. task'[t].at = "idle" /\ task[t].at = "adopt"
          BY <1>10 DEF AdoptSchema, Goes, Base, TypeInv, Idle
    <3> QED BY <2>1, <3>1 DEF Target
  <2> QED BY <2>1, <2>2
<1>11. ~Faults(t)
       BY FaultIs DEF MayFail
<1> QED BY <1>2, <1>3, <1>4, <1>5, <1>6, <1>8, <1>9, <1>10, <1>11, StepIs


SchemaInv == LoneInv /\ AfterInv /\ FitInv

\* Every action keeps segments readable under orderly changes.
LEMMA SchemaStep ==
    ASSUME OrderlyChanges, Base, Base', SchemaInv, [Next]_vars
    PROVE  SchemaInv'
<1>0. load' = load /\ CastsAlone
      BY DEF Next, vars, OrderlyChanges, Base, TypeInv
<1>1. LoneInv' /\ AfterInv'
      BY LoneStep, AfterStep DEF SchemaInv, Base
<1>2. CASE UNCHANGED vars
  <2>1. UNCHANGED <<segs, dead, current, schema, task>>
        BY <1>2 DEF vars, writer
  <2> QED BY <1>0, <1>1, <2>1 DEF SchemaInv, FitInv, NoCasts, Target
<1>3. ASSUME NEW t \in Tasks, Step(t) PROVE FitInv'
  <2>1. ASSUME NoCasts' PROVE \A e \in segs' : Accepts(schema', e)
    <3>1. NoCasts
          BY <1>0, <2>1 DEF NoCasts
    <3> QED BY <1>0, <1>3, <3>1, NoCastsStep DEF SchemaInv, FitInv
  <2>2. ASSUME NEW u \in Tasks, "cast" \in load'.calls[u]
        PROVE  /\ current'.dead = dead'
               /\ \A e \in segs' : Live(e, dead') # {} => Accepts(Target(u)', e)
    <3>1. "cast" \in load.calls[u] /\ load.calls[u] \cap {"drop", "fault"} = {} /\ Alone(u)
          BY <1>0, <2>2 DEF CastsAlone, Alone
    <3>2. u = t
          BY <1>3, <3>1, IdleStays DEF SchemaInv, LoneInv, Alone
    <3> QED BY <1>0, <1>3, <3>1, <3>2, CastStep DEF SchemaInv, FitInv
  <2> QED BY <2>1, <2>2 DEF FitInv
<1> QED BY <1>1, <1>2, <1>3 DEF SchemaInv, Next

\* A new table has no segments.
LEMMA SchemaInit ==
    ASSUME Init
    PROVE  SchemaInv
<1>1. AfterInv
      BY DEF Init, AfterInv, Idle, Changing
<1>2. FitInv
      BY DEF Init, FitInv
<1> QED BY <1>1, <1>2, LoneInit DEF SchemaInv

\* Segments stay readable under orderly changes.
LEMMA SchemasHold == Spec => [](Base /\ (OrderlyChanges => SchemaInv))
<1>1. Init => SchemaInv
      BY SchemaInit
<1>2. Base /\ Base' /\ (OrderlyChanges => SchemaInv) /\ [Next]_vars
      => (OrderlyChanges => SchemaInv)'
  <2>1. [Next]_vars => load' = load
        BY DEF Next, vars
  <2>2. [Next]_vars /\ OrderlyChanges' => OrderlyChanges
        BY <2>1 DEF OrderlyChanges, OneAlters, CastsAlone, Alters, Alone
  <2> QED BY <2>2, SchemaStep
<1> QED BY <1>1, <1>2, BaseHolds, PTL DEF Spec

\* Where schema changes are one task's, what a scan of the published snapshot reads
\* decodes under the schema published with it as soon as set_schema lets go of the
\* mutex, whatever inserts, deletes, flushes, compactions and failing commits run
\* beside an added column; a cast runs alone, as the property says.
THEOREM SettledSnapshotsDecode == Spec => [](OneAlters => SettledDecodes)
<1>1. Base /\ SchemaInv => SettledDecodes
  <2> SUFFICES ASSUME Base, SchemaInv, holder = {}, NEW e \in LiveSegments(current)
               PROVE  Accepts(current.schema, e)
      BY DEF SettledDecodes
  <2>1. current.schema = schema /\ e \in segs /\ Live(e, current.dead) # {}
        BY DEF Base, IdInv, LiveSegments
  <2>2. CASE NoCasts
        BY <2>1, <2>2 DEF SchemaInv, FitInv
  <2>3. ASSUME NEW t \in Tasks, "cast" \in load.calls[t] PROVE Accepts(current.schema, e)
    <3>1. Target(t) = schema
          BY DEF Target, Base, IdInv
    <3> QED BY <2>1, <2>3, <3>1 DEF SchemaInv, FitInv
  <2> QED BY <2>2, <2>3 DEF NoCasts
<1>2. (OrderlyChanges => SettledDecodes) => (OneAlters => SettledDecodes)
      BY DEF OrderlyChanges, SettledDecodes
<1> QED BY <1>1, <1>2, SchemasHold, PTL


----------------------------------------------------------------------------
(* Rows held once.                                                         *)

Dmling == {"pinned", "matched", "ready"}

\* A call is one of those its task is set to make.
Called(c, ops) ==
    /\ c.at = "insert" => "insert" \in ops
    /\ c.at \in Dmling => c.op \in ops
    /\ c.at \in {"compact", "rewrite"} => "compact" \in ops
    /\ c.at \in Changing => c.op \in ops
    /\ c.at = "adopt" => ops \cap {"cast", "widen"} # {}
CallsInv == \A t \in Tasks : Called(task[t], load.calls[t])

\* A task is only ever in a call its workload gives it.
LEMMA CalledStep ==
    ASSUME TypeInv, NEW t \in Tasks, Step(t), Called(task[t], load.calls[t])
    PROVE  Called(task'[t], load.calls[t])
<1> DEFINE ops == load.calls[t]
<1>0. Idle.at = "idle"
      BY DEF Idle
<1>1. ASSUME task'[t] = Idle \/ task'[t] = task[t]
      PROVE  Called(task'[t], ops)
      BY <1>0, <1>1 DEF Called, Changing, Dmling
<1>2. CASE Starts(t)
  <2>1. ASSUME NEW k \in Keys, StartInsert(t, k) PROVE Called(task'[t], ops)
    <3>1. task'[t].at = "insert" /\ "insert" \in ops
          BY <2>1 DEF StartInsert, Calls, Goes, TypeInv
    <3> QED BY <3>1 DEF Called, Changing, Dmling
  <2>2. ASSUME NEW k \in Keys, NEW op \in {"delete", "update"}, StartDml(t, op, k)
        PROVE  Called(task'[t], ops)
    <3>1. task'[t].at = "pinned" /\ task'[t].op = op /\ op \in ops
          BY <2>2 DEF StartDml, Calls, Goes, TypeInv
    <3> QED BY <3>1 DEF Called, Changing, Dmling
  <2>3. ASSUME NEW ids \in SUBSET Ids(current.segs), StartCompact(t, ids)
        PROVE  Called(task'[t], ops)
    <3>1. task'[t].at = "compact" /\ "compact" \in ops
          BY <2>3 DEF StartCompact, Calls, Goes, TypeInv
    <3> QED BY <3>1 DEF Called, Changing, Dmling
  <2>4. ASSUME NEW op \in {"cast", "widen"}, StartAlter(t, op) PROVE Called(task'[t], ops)
    <3>1. task'[t].at = "alter" /\ task'[t].op = op /\ op \in ops
          BY <2>4 DEF StartAlter, Calls, Goes, TypeInv
    <3> QED BY <3>1 DEF Called, Changing, Dmling
  <2> QED BY <1>2, <2>1, <2>2, <2>3, <2>4 DEF Starts
<1>3. CASE Insert(t) \/ ApplyDml(t) \/ RefuseDml(t) \/ AlterRefused(t) \/ AdoptSchema(t)
  <2>1. task'[t] = Idle
        BY <1>3 DEF Insert, ApplyDml, RefuseDml, AlterRefused, Refused, AdoptSchema, Goes, TypeInv
  <2> QED BY <1>1, <2>1
<1>4. CASE ReadSegment(t) \/ ListSeqnos(t) \/ EndMatch(t)
  <2>1. CASE EndMatch(t)
    <3>1. task'[t] = Idle \/ task'[t] = [task[t] EXCEPT !.at = "ready"]
          BY <2>1 DEF EndMatch, Goes, TypeInv
    <3>2. task[t] \in Matching /\ task[t].at = "matched"
          BY <2>1, TaskAt DEF EndMatch, TypeInv
    <3>3. LET c == [task[t] EXCEPT !.at = "ready"]
          IN c.at = "ready" /\ c.op = task[t].op
          BY <3>2 DEF Matching
    <3> QED BY <1>1, <3>1, <3>2, <3>3 DEF Called, Changing, Dmling
  <2>2. CASE ReadSegment(t) \/ ListSeqnos(t)
    <3>1. /\ task[t].at = "pinned"
          /\ \/ task'[t] = Idle
             \/ task'[t].at \in {"pinned", "matched"} /\ task'[t].op = task[t].op
          BY <2>2, ReadSegmentGoes DEF ListSeqnos, Goes, TypeInv
    <3> QED BY <1>1, <3>1 DEF Called, Changing, Dmling
  <2> QED BY <1>4, <2>1, <2>2
<1>5. CASE Flush(t) \/ \E ids \in SUBSET Ids(segs) : DropSegments(t, ids)
  <2>1. task' = task
        BY <1>5 DEF Flush, DropSegments
  <2> QED BY <1>1, <2>1
<1>6. CASE \/ \E run \in SUBSET (1 .. nextId) : ReadRun(t, run)
           \/ WriteRun(t) \/ AbandonRun(t)
  <2>1. /\ task[t].at \in {"rewrite", "compact"}
        /\ task'[t] = Idle \/ task'[t].at \in {"rewrite", "compact"}
        BY <1>6 DEF ReadRun, WriteRun, AbandonRun, NextRun, Goes, TypeInv
  <2> QED BY <1>1, <2>1 DEF Called, Changing, Dmling
<1>7. CASE AlterFlush(t)
  <2>1. task'[t] = Idle \/ task'[t] = [task[t] EXCEPT !.at = "flushed"]
        BY <1>7 DEF AlterFlush, Goes, TypeInv
  <2>2. task[t] \in Altering /\ task[t].at = "alter"
        BY <1>7, TaskAt DEF AlterFlush, TypeInv
  <2>3. LET c == [task[t] EXCEPT !.at = "flushed"]
        IN c.at = "flushed" /\ c.op = task[t].op
        BY <2>2 DEF Altering
  <2> QED BY <1>1, <2>1, <2>2, <2>3 DEF Called, Changing, Dmling
<1>8. CASE AlterLoad(t) \/ AlterPin(t)
  <2>1. /\ task[t].at \in {"flushed", "loaded"} /\ task'[t].at \in {"loaded", "sourced"}
        /\ task'[t].op = task[t].op
        BY <1>8 DEF AlterLoad, AlterPin, Goes, TypeInv
  <2> QED BY <2>1 DEF Called, Changing, Dmling
<1>9. CASE AlterCommit(t)
  <2>1. task[t].at = "sourced" /\ task'[t].at = "adopt"
        BY <1>9 DEF AlterCommit, Goes, TypeInv
  <2>2. task[t].op \in {"cast", "widen"}
        BY <2>1, TaskAt DEF TypeInv, Sourced
  <2> QED BY <2>1, <2>2 DEF Called, Changing, Dmling
<1>10. CASE Faults(t)
  <2>1. task'[t] = Idle \/ task'[t] = task[t]
        BY <1>10, FaultIs DEF Goes, TypeInv
  <2> QED BY <1>1, <2>1
<1> QED BY <1>2, <1>3, <1>4, <1>5, <1>6, <1>7, <1>8, <1>9, <1>10 DEF Step, Starts, Faults

\* So are all of them, after any step.
LEMMA CallsStep ==
    ASSUME TypeInv, CallsInv, [Next]_vars
    PROVE  CallsInv'
<1>0. load' = load
      BY DEF Next, vars
<1>1. CASE UNCHANGED vars
      BY <1>0, <1>1 DEF CallsInv, vars
<1>2. ASSUME NEW t \in Tasks, Step(t) PROVE CallsInv'
      BY <1>0, <1>2, CalledStep, OthersWait DEF CallsInv
<1> QED BY <1>1, <1>2 DEF Next

\* No call is under way at the start.
LEMMA CallsInit ==
    ASSUME Init
    PROVE  CallsInv
BY DEF Init, CallsInv, Called, Idle, Changing, Dmling


\* Calls that write again what a snapshot of theirs holds.
OneRewriter(w) ==
    \A t, u \in Tasks : /\ w.calls[t] \cap {"compact", "cast"} # {}
                        /\ w.calls[u] \cap {"compact", "cast"} # {}
                        => t = u
Rewrites(c) == c.at = "rewrite" \/ (c.at = "sourced" /\ c.op = "cast")

\* No row of snapshot s is in a memtable, nor in a segment of another identity.
RowsApart(s) ==
    \A e \in s.segs : \A r \in e.rows :
        /\ \A x \in mem \cup current.mem : x.row # r
        /\ \A f \in segs : r \in f.rows => f.id = e.id

RowInv ==
    /\ RowsApart(current)
    /\ \A t \in Tasks : Rewrites(task[t]) => RowsApart(task[t].snap)

\* The writer's rows after a step that rewrites nothing: memtable rows are old or
\* new, segments are old or made of memtable rows.
RowsFlow ==
    /\ \A x \in mem' \cup current'.mem : x \in mem \cup current.mem \/ nextSeq <= x.row.seq
    /\ \A f \in segs' : \/ \E g \in segs : g.id = f.id /\ g.rows = f.rows
                        \/ \A r \in f.rows : \E x \in mem : x.row = r

\* Rows of a pinned snapshot stay where they are, or vanish.
LEMMA ApartStays ==
    ASSUME RowsFlow, nextSeq \in Nat, NEW s \in FSnapshot,
           Known(s, nextId, nextSeq, txn), RowsApart(s)
    PROVE  \A e \in s.segs : \A r \in e.rows :
               /\ \A x \in mem' \cup current'.mem : x.row # r
               /\ \A f \in segs' : r \in f.rows => f.id = e.id
<1> SUFFICES ASSUME NEW e \in s.segs, NEW r \in e.rows
             PROVE  /\ \A x \in mem' \cup current'.mem : x.row # r
                    /\ \A f \in segs' : r \in f.rows => f.id = e.id
    OBVIOUS
<1>1. r.seq < nextSeq /\ r.seq \in Nat
      BY DEF Known, FSnapshot, FSegment, Fin, Row
<1>2. \A x \in mem' \cup current'.mem : x.row # r
      BY <1>1 DEF RowsFlow, RowsApart
<1>3. \A f \in segs' : r \in f.rows => f.id = e.id
      BY DEF RowsFlow, RowsApart
<1> QED BY <1>2, <1>3

\* Where no rows move, the published segments stay apart too.
LEMMA PublishedApart ==
    ASSUME Base, Base', RowsFlow, RowsApart(current),
           \A f \in segs' : \E g \in segs : g.id = f.id /\ g.rows = f.rows
    PROVE  RowsApart(current)'
<1>1. current.segs = segs /\ current'.segs = segs' /\ current \in FSnapshot /\ nextSeq \in Nat
      BY DEF Base, IdInv, TypeInv
<1>2. \A e \in segs : \A r \in e.rows :
               /\ \A x \in mem' \cup current'.mem : x.row # r
               /\ \A f \in segs' : r \in f.rows => f.id = e.id
      BY <1>1, ApartStays DEF Base, IdInv
<1> QED BY <1>1, <1>2 DEF RowsApart

\* A flush makes a segment of the memtable's rows and empties it.
LEMMA FlushApart ==
    ASSUME Base, Base', RowsApart(current), FlushLocked
    PROVE  RowsFlow /\ RowsApart(current)'
<1>1. /\ \A f \in segs : Remap(f).id = f.id /\ Remap(f).rows = f.rows
      /\ current.segs = segs /\ current'.segs = segs'
      /\ mem' = {} /\ current'.mem = {}
      BY RemapType DEF Base, TypeInv, IdInv, FlushLocked, Publish
<1>2. segs' = {Remap(e) : e \in segs} \cup NewSegment({x.row : x \in mem}, schema)
      BY DEF FlushLocked
<1>3. \A f \in segs' : \/ \E g \in segs : g.id = f.id /\ g.rows = f.rows
                       \/ f.id = nextId /\ \A r \in f.rows : \E x \in mem : x.row = r
      BY <1>1, <1>2 DEF NewSegment
<1>4. RowsFlow
      BY <1>1, <1>3 DEF RowsFlow
<1>5. \A e, f \in segs' : \A r \in e.rows : r \in f.rows => f.id = e.id
  <2> SUFFICES ASSUME NEW e \in segs', NEW f \in segs', NEW r \in e.rows, r \in f.rows
               PROVE  f.id = e.id
      OBVIOUS
  <2>1. CASE /\ \E g \in segs : g.id = e.id /\ g.rows = e.rows
             /\ \E g \in segs : g.id = f.id /\ g.rows = f.rows
        BY <1>1, <2>1 DEF RowsApart
  <2>2. CASE e.id = nextId /\ f.id = nextId
        BY <2>2
  <2>3. CASE /\ \E g \in segs : r \in g.rows
             /\ \E x \in mem : x.row = r
        BY <1>1, <2>3 DEF RowsApart
  <2> QED BY <1>3, <2>1, <2>2, <2>3
<1> QED BY <1>1, <1>4, <1>5 DEF RowsApart

\* A rewrite of segments of a snapshot whose rows are apart.
LEMMA RewriteApart ==
    ASSUME Base, Base', RowsApart(current), NEW s \in FSnapshot, RowsApart(s),
           NEW sources \in SUBSET s.segs, NEW rows, NEW sch, Rewritten(sources, rows, sch),
           \A r \in rows : \E e \in sources : r \in e.rows
    PROVE  RowsApart(current)'
<1>1. /\ current.segs = segs /\ current'.segs = segs'
      /\ mem' = mem /\ current'.mem = mem
      BY DEF Base, IdInv, Rewritten, Publish
<1>2. \A e \in segs' : \/ e \in segs /\ e.id \notin Ids(sources)
                       \/ e.rows = rows /\ e.id = nextId
      BY RewrittenSegments
<1>3. ASSUME NEW e \in segs', NEW r \in e.rows
      PROVE  /\ \A x \in mem : x.row # r
             /\ \A f \in segs' : r \in f.rows => f.id = e.id
  <2>1. \A x \in mem : x.row # r
        BY <1>1, <1>2 DEF RowsApart
  <2>2. ASSUME NEW f \in segs', r \in f.rows PROVE f.id = e.id
    <3>1. CASE e \in segs /\ f \in segs
          BY <1>1, <2>2, <3>1 DEF RowsApart
    <3>2. CASE e.id = nextId /\ f.id = nextId
          BY <3>2
    <3>3. ASSUME NEW g \in segs, g.id \notin Ids(sources), r \in g.rows, r \in rows
          PROVE  FALSE
      <4>1. PICK h \in sources : r \in h.rows
            BY <3>3
      <4>2. g.id = h.id
            BY <3>3, <4>1 DEF RowsApart
      <4> QED BY <3>3, <4>1, <4>2 DEF Ids
    <3> QED BY <1>2, <2>2, <3>1, <3>2, <3>3
  <2> QED BY <2>1, <2>2
<1> QED BY <1>1, <1>3 DEF RowsApart


\* A call that comes to rewrite something has just read the published snapshot.
LEMMA RewriteStarts ==
    ASSUME TypeInv, NEW t \in Tasks, Step(t), Rewrites(task'[t])
    PROVE  \/ Asks(t) /\ task'[t].snap = current
           \/ Faults(t) /\ task' = task
<1>0. Idle.at = "idle" /\ ~Rewrites(Idle)
      BY DEF Idle, Rewrites
<1>1. ASSUME task'[t] = Idle \/ task'[t].at \notin {"rewrite", "sourced"}
      PROVE  FALSE
      BY <1>0, <1>1 DEF Rewrites
<1>2. CASE Starts(t)
  <2>1. task'[t].at \in {"insert", "pinned", "compact", "alter"}
        BY <1>2 DEF Starts, StartInsert, StartDml, StartCompact, StartAlter, Goes, TypeInv
  <2> QED BY <1>1, <2>1
<1>3. CASE \/ Insert(t) \/ ApplyDml(t) \/ RefuseDml(t) \/ AlterRefused(t) \/ AdoptSchema(t)
  <2>1. task'[t] = Idle
        BY <1>3 DEF Insert, ApplyDml, RefuseDml, AlterRefused, Refused, AdoptSchema, Goes, TypeInv
  <2> QED BY <1>1, <2>1
<1>4. CASE ReadSegment(t) \/ ListSeqnos(t) \/ EndMatch(t)
  <2>1. CASE EndMatch(t)
    <3>1. task'[t] = Idle \/ task'[t] = [task[t] EXCEPT !.at = "ready"]
          BY <2>1 DEF EndMatch, Goes, TypeInv
    <3>2. task[t] \in Matching
          BY <2>1, TaskAt DEF EndMatch, TypeInv
    <3>3. [task[t] EXCEPT !.at = "ready"].at = "ready"
          BY <3>2 DEF Matching
    <3> QED BY <1>1, <3>1, <3>3
  <2>2. CASE ReadSegment(t) \/ ListSeqnos(t)
    <3>1. task'[t] = Idle \/ task'[t].at \in {"pinned", "matched"}
          BY <2>2, ReadSegmentGoes DEF ListSeqnos, Goes, TypeInv
    <3> QED BY <1>1, <3>1
  <2> QED BY <1>4, <2>1, <2>2
<1>5. CASE Flush(t) \/ \E ids \in SUBSET Ids(segs) : DropSegments(t, ids)
  <2>1. task' = task /\ task[t] = Idle
        BY <1>5 DEF Flush, DropSegments, Calls
  <2> QED BY <1>1, <2>1
<1>6. CASE WriteRun(t) \/ AbandonRun(t) \/ AlterCommit(t)
  <2>1. task'[t] = Idle \/ task'[t].at \in {"compact", "adopt"}
        BY <1>6 DEF WriteRun, AbandonRun, AlterCommit, NextRun, Goes, TypeInv
  <2> QED BY <1>1, <2>1
<1>7. CASE AlterFlush(t)
  <2>1. task'[t] = Idle \/ task'[t] = [task[t] EXCEPT !.at = "flushed"]
        BY <1>7 DEF AlterFlush, Goes, TypeInv
  <2>2. task[t] \in Altering
        BY <1>7, TaskAt DEF AlterFlush, TypeInv
  <2>3. [task[t] EXCEPT !.at = "flushed"].at = "flushed"
        BY <2>2 DEF Altering
  <2> QED BY <1>1, <2>1, <2>3
<1>10. CASE AlterLoad(t)
  <2>1. task'[t].at = "loaded"
        BY <1>10 DEF AlterLoad, Goes, TypeInv
  <2> QED BY <1>1, <2>1
<1>11. CASE Faults(t)
  <2>1. task' = task \/ task'[t] = Idle
        BY <1>11, FaultIs DEF Goes, TypeInv
  <2> QED BY <1>1, <1>11, <2>1
<1>8. CASE AlterPin(t)
  <2>1. task'[t].snap = current
        BY <1>8 DEF AlterPin, Goes, TypeInv
  <2> QED BY <1>8, <2>1 DEF Asks
<1>9. ASSUME NEW run \in SUBSET (1 .. nextId), ReadRun(t, run)
      PROVE  Asks(t) /\ task'[t].snap = current
  <2>1. task'[t] = Idle \/ task'[t].snap = current
        BY <1>9 DEF ReadRun, Goes, TypeInv
  <2> QED BY <1>1, <1>9, <2>1 DEF Asks
<1> QED BY <1>2, <1>3, <1>4, <1>5, <1>6, <1>7, <1>8, <1>9, <1>10, <1>11
        DEF Step, Starts, Faults

\* Steps that neither flush nor rewrite leave the segments' rows where they are.
LEMMA QuietRows ==
    ASSUME Base, NEW t \in Tasks, Step(t), ~(Flushes(t) /\ FlushLocked), ~WriteRun(t),
           ~(AlterCommit(t) /\ task[t].op = "cast")
    PROVE  RowsFlow /\ segs' \subseteq segs
<1>1. ASSUME segs' \subseteq segs, mem' \subseteq mem, current' = current \/ current'.mem = mem'
      PROVE  RowsFlow /\ segs' \subseteq segs
      BY <1>1 DEF RowsFlow
<1>2. CASE Asks(t)
      BY <1>1, <1>2, AsksLeave DEF writer
<1>3. CASE Insert(t)
  <2>1. /\ segs' = segs /\ current'.mem = mem'
        /\ \A x \in mem' : x \in mem \/ x.row.seq = nextSeq
        BY <1>3 DEF Insert, Publish
  <2> QED BY <2>1 DEF RowsFlow, Base, TypeInv
<1>4. CASE ApplyDml(t)
  <2>1. task[t].old \in Fin(Row) /\ nextSeq \in Nat
        BY <1>4, TaskAt DEF Base, TypeInv, ApplyDml, Matching
  <2>2. /\ segs' = segs /\ (UNCHANGED current \/ Publish(schema))
        /\ mem' = {x \in mem : x.row.seq \notin task[t].seqs}
                  \cup [row : Replacements(task[t]), schema : task[t].schemas,
                        batch : {nextSeq}]
        BY <1>4 DEF ApplyDml, Replacements
  <2>6. current' = current \/ current'.mem = mem'
        BY <2>2 DEF Publish
  <2>3. \A n \in Replacements(task[t]) : nextSeq <= n.seq
        BY <2>1, Numbered
  <2>4. \A x \in mem' : x \in mem \/ x.row \in Replacements(task[t])
        BY <2>2
  <2>5. \A x \in mem' : x \in mem \/ nextSeq <= x.row.seq
        BY <2>3, <2>4
  <2> QED BY <2>2, <2>5, <2>6 DEF RowsFlow
<1>5. CASE Flushes(t)
      BY <1>1, <1>5, FlushesLeave DEF FlushFails
<1>6. CASE \E ids \in SUBSET Ids(segs) : DropSegments(t, ids)
      BY <1>1, <1>6 DEF DropSegments, Publish
<1>7. CASE AlterCommit(t) \/ AdoptSchema(t)
      BY <1>1, <1>7 DEF AlterCommit, AdoptSchema, Publish
<1>8. CASE Faults(t)
      BY <1>1, <1>8, FaultIs
<1> QED BY <1>2, <1>3, <1>4, <1>5, <1>6, <1>7, <1>8, StepIs

\* Every action keeps rows in one place, with one rewriter.
LEMMA RowStep ==
    ASSUME OneRewriter(load), Base, Base', CallsInv, RowInv, [Next]_vars
    PROVE  RowInv'
<1>0. load' = load /\ OneRewriter(load)
      BY DEF Next, vars, Base, TypeInv
<1>1. CASE UNCHANGED vars
      BY <1>1 DEF vars, writer, RowInv, RowsApart
<1>2. ASSUME NEW t \in Tasks, Step(t) PROVE RowInv'
  <2>0. /\ \A u \in Tasks : u # t => task'[u] = task[u]
        /\ \A u \in Tasks : Rewrites(task[u]) =>
              /\ task[u].snap \in FSnapshot
              /\ Known(task[u].snap, nextId, nextSeq, txn)
              /\ load.calls[u] \cap {"compact", "cast"} # {}
        /\ current \in FSnapshot
        /\ nextSeq \in Nat
    <3>1. ASSUME NEW u \in Tasks, Rewrites(task[u])
          PROVE  task[u].snap \in FSnapshot /\ HasSnap(task[u])
      <4>1. CASE task[u].at = "rewrite"
            BY <4>1, TaskAt DEF Base, TypeInv, Rewriting, HasSnap
      <4>2. CASE task[u].at = "sourced"
            BY <4>2, TaskAt DEF Base, TypeInv, Sourced, HasSnap
      <4> QED BY <3>1, <4>1, <4>2 DEF Rewrites
    <3>2. \A u \in Tasks : Rewrites(task[u]) => load.calls[u] \cap {"compact", "cast"} # {}
          BY DEF CallsInv, Called, Rewrites, Changing
    <3> QED BY <1>2, <3>1, <3>2, OthersWait DEF Base, IdInv, TypeInv
  <2>1. ASSUME RowsFlow, RowsApart(current)'
        PROVE  RowInv'
    <3>1. ASSUME NEW u \in Tasks, Rewrites(task'[u])
          PROVE  \A e \in task'[u].snap.segs : \A r \in e.rows :
                     /\ \A x \in mem' \cup current'.mem : x.row # r
                     /\ \A f \in segs' : r \in f.rows => f.id = e.id
      <4>1. CASE Asks(t) /\ task'[u].snap = current
        <5>2. UNCHANGED <<segs, mem, current>>
              BY <4>1, AsksLeave DEF writer
        <5> QED BY <4>1, <5>2 DEF RowInv, RowsApart
      <4>2. CASE task'[u] = task[u]
        <5>1. task'[u] = task[u]
              BY <4>2
        <5>2. RowsApart(task[u].snap)
              BY <3>1, <5>1 DEF RowInv
        <5> QED BY <2>0, <2>1, <3>1, <5>1, <5>2, ApartStays
      <4>3. CASE u = t
            BY <1>2, <3>1, <4>1, <4>2, <4>3, RewriteStarts DEF Base
      <4> QED BY <2>0, <4>2, <4>3
    <3> QED BY <2>1, <3>1 DEF RowInv, RowsApart
  <2>2. CASE Flushes(t) /\ FlushLocked
        BY <2>1, <2>2, FlushApart DEF RowInv
  <2>3. ASSUME Rewrites(task[t]), ~Rewrites(task'[t]),
               NEW sources \in SUBSET task[t].snap.segs, NEW rows, NEW s,
               Rewritten(sources, rows, s),
               \A r \in rows : \E e \in sources : r \in e.rows
        PROVE  RowInv'
    <3>1. RowsApart(current)'
          BY <2>0, <2>3, RewriteApart DEF RowInv
    <3>2. \A u \in Tasks : ~Rewrites(task'[u])
          BY <1>0, <2>0, <2>3 DEF OneRewriter
    <3> QED BY <3>1, <3>2 DEF RowInv
  <2>4. CASE WriteRun(t)
    <3> DEFINE c == task[t]
               sources == RunSources(c)
               rows == RunRows(c)
    <3>1. /\ Rewrites(c) /\ Rewritten(sources, rows, schema)
          /\ task'[t] = Idle \/ task'[t].at = "compact"
          BY <2>4 DEF WriteRun, Rewrites, Goes, NextRun, Base, TypeInv
    <3>2. ~Rewrites(task'[t])
          BY <3>1 DEF Rewrites, Idle
    <3>3. sources \in SUBSET c.snap.segs
          BY DEF RunSources, Entries
    <3>4. \A r \in rows : \E e \in sources : r \in e.rows
          BY DEF RunRows, LiveRows, Live
    <3> HIDE DEF sources, rows
    <3> QED BY <2>3, <3>1, <3>2, <3>3, <3>4
  <2>5. CASE AlterCommit(t) /\ task[t].op = "cast"
    <3> DEFINE c == task[t]
               sources == LiveSegments(c.snap)
               rows == LiveRows(sources, c.snap.dead)
    <3>1. /\ Rewrites(c) /\ Rewritten(sources, rows, c.after) /\ task'[t].at = "adopt"
          BY <2>5 DEF AlterCommit, Rewrites, Goes, Base, TypeInv
    <3>2. ~Rewrites(task'[t])
          BY <3>1 DEF Rewrites
    <3>3. sources \in SUBSET c.snap.segs
          BY DEF LiveSegments
    <3>4. \A r \in rows : \E e \in sources : r \in e.rows
          BY DEF LiveRows, Live
    <3> HIDE DEF sources, rows
    <3> QED BY <2>3, <3>1, <3>2, <3>3, <3>4
  <2>6. CASE /\ ~(Flushes(t) /\ FlushLocked) /\ ~WriteRun(t)
             /\ ~(AlterCommit(t) /\ task[t].op = "cast")
    <3>1. RowsFlow /\ segs' \subseteq segs
          BY <1>2, <2>6, QuietRows
    <3> QED BY <2>1, <3>1, PublishedApart DEF RowInv
  <2> QED BY <2>2, <2>4, <2>5, <2>6
<1> QED BY <1>1, <1>2 DEF Next


\* There are no rows at the start.
LEMMA RowInit ==
    ASSUME Init
    PROVE  RowInv
BY DEF Init, RowInv, RowsApart, Rewrites, Idle

\* Rows stay in one place, with one rewriter.
LEMMA RowsHold == Spec => [](Base /\ CallsInv /\ (OneRewriter(load) => RowInv))
<1>1. Init => CallsInv /\ RowInv
      BY CallsInit, RowInit
<1>2. Base /\ Base' /\ CallsInv /\ (OneRewriter(load) => RowInv) /\ [Next]_vars
      => CallsInv' /\ (OneRewriter(load) => RowInv)'
  <2>1. [Next]_vars => load' = load
        BY DEF Next, vars
  <2>2. [Next]_vars /\ OneRewriter(load)' => OneRewriter(load)
        BY <2>1
  <2> QED BY <2>2, CallsStep, RowStep DEF Base
<1> QED BY <1>1, <1>2, BaseHolds, PTL DEF Spec

\* A scan returns finitely many rows.
LEMMA ScanFinite ==
    ASSUME NEW s \in FSnapshot
    PROVE  IsFiniteSet(Scan(s))
<1> DEFINE part(e) == {<<e.id, r>> : r \in Live(e, s.dead)}
           f == [e \in s.segs |-> part(e)]
           parts == {part(e) : e \in s.segs}
           g == [x \in s.mem |-> <<0, x.row>>]
           held == {<<0, x.row>> : x \in s.mem}
<1>1. s.segs \in Fin(FSegment) /\ IsFiniteSet(s.segs) /\ IsFiniteSet(s.mem)
      BY DEF FSnapshot, Fin
<1>2. ASSUME NEW e \in s.segs PROVE IsFiniteSet(part(e))
  <2> DEFINE L == Live(e, s.dead)
             h == [r \in L |-> <<e.id, r>>]
  <2>1. IsFiniteSet(L)
        BY <1>1, LiveFinite DEF Fin
  <2>2. part(e) = {h[r] : r \in L}
        OBVIOUS
  <2> HIDE DEF h, L
  <2> QED BY <2>1, <2>2, ImageFinite
<1>3. IsFiniteSet(UNION parts)
  <2>1. parts = {f[e] : e \in s.segs}
        OBVIOUS
  <2>2. \A p \in parts : IsFiniteSet(p)
        BY <1>2
  <2> HIDE DEF f
  <2>3. IsFiniteSet({f[e] : e \in s.segs})
        BY <1>1, ImageFinite
  <2> HIDE DEF parts
  <2> QED BY <2>1, <2>2, <2>3, FS_UNION
<1>4. IsFiniteSet(held)
  <2>1. held = {g[x] : x \in s.mem}
        OBVIOUS
  <2> HIDE DEF g, held
  <2>2. IsFiniteSet({g[x] : x \in s.mem})
        BY <1>1, ImageFinite
  <2> QED BY <2>1, <2>2
<1>5. Scan(s) = held \cup UNION parts
      BY DEF Scan
<1> DEFINE U == UNION parts
<1>6. IsFiniteSet(U) /\ Scan(s) = held \cup U
      BY <1>3, <1>5
<1> HIDE DEF parts, held, U
<1> QED BY <1>4, <1>6, FS_Union

\* Where a row names one place, as many rows are shown as the scan returns.
LEMMA ScanCounts ==
    ASSUME NEW s \in FSnapshot, \A x, y \in Scan(s) : x[2] = y[2] => x = y
    PROVE  Cardinality(Scan(s)) = Cardinality(Shown(s))
<1> DEFINE A == Scan(s)
           B == Shown(s)
           f == [x \in A |-> x[2]]
<1>1. IsFiniteSet(A)
      BY ScanFinite
<1>2. B = {x[2] : x \in A}
      BY DEF Shown
<1>3. f \in Bijection(A, B)
  <2> HIDE DEF A, B
  <2>1. f \in [A -> B]
        BY <1>2
  <2>2. \A x, y \in A : f[x] = f[y] => x = y
        BY DEF A
  <2>3. \A b \in B : \E x \in A : f[x] = b
        BY <1>2
  <2> QED BY <2>1, <2>2, <2>3 DEF Bijection, Injection, Surjection, IsInjective
<1> HIDE DEF A, B, f
<1>4. ExistsBijection(A, B)
      BY <1>3 DEF ExistsBijection
<1>5. Cardinality(A) = Cardinality(B)
      BY <1>1, <1>4, FS_Bijection
<1> QED BY <1>5 DEF A, B

\* Rows apart are shown once.
LEMMA ApartOnce ==
    ASSUME Base, RowInv
    PROVE  NoRowTwice
<1>1. current \in FSnapshot /\ current.segs = segs
      BY DEF Base, TypeInv, IdInv
<1>2. ASSUME NEW x \in Scan(current)
      PROVE  \/ \E e \in segs : x[2] \in e.rows /\ x = <<e.id, x[2]>>
             \/ \E y \in current.mem : x[2] = y.row /\ x = <<0, x[2]>>
  <2>1. \/ \E y \in current.mem : x = <<0, y.row>>
        \/ \E e \in current.segs : \E r \in Live(e, current.dead) : x = <<e.id, r>>
        BY <1>2 DEF Scan
  <2>2. \A e \in current.segs : Live(e, current.dead) \subseteq e.rows
        BY DEF Live
  <2> QED BY <1>1, <2>1, <2>2
<1>3. ASSUME NEW x \in Scan(current), NEW y \in Scan(current), x[2] = y[2]
      PROVE  x = y
  <2>1. ASSUME NEW e \in segs, NEW f \in segs, x = <<e.id, x[2]>>, y = <<f.id, y[2]>>,
               x[2] \in e.rows, y[2] \in f.rows
        PROVE  x = y
    <3>1. e.id = f.id
          BY <1>1, <1>3, <2>1 DEF RowInv, RowsApart
    <3> QED BY <1>3, <2>1, <3>1
  <2>2. ASSUME NEW e \in segs, NEW z \in current.mem, x[2] \in e.rows, x[2] = z.row
        PROVE  FALSE
        BY <1>1, <2>2 DEF RowInv, RowsApart
  <2> QED BY <1>2, <1>3, <2>1, <2>2
<1> QED BY <1>1, <1>3, ScanCounts DEF NoRowTwice

\* Where one task at most compacts or casts, no row reaches a scan from two
\* places, however inserts, statements, flushes, dropped segments and added
\* columns of the other tasks fall between a rewrite's read and its commit, and
\* whichever of the commits fail.
THEOREM RowsAreHeldOnce == Spec => [](OneRewriter(load) => NoRowTwice)
<1>1. Base /\ RowInv => NoRowTwice
      BY ApartOnce
<1> QED BY <1>1, RowsHold, PTL

----------------------------------------------------------------------------
(* Segments freed once.                                                    *)

\* The bytes of a segment, as Manifest::free is given them.
Data(id) == [id |-> id, map |-> 0]

\* No data is freed twice, nor while an entry names it; and what a rewriter has
\* read is still in the manifest, under the same identity.
DataInv ==
    /\ \A x \in doubled : x.map # 0
    /\ \A e \in segs : Data(e.id) \notin freed
HeldInv == \A t \in Tasks : Rewrites(task[t]) => Ids(task[t].snap.segs) \subseteq Ids(segs)

LEMMA DataIs ==
    ASSUME NEW es, NEW x \in Extents(es), x.map = 0
    PROVE  \E e \in es : x = Data(e.id)
<1>1. PICK e \in es : \/ x = [id |-> e.id, map |-> 0]
                      \/ \E b \in e.map : x = [id |-> e.id, map |-> b]
      BY ExtentsAre
<1> QED BY <1>1 DEF Data

\* Entries as they were read are freed, and those of their identities leave.
LEMMA DataRewrite ==
    ASSUME Base, DataInv, NEW G, NEW new, Ids(G) \subseteq Ids(segs),
           \A e \in new : e.id = nextId,
           segs' = (segs \ Entries(segs, Ids(G))) \cup new, Free(Extents(G))
    PROVE  DataInv'
<1>1. /\ \A x \in freed : x.id < nextId /\ x.id \in Nat
      /\ \A e \in segs : e.id < nextId /\ e.id \in Nat
      /\ nextId \in Nat
      BY KnownNow DEF Base, IdInv, TypeInv, Fin, FSegment
<1>2. \A e \in G : \E f \in segs : f.id = e.id
      BY DEF Ids
<1>3. ASSUME NEW x \in doubled' PROVE x.map # 0
  <2>1. CASE x \in doubled
        BY <2>1 DEF DataInv
  <2>2. ASSUME x \in Extents(G), x \in freed, x.map = 0 PROVE FALSE
    <3>1. PICK e \in G : x = Data(e.id)
          BY <2>2, DataIs
    <3> QED BY <1>2, <2>2, <3>1 DEF DataInv
  <2> QED BY <1>3, <2>1, <2>2 DEF Free
<1>4. ASSUME NEW e \in segs', Data(e.id) \in freed' PROVE FALSE
  <2>1. Data(e.id).map = 0 /\ Data(e.id).id = e.id
        BY DEF Data
  <2>2. CASE Data(e.id) \in freed
    <3>1. e \notin segs
          BY <2>2 DEF DataInv
    <3> QED BY <1>1, <2>1, <2>2, <3>1
  <2>3. CASE Data(e.id) \in Extents(G)
    <3>1. PICK g \in G : Data(e.id) = Data(g.id)
          BY <2>1, <2>3, DataIs
    <3>2. g.id = e.id
          BY <3>1 DEF Data
    <3>3. e \notin segs \ Entries(segs, Ids(G))
          BY <3>2 DEF Entries, Ids
    <3>4. e.id = nextId
          BY <3>3
    <3> QED BY <1>1, <1>2, <3>2, <3>4
  <2> QED BY <1>4, <2>2, <2>3 DEF Free
<1> QED BY <1>3, <1>4 DEF DataInv

\* flush_locked frees bitmaps only, and no identity leaves.
LEMMA DataFlush ==
    ASSUME Base, DataInv, FlushLocked
    PROVE  DataInv' /\ Ids(segs) \subseteq Ids(segs')
<1>1. /\ \A x \in freed : x.id < nextId /\ x.id \in Nat
      /\ \A e \in segs : e.id < nextId /\ e.id \in Nat
      /\ nextId \in Nat
      BY KnownNow DEF Base, IdInv, TypeInv, Fin, FSegment
<1>2. /\ \A f \in segs : Remap(f) \in segs' /\ Remap(f).id = f.id
      /\ \A e \in segs' : e.id = nextId \/ \E f \in segs : f.id = e.id
      BY FlushedSegments, RemapType DEF Base, TypeInv
<1>3. Free(Extents(segs) \ Extents(segs'))
      BY DEF FlushLocked
<1>4. ASSUME NEW x \in Extents(segs) \ Extents(segs'), x.map = 0 PROVE FALSE
  <2>1. PICK f \in segs : x = Data(f.id)
        BY <1>4, DataIs
  <2>2. Data(f.id) \in Extents(segs')
        BY <1>2, ExtentsAre DEF Data
  <2> QED BY <1>4, <2>1, <2>2
<1>5. \A x \in doubled' : x.map # 0
      BY <1>3, <1>4 DEF Free, DataInv
<1>6. ASSUME NEW e \in segs', Data(e.id) \in freed' PROVE FALSE
  <2>1. Data(e.id).map = 0 /\ Data(e.id).id = e.id
        BY DEF Data
  <2>2. Data(e.id) \in freed
        BY <1>3, <1>4, <1>6, <2>1 DEF Free
  <2>3. PICK f \in segs : f.id = e.id
        BY <1>1, <1>2, <2>1, <2>2
  <2> QED BY <2>2, <2>3 DEF DataInv
<1>7. Ids(segs) \subseteq Ids(segs')
      BY <1>2 DEF Ids
<1> QED BY <1>5, <1>6, <1>7 DEF DataInv

\* Every action keeps the data apart from what was freed, with one remover.
LEMMA DataStep ==
    ASSUME OneRemoves, Base, CallsInv, DataInv, HeldInv, [Next]_vars
    PROVE  DataInv' /\ HeldInv'
<1>1. CASE UNCHANGED vars
      BY <1>1 DEF vars, writer, DataInv, HeldInv
<1>2. ASSUME NEW t \in Tasks, Step(t) PROVE DataInv' /\ HeldInv'
  <2>0. /\ \A u \in Tasks : u # t => task'[u] = task[u]
        /\ \A u \in Tasks : Rewrites(task[u]) => Removes(u)
        /\ current.segs = segs
    <3>1. \A u \in Tasks : Rewrites(task[u]) => load.calls[u] \cap {"compact", "cast"} # {}
          BY DEF CallsInv, Called, Rewrites, Changing
    <3> QED BY <1>2, <3>1, OthersWait DEF Base, IdInv, Removes
  <2>1. ASSUME Ids(segs) \subseteq Ids(segs') PROVE HeldInv'
    <3> SUFFICES ASSUME NEW u \in Tasks, Rewrites(task'[u])
                 PROVE  Ids(task'[u].snap.segs) \subseteq Ids(segs')
        BY DEF HeldInv
    <3>1. CASE task'[u] = task[u]
          BY <2>1, <3>1 DEF HeldInv
    <3>2. CASE u = t
          BY <1>2, <2>0, <2>1, <3>1, <3>2, RewriteStarts DEF Base
    <3> QED BY <2>0, <3>1, <3>2
  <2>2. CASE UNCHANGED <<segs, freed, doubled>>
        BY <2>1, <2>2 DEF DataInv
  <2>3. ASSUME Removes(t), ~Rewrites(task'[t]) PROVE HeldInv'
    <3>1. \A u \in Tasks : u # t => ~Rewrites(task'[u])
          BY <2>0, <2>3 DEF OneRemoves
    <3> QED BY <2>3, <3>1 DEF HeldInv
  <2>4. CASE Flushes(t)
        BY <2>1, <2>2, <2>4, FlushesLeave, DataFlush DEF FlushFails
  <2>5. ASSUME NEW ids \in SUBSET Ids(segs), DropSegments(t, ids) PROVE DataInv' /\ HeldInv'
    <3> DEFINE gone == Entries(segs, ids)
    <3>1. \/ UNCHANGED <<segs, freed, doubled>>
          \/ segs' = segs \ gone /\ Free(Extents(gone))
          BY <2>5 DEF DropSegments
    <3>2. /\ Ids(gone) \subseteq Ids(segs)
          /\ Entries(segs, Ids(gone)) = gone
          BY DEF Entries, Ids
    <3>3. Removes(t) /\ ~Rewrites(task'[t])
          BY <2>5 DEF DropSegments, Calls, Removes, Rewrites, Idle
    <3>4. CASE segs' = segs \ gone /\ Free(Extents(gone))
      <4>1. segs' = (segs \ Entries(segs, Ids(gone))) \cup {}
            BY <3>2, <3>4
      <4>2. ASSUME NEW G, G = gone, NEW new, new = {} PROVE DataInv'
        <5>1. /\ Ids(G) \subseteq Ids(segs)
              /\ \A e \in new : e.id = nextId
              /\ segs' = (segs \ Entries(segs, Ids(G))) \cup new
              /\ Free(Extents(G))
              BY <3>2, <3>4, <4>1, <4>2
        <5> QED BY <5>1, DataRewrite
      <4> QED BY <2>3, <3>3, <4>2
    <3> QED BY <2>2, <3>1, <3>4
  <2>6. ASSUME Rewrites(task[t]), ~Rewrites(task'[t]),
               NEW sources \in SUBSET task[t].snap.segs, NEW rows, NEW s,
               Rewritten(sources, rows, s)
        PROVE  DataInv' /\ HeldInv'
    <3>1. Ids(sources) \subseteq Ids(segs)
          BY <2>6 DEF HeldInv, Ids
    <3>2. /\ segs' = (segs \ Entries(segs, Ids(sources))) \cup NewSegment(rows, s)
          /\ Free(Extents(sources))
          BY <2>6 DEF Rewritten, Retire
    <3>3. \A e \in NewSegment(rows, s) : e.id = nextId
          BY DEF NewSegment
    <3>4. DataInv'
          BY <3>1, <3>2, <3>3, DataRewrite
    <3> QED BY <2>0, <2>3, <2>6, <3>4
  <2>7. CASE WriteRun(t)
    <3> DEFINE c == task[t]
               sources == RunSources(c)
               rows == RunRows(c)
    <3>1. /\ Rewrites(c) /\ Rewritten(sources, rows, schema)
          /\ task'[t] = Idle \/ task'[t].at = "compact"
          BY <2>7 DEF WriteRun, Rewrites, Goes, NextRun, Base, TypeInv
    <3>2. ~Rewrites(task'[t])
          BY <3>1 DEF Rewrites, Idle
    <3>3. sources \in SUBSET c.snap.segs
          BY DEF RunSources, Entries
    <3> HIDE DEF sources, rows
    <3> QED BY <2>6, <3>1, <3>2, <3>3
  <2>8. CASE AlterCommit(t) /\ task[t].op = "cast"
    <3> DEFINE c == task[t]
               sources == LiveSegments(c.snap)
               rows == LiveRows(sources, c.snap.dead)
    <3>1. /\ Rewrites(c) /\ Rewritten(sources, rows, c.after) /\ task'[t].at = "adopt"
          BY <2>8 DEF AlterCommit, Rewrites, Goes, Base, TypeInv
    <3>2. ~Rewrites(task'[t])
          BY <3>1 DEF Rewrites
    <3>3. sources \in SUBSET c.snap.segs
          BY DEF LiveSegments
    <3> HIDE DEF sources, rows
    <3> QED BY <2>6, <3>1, <3>2, <3>3
  <2>9. CASE AlterCommit(t) /\ task[t].op # "cast"
        BY <2>2, <2>9 DEF AlterCommit
  <2>10. CASE Asks(t) \/ Insert(t) \/ ApplyDml(t) \/ AdoptSchema(t)
         BY <2>2, <2>10, AsksLeave DEF writer, Insert, ApplyDml, AdoptSchema
  <2>11. CASE Faults(t)
         BY <2>2, <2>11, FaultIs
  <2> QED BY <1>2, <2>4, <2>5, <2>7, <2>8, <2>9, <2>10, <2>11, StepIs
<1> QED BY <1>1, <1>2 DEF Next

\* Where one task at most compacts, casts or drops segments, the bytes of a
\* segment are given to Manifest::free once and are then no entry's, although the
\* task frees the entries it read and flushes of other tasks replace those
\* meanwhile, and whichever commits fail.
THEOREM SegmentBytesFreedOnce == Spec => []SegmentsFreedOnce
<1>1. Init => DataInv /\ HeldInv
      BY DEF Init, DataInv, HeldInv, Rewrites, Idle
<1>2. Base /\ CallsInv /\ (OneRemoves => DataInv /\ HeldInv) /\ [Next]_vars
      => (OneRemoves => DataInv /\ HeldInv)'
  <2>1. [Next]_vars => load' = load
        BY DEF Next, vars
  <2>2. [Next]_vars /\ OneRemoves' => OneRemoves
        BY <2>1 DEF OneRemoves, Removes
  <2> QED BY <2>2, DataStep
<1>3. DataInv => \A x \in doubled \cup (Extents(segs) \cap freed) : x.map # 0
  <2> SUFFICES ASSUME DataInv, NEW x \in Extents(segs), x \in freed, x.map = 0
               PROVE  FALSE
      BY DEF DataInv
  <2>1. PICK e \in segs : x = Data(e.id)
        BY DataIs
  <2> QED BY <2>1 DEF DataInv
<1>4. (OneRemoves => DataInv /\ HeldInv) => SegmentsFreedOnce
      BY <1>3 DEF SegmentsFreedOnce
<1> QED BY <1>1, <1>2, <1>4, RowsHold, PTL DEF Spec


----------------------------------------------------------------------------
(* Scans that are exact.                                                   *)

\* Workloads that keep what the table asks of its callers: statements and flushes
\* are one task's, since matched rows are looked up by their place in the
\* memtable; compactions and casts are one task's, since a run is not rechecked
\* against another; and no segments are dropped, since delete_segments forgets
\* the bitmap of a segment it leaves in place.
Disciplined(w) ==
    /\ OneRewriter(w)
    /\ \A t, u \in Tasks : /\ w.calls[t] \cap {"delete", "update", "flush"} # {}
                           /\ w.calls[u] \cap {"delete", "update", "flush"} # {}
                           => t = u
    /\ \A t \in Tasks : "drop" \notin w.calls[t]

RowsOf(m) == {x.row : x \in m}
AllRows == RowsOf(mem) \cup UNION {e.rows : e \in segs}

\* The published snapshot is the writer's state, and shows the rows it should.
Truthful == current = Now /\ truth = LiveRows(segs, dead) \cup RowsOf(mem)

\* Whatever waits to be written fits the schema s in force over memtable m.
Fits(c, m, s) ==
    /\ c.at = "insert" => c.schema = s
    /\ c.at = "ready" /\ c.op = "update" => c.schemas = {s}
    /\ c.at = "adopt" => m = {}
Fitting ==
    /\ \A x \in mem : x.schema = schema
    /\ \A t \in Tasks : Fits(task[t], mem, schema)

\* A sequence number names a row.
NameRows(R) == \A r, q \in R : r.seq = q.seq => r = q

\* Since snapshot s was published, rows were appended and segments left: now the
\* writer has memtable m, segments es and bitmaps d.
Follows(s, m, es, d) ==
    /\ s.mem \subseteq m
    /\ \A x \in m \ s.mem : \A y \in s.mem : y.row.seq < x.row.seq
    /\ \A e \in s.segs : e.id \in Ids(es) => e \in es /\ Of(d, {e.id}) = Of(s.dead, {e.id})

\* What find_matches has found with the segments of left still to read, given that
\* nothing but inserts came between.
FoundBut(c, left) ==
    /\ \A h \in c.hits : \E e \in c.snap.segs :
          h.id = e.id /\ h.row \in Live(e, c.snap.dead) /\ h.row.key = c.key
    /\ \A e \in c.snap.segs \ left : \A r \in Live(e, c.snap.dead) :
          r.key = c.key => \E h \in c.hits : h.id = e.id /\ h.row = r
Found(c) == FoundBut(c, {})
Picked(c) == {x \in c.snap.mem : x.row.key = c.key}

Stated(c, m, es, d) ==
    c.at \in Dmling =>
        /\ Follows(c.snap, m, es, d)
        /\ c.at = "pinned" => c.left \subseteq c.snap.segs /\ FoundBut(c, c.left)
        /\ c.at \in {"matched", "ready"} =>
              Found(c) /\ c.seqs = SeqsOf(Picked(c)) /\ c.old = Selected(c)
Statements == \A t \in Tasks : Stated(task[t], mem, segs, dead)

\* What a run read is still there, up to deletes the recheck will count.
Stands(c, es, d) ==
    c.at = "rewrite" =>
        \A e \in RunSources(c) :
            /\ \E f \in es : f.id = e.id /\ f.rows = e.rows
            /\ Of(c.snap.dead, {e.id}) \subseteq Of(d, {e.id})
Runs == \A t \in Tasks : Stands(task[t], segs, dead)

Exact == Truthful /\ Fitting /\ NameRows(AllRows) /\ Statements /\ Runs
Orderly == \A t \in Tasks : ~MayFail(t) /\ (Alters(t) => Alone(t))
ExactInv == Orderly => Exact

\* A snapshot shows its memtable and what its bitmaps keep.
LEMMA ShownAre ==
    ASSUME NEW s
    PROVE  Shown(s) = RowsOf(s.mem) \cup LiveRows(s.segs, s.dead)
<1>1. ASSUME NEW r \in Shown(s) PROVE r \in RowsOf(s.mem) \cup LiveRows(s.segs, s.dead)
  <2>1. PICK x \in Scan(s) : r = x[2]
        BY <1>1 DEF Shown
  <2>2. \/ \E y \in s.mem : x = <<0, y.row>>
        \/ \E e \in s.segs : \E q \in Live(e, s.dead) : x = <<e.id, q>>
        BY <2>1 DEF Scan
  <2> QED BY <2>1, <2>2 DEF RowsOf, LiveRows
<1>2. ASSUME NEW y \in s.mem PROVE y.row \in Shown(s)
  <2>1. <<0, y.row>> \in Scan(s)
        BY DEF Scan
  <2> QED BY <2>1 DEF Shown
<1>3. ASSUME NEW e \in s.segs, NEW q \in Live(e, s.dead) PROVE q \in Shown(s)
  <2>1. <<e.id, q>> \in Scan(s)
        BY DEF Scan
  <2> QED BY <2>1 DEF Shown
<1> QED BY <1>1, <1>2, <1>3 DEF RowsOf, LiveRows

\* Which rows of a segment are kept depends on its own bitmap.
LEMMA LiveBy ==
    ASSUME NEW e, NEW f, NEW d, NEW d2, e.id = f.id, e.rows = f.rows,
           Of(d, {e.id}) = Of(d2, {e.id})
    PROVE  Live(e, d) = Live(f, d2)
<1>1. \A r : [id |-> e.id, seq |-> r.seq] \in d <=> [id |-> e.id, seq |-> r.seq] \in d2
  <2> SUFFICES ASSUME NEW r
               PROVE [id |-> e.id, seq |-> r.seq] \in d <=> [id |-> e.id, seq |-> r.seq] \in d2
      OBVIOUS
  <2> DEFINE x == [id |-> e.id, seq |-> r.seq]
  <2>1. x.id = e.id
        OBVIOUS
  <2> HIDE DEF x
  <2>2. x \in d <=> x \in Of(d, {e.id})
        BY <2>1 DEF Of
  <2>3. x \in d2 <=> x \in Of(d2, {e.id})
        BY <2>1 DEF Of
  <2>4. x \in d <=> x \in d2
        BY <2>2, <2>3
  <2> QED BY <2>4 DEF x
<1> QED BY <1>1 DEF Live

\* The n-th row of the snapshot is the n-th of the memtable, while rows are only
\* appended: list_seqnos finds the row it looks for.
LEMMA SeqnoFound ==
    ASSUME NEW then \in Fin(Held), NEW now \in Fin(Held), then \subseteq now,
           \A x \in now \ then : \A y \in then : y.row.seq < x.row.seq,
           NEW x \in then
    PROVE  SeqnoOf(x, then, now) = {x.row.seq}
<1> DEFINE S == SeqsOf(then)
           T == SeqsOf(now)
           q == x.row.seq
<1>1. S \in Fin(Nat) /\ T \in Fin(Nat) /\ S \subseteq T /\ q \in S
  <2>1. ASSUME NEW m \in Fin(Held) PROVE SeqsOf(m) \in Fin(Nat)
    <3> DEFINE U == SeqsOf(m)
               f == [y \in m |-> y.row.seq]
    <3>1. U = {f[y] : y \in m} /\ U \in SUBSET Nat /\ IsFiniteSet(m)
          BY DEF SeqsOf, Fin, Held, Row
    <3> HIDE DEF U, f
    <3>3. IsFiniteSet({f[y] : y \in m})
          BY <3>1, ImageFinite
    <3>2. U \in Fin(Nat)
          BY <3>1, <3>3 DEF Fin
    <3> QED BY <3>2 DEF U
  <2> QED BY <2>1 DEF SeqsOf
<1>2. \A n \in T \ S : q < n
  <2> SUFFICES ASSUME NEW n \in T, n \notin S PROVE q < n
      OBVIOUS
  <2>1. PICK y \in now : n = y.row.seq
        BY DEF SeqsOf
  <2>2. y \notin then
        BY <2>1 DEF SeqsOf
  <2> QED BY <2>1, <2>2
<1> HIDE DEF S, T, q
<1>3. Before(T, q) = Before(S, q)
  <2>1. {n \in T : n < q} = {n \in S : n < q}
    <3>1. ASSUME NEW n \in T, n < q, n \notin S PROVE FALSE
          BY <1>1, <1>2, <3>1 DEF Fin
    <3> QED BY <1>1, <3>1
  <2> QED BY <2>1 DEF Before
<1>4. \A n \in T : Before(T, n) = Before(T, q) => n = q
      BY <1>1, Ranks
<1>5. SeqnoOf(x, then, now) = {n \in T : Before(T, n) = Before(S, q)}
      BY DEF SeqnoOf, S, T, q
<1>6. SeqnoOf(x, then, now) = {q}
      BY <1>1, <1>3, <1>4, <1>5
<1> QED BY <1>6 DEF q


\* A step keeps what the tasks wait for when it does so for its own and leaves
\* the others what they rely on.
LEMMA TasksKeep ==
    ASSUME NEW t \in Tasks, Statements, Runs,
           \A u \in Tasks : u # t =>
               /\ task'[u] = task[u]
               /\ task[u].at \in Dmling => Follows(task[u].snap, mem', segs', dead')
               /\ Stands(task[u], segs', dead')
               /\ Fits(task[u], mem', schema'),
           Stated(task'[t], mem', segs', dead'), Stands(task'[t], segs', dead'),
           Fits(task'[t], mem', schema'),
           \A x \in mem' : x.schema = schema'
    PROVE  Statements' /\ Runs' /\ Fitting'
<1>1. ASSUME NEW u \in Tasks
      PROVE  /\ Stated(task'[u], mem', segs', dead')
             /\ Stands(task'[u], segs', dead')
             /\ Fits(task'[u], mem', schema')
  <2>1. CASE u = t
        BY <2>1
  <2>2. CASE u # t
    <3>1. Stated(task[u], mem, segs, dead)
          BY DEF Statements
    <3>2. Stated(task[u], mem', segs', dead')
          BY <2>2, <3>1 DEF Stated
    <3> QED BY <2>2, <3>2
  <2> QED BY <2>1, <2>2
<1> QED BY <1>1 DEF Statements, Runs, Fitting

\* A task between two steps of nothing that waits.
Resting(c) == c.at \notin Dmling \cup {"insert", "rewrite", "adopt"}
\* A call that holds no rows makes no claim about them.
LEMMA RestingKeeps ==
    ASSUME NEW c, Resting(c), NEW m, NEW es, NEW d, NEW s
    PROVE  Stated(c, m, es, d) /\ Stands(c, es, d) /\ Fits(c, m, s)
BY DEF Resting, Stated, Stands, Fits, Dmling

\* The parts of the state that scans and tasks depend on are left alone.
LEMMA QuietExact ==
    ASSUME TypeInv, Exact, NEW t \in Tasks, Step(t),
           UNCHANGED <<writer, schema, current, truth>>,
           Stated(task'[t], mem, segs, dead), Stands(task'[t], segs, dead),
           Fits(task'[t], mem, schema)
    PROVE  Exact'
<1>1. UNCHANGED <<segs, dead, mem, schema, current, truth>>
      BY DEF writer
<1>2. Truthful' /\ NameRows(AllRows)'
      BY <1>1 DEF Exact, Truthful, NameRows, AllRows, Now
<1>3. \A u \in Tasks : u # t => task'[u] = task[u]
      BY OthersWait
<1>4. ASSUME NEW u \in Tasks
      PROVE  /\ task[u].at \in Dmling => Follows(task[u].snap, mem, segs, dead)
             /\ Stands(task[u], segs, dead) /\ Fits(task[u], mem, schema)
      BY DEF Exact, Statements, Stated, Runs, Fitting
<1>5. Statements' /\ Runs' /\ Fitting'
  <2>1. /\ \A u \in Tasks : u # t =>
               /\ task'[u] = task[u]
               /\ task[u].at \in Dmling => Follows(task[u].snap, mem', segs', dead')
               /\ Stands(task[u], segs', dead')
               /\ Fits(task[u], mem', schema')
        /\ Stated(task'[t], mem', segs', dead') /\ Stands(task'[t], segs', dead')
        /\ Fits(task'[t], mem', schema')
        /\ \A x \in mem' : x.schema = schema'
        BY <1>1, <1>3, <1>4 DEF Exact, Fitting
  <2> QED BY <2>1, TasksKeep DEF Exact
<1> QED BY <1>2, <1>5 DEF Exact

\* ReadSegment keeps scans exact.
LEMMA ReadSegmentExact ==
    ASSUME TypeInv, Exact, NEW t \in Tasks, ReadSegment(t)
    PROVE  Stated(task'[t], mem, segs, dead) /\ Stands(task'[t], segs, dead)
           /\ Fits(task'[t], mem, schema)
<1> DEFINE c == task[t]
           d == task'[t]
<1>1. c.at = "pinned" /\ Stated(c, mem, segs, dead)
      BY ReadSegmentGoes DEF Exact, Statements
<1>2. /\ Follows(c.snap, mem, segs, dead)
      /\ c.left \subseteq c.snap.segs /\ FoundBut(c, c.left)
      BY <1>1 DEF Stated, Dmling
<1>3. CASE d = Idle
      BY <1>3, RestingKeeps DEF Resting, Idle, Dmling
<1>4. CASE d # Idle
  <2>1. /\ d.at = "pinned" /\ d.key = c.key /\ d.snap = c.snap
        /\ \E e \in c.left : /\ d.left = c.left \ {e}
                             /\ d.hits = c.hits \cup Part(e, c.snap.dead, c.key, schema)
        BY <1>4, ReadSegmentGoes
  <2>2. PICK e \in c.left : /\ d.left = c.left \ {e}
                            /\ d.hits = c.hits \cup Part(e, c.snap.dead, c.key, schema)
        BY <2>1
  <2> HIDE DEF c, d
  <2>3. e \in c.snap.segs
        BY <1>2
  <2>4. /\ \A h \in Part(e, c.snap.dead, c.key, schema) :
              h.id = e.id /\ h.row \in Live(e, c.snap.dead) /\ h.row.key = c.key
        /\ \A r \in Live(e, c.snap.dead) : r.key = c.key =>
              \E h \in Part(e, c.snap.dead, c.key, schema) : h.id = e.id /\ h.row = r
    <3>1. \A h \in Part(e, c.snap.dead, c.key, schema) :
             h.id = e.id /\ h.row \in Live(e, c.snap.dead) /\ h.row.key = c.key
          BY DEF Part
    <3>2. ASSUME NEW r \in Live(e, c.snap.dead), r.key = c.key
          PROVE  \E h \in Part(e, c.snap.dead, c.key, schema) : h.id = e.id /\ h.row = r
      <4> DEFINE h == [id |-> e.id, row |-> r, schema |-> schema]
      <4>1. h \in Part(e, c.snap.dead, c.key, schema)
            BY <3>2 DEF Part
      <4>2. h.id = e.id /\ h.row = r
            OBVIOUS
      <4> HIDE DEF h
      <4> QED BY <4>1, <4>2
    <3> QED BY <3>1, <3>2
  <2>5. ASSUME NEW h \in d.hits
        PROVE  \E f \in d.snap.segs :
                   h.id = f.id /\ h.row \in Live(f, d.snap.dead) /\ h.row.key = d.key
        BY <1>2, <2>1, <2>2, <2>3, <2>4 DEF FoundBut
  <2>6. ASSUME NEW f \in d.snap.segs \ d.left, NEW r \in Live(f, d.snap.dead), r.key = d.key
        PROVE  \E h \in d.hits : h.id = f.id /\ h.row = r
    <3>1. CASE f = e
          BY <2>1, <2>2, <2>4, <2>6, <3>1
    <3>2. CASE f # e
      <4>1. f \in c.snap.segs \ c.left
            BY <2>1, <2>2, <3>2
      <4>2. \E h \in c.hits : h.id = f.id /\ h.row = r
            BY <1>2, <2>1, <2>6, <4>1 DEF FoundBut
      <4> QED BY <2>2, <4>2
    <3> QED BY <3>1, <3>2
  <2>7. FoundBut(d, d.left)
        BY <2>5, <2>6 DEF FoundBut
  <2>8. d.left \subseteq d.snap.segs
        BY <1>2, <2>1, <2>2
  <2> QED BY <1>2, <2>1, <2>7, <2>8 DEF Stated, Stands, Fits, d
<1> QED BY <1>3, <1>4

\* ListSeqnos keeps scans exact.
LEMMA ListSeqnosExact ==
    ASSUME TypeInv, Exact, NEW t \in Tasks, ListSeqnos(t)
    PROVE  Stated(task'[t], mem, segs, dead) /\ Stands(task'[t], segs, dead)
           /\ Fits(task'[t], mem, schema)
<1> DEFINE c == task[t]
           match == {x \in c.snap.mem : x.row.key = c.key}
           seqno(x) == SeqnoOf(x, c.snap.mem, mem)
           found == {x \in match : \E y \in match : y.batch = x.batch /\ seqno(y) # {}}
           seqs == UNION {seqno(x) : x \in found}
           old == {x.row : x \in found} \cup {h.row : h \in c.hits}
           schemas == {x.schema : x \in found} \cup {h.schema : h \in c.hits}
           matched == [at |-> "matched", op |-> c.op, key |-> c.key, snap |-> c.snap,
                       hits |-> c.hits, seqs |-> seqs, old |-> old, schemas |-> schemas]
<1>1. task'[t] = matched
      BY DEF ListSeqnos, Goes, TypeInv
<1>2. c \in Pinned /\ c.at = "pinned" /\ c.left = {}
      BY TaskAt DEF TypeInv, ListSeqnos
<1>3. c.snap.mem \in Fin(Held) /\ mem \in Fin(Held)
      BY <1>2 DEF Pinned, FSnapshot, TypeInv
<1>4. Follows(c.snap, mem, segs, dead) /\ Found(c)
  <2>1. Stated(c, mem, segs, dead)
        BY DEF Exact, Statements
  <2> QED BY <1>2, <2>1 DEF Stated, Dmling, Found
<1>5. \A x \in c.snap.mem : seqno(x) = {x.row.seq}
      BY <1>3, <1>4, SeqnoFound DEF Follows
<1>6. found = Picked(c)
      BY <1>5 DEF Picked
<1>7. seqs = SeqsOf(Picked(c))
  <2> HIDE DEF c
  <2> QED BY <1>5, <1>6 DEF SeqsOf, Picked
<1>8. old = Selected(c)
  <2> DEFINE L == LiveRows(c.snap.segs, c.snap.dead)
  <2>1. Selected(c) = {r \in RowsOf(c.snap.mem) \cup L : r.key = c.key}
        BY ShownAre DEF Selected
  <2>2. \A r : (r \in RowsOf(c.snap.mem) /\ r.key = c.key) <=> r \in {x.row : x \in found}
        BY <1>6 DEF RowsOf, Picked
  <2>3. \A r : (r \in L /\ r.key = c.key) <=> r \in {h.row : h \in c.hits}
    <3>1. ASSUME NEW r \in L, r.key = c.key PROVE r \in {h.row : h \in c.hits}
      <4>1. PICK e \in c.snap.segs : r \in Live(e, c.snap.dead)
            BY <3>1 DEF LiveRows
      <4> QED BY <1>4, <3>1, <4>1 DEF Found, FoundBut
    <3>2. ASSUME NEW h \in c.hits PROVE h.row \in L /\ h.row.key = c.key
      <4>1. PICK e \in c.snap.segs : h.row \in Live(e, c.snap.dead) /\ h.row.key = c.key
            BY <1>4 DEF Found, FoundBut
      <4> QED BY <4>1 DEF LiveRows
    <3> QED BY <3>1, <3>2
  <2> HIDE DEF L, found
  <2> QED BY <2>1, <2>2, <2>3
<1>9. /\ matched.at = "matched" /\ matched.snap = c.snap /\ matched.key = c.key
      /\ matched.hits = c.hits /\ matched.seqs = seqs /\ matched.old = old
      OBVIOUS
<1> HIDE DEF matched, seqs, old, c
<1>10. Picked(matched) = Picked(c) /\ Selected(matched) = Selected(c)
       BY <1>9 DEF Picked, Selected
<1>11. Found(matched)
       BY <1>4, <1>9 DEF Found, FoundBut
<1> QED BY <1>1, <1>4, <1>7, <1>8, <1>9, <1>10, <1>11 DEF Stated, Stands, Fits


\* EndMatch keeps scans exact.
LEMMA EndMatchExact ==
    ASSUME TypeInv, Exact, NEW t \in Tasks, EndMatch(t)
    PROVE  /\ Stated(task'[t], mem, segs, dead) /\ Stands(task'[t], segs, dead)
           /\ Fits(task'[t], mem, schema) /\ truth' = truth
<1> DEFINE c == task[t]
           ready == [c EXCEPT !.at = "ready"]
<1>1. c \in Matching /\ c.at = "matched"
      BY TaskAt DEF TypeInv, EndMatch
<1>2. Stated(c, mem, segs, dead)
      BY DEF Exact, Statements
<1>3. Follows(c.snap, mem, segs, dead) /\ Found(c)
      /\ c.seqs = SeqsOf(Picked(c)) /\ c.old = Selected(c)
      BY <1>1, <1>2 DEF Stated, Dmling
<1>4. truth' = truth
      BY <1>3 DEF EndMatch
<1>5. \/ task'[t] = Idle
      \/ task'[t] = ready /\ (c.op = "update" => c.schemas = {schema})
      BY DEF EndMatch, Goes, TypeInv
<1>6. CASE task'[t] = Idle
      BY <1>4, <1>6, RestingKeeps DEF Resting, Idle, Dmling
<1>7. CASE task'[t] = ready /\ (c.op = "update" => c.schemas = {schema})
  <2>1. /\ ready.at = "ready" /\ ready.snap = c.snap /\ ready.key = c.key /\ ready.op = c.op
        /\ ready.hits = c.hits /\ ready.seqs = c.seqs /\ ready.old = c.old
        /\ ready.schemas = c.schemas
        BY <1>1 DEF Matching
  <2> HIDE DEF ready, c
  <2>2. Picked(ready) = Picked(c) /\ Selected(ready) = Selected(c) /\ Found(ready)
        BY <1>3, <2>1 DEF Picked, Selected, Found, FoundBut
  <2> QED BY <1>3, <1>4, <1>7, <2>1, <2>2 DEF Stated, Stands, Fits
<1> QED BY <1>5, <1>6, <1>7

\* Calls that start or read keep scans exact.
LEMMA AsksExact ==
    ASSUME Base, Exact, NEW t \in Tasks, Step(t), Asks(t)
    PROVE  Exact'
<1> DEFINE Keeps == /\ Stated(task'[t], mem, segs, dead) /\ Stands(task'[t], segs, dead)
                    /\ Fits(task'[t], mem, schema) /\ truth' = truth
<1>0. UNCHANGED <<writer, schema, current>> /\ TypeInv
      BY AsksLeave DEF Base
<1> SUFFICES Keeps
    BY <1>0, QuietExact
<1>1. ASSUME Resting(task'[t]), truth' = truth PROVE Keeps
      BY <1>1, RestingKeeps
<1>2. Resting(Idle)
      BY DEF Resting, Idle, Dmling
<1>3. CASE Starts(t)
  <2>0. truth' = truth
        BY <1>3 DEF Starts, StartInsert, StartDml, StartCompact, StartAlter
  <2>1. ASSUME NEW k \in Keys, StartInsert(t, k) PROVE Keeps
    <3>1. task'[t].at = "insert" /\ task'[t].schema = schema
          BY <2>1 DEF StartInsert, Goes, Base, TypeInv
    <3> QED BY <2>0, <3>1 DEF Stated, Stands, Fits, Dmling
  <2>2. ASSUME NEW k \in Keys, NEW op \in {"delete", "update"}, StartDml(t, op, k) PROVE Keeps
    <3>1. /\ task'[t].at = "pinned" /\ task'[t].snap = current
          /\ task'[t].left = LiveSegments(current) /\ task'[t].hits = {}
          BY <2>2 DEF StartDml, Goes, Base, TypeInv
    <3>2. /\ current.mem = mem /\ current.segs = segs /\ current.dead = dead
          BY DEF Exact, Truthful, Now
    <3>3. Follows(current, mem, segs, dead)
          BY <3>2 DEF Follows
    <3>4. /\ LiveSegments(current) \subseteq current.segs
          /\ \A e \in current.segs \ LiveSegments(current) : Live(e, current.dead) = {}
          BY DEF LiveSegments
    <3>5. FoundBut(task'[t], task'[t].left)
          BY <3>1, <3>4 DEF FoundBut
    <3> QED BY <2>0, <3>1, <3>3, <3>4, <3>5 DEF Stated, Stands, Fits
  <2>3. ASSUME NEW ids \in SUBSET Ids(current.segs), StartCompact(t, ids) PROVE Keeps
    <3>1. task'[t].at = "compact"
          BY <2>3 DEF StartCompact, Goes, Base, TypeInv
    <3> QED BY <1>1, <2>0, <3>1 DEF Resting, Dmling
  <2>4. ASSUME NEW op \in {"cast", "widen"}, StartAlter(t, op) PROVE Keeps
    <3>1. task'[t].at = "alter"
          BY <2>4 DEF StartAlter, Goes, Base, TypeInv
    <3> QED BY <1>1, <2>0, <3>1 DEF Resting, Dmling
  <2> QED BY <1>3, <2>1, <2>2, <2>3, <2>4 DEF Starts
<1>4. CASE ReadSegment(t) \/ ListSeqnos(t)
  <2>1. truth' = truth
        BY <1>4, ReadSegmentIs DEF ListSeqnos
  <2> QED BY <1>0, <1>4, <2>1, ReadSegmentExact, ListSeqnosExact
<1>5. CASE EndMatch(t)
      BY <1>0, <1>5, EndMatchExact
<1>6. CASE RefuseDml(t) \/ AbandonRun(t) \/ AlterRefused(t) \/ AlterLoad(t) \/ AlterPin(t)
  <2>1. /\ truth' = truth
        /\ task'[t] = Idle \/ task'[t].at \in {"compact", "loaded", "sourced"}
        BY <1>6 DEF RefuseDml, AbandonRun, AlterRefused, AlterLoad, AlterPin, Refused,
                    NextRun, Goes, Base, TypeInv
  <2> QED BY <1>1, <1>2, <2>1 DEF Resting, Dmling
<1>7. ASSUME NEW run \in SUBSET (1 .. nextId), ReadRun(t, run) PROVE Keeps
  <2>1. /\ truth' = truth
        /\ task'[t] = Idle \/ (task'[t].at = "rewrite" /\ task'[t].snap = current)
        BY <1>7 DEF ReadRun, Goes, Base, TypeInv
  <2>2. CASE task'[t].at = "rewrite" /\ task'[t].snap = current
    <3>1. /\ current.segs = segs /\ current.dead = dead
          BY DEF Exact, Truthful, Now
    <3>2. Stands(task'[t], segs, dead)
          BY <2>2, <3>1 DEF Stands, RunSources, Entries
    <3> QED BY <2>1, <2>2, <3>2 DEF Stated, Fits, Dmling
  <2> QED BY <1>1, <1>2, <2>1, <2>2
<1>8. CASE AlterFlush(t)
  <2>1. /\ truth' = truth
        /\ task'[t] = Idle \/ task'[t] = [task[t] EXCEPT !.at = "flushed"]
        BY <1>8 DEF AlterFlush, Goes, Base, TypeInv
  <2>2. task[t] \in Altering
        BY <1>0, <1>8, TaskAt DEF AlterFlush, TypeInv
  <2>3. [task[t] EXCEPT !.at = "flushed"].at = "flushed"
        BY <2>2 DEF Altering
  <2> QED BY <1>1, <1>2, <2>1, <2>3 DEF Resting, Dmling
<1> QED BY <1>3, <1>4, <1>5, <1>6, <1>7, <1>8 DEF Asks

\* Insert keeps scans exact.
LEMMA InsertExact ==
    ASSUME Base, Exact, NEW t \in Tasks, Step(t), Insert(t)
    PROVE  Exact'
<1> DEFINE r == [seq |-> nextSeq, key |-> task[t].key]
           x == [row |-> r, schema |-> task[t].schema, batch |-> nextSeq]
<1>1. /\ mem' = mem \cup {x} /\ truth' = truth \cup {r}
      /\ UNCHANGED <<segs, dead, schema>> /\ Publish(schema) /\ task'[t] = Idle
      BY DEF Insert, Goes, Base, TypeInv
<1>2. task[t].at = "insert" /\ task[t].schema = schema
      BY DEF Insert, Exact, Fitting, Fits
<1>3. x.schema = schema /\ x.row = r /\ r.seq = nextSeq
      BY <1>2
<1>4. /\ nextSeq \in Nat
      /\ \A y \in mem : y.row.seq \in Nat /\ y.row.seq < nextSeq
      /\ \A e \in segs : \A q \in e.rows : q.seq \in Nat /\ q.seq < nextSeq
      BY KnownNow DEF Base, IdInv, TypeInv, Fin, FSegment, Held, Row
<1> HIDE DEF x, r
<1>5. Truthful'
  <2>1. RowsOf(mem') = RowsOf(mem) \cup {r}
        BY <1>1, <1>3 DEF RowsOf
  <2> QED BY <1>1, <2>1 DEF Exact, Truthful, Now, Publish
<1>6. NameRows(AllRows)'
  <2>1. \A q \in AllRows : q.seq \in Nat /\ q.seq < nextSeq
        BY <1>4 DEF AllRows, RowsOf
  <2>2. \A q \in AllRows' : q \in AllRows \/ q = r
        BY <1>1, <1>3 DEF AllRows, RowsOf
  <2> QED BY <1>3, <1>4, <2>1, <2>2 DEF Exact, NameRows
<1>7. \A y \in mem' : y.schema = schema'
      BY <1>1, <1>3 DEF Exact, Fitting
<1>8. ASSUME NEW u \in Tasks, u # t
      PROVE  /\ task'[u] = task[u]
             /\ task[u].at \in Dmling => Follows(task[u].snap, mem', segs', dead')
             /\ Stands(task[u], segs', dead')
             /\ Fits(task[u], mem', schema')
  <2>1. task'[u] = task[u]
        BY <1>8, OthersWait DEF Base
  <2>2. Stands(task[u], segs', dead')
        BY <1>1 DEF Exact, Runs
  <2>3. task[u].at # "adopt"
        BY DEF Insert, Base, IdInv
  <2>4. Fits(task[u], mem', schema')
        BY <1>1, <2>3 DEF Exact, Fitting, Fits
  <2>5. ASSUME task[u].at \in Dmling PROVE Follows(task[u].snap, mem', segs', dead')
    <3>1. Follows(task[u].snap, mem, segs, dead)
          BY <2>5 DEF Exact, Statements, Stated
    <3>2. Known(task[u].snap, nextId, nextSeq, txn)
          BY <2>5 DEF Base, IdInv, HasSnap, Dmling
    <3>3. \A y \in task[u].snap.mem : y.row.seq < nextSeq
          BY <3>2 DEF Known
    <3>4. \A z \in mem' : z \in mem \/ z.row.seq = nextSeq
          BY <1>1, <1>3
    <3> QED BY <1>1, <3>1, <3>3, <3>4 DEF Follows
  <2> QED BY <2>1, <2>2, <2>4, <2>5
<1>9. Stated(task'[t], mem', segs', dead') /\ Stands(task'[t], segs', dead')
      /\ Fits(task'[t], mem', schema')
      BY <1>1, RestingKeeps DEF Resting, Idle, Dmling
<1>10. Statements' /\ Runs' /\ Fitting'
       BY <1>7, <1>8, <1>9, TasksKeep DEF Exact
<1> QED BY <1>5, <1>6, <1>10 DEF Exact


\* What a statement is about to change is what its snapshot shows of its key: the
\* segment rows it hit are live in segments still there, the memtable rows are
\* there too, and nothing else has their identities.
LEMMA StatementHits ==
    ASSUME Base, RowInv, Exact, NEW t \in Tasks, ApplyDml(t)
    PROVE  LET c == task[t]
               L == LiveRows(segs, dead)
           IN /\ c \in Matching /\ c.old = Selected(c) /\ Selected(c) \subseteq truth
              /\ LiveRows(segs, dead \cup Marked(c)) = L \ Selected(c)
              /\ {x \in mem : x.row.seq \notin c.seqs} =
                 {x \in mem : x.row \notin Selected(c)}
<1> DEFINE c == task[t]
           s == c.snap
           L == LiveRows(segs, dead)
           Sel == Selected(c)
<1>1. c \in Matching /\ c.at = "ready" /\ {h.id : h \in c.hits} \subseteq Ids(segs)
      BY TaskAt DEF Base, TypeInv, ApplyDml
<1>2. Stated(c, mem, segs, dead)
      BY DEF Exact, Statements
<1>3. /\ Follows(s, mem, segs, dead) /\ Found(c)
      /\ c.seqs = SeqsOf(Picked(c)) /\ c.old = Sel
      BY <1>1, <1>2 DEF Stated, Dmling
<1>4. /\ RowsApart(current) /\ current.segs = segs
      /\ truth = L \cup RowsOf(mem) /\ NameRows(AllRows)
      BY DEF RowInv, Base, IdInv, Exact, Truthful
<1>5. Sel = {r \in RowsOf(s.mem) \cup LiveRows(s.segs, s.dead) : r.key = c.key}
      BY ShownAre DEF Selected
<1> HIDE DEF c
<1>6. ASSUME NEW h \in c.hits
      PROVE  h.row \in Sel /\ \E e \in segs : h.id = e.id /\ h.row \in Live(e, dead)
  <2>1. PICK e \in s.segs : h.id = e.id /\ h.row \in Live(e, s.dead) /\ h.row.key = c.key
        BY <1>3 DEF Found, FoundBut
  <2>2. e.id \in Ids(segs)
        BY <1>1, <2>1
  <2>3. e \in segs /\ Of(dead, {e.id}) = Of(s.dead, {e.id})
        BY <1>3, <2>2 DEF Follows
  <2>4. Live(e, dead) = Live(e, s.dead)
        BY <2>3, LiveBy
  <2>5. h.row \in Sel
        BY <1>5, <2>1 DEF LiveRows
  <2> QED BY <2>1, <2>3, <2>4, <2>5
<1>7. ASSUME NEW r \in Sel
      PROVE  \/ \E y \in Picked(c) : y \in mem /\ y.row = r
             \/ \E h \in c.hits : h.row = r
  <2>1. CASE r \in RowsOf(s.mem)
        BY <1>3, <1>5, <2>1 DEF RowsOf, Picked, Follows
  <2>2. CASE r \in LiveRows(s.segs, s.dead)
    <3>1. PICK e \in s.segs : r \in Live(e, s.dead)
          BY <2>2 DEF LiveRows
    <3> QED BY <1>3, <1>5, <3>1 DEF Found, FoundBut
  <2> QED BY <1>5, <2>1, <2>2
<1>8. Sel \subseteq truth
  <2>1. \A h \in c.hits : h.row \in L
        BY <1>6 DEF LiveRows
  <2>2. \A y \in mem : y.row \in RowsOf(mem)
        BY DEF RowsOf
  <2> QED BY <1>4, <1>7, <2>1, <2>2
<1>9. \A f \in segs : \A x \in mem : x.row \notin f.rows
      BY <1>4 DEF RowsApart
<1>10. \A e : \A d : Live(e, d) \subseteq e.rows
       BY DEF Live
<1>11. ASSUME NEW f \in segs, NEW r \in f.rows
       PROVE  [id |-> f.id, seq |-> r.seq] \in Marked(c) \cup dead
              <=> r \in Sel \/ [id |-> f.id, seq |-> r.seq] \in dead
  <2> DEFINE m == [id |-> f.id, seq |-> r.seq]
  <2>1. ASSUME r \in Sel PROVE m \in Marked(c) \cup dead
    <3>1. PICK h \in c.hits : h.row = r
          BY <1>7, <1>9, <2>1
    <3>2. PICK e \in segs : h.id = e.id /\ r \in Live(e, dead)
          BY <1>6, <3>1
    <3>3. f.id = h.id
          BY <1>4, <1>10, <3>2 DEF RowsApart
    <3> QED BY <3>1, <3>3 DEF Marked
  <2>2. ASSUME m \in Marked(c) PROVE r \in Sel
    <3>1. PICK h \in c.hits : m = [id |-> h.id, seq |-> h.row.seq]
          BY <2>2 DEF Marked
    <3>2. h.id = f.id /\ h.row.seq = r.seq
          BY <3>1
    <3>3. PICK e \in segs : h.id = e.id /\ h.row \in Live(e, dead)
          BY <1>6
    <3>4. h.row \in AllRows /\ r \in AllRows
          BY <1>10, <3>3 DEF AllRows
    <3>5. h.row = r
          BY <1>4, <3>2, <3>4 DEF NameRows
    <3> QED BY <1>6, <3>5
  <2> QED BY <2>1, <2>2
<1>12. LiveRows(segs, dead \cup Marked(c)) = L \ Sel
  <2>1. ASSUME NEW f \in segs
        PROVE  Live(f, dead \cup Marked(c)) = Live(f, dead) \ Sel
        BY <1>11 DEF Live
  <2> HIDE DEF Sel
  <2> QED BY <2>1 DEF LiveRows
<1>13. ASSUME NEW x \in mem
       PROVE  x.row.seq \in c.seqs <=> x.row \in Sel
  <2>1. ASSUME x.row \in Sel PROVE x.row.seq \in c.seqs
    <3>1. \A h \in c.hits : h.row # x.row
          BY <1>6, <1>9, <1>10
    <3>2. PICK y \in Picked(c) : y.row = x.row
          BY <1>7, <2>1, <3>1
    <3>3. y.row.seq \in SeqsOf(Picked(c))
          BY DEF SeqsOf
    <3> QED BY <1>3, <3>2, <3>3
  <2>2. ASSUME x.row.seq \in c.seqs PROVE x.row \in Sel
    <3>1. PICK y \in Picked(c) : y.row.seq = x.row.seq
          BY <1>3, <2>2 DEF SeqsOf
    <3>2. y \in s.mem /\ y \in mem /\ y.row.key = c.key
          BY <1>3, <3>1 DEF Picked, Follows
    <3>3. y.row \in AllRows /\ x.row \in AllRows
          BY <3>2 DEF AllRows, RowsOf
    <3>4. y.row = x.row
          BY <1>4, <3>1, <3>3 DEF NameRows
    <3> QED BY <1>5, <3>2, <3>4 DEF RowsOf
  <2> QED BY <2>1, <2>2
<1>14. {x \in mem : x.row.seq \notin c.seqs} = {x \in mem : x.row \notin Sel}
       BY <1>13
<1> QED BY <1>1, <1>3, <1>8, <1>12, <1>14 DEF c

\* The replacements' numbers are their own.
LEMMA ReplacementsName ==
    ASSUME nextSeq \in Nat, NEW c, c.old \in Fin(Row), NameRows(c.old)
    PROVE  NameRows(Replacements(c))
<1> DEFINE S == {o.seq : o \in c.old}
           R == Replacements(c)
<1>1. CASE c.op # "update"
      BY <1>1 DEF Replacements, NameRows
<1>2. CASE c.op = "update"
  <2>1. R = {[seq |-> nextSeq + Before(S, r.seq), key |-> r.key] : r \in c.old}
        BY <1>2 DEF Replacements
  <2>2. S \in Fin(Nat) /\ \A r \in c.old : r.seq \in S
        BY SeqsFinite
  <2> HIDE DEF S, R
  <2>3. ASSUME NEW n \in R, NEW k \in R, n.seq = k.seq PROVE n = k
    <3>1. PICK r \in c.old : n = [seq |-> nextSeq + Before(S, r.seq), key |-> r.key]
          BY <2>1
    <3>2. PICK q \in c.old : k = [seq |-> nextSeq + Before(S, q.seq), key |-> q.key]
          BY <2>1
    <3>3. Before(S, r.seq) = Before(S, q.seq)
      <4>1. nextSeq + Before(S, r.seq) = nextSeq + Before(S, q.seq)
            BY <2>3, <3>1, <3>2
      <4>2. Before(S, r.seq) \in Nat /\ Before(S, q.seq) \in Nat
            BY <2>2, Ranks
      <4> QED BY <4>1, <4>2
    <3>4. r = q
          BY <2>2, <3>3, Ranks DEF NameRows
    <3> QED BY <3>1, <3>2, <3>4
  <2> QED BY <2>3 DEF NameRows, R
<1> QED BY <1>1, <1>2


\* A statement is its task's call, and a schema change is alone.
LEMMA DmlCalls ==
    ASSUME TypeInv, CallsInv, NEW t \in Tasks, task[t].at \in Dmling
    PROVE  load.calls[t] \cap {"delete", "update", "flush"} # {}
<1>1. task[t].op \in load.calls[t]
      BY DEF CallsInv, Called
<1>2. task[t].op \in {"delete", "update"}
  <2>1. task[t] \in TaskState
        BY DEF TypeInv
  <2>2. task[t] \in Pinned \cup Matching
        BY <2>1, TaskAt DEF Dmling
  <2> QED BY <2>2 DEF Pinned, Matching, Dml
<1> QED BY <1>1, <1>2

\* Under ScanIsExact's condition a schema change has the table to itself.
LEMMA AltersAlone ==
    ASSUME TypeInv, CallsInv, LoneInv, Orderly, NEW t \in Tasks,
           task[t].at \in Changing \cup {"adopt"}
    PROVE  /\ \A u \in Tasks : u # t => task[u] = Idle
           /\ HasSnap(task[t]) => task[t].snap = current
<1>1. load.calls[t] \cap {"cast", "widen"} # {}
  <2>1. CASE task[t].at = "adopt"
        BY <2>1 DEF CallsInv, Called
  <2>2. CASE task[t].at \in Changing
    <3>1. task[t] \in Altering \cup Loaded \cup Sourced
          BY <2>2, TaskAt DEF TypeInv, Changing
    <3>2. task[t].op \in {"cast", "widen"}
          BY <3>1 DEF Altering, Loaded, Sourced
    <3> QED BY <2>2, <3>2 DEF CallsInv, Called
  <2> QED BY <2>1, <2>2
<1>2. Alone(t)
      BY <1>1 DEF Orderly, Alters
<1> QED BY <1>2 DEF LoneInv

\* ApplyDml keeps scans exact.
LEMMA ApplyDmlExact ==
    ASSUME Base, CallsInv, RowInv, Disciplined(load), Exact, NEW t \in Tasks, Step(t), ApplyDml(t)
    PROVE  Exact'
<1> DEFINE c == task[t]
           Sel == Selected(c)
           new == Replacements(c)
           kept == {x \in mem : x.row \notin Sel}
           added == [row : new, schema : c.schemas, batch : {nextSeq}]
           L == LiveRows(segs, dead)
<1>1. /\ c \in Matching /\ c.old = Sel /\ Sel \subseteq truth
      /\ LiveRows(segs, dead \cup Marked(c)) = L \ Sel
      /\ {x \in mem : x.row.seq \notin c.seqs} = kept
      BY StatementHits
<1>2. /\ dead' = dead \cup Marked(c)
      /\ mem' = {x \in mem : x.row.seq \notin c.seqs} \cup added
      /\ UNCHANGED <<segs, schema>> /\ holder = {} /\ c.at = "ready"
      /\ task'[t] = Idle
      BY DEF ApplyDml, Replacements, Marked, Goes, Base, TypeInv
<1>3. \/ Publish(schema)
      \/ /\ UNCHANGED current /\ c.op = "delete" /\ Marked(c) = {}
         /\ c.seqs \cap SeqsOf(mem) = {}
      BY DEF ApplyDml, Marked
<1>4. truth' = (truth \ Sel) \cup new
  <2>1. c.old \cap truth = c.old
        BY <1>1
  <2>2. truth' = (truth \ Sel) \cup
                 {[seq |-> nextSeq + Before({o.seq : o \in c.old}, r.seq), key |-> r.key] :
                     r \in IF c.op = "update" THEN c.old \cap truth ELSE {}}
        BY DEF ApplyDml
  <2>3. truth' = (truth \ Sel) \cup
                 {[seq |-> nextSeq + Before({o.seq : o \in c.old}, r.seq), key |-> r.key] :
                     r \in IF c.op = "update" THEN c.old ELSE {}}
        BY <2>1, <2>2
  <2> QED BY <2>3 DEF Replacements
<1>5. c.op = "update" => c.schemas = {schema}
      BY <1>2 DEF Exact, Fitting, Fits
<1>6. c.op # "update" => new = {}
      BY DEF Replacements
<1>7. /\ nextSeq \in Nat /\ c.old \in Fin(Row) /\ truth = L \cup RowsOf(mem)
      /\ NameRows(AllRows) /\ current = Now /\ c.op \in Dml
      BY <1>1 DEF Base, TypeInv, Matching, Exact, Truthful
<1> HIDE DEF new, Sel, c, L
<1>8. RowsOf(mem') = (RowsOf(mem) \ Sel) \cup new
  <2>1. RowsOf(kept) = RowsOf(mem) \ Sel
        BY DEF RowsOf
  <2>2. RowsOf(added) = new
    <3>1. CASE new = {}
          BY <3>1 DEF RowsOf
    <3>2. CASE c.schemas = {schema}
      <4>1. \A x \in added : x.row \in new
            OBVIOUS
      <4>2. ASSUME NEW n \in new PROVE \E x \in added : x.row = n
        <5>1. [row |-> n, schema |-> schema, batch |-> nextSeq] \in added
              BY <3>2
        <5> QED BY <5>1
      <4> QED BY <4>1, <4>2 DEF RowsOf
    <3> QED BY <1>5, <1>6, <3>1, <3>2
  <2>3. RowsOf(mem') = RowsOf(kept) \cup RowsOf(added)
        BY <1>1, <1>2 DEF RowsOf
  <2> QED BY <2>1, <2>2, <2>3
<1>9. Truthful'
  <2>1. truth' = LiveRows(segs', dead') \cup RowsOf(mem')
        BY <1>1, <1>2, <1>4, <1>7, <1>8
  <2>2. CASE Publish(schema)
        BY <1>2, <2>1, <2>2 DEF Publish, Truthful, Now
  <2>3. CASE /\ UNCHANGED current /\ c.op = "delete" /\ Marked(c) = {}
             /\ c.seqs \cap SeqsOf(mem) = {}
    <3>1. \A x \in mem : x.row.seq \notin c.seqs
          BY <2>3 DEF SeqsOf
    <3>2. added = {}
          BY <1>6, <2>3
    <3>3. mem' = mem /\ dead' = dead
          BY <1>2, <2>3, <3>1, <3>2
    <3> QED BY <1>2, <1>7, <2>1, <2>3, <3>3 DEF Truthful, Now
  <2> QED BY <1>3, <2>2, <2>3
<1>10. NameRows(AllRows)'
  <2>1. \A q \in AllRows : q.seq \in Nat /\ q.seq < nextSeq
        BY KnownNow DEF Base, IdInv, TypeInv, Fin, FSegment, Held, Row, AllRows, RowsOf
  <2>2. \A q \in AllRows' : q \in AllRows \/ q \in new
        BY <1>2, <1>8 DEF AllRows
  <2>3. \A n \in new : nextSeq <= n.seq /\ n.seq \in Nat
    <3>1. new \in Fin(Row)
          BY <1>7, ReplacementsType DEF new
    <3> QED BY <1>7, <3>1, Numbered DEF new, Fin, Row
  <2>4. c.old \subseteq AllRows
    <3>1. L \subseteq AllRows
          BY DEF L, LiveRows, Live, AllRows
    <3>2. RowsOf(mem) \subseteq AllRows
          BY DEF AllRows
    <3> QED BY <1>1, <1>7, <3>1, <3>2
  <2>5. NameRows(new)
    <3>1. NameRows(c.old)
          BY <1>7, <2>4 DEF NameRows
    <3> QED BY <1>7, <3>1, ReplacementsName DEF new
  <2>6. ASSUME NEW r \in AllRows', NEW q \in AllRows', r.seq = q.seq PROVE r = q
        BY <1>7, <2>1, <2>2, <2>3, <2>5, <2>6 DEF NameRows
  <2> QED BY <2>6 DEF NameRows
<1>11. \A x \in mem' : x.schema = schema'
  <2>1. \A x \in added : x.schema = schema
        BY <1>5, <1>6
  <2> QED BY <1>2, <2>1 DEF Exact, Fitting
<1>12. ASSUME NEW u \in Tasks, u # t
       PROVE  /\ task'[u] = task[u]
              /\ task[u].at \in Dmling => Follows(task[u].snap, mem', segs', dead')
              /\ Stands(task[u], segs', dead')
              /\ Fits(task[u], mem', schema')
  <2>1. task'[u] = task[u]
        BY <1>12, OthersWait DEF Base
  <2>2. task[u].at \notin Dmling
    <3>1. t \in Tasks /\ task[t].at \in Dmling
          BY <1>2 DEF Dmling, c
    <3> QED BY <1>12, <3>1, DmlCalls DEF Disciplined, Base
  <2>3. Stands(task[u], segs', dead')
    <3>1. \A i : Of(dead, {i}) \subseteq Of(dead', {i})
          BY <1>2 DEF Of
    <3>2. Stands(task[u], segs, dead)
          BY DEF Exact, Runs
    <3> QED BY <1>2, <3>1, <3>2 DEF Stands
  <2>4. Fits(task[u], mem', schema')
    <3>1. task[u].at # "adopt"
          BY <1>2 DEF Base, IdInv
    <3>2. Fits(task[u], mem, schema)
          BY DEF Exact, Fitting
    <3> QED BY <1>2, <3>1, <3>2 DEF Fits
  <2> QED BY <2>1, <2>2, <2>3, <2>4
<1>13. Stated(task'[t], mem', segs', dead') /\ Stands(task'[t], segs', dead')
       /\ Fits(task'[t], mem', schema')
       BY <1>2, RestingKeeps DEF Resting, Idle, Dmling
<1>14. Statements' /\ Runs' /\ Fitting'
       BY <1>11, <1>12, <1>13, TasksKeep DEF Exact
<1> QED BY <1>9, <1>10, <1>14 DEF Exact


\* Flush keeps scans exact.
LEMMA FlushExact ==
    ASSUME Base, CallsInv, LoneInv, Orderly, Disciplined(load), Exact,
           NEW t \in Tasks, Step(t), Flushes(t)
    PROVE  Exact'
<1>1. FlushLocked /\ UNCHANGED <<schema, truth>>
  <2>1. ~FlushFails(t)
        BY DEF FlushFails, Exact, Fitting, Orderly
  <2> QED BY <2>1, FlushesLeave
<1>2. /\ mem' = {} /\ dead' = dead /\ current' = Now' /\ schema' = schema
      BY <1>1 DEF FlushLocked, Publish, Now
<1>3. \A f \in segs : /\ Remap(f) \in segs'
                      /\ Remap(f).id = f.id /\ Remap(f).rows = f.rows
      BY <1>1, RemapType, FlushedSegments DEF Base, TypeInv
<1>4. /\ \A e \in segs' : \/ \E f \in segs : e = Remap(f)
                          \/ e.id = nextId /\ e.rows = RowsOf(mem)
      /\ mem # {} => \E e \in segs' : e.id = nextId /\ e.rows = RowsOf(mem)
      BY <1>1, FlushedSegments DEF Base, RowsOf
<1>5. \A f \in segs : Live(Remap(f), dead) = Live(f, dead)
      BY <1>3, SameLive
<1>6. \A e : e.id = nextId => Live(e, dead) = e.rows
  <2>1. \A x \in dead : x.id \in Nat /\ x.id < nextId
        BY KnownNow DEF Base, IdInv, TypeInv, Fin, Deleted
  <2>2. \A x \in dead : x.id # nextId
        BY <2>1 DEF Base, TypeInv
  <2> QED BY <2>2 DEF Live
<1>7. LiveRows(segs', dead) = LiveRows(segs, dead) \cup RowsOf(mem)
  <2>1. ASSUME NEW e \in segs'
        PROVE  Live(e, dead) \subseteq LiveRows(segs, dead) \cup RowsOf(mem)
    <3>1. CASE \E f \in segs : e = Remap(f)
          BY <1>5, <3>1 DEF LiveRows
    <3>2. CASE e.id = nextId /\ e.rows = RowsOf(mem)
          BY <1>6, <3>2
    <3> QED BY <1>4, <3>1, <3>2
  <2>2. ASSUME NEW f \in segs PROVE Live(f, dead) \subseteq LiveRows(segs', dead)
        BY <1>3, <1>5 DEF LiveRows
  <2>3. RowsOf(mem) \subseteq LiveRows(segs', dead)
    <3>1. CASE mem = {}
          BY <3>1 DEF RowsOf
    <3>2. CASE mem # {}
          BY <1>4, <1>6, <3>2 DEF LiveRows
    <3> QED BY <3>1, <3>2
  <2>4. LiveRows(segs', dead) \subseteq LiveRows(segs, dead) \cup RowsOf(mem)
        BY <2>1 DEF LiveRows
  <2>5. LiveRows(segs, dead) \subseteq LiveRows(segs', dead)
        BY <2>2 DEF LiveRows
  <2> QED BY <2>3, <2>4, <2>5
<1>8. Truthful'
  <2>1. RowsOf(mem') = {}
        BY <1>2 DEF RowsOf
  <2> QED BY <1>1, <1>2, <1>7, <2>1 DEF Exact, Truthful
<1>9. NameRows(AllRows)'
  <2>1. \A r \in AllRows' : r \in AllRows
    <3>1. \A e \in segs' : \A r \in e.rows : r \in AllRows
          BY <1>3, <1>4 DEF AllRows
    <3>2. RowsOf(mem') = {}
          BY <1>2 DEF RowsOf
    <3> QED BY <3>1, <3>2 DEF AllRows
  <2> QED BY <2>1 DEF Exact, NameRows
<1>10. ASSUME NEW u \in Tasks, u # t
       PROVE  /\ task'[u] = task[u]
              /\ task[u].at \in Dmling => Follows(task[u].snap, mem', segs', dead')
              /\ Stands(task[u], segs', dead')
              /\ Fits(task[u], mem', schema')
  <2>1. task'[u] = task[u]
        BY <1>10, OthersWait DEF Base
  <2>2. task[u].at \notin Dmling
    <3>1. CASE Flush(t)
      <4>1. "flush" \in load.calls[t]
            BY <3>1 DEF Flush, Calls
      <4> QED BY <1>10, <4>1, DmlCalls DEF Disciplined, Base
    <3>2. CASE AlterFlush(t)
      <4>1. task[u] = Idle
            BY <1>10, <3>2, AltersAlone DEF AlterFlush, Changing, Base
      <4> QED BY <4>1 DEF Idle, Dmling
    <3> QED BY <3>1, <3>2 DEF Flushes
  <2>3. Stands(task[u], segs', dead')
    <3>1. Stands(task[u], segs, dead)
          BY DEF Exact, Runs
    <3> QED BY <1>2, <1>3, <3>1 DEF Stands
  <2>4. Fits(task[u], mem', schema')
    <3>1. Fits(task[u], mem, schema)
          BY DEF Exact, Fitting
    <3> QED BY <1>2, <3>1 DEF Fits
  <2> QED BY <2>1, <2>2, <2>3, <2>4
<1>11. Resting(task'[t])
  <2>0. Idle.at = "idle"
        BY DEF Idle
  <2>1. CASE Flush(t)
        BY <2>0, <2>1 DEF Flush, Calls, Resting, Dmling
  <2>2. CASE AlterFlush(t)
    <3>1. task'[t] = Idle \/ task'[t] = [task[t] EXCEPT !.at = "flushed"]
          BY <2>2 DEF AlterFlush, Goes, Base, TypeInv
    <3>2. task[t] \in Altering
          BY <2>2, TaskAt DEF AlterFlush, Base, TypeInv
    <3>3. [task[t] EXCEPT !.at = "flushed"].at = "flushed"
          BY <3>2 DEF Altering
    <3> QED BY <2>0, <3>1, <3>3 DEF Resting, Dmling
  <2> QED BY <2>1, <2>2 DEF Flushes
<1>12. \A x \in mem' : x.schema = schema'
       BY <1>2
<1>13. Statements' /\ Runs' /\ Fitting'
       BY <1>10, <1>11, <1>12, RestingKeeps, TasksKeep DEF Exact
<1> QED BY <1>8, <1>9, <1>13 DEF Exact

\* A new segment, unless there is nothing to write.
LEMMA NewSegmentIs ==
    ASSUME NEW rows, NEW s
    PROVE  /\ \A e \in NewSegment(rows, s) : e.id = nextId /\ e.rows = rows
           /\ rows # {} => \E e \in NewSegment(rows, s) : e.id = nextId /\ e.rows = rows
<1>1. CASE rows = {}
      BY <1>1 DEF NewSegment
<1>2. CASE rows # {}
  <2>1. NewSegment(rows, s) = {[id |-> nextId, rows |-> rows, schema |-> s, map |-> {}]}
        BY <1>2 DEF NewSegment
  <2> QED BY <2>1
<1> QED BY <1>1, <1>2

\* A rewrite of what the writer's bitmaps keep of some segments loses no row.
LEMMA RewriteExact ==
    ASSUME Base, Truthful, NEW sources, NEW rows, NEW s, Rewritten(sources, rows, s),
           rows = LiveRows(Entries(segs, Ids(sources)), dead), UNCHANGED <<schema, truth>>
    PROVE  /\ Truthful' /\ AllRows' \subseteq AllRows /\ mem' = mem
           /\ \A e \in segs : e.id \notin Ids(sources) => e \in segs'
           /\ \A e \in segs' : (e \in segs /\ e.id \notin Ids(sources)) \/ e.id = nextId
           /\ dead' = {x \in dead : x.id \notin Ids(sources)}
<1> DEFINE gone == Entries(segs, Ids(sources))
           left == segs \ gone
<1>1. /\ segs' = left \cup NewSegment(rows, s)
      /\ mem' = mem /\ current' = Now'
      BY DEF Rewritten, Publish, Now
<1>2. dead' = {x \in dead : x.id \notin Ids(sources)}
      BY RewrittenSegments
<1>3. /\ \A e \in NewSegment(rows, s) : e.id = nextId /\ e.rows = rows
      /\ rows # {} => \E e \in NewSegment(rows, s) : e.id = nextId /\ e.rows = rows
      BY NewSegmentIs
<1>4. \A e \in left : e \in segs /\ e.id \notin Ids(sources)
      BY DEF Entries
<1>5. \A e \in left : Live(e, dead') = Live(e, dead)
      BY <1>2, <1>4 DEF Live
<1>6. \A e : e.id = nextId => Live(e, dead') = e.rows
  <2>1. \A x \in dead : x.id \in Nat /\ x.id < nextId
        BY KnownNow DEF Base, IdInv, TypeInv, Fin, Deleted
  <2>2. \A x \in dead' : x.id # nextId
        BY <1>2, <2>1 DEF Base, TypeInv
  <2> QED BY <2>2 DEF Live
<1>7. LiveRows(segs, dead) = LiveRows(left, dead) \cup rows
      BY DEF LiveRows, Entries
<1>8. LiveRows(segs', dead') = LiveRows(left, dead) \cup rows
  <2>1. ASSUME NEW e \in segs' PROVE Live(e, dead') \subseteq LiveRows(left, dead) \cup rows
    <3>1. CASE e \in left
          BY <1>5, <3>1 DEF LiveRows
    <3>2. CASE e \in NewSegment(rows, s)
          BY <1>3, <1>6, <3>2
    <3> QED BY <1>1, <3>1, <3>2
  <2>2. ASSUME NEW e \in left PROVE Live(e, dead) \subseteq LiveRows(segs', dead')
        BY <1>1, <1>5 DEF LiveRows
  <2>3. rows \subseteq LiveRows(segs', dead')
    <3>1. CASE rows # {}
      <4>1. PICK e \in NewSegment(rows, s) : e.id = nextId /\ e.rows = rows
            BY <1>3, <3>1
      <4>2. e \in segs' /\ Live(e, dead') = rows
            BY <1>1, <1>6, <4>1
      <4> QED BY <4>2 DEF LiveRows
    <3> QED BY <3>1
  <2>4. LiveRows(segs', dead') \subseteq LiveRows(left, dead) \cup rows
        BY <2>1 DEF LiveRows
  <2>5. LiveRows(left, dead) \subseteq LiveRows(segs', dead')
        BY <2>2 DEF LiveRows
  <2> QED BY <2>3, <2>4, <2>5
<1>9. Truthful'
      BY <1>1, <1>7, <1>8 DEF Truthful
<1>10. AllRows' \subseteq AllRows
  <2>1. \A r \in rows : r \in UNION {e.rows : e \in segs}
        BY DEF LiveRows, Live, Entries
  <2>2. \A e \in segs' : \A r \in e.rows : r \in UNION {f.rows : f \in segs}
        BY <1>1, <1>3, <1>4, <2>1
  <2> QED BY <1>1, <2>2 DEF AllRows
<1>11. \A e \in segs : e.id \notin Ids(sources) => e \in segs'
       BY <1>1 DEF Entries
<1>12. \A e \in segs' : (e \in segs /\ e.id \notin Ids(sources)) \/ e.id = nextId
       BY <1>1, <1>3, <1>4
<1> QED BY <1>1, <1>2, <1>9, <1>10, <1>11, <1>12


\* A run that is not stale read what the writer's bitmaps keep now.
LEMMA RunIsCurrent ==
    ASSUME Base, Exact, NEW t \in Tasks, task[t].at = "rewrite", ~Stale(task[t])
    PROVE  RunRows(task[t]) = LiveRows(Entries(segs, Ids(RunSources(task[t]))), dead)
<1> DEFINE c == task[t]
           sources == RunSources(c)
           now == Entries(segs, Ids(sources))
<1>1. c \in Rewriting /\ c.snap \in FSnapshot
      BY TaskAt DEF Base, TypeInv, Rewriting
<1>2. Stands(c, segs, dead)
      BY DEF Exact, Runs
<1>3. ASSUME NEW e \in sources
      PROVE  \E f \in now : f.id = e.id /\ f.rows = e.rows /\ Live(e, c.snap.dead) = Live(f, dead)
  <2>1. e.id \in c.run
        BY DEF RunSources, Entries
  <2>2. PICK f \in segs : f.id = e.id /\ f.rows = e.rows
        BY <1>2 DEF Stands
  <2> DEFINE A == Of(c.snap.dead, {e.id})
             B == Of(dead, {e.id})
  <2>3. A \subseteq B
        BY <1>2 DEF Stands
  <2>4. IsFiniteSet(B)
    <3>1. dead \in Fin(Deleted) /\ B \in SUBSET dead
          BY DEF Base, TypeInv, Of
    <3> QED BY <3>1, FS_Subset DEF Fin
  <2>5. Cardinality(A) = Cardinality(B)
        BY <2>1 DEF Stale
  <2> HIDE DEF A, B
  <2>6. A = B
        BY <2>3, <2>4, <2>5, FS_Subset
  <2>7. Live(e, c.snap.dead) = Live(f, dead)
        BY <2>2, <2>6, LiveBy DEF A, B
  <2>8. f \in now
        BY <2>2 DEF Entries, Ids
  <2> QED BY <2>2, <2>7, <2>8
<1>4. ASSUME NEW f \in now
      PROVE  \E e \in sources : Live(e, c.snap.dead) = Live(f, dead)
  <2>1. PICK e \in sources : e.id = f.id
        BY DEF Entries, Ids
  <2>2. PICK g \in now : g.id = e.id /\ Live(e, c.snap.dead) = Live(g, dead)
        BY <1>3
  <2>3. g = f
        BY <2>1, <2>2, KnownNow DEF Base, IdInv, Entries
  <2> QED BY <2>2, <2>3
<1> HIDE DEF sources, now
<1>5. LiveRows(sources, c.snap.dead) = LiveRows(now, dead)
      BY <1>3, <1>4 DEF LiveRows
<1> QED BY <1>5 DEF RunRows, sources, now

\* WriteRun keeps scans exact.
LEMMA WriteRunExact ==
    ASSUME Base, CallsInv, Disciplined(load), Exact, NEW t \in Tasks, Step(t), WriteRun(t)
    PROVE  Exact'
<1> DEFINE c == task[t]
           sources == RunSources(c)
<1>1. /\ c.at = "rewrite" /\ ~Stale(c) /\ holder = {}
      /\ Rewritten(sources, RunRows(c), schema) /\ UNCHANGED <<schema, truth>>
      /\ task'[t] = NextRun(c)
      BY DEF WriteRun, Goes, Base, TypeInv
<1>2. RunRows(c) = LiveRows(Entries(segs, Ids(sources)), dead)
      BY <1>1, RunIsCurrent
<1> HIDE DEF sources
<1>3. /\ Truthful' /\ AllRows' \subseteq AllRows /\ mem' = mem
      /\ \A e \in segs : e.id \notin Ids(sources) => e \in segs'
      /\ \A e \in segs' : (e \in segs /\ e.id \notin Ids(sources)) \/ e.id = nextId
      /\ dead' = {x \in dead : x.id \notin Ids(sources)}
      BY <1>1, <1>2, RewriteExact DEF Exact
<1>4. NameRows(AllRows)'
      BY <1>3 DEF Exact, NameRows
<1>5. ASSUME NEW u \in Tasks, u # t
      PROVE  /\ task'[u] = task[u]
             /\ task[u].at \in Dmling => Follows(task[u].snap, mem', segs', dead')
             /\ Stands(task[u], segs', dead')
             /\ Fits(task[u], mem', schema')
  <2>1. task'[u] = task[u]
        BY <1>5, OthersWait DEF Base
  <2>2. ASSUME task[u].at \in Dmling PROVE Follows(task[u].snap, mem', segs', dead')
    <3> DEFINE s == task[u].snap
    <3>1. Follows(s, mem, segs, dead)
          BY <2>2 DEF Exact, Statements, Stated
    <3>2. Known(s, nextId, nextSeq, txn)
          BY <2>2 DEF Base, IdInv, HasSnap, Dmling
    <3>3. s \in FSnapshot
      <4>1. task[u] \in TaskState
            BY DEF Base, TypeInv
      <4>2. task[u] \in Pinned \cup Matching
            BY <2>2, <4>1, TaskAt DEF Dmling
      <4> QED BY <4>2 DEF Pinned, Matching
    <3> HIDE DEF s
    <3>4. ASSUME NEW e \in s.segs, e.id \in Ids(segs')
          PROVE  e \in segs' /\ Of(dead', {e.id}) = Of(s.dead, {e.id})
      <4>1. e.id < nextId /\ e.id \in Nat
            BY <3>2, <3>3 DEF Known, FSnapshot, Fin, FSegment
      <4>2. PICK f \in segs' : f.id = e.id
            BY <3>4 DEF Ids
      <4>3. f \in segs /\ f.id \notin Ids(sources)
            BY <1>3, <4>1, <4>2 DEF Base, TypeInv
      <4>4. e \in segs /\ Of(dead, {e.id}) = Of(s.dead, {e.id})
            BY <3>1, <4>2, <4>3 DEF Follows, Ids
      <4>5. Of(dead', {e.id}) = Of(dead, {e.id})
            BY <1>3, <4>2, <4>3 DEF Of
      <4> QED BY <1>3, <4>2, <4>3, <4>4, <4>5
    <3>5. Follows(s, mem', segs', dead')
          BY <1>3, <3>1, <3>4 DEF Follows
    <3> QED BY <3>5 DEF s
  <2>3. task[u].at # "rewrite"
    <3>1. "compact" \in load.calls[t]
          BY <1>1 DEF CallsInv, Called
    <3>2. task[u].at = "rewrite" => "compact" \in load.calls[u]
          BY DEF CallsInv, Called
    <3> QED BY <1>5, <3>1, <3>2 DEF Disciplined, OneRewriter
  <2>4. Fits(task[u], mem', schema')
        BY <1>1, <1>3 DEF Exact, Fitting
  <2> QED BY <2>1, <2>2, <2>3, <2>4 DEF Stands
<1>6. Resting(task'[t])
      BY <1>1 DEF NextRun, Resting, Dmling, Idle
<1>7. \A x \in mem' : x.schema = schema'
      BY <1>1, <1>3 DEF Exact, Fitting
<1>8. Statements' /\ Runs' /\ Fitting'
      BY <1>5, <1>6, <1>7, RestingKeeps, TasksKeep DEF Exact
<1> QED BY <1>3, <1>4, <1>8 DEF Exact

\* A schema change, beside which nothing else runs.
LEMMA AlterExact ==
    ASSUME Base, CallsInv, LoneInv, Orderly, Exact, NEW t \in Tasks, Step(t),
           AlterCommit(t) \/ AdoptSchema(t)
    PROVE  Exact'
<1>1. /\ \A u \in Tasks : u # t => task[u] = Idle
      /\ HasSnap(task[t]) => task[t].snap = current
      BY AltersAlone DEF Base, AlterCommit, AdoptSchema, Changing
<1>2. mem = {} /\ mem' = {}
  <2>1. CASE AlterCommit(t)
        BY <2>1 DEF AlterCommit, Rewritten
  <2>2. CASE AdoptSchema(t)
        BY <2>2 DEF AdoptSchema, Exact, Fitting, Fits
  <2> QED BY <2>1, <2>2
<1>3. Truthful' /\ AllRows' \subseteq AllRows
  <2>1. CASE AdoptSchema(t)
    <3>1. UNCHANGED <<segs, dead, mem, truth>> /\ Publish(schema')
          BY <1>2, <2>1 DEF AdoptSchema
    <3> QED BY <3>1 DEF Exact, Truthful, Publish, Now, AllRows
  <2>2. CASE AlterCommit(t) /\ task[t].op # "cast"
    <3>1. UNCHANGED <<segs, dead, mem, schema, truth>> /\ Publish(schema)
          BY <2>2 DEF AlterCommit
    <3> QED BY <3>1 DEF Exact, Truthful, Publish, Now, AllRows
  <2>3. CASE AlterCommit(t) /\ task[t].op = "cast"
    <3> DEFINE sources == LiveSegments(task[t].snap)
               rows == LiveRows(sources, task[t].snap.dead)
    <3>1. Rewritten(sources, rows, task[t].after) /\ UNCHANGED <<schema, truth>>
          BY <2>3 DEF AlterCommit
    <3>2. task[t].snap.segs = segs /\ task[t].snap.dead = dead
          BY <1>1, <2>3 DEF AlterCommit, HasSnap, Exact, Truthful, Now
    <3>3. sources \subseteq segs
          BY <3>2 DEF LiveSegments
    <3>4. Entries(segs, Ids(sources)) = sources
          BY <3>3, KnownNow DEF Base, IdInv, Entries, Ids
    <3>5. rows = LiveRows(Entries(segs, Ids(sources)), dead)
          BY <3>2, <3>4
    <3> HIDE DEF sources, rows
    <3> QED BY <3>1, <3>5, RewriteExact DEF Exact
  <2> QED BY <2>1, <2>2, <2>3
<1>4. NameRows(AllRows)'
      BY <1>3 DEF Exact, NameRows
<1>5. ASSUME NEW u \in Tasks, u # t
      PROVE  task'[u] = task[u] /\ Resting(task[u])
      BY <1>1, <1>5, OthersWait DEF Base, Idle, Resting, Dmling
<1>6. Resting(task'[t]) \/ task'[t].at = "adopt"
      BY DEF AlterCommit, AdoptSchema, Goes, Base, TypeInv, Idle, Resting, Dmling
<1>7. Stated(task'[t], mem', segs', dead') /\ Stands(task'[t], segs', dead')
      /\ Fits(task'[t], mem', schema')
  <2>1. CASE Resting(task'[t])
        BY <2>1, RestingKeeps
  <2>2. CASE task'[t].at = "adopt"
        BY <1>2, <2>2 DEF Stated, Stands, Fits, Dmling
  <2> QED BY <1>6, <2>1, <2>2
<1>8. ASSUME NEW u \in Tasks, u # t
      PROVE  /\ task'[u] = task[u]
             /\ task[u].at \in Dmling => Follows(task[u].snap, mem', segs', dead')
             /\ Stands(task[u], segs', dead')
             /\ Fits(task[u], mem', schema')
  <2>1. Resting(task[u]) /\ task'[u] = task[u]
        BY <1>5, <1>8
  <2> QED BY <2>1, RestingKeeps DEF Resting
<1>9. Statements' /\ Runs' /\ Fitting'
      BY <1>2, <1>7, <1>8, TasksKeep DEF Exact
<1> QED BY <1>3, <1>4, <1>9 DEF Exact

\* Every action keeps scans exact.
LEMMA ExactStep ==
    ASSUME Disciplined(load), Base, CallsInv, LoneInv, RowInv, ExactInv, [Next]_vars
    PROVE  ExactInv'
<1> SUFFICES ASSUME Orderly' PROVE Exact'
    BY DEF ExactInv
<1>0. load' = load /\ Disciplined(load)
      BY DEF Next, vars, Base, TypeInv
<1>1. Orderly /\ Exact
  <2>1. Orderly
        BY <1>0 DEF Orderly, Alters, Alone, MayFail
  <2> QED BY <2>1 DEF ExactInv
<1>2. CASE UNCHANGED vars
  <2>1. UNCHANGED <<segs, dead, mem, schema, current, truth, task>>
        BY <1>2 DEF vars, writer
  <2> QED BY <1>1, <2>1 DEF Exact, Truthful, Now, Fitting, NameRows, AllRows, Statements, Runs
<1>3. ASSUME NEW t \in Tasks, Step(t) PROVE Exact'
  <2>1. CASE Asks(t) \/ Insert(t) \/ ApplyDml(t)
        BY <1>0, <1>1, <1>3, <2>1, AsksExact, InsertExact, ApplyDmlExact
  <2>2. CASE Flushes(t)
        BY <1>0, <1>1, <1>3, <2>2, FlushExact
  <2>3. CASE \E ids \in SUBSET Ids(segs) : DropSegments(t, ids)
        BY <1>0, <2>3 DEF DropSegments, Calls, Disciplined
  <2>4. CASE WriteRun(t)
        BY <1>0, <1>1, <1>3, <2>4, WriteRunExact
  <2>5. CASE AlterCommit(t) \/ AdoptSchema(t)
        BY <1>1, <1>3, <2>5, AlterExact
  <2>6. ~Faults(t)
        BY <1>1, FaultIs DEF Orderly
  <2> QED BY <1>3, <2>1, <2>2, <2>3, <2>4, <2>5, <2>6, StepIs
<1> QED BY <1>2, <1>3 DEF Next

\* A new table shows nothing and owes nothing.
LEMMA ExactInit ==
    ASSUME Init
    PROVE  ExactInv
<1>1. Truthful
      BY DEF Init, Truthful, Now, LiveRows, RowsOf
<1>2. NameRows(AllRows)
      BY DEF Init, NameRows, AllRows, RowsOf
<1>3. \A t \in Tasks : Resting(task[t])
      BY DEF Init, Resting, Idle, Dmling
<1>4. Statements /\ Runs /\ Fitting
      BY <1>3, RestingKeeps DEF Init, Statements, Runs, Fitting
<1> QED BY <1>1, <1>2, <1>4 DEF ExactInv, Exact

\* Under disciplined workloads (statements and flushes one task's, compactions
\* and casts one task's, no segments dropped; schema changes alone and no commit
\* failing, as the property says), a scan returns the rows the acknowledged calls leave, each
\* exactly once: list_seqnos finds the rows a statement matched although inserts
\* landed meanwhile, and compact_run's recheck of the bitmaps' sizes is enough to
\* keep every delete that landed while it read.
THEOREM ScansAreExact == Spec => [](Disciplined(load) => ScanIsExact)
<1>1. Disciplined(load) => OneRewriter(load)
      BY DEF Disciplined
<1>2. Init => LoneInv /\ ExactInv
      BY LoneInit, ExactInit
<1>3. Base /\ CallsInv /\ (OneRewriter(load) => RowInv) /\ LoneInv
      /\ (Disciplined(load) => ExactInv) /\ [Next]_vars
      => LoneInv' /\ (Disciplined(load) => ExactInv)'
  <2>1. [Next]_vars => load' = load
        BY DEF Next, vars
  <2>2. [Next]_vars /\ Disciplined(load)' => Disciplined(load)
        BY <2>1
  <2> QED BY <1>1, <2>2, LoneStep, ExactStep DEF Base
<1>4. Base /\ RowInv /\ ExactInv => ScanIsExact
  <2> SUFFICES ASSUME Base, RowInv, Exact PROVE NoRowTwice /\ Shown(current) = truth
      BY DEF ScanIsExact, ScanShowsTruth, ExactInv, Orderly
  <2>1. NoRowTwice
        BY ApartOnce
  <2>2. Shown(current) = RowsOf(mem) \cup LiveRows(segs, dead)
        BY ShownAre DEF Exact, Truthful, Now
  <2> QED BY <2>1, <2>2 DEF Exact, Truthful
<1> QED BY <1>1, <1>2, <1>3, <1>4, RowsHold, PTL DEF Spec


=============================================================================
