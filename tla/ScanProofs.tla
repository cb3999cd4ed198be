------------------------------ MODULE ScanProofs ------------------------------
(***************************************************************************)
(* Proofs about ColumnarScan, for any tables, queries and partitions: each *)
(* row comes back once, no selected row is lost, limits and counts hold,   *)
(* and a growing schema leaves the scan alone.                             *)
(*                                                                         *)
(* The invariant is told of one stream at a time.  Its predicates take the *)
(* input, the plan and the stream as parameters, so that what an action    *)
(* does to one stream is a lemma about two records.                        *)
(***************************************************************************)
EXTENDS ColumnarScan, PruningProofs

----------------------------------------------------------------------------
(* Types.                                                                  *)

Items == [kind : {"segment", "batch"}, at : Nat]
Places == Items \X Nat
Keeps == {Null} \cup UNION {[0..n -> BOOLEAN] : n \in Int}
Streams ==
    [state : States, item : Items \cup {Null}, keep : Keeps,
     ranges : SUBSET (Nat \X Nat), queue : Seq(Seq(Places)),
     budget : Int \cup {Null}, out : Seq(Places)]

Built == {BuildSegment(seg) : seg \in Segments}

\* The input of a scan, whichever of its schema changes are still to come.
Given(in) ==
    /\ DOMAIN in = {"schema", "segments", "memtable", "filter", "limit", "target",
                    "changes", "done"}
    /\ in.schema \in Seq([name : STRING, kind : Kinds]) /\ Len(in.schema) > 0
    /\ in.segments \in Seq(Built)
    /\ \A i \in DOMAIN in.segments : Accepts(in.schema, in.segments[i].fields)
    /\ in.memtable \in Seq([rows : Nat, columns : Seq(Seq(Value))])
    /\ \A t \in in.filter :
        IsTerm(t) /\ \A name \in ColumnsOf(t) : IndexOf(in.schema, name) # 0
    /\ in.limit \in {Null} \cup Nat
    /\ in.limit # Null => in.filter = {}
    /\ in.target \in 1..MaxPartitions
    /\ in.changes \cup in.done \subseteq {"add", "rename", "drop", "cast"}

----------------------------------------------------------------------------
(* Rows.                                                                   *)

\* Row r of a piece of work is there to be returned.
LiveAt(in, item, r) ==
    \/ item.kind = "segment" /\ item.at \in DOMAIN in.segments /\ r \in Live(in.segments[item.at])
    \/ item.kind = "batch" /\ item.at \in DOMAIN in.memtable
       /\ r \in 0..(in.memtable[item.at].rows - 1)

\* Values under the schema of the input.
ShownAs(in, x) ==
    LET columns == IF x[1].kind = "segment" THEN in.segments[x[1].at].columns
                   ELSE in.memtable[x[1].at].columns
    IN  [c \in {in.schema[i].name : i \in DOMAIN in.schema} |->
            LET at == IndexOf(in.schema, c)
            IN  IF at \in DOMAIN columns THEN columns[at][x[2] + 1] ELSE Null]

Wanted(in, x) == LiveAt(in, x[1], x[2]) /\ Selects(in.filter, ShownAs(in, x))

----------------------------------------------------------------------------
(* The plan.                                                               *)

PlanOK(in, pl) ==
    /\ pl.work \in Seq(Items)
    /\ \A j, k \in DOMAIN pl.work : pl.work[j] = pl.work[k] => j = k
    /\ \A k \in DOMAIN pl.work :
        /\ pl.work[k].kind = "segment" => pl.work[k].at \in DOMAIN in.segments
        /\ pl.work[k].kind = "batch" => pl.work[k].at \in DOMAIN in.memtable
    /\ pl.count \in 1..MaxPartitions
    /\ pl.predicates \subseteq in.filter

\* A piece of work that some partition has drawn.
Drawn(pl, n, item) == \E k \in DOMAIN pl.work : k <= n /\ pl.work[k] = item

----------------------------------------------------------------------------
(* One stream.                                                             *)

Busy(s) == s.state \in {"open", "read", "decode", "emit", "failed"}

\* The pieces of work a stream has to do with.
Has(s) == {x[1] : x \in ToSet(s.out)} \cup {w \in {s.item} : Busy(s)}

\* What it has was drawn, what it has returned is live; it ends when there is
\* no more work.
Placed(in, pl, n, s) ==
    /\ s \in Streams
    /\ \A w \in Has(s) : Drawn(pl, n, w)
    /\ \A x \in ToSet(s.out) : LiveAt(in, x[1], x[2])
    /\ s.state \in {"read", "decode"} => s.item.kind = "segment"
    /\ s.state = "done" => n >= Len(pl.work)

\* What it has returned and what it is about to return are apart, and nothing
\* is in either twice.
Once(s) ==
    /\ \A i, j \in DOMAIN s.out : s.out[i] = s.out[j] => i = j
    /\ Distinct(s.queue)
    /\ s.state \notin {"decode", "emit"} => s.queue = <<>>
    /\ s.state = "emit" => s.queue # <<>>
    /\ s.state \in {"open", "read", "decode", "failed"} =>
        \A x \in ToSet(s.out) : x[1] # s.item
    /\ \A k \in DOMAIN s.queue : \A i \in DOMAIN s.queue[k] :
        s.queue[k][i][1] = s.item /\ s.queue[k][i] \notin ToSet(s.out)

\* A batch as read_segment_as cuts it: not empty, not too long, of one block.
WellCut(seg, batch) ==
    /\ batch # <<>>
    /\ ScanBatchRows > 0 => Len(batch) <= ScanBatchRows
    /\ StoredBlockRows(seg) > 0 => \A i, j \in DOMAIN batch :
          batch[i][2] \div StoredBlockRows(seg) = batch[j][2] \div StoredBlockRows(seg)

\* The batches waiting are of live rows, and well cut when they were decoded.
Fits(in, s) ==
    \A k \in DOMAIN s.queue :
        /\ \A i \in DOMAIN s.queue[k] : LiveAt(in, s.item, s.queue[k][i][2])
        /\ s.item.kind = "segment" => WellCut(in.segments[s.item.at], s.queue[k])

\* A range in one block.
OneBlock(seg, q) ==
    StoredBlockRows(seg) > 0 => \A x, y \in RowsIn(q) :
        x \div StoredBlockRows(seg) = y \div StoredBlockRows(seg)

\* The ranges still to decode lie in the segment, apart from one another and
\* from what has been decoded, each in one block.
Ranged(in, s) ==
    /\ s.state = "read" /\ s.keep # Null =>
        /\ PageRows \in Nat \ {0}
        /\ s.keep \in [0..(DivCeil(RowCount(in.segments[s.item.at]), PageRows) - 1) -> BOOLEAN]
    /\ s.state = "decode" =>
        /\ WellRanged(s.ranges, RowCount(in.segments[s.item.at]))
        /\ \A q \in s.ranges : OneBlock(in.segments[s.item.at], q)
        /\ \A k \in DOMAIN s.queue : \A i \in DOMAIN s.queue[k] :
            \A q \in s.ranges : s.queue[k][i][2] \notin RowsIn(q)

\* What is left of its budget, below zero once a batch was cut.
Budgeted(in, s) ==
    /\ s.budget = Null <=> in.limit = Null
    /\ in.limit # Null =>
        Len(s.out) = IF s.budget >= 0 THEN in.limit - s.budget ELSE in.limit

Local(in, pl, n, s) ==
    /\ Placed(in, pl, n, s)
    /\ Once(s)
    /\ Fits(in, s)
    /\ Ranged(in, s)
    /\ Budgeted(in, s)

\* Row x is still on its way through a stream.
Ahead(s, x) ==
    /\ s.item = x[1]
    /\ \/ s.state \in {"open", "failed"}
       \/ s.state = "read" /\ (s.keep = Null \/ s.keep[x[2] \div PageRows])
       \/ s.state = "decode" /\ (InBatches(s.queue, x) \/ \E q \in s.ranges : x[2] \in RowsIn(q))
       \/ s.state = "emit" /\ InBatches(s.queue, x)

\* No batch was cut.
Uncut(s) == s.budget = Null \/ s.budget >= 0

----------------------------------------------------------------------------
(* The inductive invariant.                                                *)

\* Row x has been returned or is on its way.
Seen(st, x) == \E p \in Partitions : x \in ToSet(st[p].out) \/ Ahead(st[p], x)

\* Every wanted row of work that was drawn is.
Covered(in, pl, n, st) ==
    (pl # Null /\ \A p \in Partitions : Uncut(st[p])) =>
        \A k \in DOMAIN pl.work : \A r :
            k <= n /\ Wanted(in, <<pl.work[k], r>>) => Seen(st, <<pl.work[k], r>>)

ActiveIn(pl) == IF pl = Null THEN {} ELSE 0..(pl.count - 1)

InvOf(in, sn, pl, n, st) ==
    /\ Given(in)
    /\ n \in Nat
    /\ sn # Null => sn = in.schema
    /\ pl # Null => sn # Null /\ PlanOK(in, pl)
    /\ pl = Null => n = 0
    /\ DOMAIN st = Partitions
    /\ \A p \in Partitions \ ActiveIn(pl) : st[p] = Stream(in.limit)
    /\ \A p \in Partitions : Local(in, pl, n, st[p])
    /\ \A p, q \in Partitions : p # q => Has(st[p]) \cap Has(st[q]) = {}
    /\ Covered(in, pl, n, st)

ScanInv == InvOf(input, snapshot, plan, next, stream)

----------------------------------------------------------------------------
(* What the input gives.                                                   *)

\* A segment of the input is a finished one, its deletes are rows of it.
LEMMA GivenSegment ==
    ASSUME NEW in, Given(in), NEW i \in DOMAIN in.segments
    PROVE  /\ in.segments[i] \in Built
           /\ RowCount(in.segments[i]) \in Nat
           /\ in.segments[i].deletes \subseteq 0..(RowCount(in.segments[i]) - 1)
           /\ Live(in.segments[i]) \subseteq 0..(RowCount(in.segments[i]) - 1)
           /\ Live(in.segments[i]) \subseteq Nat
<1>1. in.segments[i] \in Built
      BY DEF Given
<1>2. PICK seg \in Segments : in.segments[i] = BuildSegment(seg)
      BY <1>1 DEF Built
<1>3. /\ RowCount(in.segments[i]) = RowCount(seg) /\ in.segments[i].deletes = seg.deletes
      BY <1>2, BuiltFacts
<1>4. RowCount(seg) \in Nat /\ seg.deletes \subseteq 0..(RowCount(seg) - 1)
      BY SegmentFacts
<1>5. Live(in.segments[i]) \subseteq 0..(RowCount(in.segments[i]) - 1)
      BY DEF Live
<1> QED BY <1>1, <1>3, <1>4, <1>5

\* A batch in memory has a number of rows.
LEMMA GivenBatch ==
    ASSUME NEW in, Given(in), NEW i \in DOMAIN in.memtable
    PROVE  i \in Nat /\ in.memtable[i].rows \in Nat
<1>1. in.memtable \in Seq([rows : Nat, columns : Seq(Seq(Value))])
      BY DEF Given
<1>2. i \in 1..Len(in.memtable) /\ Len(in.memtable) \in Nat
      BY <1>1
<1> DEFINE Batches == [rows : Nat, columns : Seq(Seq(Value))]
<1> HIDE DEF Batches
<1>3. in.memtable[i] \in Batches
      BY <1>1, <1>2, ElementOfSeq DEF Batches
<1>4. in.memtable[i].rows \in Nat
      BY <1>3 DEF Batches
<1> QED BY <1>2, <1>4

\* A live row counts from 0, and its piece of work is in the table.
LEMMA LivePlace ==
    ASSUME NEW in, Given(in), NEW item, NEW r, LiveAt(in, item, r)
    PROVE  r \in Nat
<1>1. CASE item.kind = "segment" /\ item.at \in DOMAIN in.segments
           /\ r \in Live(in.segments[item.at])
      BY <1>1, GivenSegment
<1>2. CASE item.kind = "batch" /\ item.at \in DOMAIN in.memtable
           /\ r \in 0..(in.memtable[item.at].rows - 1)
      BY <1>2 DEF Given
<1> QED BY <1>1, <1>2 DEF LiveAt

\* LiveRows are the live rows of the work a scan can have.
LEMMA LiveRowsAre ==
    ASSUME Given(input), NEW item \in Items, NEW r
    PROVE  <<item, r>> \in LiveRows <=> LiveAt(input, item, r)
<1>1. item = [kind |-> item.kind, at |-> item.at] /\ item.at \in Nat
      /\ item.kind \in {"segment", "batch"}
      BY DEF Items
<1>2. ASSUME LiveAt(input, item, r) PROVE <<item, r>> \in LiveRows
  <2>1. CASE item.kind = "segment" /\ item.at \in DOMAIN input.segments
             /\ r \in Live(input.segments[item.at])
    <3>1. item = Work("segment", item.at)
          BY <1>1, <2>1 DEF Work
    <3>2. <<item, r>> \in {<<Work("segment", item.at), q>> : q \in Live(input.segments[item.at])}
          BY <2>1, <3>1
    <3> QED BY <2>1, <3>2 DEF LiveRows
  <2>2. CASE item.kind = "batch" /\ item.at \in DOMAIN input.memtable
             /\ r \in 0..(input.memtable[item.at].rows - 1)
    <3>1. item = Work("batch", item.at)
          BY <1>1, <2>2 DEF Work
    <3>2. input.memtable[item.at].rows \in Nat
          BY <2>2, GivenBatch
    <3>3. r + 1 \in 1..input.memtable[item.at].rows /\ (r + 1) - 1 = r
          BY <2>2, <3>2
    <3>4. <<item, r>> \in {<<Work("batch", item.at), q - 1>> : q \in 1..input.memtable[item.at].rows}
          BY <3>1, <3>3
    <3> QED BY <2>2, <3>4 DEF LiveRows
  <2> QED BY <1>2, <2>1, <2>2 DEF LiveAt
<1>3. ASSUME <<item, r>> \in LiveRows PROVE LiveAt(input, item, r)
  <2>1. CASE \E i \in DOMAIN input.segments : \E q \in Live(input.segments[i]) :
                 <<item, r>> = <<Work("segment", i), q>>
    <3>1. PICK i \in DOMAIN input.segments : \E q \in Live(input.segments[i]) :
                 <<item, r>> = <<Work("segment", i), q>>
          BY <2>1
    <3>2. item = Work("segment", i) /\ r \in Live(input.segments[i])
          BY <3>1
    <3> QED BY <3>2 DEF LiveAt, Work
  <2>2. CASE \E i \in DOMAIN input.memtable : \E q \in 1..input.memtable[i].rows :
                 <<item, r>> = <<Work("batch", i), q - 1>>
    <3>1. PICK i \in DOMAIN input.memtable : \E q \in 1..input.memtable[i].rows :
                 <<item, r>> = <<Work("batch", i), q - 1>>
          BY <2>2
    <3>2. PICK q \in 1..input.memtable[i].rows : item = Work("batch", i) /\ r = q - 1
          BY <3>1
    <3>3. input.memtable[i].rows \in Nat
          BY GivenBatch
    <3>4. r \in 0..(input.memtable[i].rows - 1)
          BY <3>2, <3>3
    <3> QED BY <3>2, <3>4 DEF LiveAt, Work
  <2> QED BY <1>3, <2>1, <2>2 DEF LiveRows
<1> QED BY <1>2, <1>3

\* A live row is a piece of work and a position.
LEMMA LiveRowsType ==
    ASSUME Given(input), NEW x \in LiveRows
    PROVE  x \in Places /\ x = <<x[1], x[2]>> /\ LiveAt(input, x[1], x[2])
<1>1. \E item \in Items : \E r : x = <<item, r>>
  <2>1. CASE \E i \in DOMAIN input.segments : \E q \in Live(input.segments[i]) :
                 x = <<Work("segment", i), q>>
    <3>1. PICK i \in DOMAIN input.segments : \E q \in Live(input.segments[i]) :
                 x = <<Work("segment", i), q>>
          BY <2>1
    <3>2. i \in Nat
          BY DEF Given
    <3>3. Work("segment", i) \in Items
          BY <3>2 DEF Items, Work
    <3> QED BY <3>1, <3>3
  <2>2. CASE \E i \in DOMAIN input.memtable : \E q \in 1..input.memtable[i].rows :
                 x = <<Work("batch", i), q - 1>>
    <3>1. PICK i \in DOMAIN input.memtable : \E q \in 1..input.memtable[i].rows :
                 x = <<Work("batch", i), q - 1>>
          BY <2>2
    <3>2. i \in Nat
          BY DEF Given
    <3>3. Work("batch", i) \in Items
          BY <3>2 DEF Items, Work
    <3> QED BY <3>1, <3>3
  <2> QED BY <2>1, <2>2 DEF LiveRows
<1>2. PICK item \in Items : \E r : x = <<item, r>>
      BY <1>1
<1>3. PICK r : x = <<item, r>>
      BY <1>2
<1>4. LiveAt(input, item, r)
      BY <1>3, LiveRowsAre
<1>5. r \in Nat
      BY <1>4, LivePlace
<1> QED BY <1>3, <1>4, <1>5 DEF Places

\* Only the fields that never change matter to a stream.
LEMMA SameInput ==
    ASSUME NEW in, NEW other, other.schema = in.schema, other.segments = in.segments,
           other.memtable = in.memtable, other.filter = in.filter,
           other.limit = in.limit, NEW pl, NEW n, NEW s
    PROVE  /\ Local(in, pl, n, s) => Local(other, pl, n, s)
           /\ PlanOK(in, pl) => PlanOK(other, pl)
           /\ \A x : Wanted(other, x) => Wanted(in, x)
<1>1. \A item, r : LiveAt(in, item, r) <=> LiveAt(other, item, r)
      BY DEF LiveAt
<1>2. Placed(in, pl, n, s) => Placed(other, pl, n, s)
      BY <1>1 DEF Placed
<1>3. Fits(in, s) => Fits(other, s)
      BY <1>1 DEF Fits
<1>4. Ranged(in, s) => Ranged(other, s)
      BY DEF Ranged
<1>5. Budgeted(in, s) => Budgeted(other, s)
      BY DEF Budgeted
<1>6. ASSUME NEW x PROVE ShownAs(in, x) = ShownAs(other, x)
      BY DEF ShownAs
<1>7. PlanOK(in, pl) => PlanOK(other, pl)
      BY DEF PlanOK
<1>8. \A x : Wanted(other, x) => Wanted(in, x)
      BY <1>1, <1>6 DEF Wanted
<1> QED BY <1>2, <1>3, <1>4, <1>5, <1>7, <1>8 DEF Local

\* Drawing more work disturbs no stream.
LEMMA LaterStill ==
    ASSUME NEW in, NEW pl, NEW n \in Nat, NEW m \in Nat, n <= m, NEW s,
           Len(pl.work) \in Nat, DOMAIN pl.work = 1..Len(pl.work), Local(in, pl, n, s)
    PROVE  Local(in, pl, m, s)
<1>1. \A w : Drawn(pl, n, w) => Drawn(pl, m, w)
      BY DEF Drawn
<1>2. Placed(in, pl, m, s)
      BY <1>1 DEF Local, Placed
<1> QED BY <1>2 DEF Local

----------------------------------------------------------------------------
(* What a step does to its stream.                                         *)

\* The work of a plan, by position.
LEMMA WorkOf ==
    ASSUME NEW in, Given(in), NEW pl, PlanOK(in, pl)
    PROVE  /\ Len(pl.work) \in Nat /\ DOMAIN pl.work = 1..Len(pl.work)
           /\ \A k \in DOMAIN pl.work : pl.work[k] \in Items
           /\ \A n, w : Drawn(pl, n, w) =>
                 /\ w \in Items
                 /\ w.kind = "segment" => w.at \in DOMAIN in.segments
                 /\ w.kind = "batch" => w.at \in DOMAIN in.memtable
<1>1. pl.work \in Seq(Items)
      BY DEF PlanOK
<1>2. /\ Len(pl.work) \in Nat /\ DOMAIN pl.work = 1..Len(pl.work)
      /\ \A k \in DOMAIN pl.work : pl.work[k] \in Items
      BY <1>1, ElementOfSeq
<1> QED BY <1>2 DEF Drawn, PlanOK

\* What a stream keeps when a step leaves its output and budget alone and gives
\* it nothing new.
LEMMA Untouched ==
    ASSUME NEW in, NEW pl, NEW n, NEW s, NEW t, Local(in, pl, n, s), t \in Streams,
           t.out = s.out, t.budget = s.budget, Has(t) \subseteq Has(s),
           t.state \in {"read", "decode"} => t.item.kind = "segment",
           t.state = "done" => n >= Len(pl.work)
    PROVE  Placed(in, pl, n, t) /\ Budgeted(in, t)
<1>1. Placed(in, pl, n, t)
      BY DEF Local, Placed
<1>2. Budgeted(in, t)
      BY DEF Local, Budgeted
<1> QED BY <1>1, <1>2

\* Morsels::take hands out work nobody else has.
LEMMA TakeLocal ==
    ASSUME NEW in, Given(in), NEW pl, PlanOK(in, pl), NEW n \in Nat, NEW m \in DOMAIN pl.work, n < m,
           NEW s, Local(in, pl, n, s), s.state = "take",
           NEW t \in Streams, t.state = "open", t.item = pl.work[m],
           t.queue = s.queue, t.budget = s.budget, t.out = s.out
    PROVE  /\ Local(in, pl, m, t)
           /\ Has(t) \subseteq Has(s) \cup {pl.work[m]}
<1> DEFINE w == pl.work[m]
<1>1. /\ Len(pl.work) \in Nat /\ DOMAIN pl.work = 1..Len(pl.work)
      /\ \A k \in DOMAIN pl.work : pl.work[k] \in Items
      BY WorkOf
<1>2. m \in DOMAIN pl.work /\ w \in Items
      BY <1>1
<1>4. /\ t.state = "open" /\ t.item = w
      /\ t.queue = s.queue /\ t.budget = s.budget /\ t.out = s.out /\ t \in Streams
      OBVIOUS
<1>5. Has(t) = Has(s) \cup {w} /\ Has(s) = {x[1] : x \in ToSet(s.out)}
      BY <1>4 DEF Has, Busy
<1>6. \A v \in Has(s) : Drawn(pl, n, v)
      BY DEF Local, Placed
<1>7. ~Drawn(pl, n, w)
  <2> SUFFICES ASSUME NEW k \in DOMAIN pl.work, k <= n, pl.work[k] = w PROVE FALSE
      BY DEF Drawn
  <2>1. k = m
        BY <1>2 DEF PlanOK
  <2> QED BY <1>1, <2>1
<1>8. \A v \in Has(t) : Drawn(pl, m, v)
  <2>1. Drawn(pl, m, w)
        BY <1>1, <1>2 DEF Drawn
  <2>2. \A v : Drawn(pl, n, v) => Drawn(pl, m, v)
        BY <1>1 DEF Drawn
  <2> QED BY <1>5, <1>6, <2>1, <2>2
<1>9. Placed(in, pl, m, t)
      BY <1>4, <1>8 DEF Local, Placed
<1>10. s.queue = <<>>
      BY DEF Local, Once
<1> HIDE DEF w
<1>11. Once(t)
  <2>1. \A x \in ToSet(t.out) : x[1] # w
        BY <1>4, <1>5, <1>6, <1>7
  <2> QED BY <1>4, <1>10, <2>1 DEF Local, Once
<1>12. Fits(in, t) /\ Ranged(in, t) /\ Budgeted(in, t)
      BY <1>4, <1>10 DEF Local, Fits, Ranged, Budgeted
<1> QED BY <1>4, <1>5, <1>9, <1>11, <1>12 DEF Local, w

\* A partition that finds no work is done.
LEMMA TakeDone ==
    ASSUME NEW in, Given(in), NEW pl, PlanOK(in, pl), NEW n \in Nat, NEW m \in Nat, n <= m,
           NEW s, Local(in, pl, n, s), s.state = "take", ~(n < Len(pl.work)),
           NEW t \in Streams, t.state = "done", t.queue = s.queue,
           t.budget = s.budget, t.out = s.out
    PROVE  Local(in, pl, m, t) /\ Has(t) \subseteq Has(s)
<1>1. /\ Len(pl.work) \in Nat /\ DOMAIN pl.work = 1..Len(pl.work)
      BY WorkOf
<1>3. /\ t.state = "done"
      /\ t.queue = s.queue /\ t.budget = s.budget /\ t.out = s.out /\ t \in Streams
      OBVIOUS
<1>4. Has(t) = Has(s)
      BY <1>3 DEF Has, Busy
<1>5. Local(in, pl, n, t)
  <2>1. n >= Len(pl.work)
        BY <1>1
  <2>2. Placed(in, pl, n, t) /\ Budgeted(in, t)
        BY <1>3, <1>4, <2>1, Untouched
  <2>3. s.queue = <<>>
        BY DEF Local, Once
  <2>4. Once(t) /\ Fits(in, t) /\ Ranged(in, t)
        BY <1>3, <2>3 DEF Local, Once, Fits, Ranged
  <2> QED BY <2>2, <2>4 DEF Local
<1>6. Local(in, pl, m, t)
      BY <1>1, <1>5, LaterStill
<1> QED BY <1>3, <1>4, <1>6

\* A wanted row on its way stays there, or is returned.
Carries(in, s, t) ==
    \A w, r : Wanted(in, <<w, r>>) /\ Ahead(s, <<w, r>>) =>
        Ahead(t, <<w, r>>) \/ <<w, r>> \in ToSet(t.out)

\* What a busy stream works on.
LEMMA ItemOf ==
    ASSUME NEW in, Given(in), NEW pl, PlanOK(in, pl), NEW n, NEW s, Local(in, pl, n, s), Busy(s)
    PROVE  /\ s.item \in Items /\ s.item \in Has(s)
           /\ s.item.kind = "segment" => s.item.at \in DOMAIN in.segments
           /\ s.item.kind = "batch" => s.item.at \in DOMAIN in.memtable
<1>1. s.item \in Has(s)
      BY DEF Has
<1>2. Drawn(pl, n, s.item)
      BY <1>1 DEF Local, Placed
<1> QED BY <1>1, <1>2, WorkOf

\* Rows in memory are handed on as one batch.
LEMMA ProjectLocal ==
    ASSUME NEW in, Given(in), NEW pl, PlanOK(in, pl), NEW n \in Nat,
           NEW s, Local(in, pl, n, s), s.state = "open", s.item.kind = "batch",
           NEW t, t = [s EXCEPT !.state = "emit",
                          !.queue = <<[r \in 1..in.memtable[s.item.at].rows |-> <<s.item, r - 1>>]>>]
    PROVE  /\ Local(in, pl, n, t) /\ Has(t) \subseteq Has(s)
           /\ t.out = s.out /\ t.budget = s.budget /\ Carries(in, s, t)
<1> DEFINE w == s.item
           m == in.memtable[w.at].rows
           batch == [r \in 1..m |-> <<w, r - 1>>]
<1>1. s \in Streams /\ Busy(s)
      BY DEF Local, Placed, Busy
<1>2. w \in Items /\ w \in Has(s) /\ w.at \in DOMAIN in.memtable /\ w.kind = "batch"
      BY <1>1, ItemOf
<1>3. m \in Nat
      BY <1>2, GivenBatch
<1> HIDE DEF m, w
<1>4. batch \in Seq(Places) /\ Len(batch) = m /\ DOMAIN batch = 1..m
      /\ \A r \in 1..m : batch[r] = <<w, r - 1>>
  <2>1. \A r \in 1..m : <<w, r - 1>> \in Places
        BY <1>2, <1>3 DEF Places
  <2> QED BY <1>3, <2>1
<1> HIDE DEF batch
<1>5. <<batch>> \in Seq(Seq(Places)) /\ DOMAIN <<batch>> = {1} /\ <<batch>>[1] = batch
      /\ <<batch>> # <<>>
      BY <1>4
<1>6. /\ t.state = "emit" /\ t.item = w /\ t.keep = s.keep /\ t.ranges = s.ranges
      /\ t.queue = <<batch>> /\ t.budget = s.budget /\ t.out = s.out /\ t \in Streams
  <2>1. t = [s EXCEPT !.state = "emit", !.queue = <<batch>>]
        BY DEF batch, m, w
  <2> QED BY <1>1, <1>5, <2>1 DEF Streams, States, w
<1>7. Has(t) = Has(s)
      BY <1>1, <1>6 DEF Has, Busy, w
<1>8. Placed(in, pl, n, t) /\ Budgeted(in, t)
      BY <1>6, <1>7, Untouched
<1>9. \A x \in ToSet(s.out) : x[1] # w
      BY DEF Local, Once, w
<1>10. Once(t)
  <2>1. Distinct(t.queue)
    <3> SUFFICES ASSUME NEW i \in 1..m, NEW j \in 1..m, batch[i] = batch[j] PROVE i = j
        BY <1>4, <1>5, <1>6 DEF Distinct
    <3>1. i - 1 = j - 1
          BY <1>4
    <3> QED BY <1>3, <3>1
  <2>2. \A i \in 1..m : batch[i][1] = w /\ batch[i] \notin ToSet(t.out)
        BY <1>4, <1>6, <1>9
  <2>3. \A k \in DOMAIN t.queue : \A i \in DOMAIN t.queue[k] :
            t.queue[k][i][1] = t.item /\ t.queue[k][i] \notin ToSet(t.out)
        BY <1>4, <1>5, <1>6, <2>2
  <2>4. \A i, j \in DOMAIN t.out : t.out[i] = t.out[j] => i = j
        BY <1>6 DEF Local, Once
  <2> QED BY <1>5, <1>6, <2>1, <2>3, <2>4 DEF Once
<1>11. Fits(in, t)
  <2>1. \A i \in 1..m : LiveAt(in, w, batch[i][2])
        BY <1>2, <1>3, <1>4 DEF LiveAt, m
  <2> QED BY <1>2, <1>4, <1>5, <1>6, <2>1 DEF Fits
<1>12. Ranged(in, t)
      BY <1>6 DEF Ranged
<1>13. Carries(in, s, t)
  <2> SUFFICES ASSUME NEW v, NEW r, Wanted(in, <<v, r>>), Ahead(s, <<v, r>>)
               PROVE  Ahead(t, <<v, r>>)
      BY DEF Carries
  <2>1. v = w /\ LiveAt(in, v, r)
        BY DEF Wanted, Ahead, w
  <2>2. r \in 0..(m - 1)
        BY <1>2, <2>1 DEF LiveAt, m
  <2>3. r + 1 \in 1..m /\ (r + 1) - 1 = r
        BY <1>3, <2>2
  <2>4. batch[r + 1] = <<v, r>> /\ r + 1 \in DOMAIN batch
        BY <1>4, <2>1, <2>3
  <2>5. InBatches(t.queue, <<v, r>>)
    <3>1. 1 \in DOMAIN t.queue /\ t.queue[1] = batch
          BY <1>5, <1>6
    <3> QED BY <2>4, <3>1 DEF InBatches
  <2> QED BY <1>6, <2>1, <2>5 DEF Ahead
<1> QED BY <1>6, <1>7, <1>8, <1>10, <1>11, <1>12, <1>13 DEF Local

----------------------------------------------------------------------------
(* Opening a segment.                                                      *)

\* Where a column stands in a schema.
LEMMA IndexIs ==
    ASSUME NEW S, NEW fields \in Seq(S), NEW c
    PROVE  /\ IndexOf(fields, c) \in Nat
           /\ IndexOf(fields, c) # 0 =>
                 /\ IndexOf(fields, c) \in 1..Len(fields)
                 /\ fields[IndexOf(fields, c)].name = c
                 /\ \A j \in 1..Len(fields) : fields[j].name = c => IndexOf(fields, c) <= j
           /\ IndexOf(fields, c) = 0 => \A j \in 1..Len(fields) : fields[j].name # c
<1> DEFINE I == {i \in 1..Len(fields) : fields[i].name = c}
<1>1. IndexOf(fields, c) = IF I # {} THEN Min(I) ELSE 0
      BY DEF IndexOf, SelectInSeq
<1>2. I \in SUBSET Nat /\ Len(fields) \in Nat
      OBVIOUS
<1>3. I # {} => Min(I) \in I /\ \A x \in I : Min(I) <= x
      BY <1>2, MinIs
<1>4. CASE I = {}
      BY <1>1, <1>4
<1>5. CASE I # {}
  <2>1. Min(I) \in I /\ IndexOf(fields, c) = Min(I)
        BY <1>1, <1>3, <1>5
  <2> DEFINE m == Min(I)
  <2>2. m \in 1..Len(fields) /\ fields[m].name = c /\ \A x \in I : m <= x
        BY <1>3, <2>1
  <2> HIDE DEF m
  <2>3. m \in Nat /\ m # 0
        BY <1>2, <2>2
  <2> QED BY <2>1, <2>2, <2>3 DEF m
<1> QED BY <1>4, <1>5

\* A row of a segment shows the values of the segment's columns.
LEMMA RowHolds ==
    ASSUME NEW in, Given(in), NEW w, w.kind = "segment", w.at \in DOMAIN in.segments,
           NEW seg \in Segments, in.segments[w.at] = BuildSegment(seg),
           NEW r \in 0..(RowCount(seg) - 1), NEW c, IndexOf(in.schema, c) # 0
    PROVE  /\ ShownAs(in, <<w, r>>)[c] \in Value
           /\ HoldsAt(in.schema, seg, c, r, ShownAs(in, <<w, r>>)[c])
<1> DEFINE at == IndexOf(in.schema, c)
           v == ShownAs(in, <<w, r>>)[c]
<1>1. in.schema \in Seq([name : STRING, kind : Kinds])
      BY DEF Given
<1>2. at \in 1..Len(in.schema) /\ in.schema[at].name = c
      BY <1>1, IndexIs
<1>3. c \in {in.schema[i].name : i \in DOMAIN in.schema}
      BY <1>1, <1>2
<1>4. in.segments[w.at].columns = seg.columns
      BY BuiltFacts
<1>5. v = IF at \in DOMAIN seg.columns THEN seg.columns[at][r + 1] ELSE Null
      BY <1>3, <1>4 DEF ShownAs
<1> HIDE DEF at, v
<1>6. HoldsAt(in.schema, seg, c, r, v)
  <2>1. Accepts(in.schema, seg.fields)
    <3>1. in.segments[w.at].fields = seg.fields
          BY BuiltFacts
    <3> QED BY <3>1 DEF Given
  <2>2. at \in DOMAIN seg.columns => in.schema[at].kind = seg.fields[at]
        BY <2>1, SegmentFacts DEF Accepts
  <2> QED BY <1>5, <2>2 DEF HoldsAt, at
<1>7. v \in Value
  <2>1. CASE at \in DOMAIN seg.columns
    <3> DEFINE col == seg.columns[at]
    <3>1. col \in Seq(Value) /\ Len(col) = RowCount(seg) /\ RowCount(seg) \in Nat
          BY <2>1, SegmentFacts
    <3>2. r + 1 \in 1..Len(col)
          BY <3>1
    <3> HIDE DEF col
    <3>3. col[r + 1] \in Value
          BY <3>1, <3>2, ElementOfSeq
    <3> QED BY <1>5, <2>1, <3>3 DEF col
  <2>2. CASE at \notin DOMAIN seg.columns
        BY <1>5, <2>2 DEF Value
  <2> QED BY <2>1, <2>2
<1> QED BY <1>6, <1>7 DEF v

\* A page with a wanted row is kept.
LEMMA WantedKept ==
    ASSUME NEW in, Given(in), NEW pl, PlanOK(in, pl),
           NEW w, w.kind = "segment", w.at \in DOMAIN in.segments, NEW r, Wanted(in, <<w, r>>),
           NEW keep, keep = KeepPages(in.schema, pl.predicates, pl.columns, in.segments[w.at]),
           keep # Null
    PROVE  keep[r \div PageRows]
<1>1. in.segments[w.at] \in Built
      BY GivenSegment
<1>2. PICK seg \in Segments : in.segments[w.at] = BuildSegment(seg)
      BY <1>1 DEF Built
<1>3. r \in 0..(RowCount(seg) - 1)
  <2>1. RowCount(in.segments[w.at]) = RowCount(seg)
        BY <1>2, BuiltFacts
  <2>2. r \in Live(in.segments[w.at])
        BY DEF Wanted, LiveAt
  <2> QED BY <2>1, <2>2, GivenSegment
<1> DEFINE row == ShownAs(in, <<w, r>>)
<1>4. ASSUME NEW t \in pl.predicates
      PROVE  IsTerm(t) /\ Meets(t, row) /\ \A c \in ColumnsOf(t) :
                 row[c] \in Value /\ HoldsAt(in.schema, seg, c, r, row[c])
  <2>1. t \in in.filter
        BY DEF PlanOK
  <2>2. IsTerm(t) /\ \A c \in ColumnsOf(t) : IndexOf(in.schema, c) # 0
        BY <2>1 DEF Given
  <2>3. Meets(t, row)
        BY <2>1, SelectsMeets DEF Wanted
  <2>4. ASSUME NEW c \in ColumnsOf(t)
        PROVE  row[c] \in Value /\ HoldsAt(in.schema, seg, c, r, row[c])
        BY <1>2, <1>3, <2>2, RowHolds
  <2> QED BY <2>2, <2>3, <2>4
<1> HIDE DEF row
<1> QED BY <1>2, <1>3, <1>4, PageKept

\* keep_pages answers, or the open fails.
LEMMA OpenLocal ==
    ASSUME NEW in, Given(in), NEW pl, PlanOK(in, pl), NEW n \in Nat,
           NEW s, Local(in, pl, n, s), s.state = "open", s.item.kind = "segment",
           NEW keep, \/ keep = Null
                     \/ keep = KeepPages(in.schema, pl.predicates, pl.columns,
                                         in.segments[s.item.at]),
           NEW t, t = [s EXCEPT !.state = "read", !.keep = keep]
    PROVE  /\ Local(in, pl, n, t) /\ Has(t) \subseteq Has(s)
           /\ t.out = s.out /\ t.budget = s.budget /\ Carries(in, s, t)
<1> DEFINE w == s.item
<1>1. s \in Streams /\ Busy(s)
      BY DEF Local, Placed, Busy
<1>2. w \in Items /\ w \in Has(s) /\ w.at \in DOMAIN in.segments
      BY <1>1, ItemOf
<1>3. /\ keep # Null =>
            /\ PageRows \in Nat \ {0}
            /\ keep \in [0..(DivCeil(RowCount(in.segments[w.at]), PageRows) - 1) -> BOOLEAN]
  <2> SUFFICES ASSUME keep # Null
               PROVE  /\ PageRows \in Nat \ {0}
                      /\ keep \in [0..(DivCeil(RowCount(in.segments[w.at]), PageRows) - 1) -> BOOLEAN]
      OBVIOUS
  <2>1. in.segments[w.at] \in Built
        BY <1>2, GivenSegment
  <2>2. PICK seg \in Segments : in.segments[w.at] = BuildSegment(seg)
        BY <2>1 DEF Built
  <2>3. RowCount(in.segments[w.at]) = RowCount(seg)
        BY <2>2, BuiltFacts
  <2>4. keep = KeepPages(in.schema, pl.predicates, pl.columns, BuildSegment(seg))
        BY <2>2
  <2> QED BY <2>3, <2>4, KeepPagesType
<1>4. keep \in Keeps
  <2>1. CASE keep = Null
        BY <2>1 DEF Keeps
  <2>2. CASE keep # Null
    <3> DEFINE m == DivCeil(RowCount(in.segments[w.at]), PageRows) - 1
    <3>1. RowCount(in.segments[w.at]) \in Nat
          BY <1>2, GivenSegment
    <3>2. m \in Int
          BY <1>3, <2>2, <3>1, PagesCover
    <3>3. keep \in [0..m -> BOOLEAN]
          BY <1>3, <2>2
    <3> HIDE DEF m
    <3> QED BY <3>2, <3>3 DEF Keeps
  <2> QED BY <2>1, <2>2
<1>5. /\ t.state = "read" /\ t.item = w /\ t.keep = keep /\ t.ranges = s.ranges
      /\ t.queue = s.queue /\ t.budget = s.budget /\ t.out = s.out /\ t \in Streams
      BY <1>1, <1>4 DEF Streams, States
<1> HIDE DEF w
<1>6. Has(t) = Has(s)
      BY <1>1, <1>5 DEF Has, Busy, w
<1>7. w.kind = "segment"
      BY DEF w
<1>8. Placed(in, pl, n, t) /\ Budgeted(in, t)
      BY <1>5, <1>6, <1>7, Untouched
<1>9. s.queue = <<>>
      BY DEF Local, Once
<1>10. Once(t)
      BY <1>5, <1>9 DEF Local, Once, w
<1>11. Fits(in, t)
      BY <1>5, <1>9 DEF Fits
<1>12. Ranged(in, t)
      BY <1>3, <1>5 DEF Ranged
<1>13. Carries(in, s, t)
  <2> SUFFICES ASSUME NEW v, NEW r, Wanted(in, <<v, r>>), Ahead(s, <<v, r>>)
               PROVE  Ahead(t, <<v, r>>)
      BY DEF Carries
  <2>1. v = w
        BY DEF Ahead, w
  <2>2. keep = Null \/ keep[r \div PageRows]
        BY <1>2, <1>7, <2>1, WantedKept DEF w
  <2> QED BY <1>5, <2>1, <2>2 DEF Ahead
<1> QED BY <1>5, <1>6, <1>8, <1>10, <1>11, <1>12, <1>13 DEF Local

\* An open that fails keeps the stream as it should be.
LEMMA FailLocal ==
    ASSUME NEW in, Given(in), NEW pl, PlanOK(in, pl), NEW n \in Nat,
           NEW s, Local(in, pl, n, s), s.state = "open",
           NEW t, t = [s EXCEPT !.state = "failed"]
    PROVE  /\ Local(in, pl, n, t) /\ Has(t) \subseteq Has(s)
           /\ t.out = s.out /\ t.budget = s.budget /\ Carries(in, s, t)
<1>1. s \in Streams /\ Busy(s)
      BY DEF Local, Placed, Busy
<1>2. /\ t.state = "failed" /\ t.item = s.item /\ t.keep = s.keep /\ t.ranges = s.ranges
      /\ t.queue = s.queue /\ t.budget = s.budget /\ t.out = s.out /\ t \in Streams
      BY <1>1 DEF Streams, States
<1>3. Has(t) = Has(s)
      BY <1>1, <1>2 DEF Has, Busy
<1>4. Placed(in, pl, n, t) /\ Budgeted(in, t)
      BY <1>2, <1>3, Untouched
<1>5. s.queue = <<>>
      BY DEF Local, Once
<1>6. Once(t)
      BY <1>2, <1>5 DEF Local, Once
<1>7. Fits(in, t) /\ Ranged(in, t)
      BY <1>2, <1>5 DEF Fits, Ranged
<1>8. Carries(in, s, t)
      BY <1>2 DEF Carries, Ahead
<1> QED BY <1>2, <1>3, <1>4, <1>6, <1>7, <1>8 DEF Local

----------------------------------------------------------------------------
(* Reading a segment.                                                      *)

\* Ranges are pairs of a start and a length.
LEMMA RangesArePairs ==
    ASSUME NEW seg, NEW keep, NEW q \in RangesToRead(seg, keep)
    PROVE  q = <<q[1], q[2]>>
<1> DEFINE ranges == IF keep = Null THEN {<<0, RowCount(seg)>>} ELSE KeptRanges(seg, keep)
<1>1. q \in SplitAtBlocks(ranges, StoredBlockRows(seg))
      BY DEF RangesToRead
<1>2. \A r \in ranges : r = <<r[1], r[2]>>
  <2>1. \A r \in KeptRanges(seg, keep) : \E a, b : r = <<a, b>>
        BY Zenon DEF KeptRanges
  <2> QED BY <2>1
<1>3. \A r, b, B : Piece(r, b, B) = <<Piece(r, b, B)[1], Piece(r, b, B)[2]>>
      BY DEF Piece
<1> HIDE DEF ranges
<1> QED BY <1>1, <1>2, <1>3 DEF SplitAtBlocks

\* read_segment_pages works out ranges that hold every wanted row.
LEMMA ReadLocal ==
    ASSUME NEW in, Given(in), NEW pl, PlanOK(in, pl), NEW n \in Nat,
           NEW s, Local(in, pl, n, s), s.state = "read",
           NEW t, t = [s EXCEPT !.state = "decode",
                          !.ranges = RangesToRead(in.segments[s.item.at], s.keep)]
    PROVE  /\ Local(in, pl, n, t) /\ Has(t) \subseteq Has(s)
           /\ t.out = s.out /\ t.budget = s.budget /\ Carries(in, s, t)
<1> DEFINE w == s.item
           seg == in.segments[w.at]
           ranges == RangesToRead(seg, s.keep)
<1>1. s \in Streams /\ Busy(s) /\ w.kind = "segment"
      BY DEF Local, Placed, Busy
<1>2. w \in Items /\ w \in Has(s) /\ w.at \in DOMAIN in.segments
      BY <1>1, ItemOf
<1>3. RowCount(seg) \in Nat /\ Live(seg) \subseteq 0..(RowCount(seg) - 1)
      BY <1>2, GivenSegment
<1>4. s.keep # Null =>
          /\ PageRows \in Nat \ {0}
          /\ s.keep \in [0..(DivCeil(RowCount(seg), PageRows) - 1) -> BOOLEAN]
      BY DEF Local, Ranged
<1> HIDE DEF seg
<1>5. /\ WellRanged(ranges, RowCount(seg))
      /\ \A r \in 0..(RowCount(seg) - 1) : (s.keep = Null \/ s.keep[r \div PageRows]) =>
            \E q \in ranges : r \in RowsIn(q)
      /\ \A q \in ranges : OneBlock(seg, q)
      BY <1>3, <1>4, RangesFit DEF OneBlock
<1>6. ranges \subseteq Nat \X Nat
  <2> SUFFICES ASSUME NEW q \in ranges PROVE q \in Nat \X Nat
      OBVIOUS
  <2>1. q = <<q[1], q[2]>>
        BY RangesArePairs
  <2>2. q[1] \in Nat /\ q[2] \in Nat
        BY <1>5 DEF WellRanged
  <2> QED BY <2>1, <2>2
<1> HIDE DEF ranges
<1>7. /\ t.state = "decode" /\ t.item = w /\ t.keep = s.keep /\ t.ranges = ranges
      /\ t.queue = s.queue /\ t.budget = s.budget /\ t.out = s.out /\ t \in Streams
  <2>1. t = [s EXCEPT !.state = "decode", !.ranges = ranges]
        BY DEF ranges, seg
  <2> QED BY <1>1, <1>6, <2>1 DEF Streams, States
<1> HIDE DEF w
<1>8. Has(t) = Has(s)
      BY <1>1, <1>7 DEF Has, Busy, w
<1>9. Placed(in, pl, n, t) /\ Budgeted(in, t)
      BY <1>1, <1>7, <1>8, Untouched
<1>10. s.queue = <<>>
      BY DEF Local, Once
<1>11. Once(t)
      BY <1>7, <1>10 DEF Local, Once, w
<1>12. Fits(in, t)
      BY <1>7, <1>10 DEF Fits
<1>13. Ranged(in, t)
      BY <1>5, <1>7, <1>10 DEF Ranged, seg
<1>14. Carries(in, s, t)
  <2> SUFFICES ASSUME NEW v, NEW r, Wanted(in, <<v, r>>), Ahead(s, <<v, r>>)
               PROVE  Ahead(t, <<v, r>>)
      BY DEF Carries
  <2>1. v = w /\ (s.keep = Null \/ s.keep[r \div PageRows])
        BY DEF Ahead, w
  <2>2. r \in Live(seg)
        BY <1>1, <2>1 DEF Wanted, LiveAt, seg
  <2>3. \E q \in ranges : r \in RowsIn(q)
        BY <1>3, <1>5, <2>1, <2>2
  <2> QED BY <1>7, <2>1, <2>3 DEF Ahead
<1> QED BY <1>7, <1>8, <1>9, <1>11, <1>12, <1>13, <1>14 DEF Local

\* A function on an interval from 1 is a sequence.
LEMMA FunctionIsSeq ==
    ASSUME NEW U, NEW n \in Nat, NEW f \in [1..n -> U]
    PROVE  f \in Seq(U) /\ Len(f) = n /\ DOMAIN f = 1..n
OBVIOUS

\* Batches put after one another.
LEMMA JoinedBatches ==
    ASSUME NEW T, NEW a \in Seq(Seq(T)), NEW b \in Seq(Seq(T))
    PROVE  /\ a \o b \in Seq(Seq(T))
           /\ \A k \in DOMAIN (a \o b) :
                 \/ k \in DOMAIN a /\ (a \o b)[k] = a[k]
                 \/ k - Len(a) \in DOMAIN b /\ (a \o b)[k] = b[k - Len(a)]
           /\ \A k \in DOMAIN a : k \in DOMAIN (a \o b) /\ (a \o b)[k] = a[k]
           /\ \A k \in DOMAIN b : Len(a) + k \in DOMAIN (a \o b) /\ (a \o b)[Len(a) + k] = b[k]
           /\ \A k \in DOMAIN a : k \notin {Len(a) + j : j \in DOMAIN b}
           /\ Len(a) \in Nat /\ DOMAIN a \subseteq Nat /\ DOMAIN b \subseteq Nat
           /\ DOMAIN (a \o b) \subseteq Nat
<1> DEFINE U == Seq(T)
<1> HIDE DEF U
<1>1. a \in Seq(U) /\ b \in Seq(U)
      BY DEF U
<1>2. /\ a \o b \in Seq(U) /\ Len(a \o b) = Len(a) + Len(b)
      /\ \A k \in 1..(Len(a) + Len(b)) :
            (a \o b)[k] = IF k <= Len(a) THEN a[k] ELSE b[k - Len(a)]
      BY <1>1
<1>3. /\ Len(a) \in Nat /\ Len(b) \in Nat /\ DOMAIN a = 1..Len(a) /\ DOMAIN b = 1..Len(b)
      /\ DOMAIN (a \o b) = 1..(Len(a) + Len(b))
      BY <1>1, <1>2
<1> QED BY <1>2, <1>3 DEF U

EachFrom(c, a, b) ==
    \A k \in DOMAIN c : \/ \E j \in DOMAIN a : c[k] = a[j]
                        \/ \E j \in DOMAIN b : c[k] = b[j]

\* Each batch of two queues put together is a batch of one of them.
LEMMA JoinedEach ==
    ASSUME NEW T, NEW a \in Seq(Seq(T)), NEW b \in Seq(Seq(T))
    PROVE  EachFrom(a \o b, a, b)
<1>1. \A k \in DOMAIN (a \o b) :
          \/ k \in DOMAIN a /\ (a \o b)[k] = a[k]
          \/ k - Len(a) \in DOMAIN b /\ (a \o b)[k] = b[k - Len(a)]
      BY JoinedBatches
<1> QED BY <1>1 DEF EachFrom

\* What is in one of two queues is in both put together.
LEMMA JoinedIn ==
    ASSUME NEW T, NEW a \in Seq(Seq(T)), NEW b \in Seq(Seq(T)), NEW x,
           InBatches(a, x) \/ InBatches(b, x)
    PROVE  InBatches(a \o b, x)
<1>1. /\ \A k \in DOMAIN a : k \in DOMAIN (a \o b) /\ (a \o b)[k] = a[k]
      /\ \A k \in DOMAIN b : Len(a) + k \in DOMAIN (a \o b) /\ (a \o b)[Len(a) + k] = b[k]
      BY JoinedBatches
<1>2. CASE InBatches(a, x)
      BY <1>1, <1>2 DEF InBatches
<1>3. CASE InBatches(b, x)
  <2>1. PICK k \in DOMAIN b : \E i \in DOMAIN b[k] : b[k][i] = x
        BY <1>3 DEF InBatches
  <2>2. Len(a) + k \in DOMAIN (a \o b) /\ (a \o b)[Len(a) + k] = b[k]
        BY <1>1
  <2> QED BY <2>1, <2>2 DEF InBatches
<1> QED BY <1>2, <1>3

\* Two queues with no row twice, and none in both, make one.
LEMMA JoinedDistinct ==
    ASSUME NEW T, NEW a \in Seq(Seq(T)), NEW b \in Seq(Seq(T)), Distinct(a), Distinct(b),
           \A k \in DOMAIN a, m \in DOMAIN b : \A i \in DOMAIN a[k], j \in DOMAIN b[m] :
               a[k][i] # b[m][j]
    PROVE  Distinct(a \o b)
<1>1. /\ \A k \in DOMAIN (a \o b) :
            \/ k \in DOMAIN a /\ (a \o b)[k] = a[k]
            \/ k - Len(a) \in DOMAIN b /\ (a \o b)[k] = b[k - Len(a)]
      /\ Len(a) \in Nat /\ DOMAIN a \subseteq Nat /\ DOMAIN b \subseteq Nat
      /\ DOMAIN (a \o b) \subseteq Nat
      BY JoinedBatches
<1> DEFINE ab == a \o b
<1> HIDE DEF ab
<1> SUFFICES ASSUME NEW k \in DOMAIN ab, NEW m \in DOMAIN ab,
                    NEW i \in DOMAIN ab[k], NEW j \in DOMAIN ab[m], ab[k][i] = ab[m][j]
             PROVE  k = m /\ i = j
    BY DEF Distinct, ab
<1>2. /\ (k \in DOMAIN a /\ ab[k] = a[k]) \/ (k - Len(a) \in DOMAIN b /\ ab[k] = b[k - Len(a)])
      /\ (m \in DOMAIN a /\ ab[m] = a[m]) \/ (m - Len(a) \in DOMAIN b /\ ab[m] = b[m - Len(a)])
      BY <1>1 DEF ab
<1>3. CASE k \in DOMAIN a /\ ab[k] = a[k] /\ m \in DOMAIN a /\ ab[m] = a[m]
      BY <1>3 DEF Distinct
<1>4. CASE /\ k - Len(a) \in DOMAIN b /\ ab[k] = b[k - Len(a)]
           /\ m - Len(a) \in DOMAIN b /\ ab[m] = b[m - Len(a)]
  <2>1. k - Len(a) = m - Len(a) /\ i = j
        BY <1>4 DEF Distinct
  <2>2. k \in Nat /\ m \in Nat /\ Len(a) \in Nat
        BY <1>1 DEF ab
  <2> QED BY <2>1, <2>2
<1>5. CASE /\ k \in DOMAIN a /\ ab[k] = a[k]
           /\ m - Len(a) \in DOMAIN b /\ ab[m] = b[m - Len(a)]
      BY <1>5
<1>6. CASE /\ m \in DOMAIN a /\ ab[m] = a[m]
           /\ k - Len(a) \in DOMAIN b /\ ab[k] = b[k - Len(a)]
      BY <1>6
<1> QED BY <1>2, <1>3, <1>4, <1>5, <1>6

\* The batches of a range, as rows of a piece of work.
Tagged(w, batches) ==
    [b \in DOMAIN batches |-> [i \in DOMAIN batches[b] |-> <<w, batches[b][i]>>]]

\* Rows named with their piece of work are cut as the positions are.
LEMMA TaggedIs ==
    ASSUME NEW w \in Items, NEW batches \in Seq(Seq(Nat)), Distinct(batches)
    PROVE  LET rows == Tagged(w, batches) IN
           /\ rows \in Seq(Seq(Places)) /\ Distinct(rows)
           /\ DOMAIN rows = DOMAIN batches
           /\ \A k \in DOMAIN batches :
                 /\ DOMAIN rows[k] = DOMAIN batches[k] /\ Len(rows[k]) = Len(batches[k])
                 /\ \A i \in DOMAIN batches[k] : rows[k][i] = <<w, batches[k][i]>>
           /\ \A r : InBatches(batches, r) => InBatches(rows, <<w, r>>)
<1> DEFINE rows == Tagged(w, batches)
<1>1. DOMAIN batches = 1..Len(batches) /\ Len(batches) \in Nat
      OBVIOUS
<1>2. \A k \in DOMAIN batches : batches[k] \in Seq(Nat)
      BY ElementOfSeq, <1>1
<1>3. DOMAIN rows = DOMAIN batches
      /\ \A k \in DOMAIN batches : rows[k] = [i \in DOMAIN batches[k] |-> <<w, batches[k][i]>>]
      BY DEF Tagged
<1>4. rows = [k \in DOMAIN batches |-> rows[k]]
      BY DEF Tagged
<1> HIDE DEF rows
<1>5. ASSUME NEW k \in DOMAIN batches
      PROVE  /\ rows[k] \in Seq(Places)
             /\ DOMAIN rows[k] = DOMAIN batches[k] /\ Len(rows[k]) = Len(batches[k])
             /\ \A i \in DOMAIN batches[k] : rows[k][i] = <<w, batches[k][i]>>
  <2> DEFINE c == batches[k]
             d == rows[k]
  <2>1. c \in Seq(Nat) /\ d = [i \in DOMAIN c |-> <<w, c[i]>>]
        BY <1>2, <1>3
  <2> HIDE DEF c, d
  <2>2. DOMAIN c = 1..Len(c) /\ Len(c) \in Nat /\ \A i \in DOMAIN c : <<w, c[i]>> \in Places
        BY <2>1 DEF Places
  <2>3. d \in [1..Len(c) -> Places] /\ \A i \in DOMAIN c : d[i] = <<w, c[i]>>
        BY <2>1, <2>2
  <2>4. DOMAIN d = DOMAIN c
        BY <2>2, <2>3
  <2>5. d \in Seq(Places)
    <3> DEFINE n == Len(c)
    <3>1. n \in Nat /\ d \in [1..n -> Places]
          BY <2>2, <2>3
    <3> HIDE DEF n
    <3> QED BY <3>1, SMTT(30)
  <2>6. Len(d) = Len(c)
        BY <2>2, <2>4, <2>5
  <2> QED BY <2>3, <2>4, <2>5, <2>6 DEF c, d
<1>6. rows \in Seq(Seq(Places))
  <2> DEFINE U == Seq(Places)
  <2>1. rows \in [1..Len(batches) -> U]
        BY <1>1, <1>5, <1>4
  <2> HIDE DEF U
  <2>2. rows \in Seq(U)
        BY <1>1, <2>1, FunctionIsSeq
  <2> QED BY <2>2 DEF U
<1>7. Distinct(rows)
  <2> SUFFICES ASSUME NEW k \in DOMAIN batches, NEW m \in DOMAIN batches,
                      NEW i \in DOMAIN batches[k], NEW j \in DOMAIN batches[m],
                      rows[k][i] = rows[m][j]
               PROVE  k = m /\ i = j
      BY <1>3, <1>5 DEF Distinct
  <2>1. batches[k][i] = batches[m][j]
        BY <1>5
  <2> QED BY <2>1 DEF Distinct
<1>8. ASSUME NEW r, InBatches(batches, r) PROVE InBatches(rows, <<w, r>>)
  <2>1. PICK k \in DOMAIN batches : \E i \in DOMAIN batches[k] : batches[k][i] = r
        BY <1>8 DEF InBatches
  <2>2. PICK i \in DOMAIN batches[k] : batches[k][i] = r
        BY <2>1
  <2>3. k \in DOMAIN rows /\ i \in DOMAIN rows[k] /\ rows[k][i] = <<w, r>>
        BY <1>3, <1>5, <2>2
  <2> QED BY <2>3 DEF InBatches
<1> QED BY <1>3, <1>5, <1>6, <1>7, <1>8 DEF rows

\* What decoding a range of a segment adds to the queue: its live rows.
RowsOf(in, w, seg, range, rows) ==
    /\ rows \in Seq(Seq(Places)) /\ Distinct(rows)
    /\ \A k \in DOMAIN rows : WellCut(seg, rows[k])
    /\ \A k \in DOMAIN rows : \A i \in DOMAIN rows[k] :
          /\ rows[k][i][1] = w /\ rows[k][i][2] \in RowsIn(range)
          /\ LiveAt(in, w, rows[k][i][2])
    /\ \A r \in RowsIn(range) \cap Live(seg) : InBatches(rows, <<w, r>>)

\* DecodeRange adds exactly that.
LEMMA DecodeRows ==
    ASSUME NEW in, Given(in), NEW pl, PlanOK(in, pl), NEW n \in Nat,
           NEW s, Local(in, pl, n, s), s.state = "decode", NEW range \in s.ranges,
           NEW w, w = s.item, NEW seg, seg = in.segments[w.at],
           NEW rows, rows = Tagged(w, DecodeRange(seg, range))
    PROVE  RowsOf(in, w, seg, range, rows)
<1> DEFINE batches == DecodeRange(seg, range)
<1>1. s \in Streams /\ Busy(s) /\ w.kind = "segment"
      BY DEF Local, Placed, Busy
<1>2. w \in Items /\ w.at \in DOMAIN in.segments
      BY <1>1, ItemOf
<1>3. RowCount(seg) \in Nat
      BY <1>2, GivenSegment
<1>4. /\ WellRanged(s.ranges, RowCount(seg)) /\ \A q \in s.ranges : OneBlock(seg, q)
      BY DEF Local, Ranged
<1>5. range[1] \in Nat /\ range[2] \in Nat /\ RowsIn(range) \subseteq 0..(RowCount(seg) - 1)
      BY <1>3, <1>4 DEF WellRanged, RowsIn
<1>6. /\ batches \in Seq(Seq(Nat)) /\ Distinct(batches)
      /\ \A k \in DOMAIN batches :
            /\ batches[k] # <<>>
            /\ ScanBatchRows > 0 => Len(batches[k]) <= ScanBatchRows
            /\ \A i \in DOMAIN batches[k] : batches[k][i] \in RowsIn(range) \ seg.deletes
      /\ \A r \in RowsIn(range) \ seg.deletes : InBatches(batches, r)
      BY <1>5, DecodeFits
<1> HIDE DEF batches
<1>7. /\ rows \in Seq(Seq(Places)) /\ Distinct(rows)
      /\ DOMAIN rows = DOMAIN batches
      /\ \A k \in DOMAIN batches :
            /\ DOMAIN rows[k] = DOMAIN batches[k] /\ Len(rows[k]) = Len(batches[k])
            /\ \A i \in DOMAIN batches[k] : rows[k][i] = <<w, batches[k][i]>>
      /\ \A r : InBatches(batches, r) => InBatches(rows, <<w, r>>)
  <2>1. rows = Tagged(w, batches)
        BY DEF batches
  <2> QED BY <1>2, <1>6, <2>1, TaggedIs
<1>8. ASSUME NEW k \in DOMAIN rows, NEW i \in DOMAIN rows[k]
      PROVE  /\ rows[k][i][1] = w /\ rows[k][i][2] \in RowsIn(range)
             /\ LiveAt(in, w, rows[k][i][2])
  <2>1. rows[k][i] = <<w, batches[k][i]>> /\ batches[k][i] \in RowsIn(range) \ seg.deletes
        BY <1>6, <1>7
  <2>2. batches[k][i] \in Live(seg)
        BY <1>5, <2>1 DEF Live
  <2> QED BY <1>1, <1>2, <2>1, <2>2 DEF LiveAt
<1>9. ASSUME NEW k \in DOMAIN rows
      PROVE  WellCut(seg, rows[k])
  <2>1. k \in DOMAIN batches /\ batches[k] \in Seq(Nat) /\ batches[k] # <<>>
        BY <1>6, <1>7
  <2>2. Len(batches[k]) # 0 /\ Len(rows[k]) = Len(batches[k])
        BY <1>7, <2>1
  <2>3. rows[k] # <<>> /\ (ScanBatchRows > 0 => Len(rows[k]) <= ScanBatchRows)
        BY <1>6, <2>1, <2>2
  <2>4. StoredBlockRows(seg) > 0 => \A i, j \in DOMAIN rows[k] :
            rows[k][i][2] \div StoredBlockRows(seg) = rows[k][j][2] \div StoredBlockRows(seg)
        BY <1>4, <1>8 DEF OneBlock
  <2> QED BY <2>3, <2>4 DEF WellCut
<1>10. \A r \in RowsIn(range) \cap Live(seg) : InBatches(rows, <<w, r>>)
      BY <1>6, <1>7 DEF Live
<1>11. \A k \in DOMAIN rows : WellCut(seg, rows[k])
      BY <1>9
<1>12. \A k \in DOMAIN rows : \A i \in DOMAIN rows[k] :
          /\ rows[k][i][1] = w /\ rows[k][i][2] \in RowsIn(range)
          /\ LiveAt(in, w, rows[k][i][2])
      BY <1>8
<1>13. rows \in Seq(Seq(Places)) /\ Distinct(rows)
      BY <1>7
<1> QED BY ONLY <1>10, <1>11, <1>12, <1>13 DEF RowsOf

\* One range more is decoded: its live rows join the queue.
LEMMA DecodeLocal ==
    ASSUME NEW in, Given(in), NEW pl, PlanOK(in, pl), NEW n \in Nat,
           NEW s, Local(in, pl, n, s), s.state = "decode", NEW range \in s.ranges,
           NEW rows, rows = Tagged(s.item, DecodeRange(in.segments[s.item.at], range)),
           NEW t \in Streams, t.state = "decode", t.item = s.item, t.ranges = s.ranges \ {range},
           t.queue = s.queue \o rows, t.budget = s.budget, t.out = s.out
    PROVE  /\ Local(in, pl, n, t) /\ Has(t) \subseteq Has(s) /\ Carries(in, s, t)
<1> DEFINE w == s.item
           seg == in.segments[w.at]
<1>1. s \in Streams /\ Busy(s) /\ w.kind = "segment"
      BY DEF Local, Placed, Busy
<1>2. s.queue \in Seq(Seq(Places))
      BY <1>1 DEF Streams
<1>3. RowsOf(in, w, seg, range, rows)
      BY DecodeRows
<1>4. WellRanged(s.ranges, RowCount(seg)) /\ \A q \in s.ranges : OneBlock(seg, q)
      BY DEF Local, Ranged
<1>5. /\ rows \in Seq(Seq(Places)) /\ Distinct(rows)
      /\ \A k \in DOMAIN rows :
            /\ WellCut(seg, rows[k])
            /\ \A i \in DOMAIN rows[k] :
                  /\ rows[k][i][1] = w /\ rows[k][i][2] \in RowsIn(range)
                  /\ LiveAt(in, w, rows[k][i][2])
      /\ \A r \in RowsIn(range) \cap Live(seg) : InBatches(rows, <<w, r>>)
      /\ WellRanged(s.ranges, RowCount(seg))
      /\ \A q \in s.ranges : OneBlock(seg, q)
  <2> HIDE DEF w, seg
  <2> QED BY ONLY <1>3, <1>4 DEF RowsOf
<1>6. \A k \in DOMAIN t.queue : \/ \E j \in DOMAIN s.queue : t.queue[k] = s.queue[j]
                                \/ \E j \in DOMAIN rows : t.queue[k] = rows[j]
  <2>1. rows \in Seq(Seq(Places))
        BY <1>5
  <2>2. EachFrom(s.queue \o rows, s.queue, rows)
        BY ONLY <1>2, <2>1, JoinedEach
  <2>3. EachFrom(t.queue, s.queue, rows)
        BY ONLY <2>2, t.queue = s.queue \o rows
  <2> QED BY ONLY <2>3 DEF EachFrom
<1>7. /\ \A k \in DOMAIN s.queue : \A i \in DOMAIN s.queue[k] :
             /\ s.queue[k][i][1] = w /\ s.queue[k][i] \notin ToSet(s.out)
             /\ LiveAt(in, w, s.queue[k][i][2])
             /\ \A q \in s.ranges : s.queue[k][i][2] \notin RowsIn(q)
      /\ Distinct(s.queue)
      /\ \A i, j \in DOMAIN s.out : s.out[i] = s.out[j] => i = j
      /\ \A x \in ToSet(s.out) : x[1] # w
      BY DEF Local, Once, Fits, Ranged
<1>8. Has(t) = Has(s)
      BY <1>1 DEF Has, Busy
<1>9. Placed(in, pl, n, t) /\ Budgeted(in, t)
      BY <1>1, <1>8, Untouched
<1>10. Distinct(t.queue)
  <2>1. \A k \in DOMAIN s.queue, m \in DOMAIN rows :
            \A i \in DOMAIN s.queue[k], j \in DOMAIN rows[m] : s.queue[k][i] # rows[m][j]
        BY <1>5, <1>7
  <2> QED BY <1>2, <1>5, <1>7, <2>1, JoinedDistinct
<1>11. ASSUME NEW k \in DOMAIN t.queue, NEW i \in DOMAIN t.queue[k]
      PROVE  /\ t.queue[k][i][1] = w /\ t.queue[k][i] \notin ToSet(s.out)
             /\ LiveAt(in, w, t.queue[k][i][2])
             /\ \A q \in t.ranges : t.queue[k][i][2] \notin RowsIn(q)
  <2>1. CASE \E j \in DOMAIN s.queue : t.queue[k] = s.queue[j]
        BY <1>7, <2>1
  <2>2. CASE \E j \in DOMAIN rows : t.queue[k] = rows[j]
    <3>1. /\ t.queue[k][i][1] = w /\ t.queue[k][i][2] \in RowsIn(range)
          /\ LiveAt(in, w, t.queue[k][i][2])
          BY <1>5, <2>2
    <3>2. \A q \in t.ranges : q \in s.ranges /\ q # range
          OBVIOUS
    <3>3. \A q \in t.ranges : t.queue[k][i][2] \notin RowsIn(q)
          BY <1>5, <3>1, <3>2 DEF WellRanged
    <3> QED BY <1>7, <3>1, <3>3
  <2> QED BY <1>6, <2>1, <2>2
<1>12. Once(t)
      BY <1>7, <1>10, <1>11 DEF Once
<1>13. Fits(in, t)
  <2>1. \A k \in DOMAIN s.queue : WellCut(seg, s.queue[k])
        BY <1>1 DEF Local, Fits
  <2>2. \A k \in DOMAIN t.queue : WellCut(seg, t.queue[k])
        BY <1>5, <1>6, <2>1
  <2> QED BY <1>11, <2>2 DEF Fits
<1>14. Ranged(in, t)
  <2>1. WellRanged(t.ranges, RowCount(seg))
        BY <1>5 DEF WellRanged
  <2> QED BY <1>5, <1>11, <2>1 DEF Ranged
<1>15. Carries(in, s, t)
  <2> SUFFICES ASSUME NEW v, NEW r, Wanted(in, <<v, r>>), Ahead(s, <<v, r>>)
               PROVE  Ahead(t, <<v, r>>)
      BY DEF Carries
  <2>1. /\ v = w
        /\ InBatches(s.queue, <<v, r>>) \/ \E q \in s.ranges : r \in RowsIn(q)
        BY DEF Ahead
  <2>2. r \in Live(seg)
        BY <1>1, <2>1 DEF Wanted, LiveAt
  <2>3. InBatches(t.queue, <<v, r>>) \/ \E q \in t.ranges : r \in RowsIn(q)
    <3>1. CASE InBatches(s.queue, <<v, r>>)
          BY <1>2, <1>5, <3>1, JoinedIn
    <3>2. CASE r \in RowsIn(range)
      <4>1. InBatches(rows, <<v, r>>)
            BY <1>5, <2>1, <2>2, <3>2
      <4> QED BY <1>2, <1>5, <4>1, JoinedIn
    <3>3. CASE \E q \in s.ranges : q # range /\ r \in RowsIn(q)
          BY <3>3
    <3> QED BY <2>1, <3>1, <3>2, <3>3
  <2> QED BY <2>1, <2>3 DEF Ahead
<1> QED BY <1>8, <1>9, <1>12, <1>13, <1>14, <1>15 DEF Local

\* All ranges are decoded.
LEMMA DecodedLocal ==
    ASSUME NEW in, Given(in), NEW pl, PlanOK(in, pl), NEW n \in Nat,
           NEW s, Local(in, pl, n, s), s.state = "decode", s.ranges = {},
           NEW t, t = [s EXCEPT !.state = IF s.queue = <<>> THEN "take" ELSE "emit"]
    PROVE  /\ Local(in, pl, n, t) /\ Has(t) \subseteq Has(s)
           /\ t.out = s.out /\ t.budget = s.budget /\ Carries(in, s, t)
<1>1. s \in Streams /\ Busy(s)
      BY DEF Local, Placed, Busy
<1>2. /\ t.state = (IF s.queue = <<>> THEN "take" ELSE "emit")
      /\ t.item = s.item /\ t.keep = s.keep /\ t.ranges = s.ranges
      /\ t.queue = s.queue /\ t.budget = s.budget /\ t.out = s.out /\ t \in Streams
      BY <1>1 DEF Streams, States
<1>3. Has(t) \subseteq Has(s)
      BY <1>1, <1>2 DEF Has
<1>4. Placed(in, pl, n, t) /\ Budgeted(in, t)
  <2>1. t.state \notin {"read", "decode", "done"}
        BY <1>2
  <2> QED BY <1>2, <1>3, <2>1, Untouched
<1>5. Once(t)
      BY <1>2 DEF Local, Once
<1>6. Fits(in, t)
      BY <1>2 DEF Local, Fits
<1>7. Ranged(in, t)
      BY <1>2 DEF Ranged
<1>8. Carries(in, s, t)
  <2> SUFFICES ASSUME NEW v, NEW r, Wanted(in, <<v, r>>), Ahead(s, <<v, r>>)
               PROVE  Ahead(t, <<v, r>>)
      BY DEF Carries
  <2>1. v = s.item /\ InBatches(s.queue, <<v, r>>)
        BY DEF Ahead
  <2>2. s.queue # <<>>
        BY <2>1 DEF InBatches
  <2> QED BY <1>2, <2>1, <2>2 DEF Ahead
<1> QED BY <1>2, <1>3, <1>4, <1>5, <1>6, <1>7, <1>8 DEF Local

----------------------------------------------------------------------------
(* Handing on a batch.                                                     *)

\* How many rows of a batch of n fit what is left of a budget.
Fit(budget, n) ==
    IF budget = Null \/ budget >= n THEN n ELSE IF budget >= 0 THEN budget ELSE 0

\* apply_budget hands on a prefix.
LEMMA FittingIs ==
    ASSUME NEW T, NEW batch \in Seq(T), NEW budget \in Int \cup {Null}
    PROVE  LET fit == Fitting(budget, batch)
               m == Fit(budget, Len(batch))
           IN  /\ m \in 0..Len(batch) /\ fit \in Seq(T) /\ Len(fit) = m
               /\ \A i \in 1..m : fit[i] = batch[i]
<1> DEFINE m == Fit(budget, Len(batch))
<1>1. Len(batch) \in Nat /\ Null \notin Int
      BY PruningAssumption
<1>2. m \in 0..Len(batch)
      BY <1>1 DEF Fit
<1>3. CASE budget = Null
  <2>1. Fitting(budget, batch) = batch /\ m = Len(batch)
        BY <1>3 DEF Fitting, Fit
  <2> QED BY <1>2, <2>1
<1>4. CASE budget # Null
  <2>1. budget \in Int
        BY <1>4
  <2> DEFINE top == Max({budget, 0})
             least == Min({Len(batch), top})
  <2>2. top = IF budget <= 0 THEN 0 ELSE budget
        BY <2>1, MaxOfTwo
  <2> HIDE DEF top
  <2>3. top \in Int /\ top = IF budget >= 0 THEN budget ELSE 0
        BY <2>1, <2>2
  <2>4. least = IF Len(batch) <= top THEN Len(batch) ELSE top
        BY <1>1, <2>3, MinOfTwo
  <2> HIDE DEF least
  <2>5. least = m
        BY <1>1, <1>4, <2>1, <2>3, <2>4 DEF Fit
  <2>6. Fitting(budget, batch) = SubSeq(batch, 1, m)
        BY <1>4, <2>5 DEF Fitting, least, top
  <2> HIDE DEF m
  <2>7. /\ SubSeq(batch, 1, m) \in Seq(T) /\ Len(SubSeq(batch, 1, m)) = m
        /\ \A i \in 1..m : SubSeq(batch, 1, m)[i] = batch[i]
        BY <1>1, <1>2
  <2> QED BY <1>2, <2>6, <2>7 DEF m
<1> QED BY <1>3, <1>4

\* c is a with the first m elements of b behind it.
Longer(c, a, b, m) ==
    /\ Len(c) = Len(a) + m
    /\ DOMAIN a \subseteq Nat /\ Len(a) \in Nat /\ DOMAIN c \subseteq Nat
    /\ \A i \in DOMAIN c :
          \/ i \in DOMAIN a /\ c[i] = a[i]
          \/ i - Len(a) \in DOMAIN b /\ c[i] = b[i - Len(a)]
    /\ \A i \in DOMAIN a : i \in DOMAIN c /\ c[i] = a[i]
    /\ \A i \in DOMAIN b : i <= m => Len(a) + i \in DOMAIN c /\ c[Len(a) + i] = b[i]

\* Appending a prefix makes a longer sequence.
LEMMA Extended ==
    ASSUME NEW T, NEW a \in Seq(T), NEW b \in Seq(T), NEW m \in 0..Len(b),
           NEW f \in Seq(T), Len(f) = m, \A i \in 1..m : f[i] = b[i]
    PROVE  a \o f \in Seq(T) /\ Longer(a \o f, a, b, m)
<1>1. /\ a \o f \in Seq(T) /\ Len(a \o f) = Len(a) + m
      /\ \A k \in 1..(Len(a) + m) : (a \o f)[k] = IF k <= Len(a) THEN a[k] ELSE f[k - Len(a)]
      OBVIOUS
<1>2. /\ Len(a) \in Nat /\ Len(b) \in Nat /\ DOMAIN a = 1..Len(a) /\ DOMAIN b = 1..Len(b)
      /\ DOMAIN (a \o f) = 1..(Len(a) + m)
      BY <1>1
<1> QED BY <1>1, <1>2 DEF Longer

\* What a longer sequence holds.
LEMMA LongerHolds ==
    ASSUME NEW c, NEW a, NEW b, NEW m, Longer(c, a, b, m)
    PROVE  /\ ToSet(a) \subseteq ToSet(c)
           /\ \A x \in ToSet(c) : x \in ToSet(a) \/ \E i \in DOMAIN b : x = b[i]
           /\ \A i \in DOMAIN b : i <= m => b[i] \in ToSet(c)
<1>1. ToSet(a) \subseteq ToSet(c)
      BY DEF ToSet, Longer
<1>2. ASSUME NEW x \in ToSet(c) PROVE x \in ToSet(a) \/ \E i \in DOMAIN b : x = b[i]
  <2>1. PICK i \in DOMAIN c : x = c[i]
        BY DEF ToSet
  <2>2. \/ i \in DOMAIN a /\ c[i] = a[i]
        \/ i - Len(a) \in DOMAIN b /\ c[i] = b[i - Len(a)]
        BY DEF Longer
  <2> QED BY <2>1, <2>2 DEF ToSet
<1>3. \A i \in DOMAIN b : i <= m => b[i] \in ToSet(c)
      BY DEF ToSet, Longer
<1> QED BY <1>1, <1>2, <1>3

\* A queue without its first batch.
LEMMA RestOf ==
    ASSUME NEW T, NEW q \in Seq(Seq(T)), q # <<>>
    PROVE  /\ Head(q) = q[1] /\ 1 \in DOMAIN q /\ q[1] \in Seq(T) /\ Tail(q) \in Seq(Seq(T))
           /\ \A k \in DOMAIN Tail(q) : k \in Nat /\ k + 1 \in DOMAIN q /\ k + 1 # 1
                                        /\ Tail(q)[k] = q[k + 1]
           /\ \A k \in DOMAIN q : k # 1 => k - 1 \in DOMAIN Tail(q) /\ Tail(q)[k - 1] = q[k]
           /\ Len(q) = 1 <=> Tail(q) = <<>>
<1> DEFINE U == Seq(T)
<1> HIDE DEF U
<1>1. q \in Seq(U)
      BY DEF U
<1>2. Len(q) \in Nat /\ Len(q) # 0 /\ DOMAIN q = 1..Len(q)
      BY <1>1
<1>3. /\ Tail(q) \in Seq(U) /\ Len(Tail(q)) = Len(q) - 1 /\ DOMAIN Tail(q) = 1..(Len(q) - 1)
      /\ \A k \in 1..(Len(q) - 1) : Tail(q)[k] = q[k + 1]
      BY <1>1, <1>2
<1>4. Head(q) = q[1] /\ 1 \in DOMAIN q /\ q[1] \in U
      BY <1>1, <1>2, ElementOfSeq
<1>5. Len(q) = 1 <=> Tail(q) = <<>>
  <2> DEFINE rest == Tail(q)
  <2>1. rest \in Seq(U) /\ Len(rest) = Len(q) - 1
        BY <1>3
  <2> HIDE DEF rest
  <2>2. rest = <<>> <=> Len(rest) = 0
        BY <2>1, EmptySeq
  <2>3. rest = <<>> <=> Len(q) = 1
        BY <1>2, <2>1, <2>2
  <2> QED BY <2>3 DEF rest
<1>6. \A k \in DOMAIN q : k # 1 => k - 1 \in DOMAIN Tail(q) /\ Tail(q)[k - 1] = q[k]
  <2> SUFFICES ASSUME NEW k \in DOMAIN q, k # 1
               PROVE  k - 1 \in DOMAIN Tail(q) /\ Tail(q)[k - 1] = q[k]
      OBVIOUS
  <2>1. k - 1 \in 1..(Len(q) - 1) /\ (k - 1) + 1 = k
        BY <1>2
  <2> QED BY <1>3, <2>1
<1> QED BY <1>2, <1>3, <1>4, <1>5, <1>6 DEF U

\* What is left when z rows or fewer, up to the budget, follow o.
LEMMA BudgetLeft ==
    ASSUME NEW b \in Int, NEW z \in Nat, NEW limit \in Nat, NEW o, NEW m, NEW c, NEW d,
           o = IF b >= 0 THEN limit - b ELSE limit, d = b - z,
           m = IF b >= z THEN z ELSE IF b >= 0 THEN b ELSE 0, c = o + m
    PROVE  c = IF d >= 0 THEN limit - d ELSE limit
<1>1. CASE b >= z
      BY <1>1
<1>2. CASE b >= 0 /\ ~(b >= z)
      BY <1>2
<1>3. CASE ~(b >= 0)
      BY <1>3
<1> QED BY <1>1, <1>2, <1>3

\* A batch is handed on, up to the budget.
LEMMA EmitLocal ==
    ASSUME NEW in, Given(in), NEW pl, PlanOK(in, pl), NEW n \in Nat,
           NEW s, Local(in, pl, n, s), s.state = "emit",
           NEW t, t.out = s.out \o Fitting(s.budget, Head(s.queue)),
           t.budget = IF s.budget = Null THEN Null ELSE s.budget - Len(Head(s.queue)),
           t.queue = Tail(s.queue), t.state = IF Len(s.queue) = 1 THEN "take" ELSE "emit",
           t.item = s.item,
           \* the other fields
           t.out \in Seq(Places) /\ t.budget \in Int \cup {Null} /\ t.queue \in Seq(Seq(Places))
               => t \in Streams
    PROVE  /\ Local(in, pl, n, t) /\ Has(t) \subseteq Has(s)
           /\ ToSet(s.out) \subseteq ToSet(t.out)
           /\ Uncut(t) => Uncut(s) /\ Carries(in, s, t)
<1> DEFINE w == s.item
           q == s.queue
           batch == q[1]
           rest == Tail(q)
           m == Fit(s.budget, Len(batch))
           fit == Fitting(s.budget, batch)
<1>1. s \in Streams /\ Busy(s) /\ q # <<>>
      BY DEF Local, Placed, Busy, Once
<1>2. q \in Seq(Seq(Places)) /\ s.out \in Seq(Places) /\ s.budget \in Int \cup {Null}
      BY <1>1 DEF Streams
<1>3. w \in Items /\ w \in Has(s)
      BY <1>1, ItemOf
<1> HIDE DEF q
<1>4. /\ Head(q) = batch /\ 1 \in DOMAIN q /\ batch \in Seq(Places) /\ rest \in Seq(Seq(Places))
      /\ \A k \in DOMAIN rest : k \in Nat /\ k + 1 \in DOMAIN q /\ k + 1 # 1
                                   /\ rest[k] = q[k + 1]
      /\ \A k \in DOMAIN q : k # 1 => k - 1 \in DOMAIN rest /\ rest[k - 1] = q[k]
      /\ Len(q) = 1 <=> rest = <<>>
      BY <1>1, <1>2, RestOf
<1>5. /\ m \in 0..Len(batch) /\ fit \in Seq(Places) /\ Len(fit) = m
      /\ \A i \in 1..m : fit[i] = batch[i]
      BY <1>2, <1>4, FittingIs
<1>6. t.out = s.out \o fit /\ t.queue = rest
      /\ t.budget = IF s.budget = Null THEN Null ELSE s.budget - Len(batch)
      BY <1>4 DEF q
<1>7. Len(batch) \in Nat /\ DOMAIN batch = 1..Len(batch)
      BY <1>4
<1> HIDE DEF w, batch, m, fit, rest
<1>8. t.out \in Seq(Places) /\ Longer(t.out, s.out, batch, m)
  <2> DEFINE a == s.out
  <2>1. a \in Seq(Places)
        BY <1>2
  <2> HIDE DEF a
  <2>2. a \o fit \in Seq(Places) /\ Longer(a \o fit, a, batch, m)
        BY <1>4, <1>5, <2>1, Extended
  <2> QED BY <1>6, <2>2 DEF a
<1>9. /\ \A k \in DOMAIN q : \A i \in DOMAIN q[k] :
            /\ q[k][i][1] = w /\ q[k][i] \notin ToSet(s.out) /\ LiveAt(in, w, q[k][i][2])
      /\ \A i, j \in DOMAIN s.out : s.out[i] = s.out[j] => i = j
      /\ Distinct(q)
      BY DEF Local, Once, Fits, q, w
<1>10. ToSet(s.out) \subseteq ToSet(t.out)
      BY <1>8, LongerHolds
<1>11. \A x \in ToSet(t.out) : x \in ToSet(s.out) \/ \E i \in DOMAIN batch : x = batch[i]
      BY <1>8, LongerHolds
<1>12. t \in Streams
  <2>1. t.budget \in Int \cup {Null}
        BY <1>2, <1>6, <1>7
  <2> QED BY <1>4, <1>6, <1>8, <2>1
<1>13. Has(t) \subseteq Has(s)
  <2> SUFFICES ASSUME NEW v \in Has(t) PROVE v \in Has(s)
      OBVIOUS
  <2>1. CASE v = w
        BY <1>3, <2>1
  <2>2. CASE \E x \in ToSet(t.out) : v = x[1]
    <3>1. PICK x \in ToSet(t.out) : v = x[1]
          BY <2>2
    <3>2. CASE x \in ToSet(s.out)
          BY <3>1, <3>2 DEF Has
    <3>3. CASE \E i \in DOMAIN batch : x = batch[i]
          BY <1>3, <1>4, <1>9, <3>1, <3>3 DEF batch
    <3> QED BY <1>11, <3>2, <3>3
  <2> QED BY <2>1, <2>2 DEF Has, w
<1>14. Placed(in, pl, n, t)
  <2>1. \A x \in ToSet(t.out) : LiveAt(in, x[1], x[2])
    <3> SUFFICES ASSUME NEW x \in ToSet(t.out) PROVE LiveAt(in, x[1], x[2])
        OBVIOUS
    <3>1. CASE x \in ToSet(s.out)
          BY <3>1 DEF Local, Placed
    <3>2. CASE \E i \in DOMAIN batch : x = batch[i]
          BY <1>4, <1>9, <3>2 DEF batch
    <3> QED BY <1>11, <3>1, <3>2
  <2>2. \A v \in Has(t) : Drawn(pl, n, v)
        BY <1>13 DEF Local, Placed
  <2>3. t.state \notin {"read", "decode", "done"}
        OBVIOUS
  <2> QED BY <1>12, <2>1, <2>2, <2>3 DEF Placed
<1>15. Once(t)
  <2>1. \A i, j \in DOMAIN t.out : t.out[i] = t.out[j] => i = j
    <3> SUFFICES ASSUME NEW i \in DOMAIN t.out, NEW j \in DOMAIN t.out, t.out[i] = t.out[j]
                 PROVE  i = j
        OBVIOUS
    <3>1. \A k \in DOMAIN s.out : \A l \in DOMAIN batch : s.out[k] # batch[l]
          BY <1>4, <1>9 DEF ToSet, batch
    <3>2. \A k, l \in DOMAIN batch : batch[k] = batch[l] => k = l
          BY <1>4, <1>9 DEF Distinct, batch
    <3>3. i - Len(s.out) = j - Len(s.out) => i = j
          BY <1>8 DEF Longer
    <3>4. /\ \/ i \in DOMAIN s.out /\ t.out[i] = s.out[i]
             \/ i - Len(s.out) \in DOMAIN batch /\ t.out[i] = batch[i - Len(s.out)]
          /\ \/ j \in DOMAIN s.out /\ t.out[j] = s.out[j]
             \/ j - Len(s.out) \in DOMAIN batch /\ t.out[j] = batch[j - Len(s.out)]
          BY <1>8 DEF Longer
    <3> QED BY <1>9, <3>1, <3>2, <3>3, <3>4
  <2>2. Distinct(t.queue)
    <3> SUFFICES ASSUME NEW k \in DOMAIN rest, NEW l \in DOMAIN rest,
                        NEW i \in DOMAIN rest[k], NEW j \in DOMAIN rest[l],
                        rest[k][i] = rest[l][j]
                 PROVE  k = l /\ i = j
      <4>1. Distinct(rest) => Distinct(t.queue)
            BY <1>6
      <4> QED BY <4>1 DEF Distinct
    <3>1. /\ k + 1 \in DOMAIN q /\ l + 1 \in DOMAIN q /\ i \in DOMAIN q[k + 1]
          /\ j \in DOMAIN q[l + 1] /\ q[k + 1][i] = q[l + 1][j] /\ k \in Nat /\ l \in Nat
          BY <1>4
    <3>2. k + 1 = l + 1 /\ i = j
          BY <1>9, <3>1 DEF Distinct
    <3> QED BY <3>1, <3>2
  <2>3. ASSUME NEW k \in DOMAIN t.queue, NEW i \in DOMAIN t.queue[k]
        PROVE  t.queue[k][i][1] = w /\ t.queue[k][i] \notin ToSet(t.out)
    <3>1. k + 1 \in DOMAIN q /\ t.queue[k] = q[k + 1] /\ k + 1 # 1 /\ i \in DOMAIN q[k + 1]
          BY <1>4, <1>6
    <3>2. \A l \in DOMAIN batch : batch[l] # q[k + 1][i]
          BY <1>4, <1>9, <3>1 DEF Distinct, batch
    <3> QED BY <1>9, <1>11, <3>1, <3>2
  <2>4. /\ t.state \notin {"decode", "emit"} => t.queue = <<>>
        /\ t.state = "emit" => t.queue # <<>>
        /\ t.state \notin {"open", "read", "decode", "failed"}
        BY <1>4, <1>6 DEF q
  <2> QED BY <2>1, <2>2, <2>3, <2>4 DEF Once, w
<1>16. Fits(in, t)
  <2>1. \A k \in DOMAIN t.queue : k + 1 \in DOMAIN q /\ t.queue[k] = q[k + 1]
        BY <1>4, <1>6
  <2>2. \A k \in DOMAIN q : w.kind = "segment" => WellCut(in.segments[w.at], q[k])
        BY DEF Local, Fits, q, w
  <2> QED BY <1>9, <2>1, <2>2 DEF Fits, w
<1>17. Ranged(in, t)
      BY DEF Ranged
<1>18. Budgeted(in, t)
  <2>1. Null \notin Int
        BY PruningAssumption
  <2>2. s.budget = Null <=> in.limit = Null
        BY DEF Local, Budgeted
  <2>3. t.budget = Null <=> in.limit = Null
        BY <1>2, <1>6, <1>7, <2>1, <2>2
  <2>4. ASSUME in.limit # Null
        PROVE  Len(t.out) = IF t.budget >= 0 THEN in.limit - t.budget ELSE in.limit
    <3>1. /\ s.budget \in Int /\ in.limit \in Nat
          /\ Len(s.out) = IF s.budget >= 0 THEN in.limit - s.budget ELSE in.limit
          BY <1>2, <2>2, <2>4 DEF Local, Budgeted, Given
    <3>2. /\ t.budget = s.budget - Len(batch)
          /\ m = IF s.budget >= Len(batch) THEN Len(batch) ELSE IF s.budget >= 0 THEN s.budget ELSE 0
          BY <1>6, <2>1, <3>1 DEF m, Fit
    <3>3. Len(t.out) = Len(s.out) + m
          BY <1>8 DEF Longer
    <3> DEFINE b == s.budget
               z == Len(batch)
               limit == in.limit
               o == Len(s.out)
               c == Len(t.out)
               d == t.budget
    <3>4. /\ b \in Int /\ z \in Nat /\ limit \in Nat
          /\ o = IF b >= 0 THEN limit - b ELSE limit
          /\ d = b - z
          /\ m = IF b >= z THEN z ELSE IF b >= 0 THEN b ELSE 0
          /\ c = o + m
          BY <1>7, <3>1, <3>2, <3>3
    <3> HIDE DEF b, z, limit, o, c, d
    <3>5. c = IF d >= 0 THEN limit - d ELSE limit
          BY <3>4, BudgetLeft
    <3> QED BY <3>5 DEF limit, c, d
  <2> QED BY <2>3, <2>4 DEF Budgeted
<1>19. ASSUME Uncut(t) PROVE Uncut(s) /\ m = Len(batch)
  <2>1. Null \notin Int
        BY PruningAssumption
  <2> QED BY <1>2, <1>6, <1>7, <1>19, <2>1 DEF Uncut, m, Fit
<1>20. ASSUME Uncut(t) PROVE Carries(in, s, t)
  <2> SUFFICES ASSUME NEW v, NEW r, Wanted(in, <<v, r>>), Ahead(s, <<v, r>>)
               PROVE  Ahead(t, <<v, r>>) \/ <<v, r>> \in ToSet(t.out)
      BY DEF Carries
  <2>1. v = w /\ InBatches(q, <<v, r>>)
        BY DEF Ahead, q, w
  <2>2. PICK k \in DOMAIN q : \E i \in DOMAIN q[k] : q[k][i] = <<v, r>>
        BY <2>1 DEF InBatches
  <2>3. PICK i \in DOMAIN q[k] : q[k][i] = <<v, r>>
        BY <2>2
  <2>4. CASE k = 1
    <3>1. i \in DOMAIN batch /\ i <= m /\ batch[i] = <<v, r>>
          BY <1>7, <1>19, <1>20, <2>3, <2>4 DEF batch
    <3> QED BY <1>8, <3>1, LongerHolds
  <2>5. CASE k # 1
    <3>1. k - 1 \in DOMAIN t.queue /\ t.queue[k - 1] = q[k]
          BY <1>4, <1>6, <2>5
    <3>2. InBatches(t.queue, <<v, r>>)
          BY <2>3, <3>1 DEF InBatches
    <3>3. t.queue # <<>>
          BY <3>1
    <3>4. t.state = "emit"
          BY <1>4, <1>6, <3>3 DEF q
    <3> QED BY <2>1, <3>2, <3>4 DEF Ahead, w
  <2> QED BY <2>4, <2>5
<1> QED BY <1>10, <1>13, <1>14, <1>15, <1>16, <1>17, <1>18, <1>19, <1>20 DEF Local

----------------------------------------------------------------------------
(* A step of one partition.                                                *)

\* What one partition does to its stream keeps the invariant.
LEMMA StepOne ==
    ASSUME NEW in, NEW sn, NEW pl, NEW n, NEW st, InvOf(in, sn, pl, n, st), pl # Null,
           NEW p \in ActiveIn(pl), p \in Partitions, NEW m \in Nat, n <= m,
           NEW new, DOMAIN new = Partitions, \A q \in Partitions : q # p => new[q] = st[q],
           Local(in, pl, m, new[p]),
           \A w \in Has(new[p]) : w \in Has(st[p]) \/ ~Drawn(pl, n, w),
           ToSet(st[p].out) \subseteq ToSet(new[p].out),
           Uncut(new[p]) => Uncut(st[p]) /\ Carries(in, st[p], new[p]),
           \A k \in DOMAIN pl.work : k <= m /\ ~(k <= n) =>
               new[p].state = "open" /\ new[p].item = pl.work[k]
    PROVE  InvOf(in, sn, pl, m, new)
<1> DEFINE s == st[p]
           t == new[p]
<1>1. /\ Given(in) /\ n \in Nat /\ PlanOK(in, pl)
      /\ \A q \in Partitions : Local(in, pl, n, st[q])
      /\ \A q, r \in Partitions : q # r => Has(st[q]) \cap Has(st[r]) = {}
      /\ \A q \in Partitions \ ActiveIn(pl) : st[q] = Stream(in.limit)
      /\ Covered(in, pl, n, st)
      BY DEF InvOf
<1>2. Len(pl.work) \in Nat /\ DOMAIN pl.work = 1..Len(pl.work)
      BY <1>1, WorkOf
<1>3. ASSUME NEW q \in Partitions PROVE Local(in, pl, m, new[q])
  <2>1. CASE q = p
        BY <2>1
  <2>2. CASE q # p
        BY <1>1, <1>2, <2>2, LaterStill
  <2> QED BY <2>1, <2>2
<1>4. ASSUME NEW q \in Partitions, q # p PROVE Has(t) \cap Has(st[q]) = {}
  <2> SUFFICES ASSUME NEW w \in Has(t), w \in Has(st[q]) PROVE FALSE
      OBVIOUS
  <2>1. Drawn(pl, n, w)
        BY <1>1 DEF Local, Placed
  <2>2. w \in Has(s)
        BY <2>1
  <2> QED BY <1>1, <1>4, <2>2
<1>5. \A q, r \in Partitions : q # r => Has(new[q]) \cap Has(new[r]) = {}
  <2> SUFFICES ASSUME NEW q \in Partitions, NEW r \in Partitions, q # r
               PROVE  Has(new[q]) \cap Has(new[r]) = {}
      OBVIOUS
  <2>1. CASE q = p
        BY <1>4, <2>1
  <2>2. CASE r = p
        BY <1>4, <2>2
  <2>3. CASE q # p /\ r # p
        BY <1>1, <2>3
  <2> QED BY <2>1, <2>2, <2>3
<1>6. Covered(in, pl, m, new)
  <2> SUFFICES ASSUME \A q \in Partitions : Uncut(new[q]),
                      NEW k \in DOMAIN pl.work, NEW r, k <= m,
                      Wanted(in, <<pl.work[k], r>>)
               PROVE  Seen(new, <<pl.work[k], r>>)
      BY DEF Covered
  <2> DEFINE x == <<pl.work[k], r>>
  <2>1. \A q \in Partitions : Uncut(st[q])
        BY Zenon
  <2>2. CASE ~(k <= n)
    <3>1. x[1] = pl.work[k]
          OBVIOUS
    <3>2. Ahead(t, x)
          BY <2>2, <3>1 DEF Ahead
    <3> QED BY <3>2 DEF Seen
  <2>3. CASE k <= n
    <3>1. Seen(st, x)
          BY <1>1, <2>1, <2>3 DEF Covered
    <3>2. PICK q \in Partitions : x \in ToSet(st[q].out) \/ Ahead(st[q], x)
          BY <3>1 DEF Seen
    <3>3. CASE q # p
          BY <3>2, <3>3 DEF Seen
    <3>4. CASE q = p /\ x \in ToSet(s.out)
          BY <3>4 DEF Seen
    <3>5. CASE q = p /\ Ahead(s, x)
      <4>1. Carries(in, s, t)
            OBVIOUS
      <4>2. Ahead(t, x) \/ x \in ToSet(t.out)
            BY <3>5, <4>1 DEF Carries
      <4> QED BY <4>2 DEF Seen
    <3> QED BY <3>2, <3>3, <3>4, <3>5
  <2> QED BY <2>2, <2>3
<1>7. \A q \in Partitions \ ActiveIn(pl) : new[q] = Stream(in.limit)
      BY <1>1
<1> QED BY <1>3, <1>5, <1>6, <1>7 DEF InvOf

\* A stream at its start is as it should be, whatever the plan.
LEMMA StartLocal ==
    ASSUME NEW in, Given(in), NEW pl, NEW n
    PROVE  /\ Local(in, pl, n, Stream(in.limit)) /\ Has(Stream(in.limit)) = {}
           /\ Stream(in.limit).state = "take" /\ Stream(in.limit).out = <<>>
           /\ Stream(in.limit).queue = <<>>
<1> DEFINE s == Stream(in.limit)
<1>1. /\ s.state = "take" /\ s.item = Null /\ s.keep = Null /\ s.ranges = {} /\ s.queue = <<>>
      /\ s.budget = in.limit /\ s.out = <<>>
      BY DEF Stream
<1>2. s \in Streams
  <2>1. in.limit \in Int \cup {Null}
        BY DEF Given
  <2>2. <<>> \in Seq(Places) /\ <<>> \in Seq(Seq(Places))
        BY EmptySeq
  <2> QED BY <2>1, <2>2 DEF Stream, Streams, States, Keeps
<1> HIDE DEF s
<1>3. ToSet(s.out) = {} /\ DOMAIN s.queue = {} /\ DOMAIN s.out = {} /\ Len(s.out) = 0
      BY <1>1 DEF ToSet
<1>4. Has(s) = {}
      BY <1>1, <1>3 DEF Has, Busy
<1>5. Placed(in, pl, n, s)
      BY <1>1, <1>2, <1>3, <1>4 DEF Placed
<1>6. Once(s)
      BY <1>1, <1>3 DEF Once, Distinct
<1>7. Fits(in, s) /\ Ranged(in, s)
      BY <1>1, <1>3 DEF Fits, Ranged
<1>8. Budgeted(in, s)
  <2>1. in.limit # Null => in.limit \in Nat
        BY DEF Given
  <2> QED BY <1>1, <1>3, <2>1 DEF Budgeted
<1> QED BY <1>1, <1>4, <1>5, <1>6, <1>7, <1>8 DEF Local, s

\* What an active partition starts from.
LEMMA ActiveFacts ==
    ASSUME ScanInv, NEW p \in Active
    PROVE  /\ plan # Null /\ p \in Partitions /\ p \in ActiveIn(plan)
           /\ Given(input) /\ PlanOK(input, plan) /\ next \in Nat /\ snapshot = input.schema
           /\ DOMAIN stream = Partitions /\ Local(input, plan, next, stream[p])
           /\ stream[p] \in Streams
<1>1. plan # Null /\ p \in 0..(plan.count - 1)
      BY DEF Active
<1>2. plan.count \in 1..MaxPartitions
      BY <1>1 DEF ScanInv, InvOf, PlanOK
<1>3. p \in Partitions
      BY <1>1, <1>2, ScanAssumption DEF Partitions
<1>4. /\ Given(input) /\ PlanOK(input, plan) /\ next \in Nat /\ snapshot = input.schema
      /\ DOMAIN stream = Partitions /\ Local(input, plan, next, stream[p])
      BY <1>1, <1>3 DEF ScanInv, InvOf
<1>5. stream[p] \in Streams
      BY <1>4 DEF Local, Placed
<1> QED BY <1>1, <1>3, <1>4, <1>5 DEF ActiveIn

\* A step of a partition that draws no work.
LEMMA StepInPlace ==
    ASSUME ScanInv, NEW p \in Active, UNCHANGED <<input, snapshot, plan, next>>,
           NEW t, stream' = [stream EXCEPT ![p] = t],
           Local(input, plan, next, t), Has(t) \subseteq Has(stream[p]),
           ToSet(stream[p].out) \subseteq ToSet(t.out),
           Uncut(t) => Uncut(stream[p]) /\ Carries(input, stream[p], t)
    PROVE  ScanInv'
<1>1. /\ plan # Null /\ p \in Partitions /\ p \in ActiveIn(plan) /\ next \in Nat
      /\ DOMAIN stream = Partitions /\ Given(input) /\ PlanOK(input, plan)
      BY ActiveFacts
<1> DEFINE new == stream'
<1>2. DOMAIN new = Partitions /\ new[p] = t /\ \A q \in Partitions : q # p => new[q] = stream[q]
      BY <1>1
<1> HIDE DEF new
<1>3. \A k \in DOMAIN plan.work : ~(k <= next /\ ~(k <= next))
      OBVIOUS
<1>4. next <= next
      BY <1>1
<1>5. InvOf(input, snapshot, plan, next, stream)
      BY DEF ScanInv
<1>6. InvOf(input, snapshot, plan, next, new)
      BY <1>1, <1>2, <1>3, <1>4, <1>5, StepOne
<1> QED BY <1>6 DEF ScanInv, new

\* Project keeps the invariant.
LEMMA ProjectStep ==
    ASSUME ScanInv, NEW p \in Active, Project(p)
    PROVE  ScanInv'
<1> DEFINE s == stream[p]
           batch == <<[r \in 1..input.memtable[s.item.at].rows |-> <<s.item, r - 1>>]>>
           t == [s EXCEPT !.state = "emit", !.queue = batch]
<1>1. /\ p \in Partitions /\ Given(input) /\ PlanOK(input, plan) /\ next \in Nat
      /\ DOMAIN stream = Partitions /\ Local(input, plan, next, s) /\ s \in Streams
      BY ActiveFacts
<1>2. /\ s.state = "open" /\ s.item.kind = "batch"
      /\ stream' = [stream EXCEPT ![p].state = "emit", ![p].queue = batch]
      /\ UNCHANGED <<input, snapshot, plan, next>>
      BY DEF Project
<1>3. /\ Local(input, plan, next, t) /\ Has(t) \subseteq Has(s)
      /\ t.out = s.out /\ t.budget = s.budget /\ Carries(input, s, t)
      BY <1>1, <1>2, ProjectLocal
<1>4. stream' = [stream EXCEPT ![p] = t]
  <2> HIDE DEF batch
  <2> QED BY <1>1, <1>2
<1> HIDE DEF t
<1> QED BY <1>2, <1>3, <1>4, StepInPlace DEF Uncut

\* OpenPages keeps the invariant.
LEMMA OpenStep ==
    ASSUME ScanInv, NEW p \in Active, OpenPages(p)
    PROVE  ScanInv'
<1> DEFINE s == stream[p]
           seg == input.segments[s.item.at]
           kept == KeepPages(input.schema, plan.predicates, plan.columns, seg)
<1>1. /\ p \in Partitions /\ Given(input) /\ PlanOK(input, plan) /\ next \in Nat
      /\ DOMAIN stream = Partitions /\ Local(input, plan, next, s) /\ s \in Streams
      /\ snapshot = input.schema
      BY ActiveFacts
<1>2. /\ s.state = "open" /\ s.item.kind = "segment"
      /\ UNCHANGED <<input, snapshot, plan, next>>
      BY DEF OpenPages
<1>3. \/ \E keep \in {Null, kept} :
             stream' = [stream EXCEPT ![p].state = "read", ![p].keep = keep]
      \/ stream' = [stream EXCEPT ![p].state = "failed"]
      BY <1>1 DEF OpenPages
<1>4. ASSUME NEW keep \in {Null, kept},
             stream' = [stream EXCEPT ![p].state = "read", ![p].keep = keep]
      PROVE  ScanInv'
  <2> DEFINE t == [s EXCEPT !.state = "read", !.keep = keep]
  <2>1. /\ Local(input, plan, next, t) /\ Has(t) \subseteq Has(s)
        /\ t.out = s.out /\ t.budget = s.budget /\ Carries(input, s, t)
    <3>1. keep = Null \/ keep = KeepPages(input.schema, plan.predicates, plan.columns,
                                          input.segments[s.item.at])
          OBVIOUS
    <3> HIDE DEF kept, seg
    <3> QED BY <1>1, <1>2, <3>1, OpenLocal
  <2>2. stream' = [stream EXCEPT ![p] = t]
    <3> HIDE DEF kept, seg
    <3> QED BY <1>1, <1>4
  <2> HIDE DEF t
  <2> QED BY <1>2, <2>1, <2>2, StepInPlace DEF Uncut
<1>5. ASSUME stream' = [stream EXCEPT ![p].state = "failed"] PROVE ScanInv'
  <2> DEFINE t == [s EXCEPT !.state = "failed"]
  <2>1. /\ Local(input, plan, next, t) /\ Has(t) \subseteq Has(s)
        /\ t.out = s.out /\ t.budget = s.budget /\ Carries(input, s, t)
        BY <1>1, <1>2, FailLocal
  <2>2. stream' = [stream EXCEPT ![p] = t]
        BY <1>1, <1>5
  <2> HIDE DEF t
  <2> QED BY <1>2, <2>1, <2>2, StepInPlace DEF Uncut
<1> QED BY <1>3, <1>4, <1>5

\* Read keeps the invariant.
LEMMA ReadStep ==
    ASSUME ScanInv, NEW p \in Active, Read(p)
    PROVE  ScanInv'
<1> DEFINE s == stream[p]
           ranges == RangesToRead(input.segments[s.item.at], s.keep)
           t == [s EXCEPT !.state = "decode", !.ranges = ranges]
<1>1. /\ p \in Partitions /\ Given(input) /\ PlanOK(input, plan) /\ next \in Nat
      /\ DOMAIN stream = Partitions /\ Local(input, plan, next, s) /\ s \in Streams
      BY ActiveFacts
<1>2. /\ s.state = "read"
      /\ stream' = [stream EXCEPT ![p].state = "decode", ![p].ranges = ranges]
      /\ UNCHANGED <<input, snapshot, plan, next>>
      BY DEF Read
<1>3. /\ Local(input, plan, next, t) /\ Has(t) \subseteq Has(s)
      /\ t.out = s.out /\ t.budget = s.budget /\ Carries(input, s, t)
      BY <1>1, <1>2, ReadLocal
<1>4. stream' = [stream EXCEPT ![p] = t]
  <2> HIDE DEF ranges
  <2> QED BY <1>1, <1>2
<1> HIDE DEF t
<1> QED BY <1>2, <1>3, <1>4, StepInPlace DEF Uncut

\* Decode keeps the invariant.
LEMMA DecodeStep ==
    ASSUME ScanInv, NEW p \in Active, Decode(p)
    PROVE  ScanInv'
<1> DEFINE s == stream[p]
           range == CHOOSE r \in s.ranges : \A q \in s.ranges : r[1] <= q[1]
           rows == Tagged(s.item, DecodeRange(input.segments[s.item.at], range))
<1>1. /\ p \in Partitions /\ Given(input) /\ PlanOK(input, plan) /\ next \in Nat
      /\ DOMAIN stream = Partitions /\ Local(input, plan, next, s) /\ s \in Streams
      BY ActiveFacts
<1>2. s.state = "decode" /\ UNCHANGED <<input, snapshot, plan, next>>
      BY DEF Decode
<1>3. CASE /\ s.ranges # {}
           /\ stream' = [stream EXCEPT ![p].ranges = @ \ {range}, ![p].queue = @ \o rows]
  <2> DEFINE t == [s EXCEPT !.ranges = @ \ {range}, !.queue = @ \o rows]
  <2>1. range \in s.ranges
    <3> DEFINE starts == {r[1] : r \in s.ranges}
    <3>1. s.ranges \subseteq Nat \X Nat
          BY <1>1 DEF Streams
    <3>2. starts \in SUBSET Nat /\ starts # {}
          BY <1>3, <3>1
    <3>3. \E a \in starts : \A b \in starts : a <= b
          BY <3>2, Least
    <3>4. \E r \in s.ranges : \A q \in s.ranges : r[1] <= q[1]
          BY <3>3
    <3> QED BY <3>4
  <2> HIDE DEF range
  <2>2. rows \in Seq(Seq(Places))
    <3>1. RowsOf(input, s.item, input.segments[s.item.at], range, rows)
          BY <1>1, <1>2, <2>1, DecodeRows
    <3> QED BY <3>1 DEF RowsOf
  <2>3. s.queue \in Seq(Seq(Places)) /\ s.queue \o rows \in Seq(Seq(Places))
    <3>1. s.queue \in Seq(Seq(Places))
          BY <1>1 DEF Streams
    <3> HIDE DEF rows
    <3> QED BY <2>2, <3>1, JoinedBatches
  <2>4. rows = Tagged(s.item, DecodeRange(input.segments[s.item.at], range))
        OBVIOUS
  <2> HIDE DEF rows
  <2>5. stream' = [stream EXCEPT ![p] = t]
        BY <1>1, <1>3
  <2>6. /\ t \in Streams /\ t.state = "decode" /\ t.item = s.item /\ t.ranges = s.ranges \ {range}
        /\ t.queue = s.queue \o rows /\ t.budget = s.budget /\ t.out = s.out
        BY <1>1, <1>2, <2>3 DEF Streams
  <2> HIDE DEF t
  <2>7. Local(input, plan, next, t) /\ Has(t) \subseteq Has(s) /\ Carries(input, s, t)
        BY <1>1, <1>2, <2>1, <2>4, <2>6, DecodeLocal
  <2> QED BY <1>2, <2>5, <2>6, <2>7, StepInPlace DEF Uncut
<1>4. CASE /\ s.ranges = {}
           /\ stream' = [stream EXCEPT ![p].state = IF s.queue = <<>> THEN "take" ELSE "emit"]
  <2> DEFINE t == [s EXCEPT !.state = IF s.queue = <<>> THEN "take" ELSE "emit"]
  <2>1. /\ Local(input, plan, next, t) /\ Has(t) \subseteq Has(s)
        /\ t.out = s.out /\ t.budget = s.budget /\ Carries(input, s, t)
        BY <1>1, <1>2, <1>4, DecodedLocal
  <2>2. stream' = [stream EXCEPT ![p] = t]
        BY <1>1, <1>4
  <2> HIDE DEF t
  <2> QED BY <1>2, <2>1, <2>2, StepInPlace DEF Uncut
<1> QED BY <1>3, <1>4 DEF Decode, Tagged

\* Emit keeps the invariant.
LEMMA EmitStep ==
    ASSUME ScanInv, NEW p \in Active, Emit(p)
    PROVE  ScanInv'
<1> DEFINE s == stream[p]
           batch == Head(s.queue)
           fit == Fitting(s.budget, batch)
           left == IF s.budget = Null THEN Null ELSE s.budget - Len(batch)
           t == [s EXCEPT !.out = @ \o fit, !.budget = left, !.queue = Tail(@),
                          !.state = IF Len(s.queue) = 1 THEN "take" ELSE "emit"]
<1>1. /\ p \in Partitions /\ Given(input) /\ PlanOK(input, plan) /\ next \in Nat
      /\ DOMAIN stream = Partitions /\ Local(input, plan, next, s) /\ s \in Streams
      BY ActiveFacts
<1>2. /\ s.state = "emit" /\ UNCHANGED <<input, snapshot, plan, next>>
      /\ stream' = [stream EXCEPT
              ![p].out = @ \o fit,
              ![p].budget = IF @ = Null THEN Null ELSE @ - Len(batch),
              ![p].queue = Tail(@),
              ![p].state = IF Len(s.queue) = 1 THEN "take" ELSE "emit"]
      BY DEF Emit
<1>3. stream' = [stream EXCEPT ![p] = t]
  <2> HIDE DEF fit, batch
  <2> QED BY <1>1, <1>2
<1>4. /\ t.out = s.out \o fit /\ t.budget = left /\ t.queue = Tail(s.queue)
      /\ t.state = IF Len(s.queue) = 1 THEN "take" ELSE "emit"
      /\ t.item = s.item
      /\ t.out \in Seq(Places) /\ t.budget \in Int \cup {Null} /\ t.queue \in Seq(Seq(Places))
             => t \in Streams
  <2> DEFINE rest == Tail(s.queue)
             longer == s.out \o fit
             then == IF Len(s.queue) = 1 THEN "take" ELSE "emit"
  <2>1. then \in States
        BY DEF States
  <2>2. t = [s EXCEPT !.out = longer, !.budget = left, !.queue = rest, !.state = then]
        OBVIOUS
  <2> HIDE DEF fit, batch, left, rest, longer, then, t
  <2>3. /\ t.out = longer /\ t.budget = left /\ t.queue = rest /\ t.state = then
        /\ t.item = s.item
        /\ longer \in Seq(Places) /\ left \in Int \cup {Null} /\ rest \in Seq(Seq(Places))
             => t \in Streams
        BY <1>1, <2>1, <2>2 DEF Streams
  <2> QED BY <2>3 DEF rest, longer, then
<1> HIDE DEF t
<1>5. /\ Local(input, plan, next, t) /\ Has(t) \subseteq Has(s)
      /\ ToSet(s.out) \subseteq ToSet(t.out)
      /\ Uncut(t) => Uncut(s) /\ Carries(input, s, t)
      BY <1>1, <1>2, <1>4, EmitLocal
<1> QED BY <1>2, <1>3, <1>5, StepInPlace

\* Take keeps the invariant.
LEMMA TakeStep ==
    ASSUME ScanInv, NEW p \in Active, Take(p)
    PROVE  ScanInv'
<1> DEFINE s == stream[p]
           m == next + 1
           w == plan.work[m]
<1>1. /\ p \in Partitions /\ Given(input) /\ PlanOK(input, plan) /\ next \in Nat
      /\ DOMAIN stream = Partitions /\ Local(input, plan, next, s) /\ s \in Streams
      /\ plan # Null /\ p \in ActiveIn(plan)
      BY ActiveFacts
<1>2. /\ s.state = "take" /\ next' = m
      /\ UNCHANGED <<input, snapshot, plan>>
      BY DEF Take
<1>3. /\ Len(plan.work) \in Nat /\ DOMAIN plan.work = 1..Len(plan.work)
      /\ \A j, k \in DOMAIN plan.work : plan.work[j] = plan.work[k] => j = k
  <2>1. Len(plan.work) \in Nat /\ DOMAIN plan.work = 1..Len(plan.work)
        BY <1>1, WorkOf
  <2>2. \A j, k \in DOMAIN plan.work : plan.work[j] = plan.work[k] => j = k
        BY <1>1 DEF PlanOK
  <2> QED BY <2>1, <2>2
<1>4. \A x : ~Ahead(s, x)
      BY <1>2 DEF Ahead
<1>5. InvOf(input, snapshot, plan, next, stream)
      BY DEF ScanInv
<1>6. m \in Nat /\ next <= m /\ m = next + 1
      BY <1>1
<1> HIDE DEF m
<1> DEFINE new == stream'
<1>7. CASE next < Len(plan.work)
  <2> DEFINE t == [s EXCEPT !.state = "open", !.item = w]
  <2>1. stream' = [stream EXCEPT ![p].state = "open", ![p].item = w]
        BY <1>7 DEF Take, m
  <2>2. DOMAIN new = Partitions /\ new[p] = t /\ \A q \in Partitions : q # p => new[q] = stream[q]
        BY <1>1, <2>1
  <2>3. /\ Local(input, plan, m, t) /\ Has(t) \subseteq Has(s) \cup {w}
        /\ t.out = s.out /\ t.budget = s.budget /\ t.state = "open" /\ t.item = w
    <3>1. m \in DOMAIN plan.work /\ next < m
          BY <1>1, <1>3, <1>6, <1>7
    <3>2. w \in Items
          BY <1>1, <3>1, WorkOf
    <3> HIDE DEF w
    <3>3. /\ t \in Streams /\ t.state = "open" /\ t.item = w
          /\ t.queue = s.queue /\ t.budget = s.budget /\ t.out = s.out
          BY <1>1, <3>2 DEF Streams, States
    <3> HIDE DEF t, s
    <3>4. Local(input, plan, m, t) /\ Has(t) \subseteq Has(s) \cup {w}
          BY <1>1, <1>2, <3>1, <3>3, TakeLocal DEF w
    <3> QED BY <3>3, <3>4
  <2> HIDE DEF new, t
  <2>4. ~Drawn(plan, next, w)
    <3> SUFFICES ASSUME NEW k \in DOMAIN plan.work, k <= next, plan.work[k] = w PROVE FALSE
        BY DEF Drawn
    <3>1. m \in DOMAIN plan.work
          BY <1>1, <1>3, <1>6, <1>7
    <3>2. k = m
          BY <1>3, <3>1
    <3> QED BY <1>1, <1>6, <3>2
  <2>5. \A v \in Has(new[p]) : v \in Has(s) \/ ~Drawn(plan, next, v)
        BY <2>2, <2>3, <2>4
  <2>6. \A k \in DOMAIN plan.work : k <= m /\ ~(k <= next) =>
            new[p].state = "open" /\ new[p].item = plan.work[k]
    <3> SUFFICES ASSUME NEW k \in DOMAIN plan.work, k <= m, ~(k <= next)
                 PROVE  new[p].state = "open" /\ new[p].item = plan.work[k]
        OBVIOUS
    <3>1. k = m
          BY <1>1, <1>3, <1>6
    <3> QED BY <2>2, <2>3, <3>1
  <2>7. /\ ToSet(s.out) \subseteq ToSet(new[p].out) /\ Local(input, plan, m, new[p])
        /\ Uncut(new[p]) => Uncut(s) /\ Carries(input, s, new[p])
        BY <1>4, <2>2, <2>3 DEF Carries, Uncut
  <2>8. InvOf(input, snapshot, plan, m, new)
        BY <1>1, <1>5, <1>6, <2>2, <2>5, <2>6, <2>7, StepOne
  <2> QED BY <1>2, <2>8 DEF ScanInv, new
<1>8. CASE ~(next < Len(plan.work))
  <2> DEFINE t == [s EXCEPT !.state = "done", !.item = Null]
  <2>1. stream' = [stream EXCEPT ![p].state = "done", ![p].item = Null]
        BY <1>8 DEF Take
  <2>2. DOMAIN new = Partitions /\ new[p] = t /\ \A q \in Partitions : q # p => new[q] = stream[q]
        BY <1>1, <2>1
  <2>3. /\ Local(input, plan, m, t) /\ Has(t) \subseteq Has(s)
        /\ t.out = s.out /\ t.budget = s.budget
    <3>1. /\ t \in Streams /\ t.state = "done"
          /\ t.queue = s.queue /\ t.budget = s.budget /\ t.out = s.out
          BY <1>1 DEF Streams, States
    <3> HIDE DEF t, s
    <3>2. Local(input, plan, m, t) /\ Has(t) \subseteq Has(s)
          BY <1>1, <1>2, <1>6, <1>8, <3>1, TakeDone
    <3> QED BY <3>1, <3>2
  <2> HIDE DEF new, t
  <2>4. \A v \in Has(new[p]) : v \in Has(s) \/ ~Drawn(plan, next, v)
        BY <2>2, <2>3
  <2>5. \A k \in DOMAIN plan.work : k <= next
        BY <1>1, <1>3, <1>8
  <2>6. /\ ToSet(s.out) \subseteq ToSet(new[p].out) /\ Local(input, plan, m, new[p])
        /\ Uncut(new[p]) => Uncut(s) /\ Carries(input, s, new[p])
        BY <1>4, <2>2, <2>3 DEF Carries, Uncut
  <2>7. InvOf(input, snapshot, plan, m, new)
        BY <1>1, <1>5, <1>6, <2>2, <2>4, <2>5, <2>6, StepOne
  <2> QED BY <1>2, <2>7 DEF ScanInv, new
<1> QED BY <1>7, <1>8

----------------------------------------------------------------------------
(* Pinning, planning, and schema changes.                                  *)

\* The work of a plan, from the segments that survive.
PlanWork(in, S) ==
    [i \in DOMAIN Ascending(S) |-> Work("segment", Ascending(S)[i])]
    \o [i \in DOMAIN in.memtable |-> Work("batch", i)]

\* It lists every survivor and every batch in memory, once.
LEMMA WorkListed ==
    ASSUME NEW in, Given(in), NEW S \in SUBSET DOMAIN in.segments
    PROVE  /\ PlanWork(in, S) \in Seq(Items)
           /\ \A j, k \in DOMAIN PlanWork(in, S) : PlanWork(in, S)[j] = PlanWork(in, S)[k] => j = k
           /\ \A k \in DOMAIN PlanWork(in, S) :
                 \/ \E i \in S : PlanWork(in, S)[k] = Work("segment", i)
                 \/ \E i \in DOMAIN in.memtable : PlanWork(in, S)[k] = Work("batch", i)
           /\ \A i \in S : \E k \in DOMAIN PlanWork(in, S) : PlanWork(in, S)[k] = Work("segment", i)
           /\ \A i \in DOMAIN in.memtable :
                 \E k \in DOMAIN PlanWork(in, S) : PlanWork(in, S)[k] = Work("batch", i)
<1> DEFINE asc == Ascending(S)
           n == Cardinality(S)
           m == Len(in.memtable)
           a == [i \in 1..n |-> Work("segment", asc[i])]
           b == [i \in 1..m |-> Work("batch", i)]
           c == a \o b
<1>1. in.segments \in Seq(Built) /\ in.memtable \in Seq([rows : Nat, columns : Seq(Seq(Value))])
      BY DEF Given
<1>2. /\ DOMAIN in.segments = 1..Len(in.segments) /\ Len(in.segments) \in Nat
      /\ DOMAIN in.memtable = 1..m /\ m \in Nat
      BY <1>1
<1>3. S \in SUBSET Nat /\ IsFiniteSet(S)
  <2>1. IsFiniteSet(1..Len(in.segments))
        BY <1>2, FS_Interval
  <2>2. S \in SUBSET (1..Len(in.segments))
        BY <1>2
  <2>3. IsFiniteSet(S)
        BY <2>1, <2>2, FS_Subset
  <2> QED BY <1>2, <2>2, <2>3
<1>4. /\ asc \in [1..n -> S] /\ n \in Nat
      /\ \A j, k \in 1..n : asc[j] = asc[k] => j = k
      /\ \A x \in S : \E k \in 1..n : asc[k] = x
      BY <1>3, AscendingLists
<1>5. PlanWork(in, S) = c
      BY <1>2, <1>4 DEF PlanWork
<1> HIDE DEF asc, n, m
<1>6. /\ \A i \in S : Work("segment", i) \in Items /\ Work("segment", i).at = i
                      /\ Work("segment", i).kind = "segment"
      /\ \A i \in 1..m : Work("batch", i) \in Items /\ Work("batch", i).at = i
                         /\ Work("batch", i).kind = "batch"
      BY <1>2, <1>3 DEF Work, Items
<1>7. a \in [1..n -> Items] /\ b \in [1..m -> Items]
      BY <1>4, <1>6
<1>8. \A i \in 1..n : a[i] = Work("segment", asc[i]) /\ asc[i] \in S
      BY <1>4
<1>9. \A i \in 1..m : b[i] = Work("batch", i)
      OBVIOUS
<1> HIDE DEF a, b
<1>10. a \in Seq(Items) /\ Len(a) = n /\ b \in Seq(Items) /\ Len(b) = m
      BY <1>2, <1>4, <1>7, FunctionIsSeq
<1>11. /\ c \in Seq(Items) /\ Len(c) = n + m /\ DOMAIN c = 1..(n + m)
       /\ \A k \in 1..(n + m) : c[k] = IF k <= n THEN a[k] ELSE b[k - n]
      BY <1>10
<1> HIDE DEF c
<1>12. ASSUME NEW k \in DOMAIN c
       PROVE  \/ k \in 1..n /\ c[k] = Work("segment", asc[k]) /\ asc[k] \in S
              \/ k - n \in 1..m /\ c[k] = Work("batch", k - n)
  <2>1. CASE k <= n
        BY <1>4, <1>8, <1>11, <2>1
  <2>2. CASE ~(k <= n)
    <3>1. k - n \in 1..m /\ c[k] = b[k - n]
          BY <1>2, <1>4, <1>11, <2>2
    <3> QED BY <1>9, <3>1
  <2> QED BY <2>1, <2>2
<1>13. \A j, k \in DOMAIN c : c[j] = c[k] => j = k
  <2> SUFFICES ASSUME NEW j \in DOMAIN c, NEW k \in DOMAIN c, c[j] = c[k] PROVE j = k
      OBVIOUS
  <2>1. CASE /\ j \in 1..n /\ c[j] = Work("segment", asc[j]) /\ asc[j] \in S
             /\ k \in 1..n /\ c[k] = Work("segment", asc[k]) /\ asc[k] \in S
    <3>1. c[j].at = asc[j] /\ c[k].at = asc[k]
          BY <1>6, <2>1
    <3>2. asc[j] = asc[k]
          BY <3>1
    <3> QED BY <1>4, <2>1, <3>2
  <2>2. CASE /\ j - n \in 1..m /\ c[j] = Work("batch", j - n)
             /\ k - n \in 1..m /\ c[k] = Work("batch", k - n)
    <3>1. c[j].at = j - n /\ c[k].at = k - n
          BY <1>6, <2>2
    <3>2. j - n = k - n
          BY <3>1
    <3> QED BY <1>2, <1>4, <1>11, <3>2
  <2>3. CASE /\ j \in 1..n /\ c[j] = Work("segment", asc[j]) /\ asc[j] \in S
             /\ k - n \in 1..m /\ c[k] = Work("batch", k - n)
    <3>1. c[j].kind = "segment" /\ c[k].kind = "batch"
          BY <1>6, <2>3
    <3> QED BY <3>1
  <2>4. CASE /\ k \in 1..n /\ c[k] = Work("segment", asc[k]) /\ asc[k] \in S
             /\ j - n \in 1..m /\ c[j] = Work("batch", j - n)
    <3>1. c[k].kind = "segment" /\ c[j].kind = "batch"
          BY <1>6, <2>4
    <3> QED BY <3>1
  <2> QED BY <1>12, <2>1, <2>2, <2>3, <2>4
<1>14. \A i \in S : \E k \in DOMAIN c : c[k] = Work("segment", i)
  <2> SUFFICES ASSUME NEW i \in S PROVE \E k \in DOMAIN c : c[k] = Work("segment", i)
      OBVIOUS
  <2>1. PICK k \in 1..n : asc[k] = i
        BY <1>4
  <2>2. k \in DOMAIN c /\ c[k] = a[k]
        BY <1>2, <1>4, <1>11
  <2> QED BY <1>8, <2>1, <2>2
<1>15. \A i \in 1..m : \E k \in DOMAIN c : c[k] = Work("batch", i)
  <2> SUFFICES ASSUME NEW i \in 1..m PROVE \E k \in DOMAIN c : c[k] = Work("batch", i)
      OBVIOUS
  <2>1. n + i \in 1..(n + m) /\ ~(n + i <= n) /\ (n + i) - n = i
        BY <1>2, <1>4
  <2>2. n + i \in DOMAIN c /\ c[n + i] = b[i]
        BY <1>11, <2>1
  <2> QED BY <1>9, <2>2
<1>16. \A k \in DOMAIN c : \/ \E i \in S : c[k] = Work("segment", i)
                           \/ \E i \in 1..m : c[k] = Work("batch", i)
      BY <1>12
<1> QED BY <1>2, <1>5, <1>11, <1>13, <1>14, <1>15, <1>16 DEF m

\* A snapshot has the schema of the input until one changes it, and changes
\* wait for the snapshot.
LEMMA PinStep ==
    ASSUME ScanInv, schema = input.schema, Pin
    PROVE  ScanInv'
<1>1. snapshot' = input.schema /\ snapshot = Null /\ UNCHANGED <<input, plan, next, stream>>
      BY DEF Pin
<1>2. plan = Null
      BY <1>1 DEF ScanInv, InvOf
<1>3. InvOf(input, input.schema, plan, next, stream)
      BY <1>2 DEF ScanInv, InvOf
<1> QED BY <1>1, <1>3 DEF ScanInv

\* The plan that scan() makes.
LEMMA PlanStep ==
    ASSUME ScanInv, Plan
    PROVE  ScanInv'
<1> DEFINE S == {i \in LiveSegments : SurvivesPruning(schema, input.filter, input.segments[i])}
           work == PlanWork(input, S)
           new == plan'
<1>1. /\ snapshot # Null /\ plan = Null /\ UNCHANGED <<input, snapshot, next, stream>>
      BY DEF Plan
<1>2. /\ new.work = work
      /\ new.count = Min({input.target, Max({Len(work), 1})})
      /\ new.predicates = Predicates(schema, input.filter)
      /\ new.columns = ReferencedColumns(schema, input.filter)
      BY DEF Plan, PlanWork, Survivors
<1>3. /\ Given(input) /\ next = 0 /\ snapshot = input.schema /\ DOMAIN stream = Partitions
      /\ \A p \in Partitions : stream[p] = Stream(input.limit)
      BY <1>1 DEF ScanInv, InvOf, ActiveIn
<1>4. S \in SUBSET DOMAIN input.segments
      BY DEF LiveSegments
<1> HIDE DEF S, new
<1>5. /\ work \in Seq(Items)
      /\ \A j, k \in DOMAIN work : work[j] = work[k] => j = k
      /\ \A k \in DOMAIN work : \/ \E i \in S : work[k] = Work("segment", i)
                                \/ \E i \in DOMAIN input.memtable : work[k] = Work("batch", i)
      BY <1>3, <1>4, WorkListed
<1> HIDE DEF work
<1>6. PlanOK(input, new)
  <2>1. \A k \in DOMAIN work :
            /\ work[k].kind = "segment" => work[k].at \in DOMAIN input.segments
            /\ work[k].kind = "batch" => work[k].at \in DOMAIN input.memtable
        BY <1>4, <1>5 DEF Work
  <2>2. new.count \in 1..MaxPartitions
    <3>1. input.target \in 1..MaxPartitions /\ MaxPartitions \in Nat /\ Len(work) \in Nat
          BY <1>3, <1>5, ScanAssumption DEF Given
    <3>2. Max({Len(work), 1}) = IF Len(work) >= 1 THEN Len(work) ELSE 1
          BY <3>1, MaxOfTwo
    <3> DEFINE top == Max({Len(work), 1})
    <3>3. top \in Int /\ top >= 1
          BY <3>1, <3>2
    <3> HIDE DEF top
    <3>4. Min({input.target, top}) = IF input.target <= top THEN input.target ELSE top
          BY <3>1, <3>3, MinOfTwo
    <3>5. new.count = IF input.target <= top THEN input.target ELSE top
          BY <1>2, <3>4 DEF top
    <3> QED BY <3>1, <3>3, <3>5
  <2>3. new.predicates \subseteq input.filter
        BY <1>2 DEF Predicates
  <2> QED BY <1>2, <1>5, <2>1, <2>2, <2>3 DEF PlanOK
<1>7. \A p \in Partitions : Local(input, new, next, stream[p]) /\ Has(stream[p]) = {}
      BY <1>3, StartLocal
<1>8. Covered(input, new, next, stream)
  <2>1. \A k \in DOMAIN new.work : ~(k <= next)
        BY <1>2, <1>3, <1>5
  <2> QED BY <2>1 DEF Covered
<1>9. InvOf(input, snapshot, new, next, stream)
      BY <1>1, <1>2, <1>3, <1>6, <1>7, <1>8 DEF InvOf
<1> QED BY <1>1, <1>9 DEF ScanInv, new

\* A change of the schema leaves a scan what it works with.
LEMMA ChangeStep ==
    ASSUME ScanInv, ChangeSchema
    PROVE  ScanInv'
<1>1. PICK change \in input.changes :
          /\ input' = [input EXCEPT !.changes = @ \ {change}, !.done = @ \cup {change}]
          /\ UNCHANGED <<snapshot, plan, next, stream>>
      BY DEF ChangeSchema
<1> DEFINE other == input'
<1>2. Given(input)
      BY DEF ScanInv, InvOf
<1>3. /\ other.schema = input.schema /\ other.segments = input.segments
      /\ other.memtable = input.memtable /\ other.filter = input.filter
      /\ other.limit = input.limit /\ other.target = input.target
      /\ other.changes = input.changes \ {change} /\ other.done = input.done \cup {change}
      /\ DOMAIN other = DOMAIN input
      BY <1>1, <1>2 DEF Given
<1> HIDE DEF other
<1>4. Given(other)
      BY <1>2, <1>3 DEF Given
<1>5. /\ \A s : Local(input, plan, next, s) => Local(other, plan, next, s)
      /\ PlanOK(input, plan) => PlanOK(other, plan)
      /\ \A x : Wanted(other, x) => Wanted(input, x)
      BY <1>3, SameInput
<1>6. Covered(other, plan, next, stream)
      BY <1>5 DEF ScanInv, InvOf, Covered
<1>7. InvOf(other, snapshot, plan, next, stream)
      BY <1>3, <1>4, <1>5, <1>6 DEF ScanInv, InvOf
<1> QED BY <1>1, <1>7 DEF ScanInv, other

\* Changes come after the pin.
PinFirst == snapshot = Null => schema = input.schema

\* The invariant holds when a scan starts.
LEMMA ScanInvInit ==
    ASSUME Init
    PROVE  ScanInv /\ PinFirst
<1>1. PICK case \in Cases :
          input = [case EXCEPT !.segments = [i \in DOMAIN @ |-> BuildSegment(@[i])]]
      BY DEF Init
<1>2. IsCase(case)
      BY ScanAssumption
<1>3. /\ schema = input.schema /\ snapshot = Null /\ plan = Null /\ next = 0
      /\ stream = [p \in Partitions |-> Stream(input.limit)]
      BY DEF Init
<1> DEFINE built == [i \in DOMAIN case.segments |-> BuildSegment(case.segments[i])]
<1>4. /\ input.schema = case.schema /\ input.segments = built
      /\ input.memtable = case.memtable /\ input.filter = case.filter
      /\ input.limit = case.limit /\ input.target = case.target
      /\ input.changes = case.changes /\ input.done = case.done
      /\ DOMAIN input = DOMAIN case
      BY <1>1, <1>2 DEF IsCase
<1>5. /\ built \in Seq(Built)
      /\ \A i \in DOMAIN built : Accepts(case.schema, built[i].fields)
  <2>1. /\ case.segments \in Seq(Segments)
        /\ \A i \in DOMAIN case.segments : Accepts(case.schema, case.segments[i].fields)
        BY <1>2 DEF IsCase
  <2>2. DOMAIN case.segments = 1..Len(case.segments) /\ Len(case.segments) \in Nat
        BY <2>1
  <2>3. \A i \in DOMAIN case.segments : case.segments[i] \in Segments
        BY <2>1, <2>2, ElementOfSeq
  <2>4. \A i \in DOMAIN case.segments : BuildSegment(case.segments[i]) \in Built
        BY <2>3 DEF Built
  <2>5. built \in [1..Len(case.segments) -> Built]
        BY <2>2, <2>4
  <2>6. built \in Seq(Built)
    <3> HIDE DEF built
    <3> QED BY <2>2, <2>5, FunctionIsSeq
  <2>7. \A i \in DOMAIN case.segments :
            BuildSegment(case.segments[i]).fields = case.segments[i].fields
        BY <2>3, BuiltFacts
  <2> QED BY <2>1, <2>6, <2>7
<1> HIDE DEF built
<1>6. Given(input)
      BY <1>2, <1>4, <1>5 DEF Given, IsCase
<1>7. \A p \in Partitions :
          /\ stream[p] = Stream(input.limit)
          /\ Local(input, plan, next, stream[p]) /\ Has(stream[p]) = {}
      BY <1>3, <1>6, StartLocal
<1>8. Covered(input, plan, next, stream)
      BY <1>3 DEF Covered
<1>9. ScanInv
      BY <1>3, <1>6, <1>7, <1>8 DEF ScanInv, InvOf
<1> QED BY <1>3, <1>9 DEF PinFirst

\* Every step keeps the invariant.
LEMMA ScanInvStep ==
    ASSUME ScanInv, PinFirst, [Next]_vars
    PROVE  ScanInv' /\ PinFirst'
<1>1. CASE Pin
  <2>1. ScanInv'
        BY <1>1, PinStep DEF PinFirst, Pin
  <2>2. schema' = input'.schema
        BY <1>1 DEF Pin, PinFirst
  <2> QED BY <2>1, <2>2 DEF PinFirst
<1>2. CASE Plan
      BY <1>2, PlanStep DEF Plan, PinFirst
<1>3. CASE ChangeSchema
      BY <1>3, ChangeStep DEF ChangeSchema, PinFirst
<1>4. ASSUME NEW p \in Active, Partition(p) PROVE ScanInv' /\ PinFirst'
  <2>1. ScanInv'
        BY <1>4, TakeStep, ProjectStep, OpenStep, ReadStep, DecodeStep, EmitStep DEF Partition
  <2>2. UNCHANGED <<input, schema, snapshot>>
        BY <1>4 DEF Partition, Take, Project, OpenPages, Read, Decode, Emit
  <2> QED BY <2>1, <2>2 DEF PinFirst
<1>5. CASE UNCHANGED vars
      BY <1>5 DEF vars, ScanInv, PinFirst
<1> QED BY <1>1, <1>2, <1>3, <1>4, <1>5 DEF Next

----------------------------------------------------------------------------
(* What every scan keeps to.                                               *)

\* The invariant holds throughout.
LEMMA ScanAlways == Spec => [](ScanInv /\ PinFirst)
<1>1. Init => ScanInv /\ PinFirst
      BY ScanInvInit
<1>2. ScanInv /\ PinFirst /\ [Next]_vars => (ScanInv /\ PinFirst)'
      BY ScanInvStep
<1> QED BY <1>1, <1>2, PTL DEF Spec

\* As many things as indices, when no two indices have the same.
LEMMA ListedOnce ==
    ASSUME NEW n \in Nat, NEW f, NEW T, T = {f[i] : i \in 1..n},
           \A i, j \in 1..n : f[i] = f[j] => i = j
    PROVE  IsFiniteSet(T) /\ Cardinality(T) = n
<1> DEFINE g == [i \in 1..n |-> f[i]]
<1>1. IsFiniteSet(1..n) /\ Cardinality(1..n) = n
      BY FS_Interval
<1>2. g \in Surjection(1..n, T)
      BY DEF Surjection
<1>3. g \in Injection(1..n, T)
      BY DEF Injection, IsInjective
<1> HIDE DEF g
<1> QED BY <1>1, <1>2, <1>3, FS_Surjection

\* No more things than indices.
LEMMA ListedAtMost ==
    ASSUME NEW n \in Nat, NEW f, NEW T, T = {f[i] : i \in 1..n}
    PROVE  IsFiniteSet(T) /\ Cardinality(T) <= n
<1> DEFINE g == [i \in 1..n |-> f[i]]
<1>1. IsFiniteSet(1..n) /\ Cardinality(1..n) = n
      BY FS_Interval
<1>2. g \in Surjection(1..n, T)
      BY DEF Surjection
<1> HIDE DEF g
<1> QED BY <1>1, <1>2, FS_Surjection

\* Streams are typed, and hand on live rows of the snapshot only.
THEOREM ScanTyped == Spec => []TypeOK
<1>1. ASSUME ScanInv PROVE TypeOK
  <2>1. Given(input) /\ next \in Nat /\ (snapshot # Null => snapshot = input.schema)
        /\ \A p \in Partitions : Placed(input, plan, next, stream[p])
        BY <1>1 DEF ScanInv, InvOf, Local
  <2>2. \A i \in DOMAIN input.schema : input.schema[i].kind \in Kinds
    <3> DEFINE Fields == [name : STRING, kind : Kinds]
    <3>1. input.schema \in Seq(Fields)
          BY <2>1 DEF Given
    <3> HIDE DEF Fields
    <3>2. \A i \in DOMAIN input.schema : input.schema[i] \in Fields
          BY <3>1, ElementOfSeq
    <3> QED BY <3>2 DEF Fields
  <2>3. ASSUME NEW p \in Partitions
        PROVE  /\ stream[p].state \in States
               /\ ToSet(stream[p].out) \subseteq LiveRows
               /\ stream[p].budget \in Int \cup {Null}
    <3> DEFINE s == stream[p]
    <3>1. s \in Streams /\ \A x \in ToSet(s.out) : LiveAt(input, x[1], x[2])
          BY <2>1 DEF Placed
    <3>2. s.state \in States /\ s.budget \in Int \cup {Null} /\ s.out \in Seq(Places)
          BY <3>1 DEF Streams
    <3>3. ASSUME NEW x \in ToSet(s.out) PROVE x \in LiveRows
      <4>1. x \in Places
            BY <3>2, ElementOfSeq DEF ToSet
      <4>2. x[1] \in Items /\ x = <<x[1], x[2]>>
            BY <4>1 DEF Places
      <4> QED BY <2>1, <3>1, <4>2, LiveRowsAre
    <3> QED BY <3>2, <3>3
  <2> QED BY <2>1, <2>2, <2>3 DEF TypeOK
<1> QED BY <1>1, ScanAlways, PTL

\* No row is handed on twice, by one partition or by two.
THEOREM RowsOnce == Spec => []EachRowOnce
<1>1. ASSUME ScanInv PROVE EachRowOnce
  <2> SUFFICES ASSUME NEW p \in Partitions, NEW q \in Partitions
               PROVE  /\ Cardinality(ToSet(stream[p].out)) = Len(stream[p].out)
                      /\ p # q => ToSet(stream[p].out) \cap ToSet(stream[q].out) = {}
      BY DEF EachRowOnce
  <2> DEFINE out == stream[p].out
             other == stream[q].out
  <2>1. /\ Local(input, plan, next, stream[p])
        /\ p # q => Has(stream[p]) \cap Has(stream[q]) = {}
        BY <1>1 DEF ScanInv, InvOf
  <2>2. out \in Seq(Places) /\ \A i, j \in DOMAIN out : out[i] = out[j] => i = j
        BY <2>1 DEF Local, Placed, Once, Streams
  <2>3. p # q => ToSet(out) \cap ToSet(other) = {}
        BY <2>1 DEF Has
  <2> HIDE DEF out
  <2>4. Len(out) \in Nat /\ DOMAIN out = 1..Len(out)
        BY <2>2
  <2>5. ToSet(out) = {out[i] : i \in 1..Len(out)}
        BY <2>4 DEF ToSet
  <2>6. \A i, j \in 1..Len(out) : out[i] = out[j] => i = j
        BY <2>2, <2>4
  <2>7. Cardinality(ToSet(out)) = Len(out)
        BY <2>4, <2>5, <2>6, ListedOnce
  <2> QED BY <2>3, <2>7 DEF out
<1> QED BY <1>1, ScanAlways, PTL

\* Batches of a segment are not empty, not too long, and of one block.
THEOREM BatchesCut == Spec => []BatchesFit
<1>1. ASSUME ScanInv PROVE BatchesFit
  <2> SUFFICES ASSUME NEW p \in Partitions, NEW b \in DOMAIN stream[p].queue,
                      stream[p].item.kind = "segment"
               PROVE  LET item == stream[p].item
                          rows == {r[2] : r \in ToSet(stream[p].queue[b])}
                          block == StoredBlockRows(input.segments[item.at])
                      IN  /\ rows # {}
                          /\ ScanBatchRows > 0 => Cardinality(rows) <= ScanBatchRows
                          /\ block > 0 => \A r, s \in rows : r \div block = s \div block
      BY DEF BatchesFit
  <2> DEFINE s == stream[p]
             seg == input.segments[s.item.at]
             batch == s.queue[b]
             rows == {r[2] : r \in ToSet(batch)}
  <2>1. Local(input, plan, next, s)
        BY <1>1 DEF ScanInv, InvOf
  <2>2. WellCut(seg, batch)
        BY <2>1 DEF Local, Fits
  <2>3. s.queue \in Seq(Seq(Places))
        BY <2>1 DEF Local, Placed, Streams
  <2>4. batch \in Seq(Places)
    <3> DEFINE q == s.queue
               U == Seq(Places)
    <3>1. q \in Seq(U) /\ b \in DOMAIN q
          BY <2>3
    <3> HIDE DEF q, U
    <3>2. q[b] \in U
          BY <3>1, ElementOfSeq
    <3> QED BY <3>2 DEF q, U
  <2> HIDE DEF seg, batch
  <2>5. Len(batch) \in Nat /\ DOMAIN batch = 1..Len(batch) /\ batch # <<>>
        BY <2>2, <2>4 DEF WellCut
  <2>6. Len(batch) # 0
        BY <2>4, <2>5, EmptySeq
  <2> DEFINE f == [i \in 1..Len(batch) |-> batch[i][2]]
  <2>7. rows = {f[i] : i \in 1..Len(batch)}
        BY <2>5 DEF ToSet
  <2>8. rows # {}
    <3>1. 1 \in 1..Len(batch)
          BY <2>5, <2>6
    <3> QED BY <2>7, <3>1
  <2>9. ScanBatchRows > 0 => Cardinality(rows) <= ScanBatchRows
    <3> HIDE DEF rows, f
    <3>1. IsFiniteSet(rows) /\ Cardinality(rows) <= Len(batch)
          BY <2>5, <2>7, ListedAtMost
    <3>2. Cardinality(rows) \in Nat
          BY <3>1, FS_CardinalityType
    <3>3. ScanBatchRows > 0 => Len(batch) <= ScanBatchRows
          BY <2>2 DEF WellCut
    <3>4. ScanBatchRows \in Nat
          BY PruningAssumption
    <3> QED BY <2>5, <3>1, <3>2, <3>3, <3>4
  <2> DEFINE block == StoredBlockRows(seg)
  <2>10. block > 0 => \A x, y \in rows : x \div block = y \div block
    <3>1. block > 0 => \A i, j \in DOMAIN batch : batch[i][2] \div block = batch[j][2] \div block
          BY <2>2 DEF WellCut
    <3> HIDE DEF block
    <3> QED BY <3>1 DEF ToSet
  <2> QED BY <2>8, <2>9, <2>10 DEF seg, batch
<1> QED BY <1>1, ScanAlways, PTL

----------------------------------------------------------------------------
(* Plans that leave nothing out.                                           *)

\* Every piece of work with a wanted row is on the plan.
AllListed(in, pl) ==
    \A w \in Items : \A r : Wanted(in, <<w, r>>) => \E k \in DOMAIN pl.work : pl.work[k] = w

\* live_rows counts the rows that are live.
LEMMA LiveCounted ==
    ASSUME NEW in, Given(in), NEW i \in DOMAIN in.segments
    PROVE  /\ IsFiniteSet(Live(in.segments[i]))
           /\ LiveRowsIn(in.segments[i]) = Cardinality(Live(in.segments[i]))
           /\ LiveRowsIn(in.segments[i]) \in Nat
           /\ Live(in.segments[i]) # {} => LiveRowsIn(in.segments[i]) > 0
<1> DEFINE seg == in.segments[i]
           n == RowCount(seg)
           all == 0..(n - 1)
           dead == seg.deletes
<1>1. n \in Nat /\ dead \subseteq all
      BY GivenSegment
<1> HIDE DEF seg
<1>2. IsFiniteSet(all) /\ Cardinality(all) = n
      BY <1>1, FS_Interval
<1> HIDE DEF n, all, dead
<1>3. IsFiniteSet(dead) /\ Cardinality(dead) <= n
      BY <1>1, <1>2, FS_Subset
<1>4. Cardinality(dead) \in Nat
      BY <1>3, FS_CardinalityType
<1>5. Live(seg) = all \ dead
      BY DEF Live, n, all, dead
<1>6. IsFiniteSet(all \ dead) /\ Cardinality(all \ dead) = n - Cardinality(dead)
  <2>1. all \cap dead = dead
        BY <1>1
  <2> QED BY <1>2, <2>1, FS_Difference
<1>7. Min({Cardinality(dead), n}) = Cardinality(dead)
      BY <1>1, <1>3, <1>4, MinOfTwo
<1>8. LiveRowsIn(seg) = n - Cardinality(dead)
      BY <1>7 DEF LiveRowsIn, n, dead
<1>9. LiveRowsIn(seg) = Cardinality(Live(seg)) /\ IsFiniteSet(Live(seg))
      BY <1>5, <1>6, <1>8
<1>10. LiveRowsIn(seg) \in Nat
      BY <1>9, FS_CardinalityType
<1>11. Live(seg) # {} => LiveRowsIn(seg) > 0
  <2>1. Cardinality(Live(seg)) = 0 <=> Live(seg) = {}
        BY <1>9, FS_EmptySet
  <2> QED BY <1>9, <1>10, <2>1
<1> QED BY <1>9, <1>10, <1>11 DEF seg

\* A schema under which the columns of the filter are the input's, by position
\* and by kind, as far as it has them.
Steady(in, sch) ==
    \A c \in UNION {ColumnsOf(t) : t \in in.filter} :
        IndexOf(sch, c) # 0 =>
            /\ IndexOf(sch, c) = IndexOf(in.schema, c)
            /\ sch[IndexOf(sch, c)].kind = in.schema[IndexOf(sch, c)].kind

\* Pruning under such a schema keeps what has a wanted row.
LEMMA SteadyKeeps ==
    ASSUME NEW in, Given(in), NEW sch, Steady(in, sch), NEW w, w.kind = "segment",
           w.at \in DOMAIN in.segments, NEW r, Wanted(in, <<w, r>>)
    PROVE  SurvivesPruning(sch, in.filter, in.segments[w.at])
<1>1. in.segments[w.at] \in Built /\ Accepts(in.schema, in.segments[w.at].fields)
      BY GivenSegment DEF Given
<1>2. PICK seg \in Segments : in.segments[w.at] = BuildSegment(seg)
      BY <1>1 DEF Built
<1>3. /\ RowCount(in.segments[w.at]) = RowCount(seg)
      /\ in.segments[w.at].fields = seg.fields
      BY <1>2, BuiltFacts
<1>4. r \in 0..(RowCount(seg) - 1)
  <2>1. r \in Live(in.segments[w.at])
        BY DEF Wanted, LiveAt
  <2> QED BY <1>3, <2>1, GivenSegment
<1>5. 0 \notin DOMAIN seg.columns
      BY SegmentFacts
<1> DEFINE row == ShownAs(in, <<w, r>>)
<1>6. Selects(in.filter, row)
      BY DEF Wanted
<1>7. ASSUME NEW t \in in.filter
      PROVE  IsTerm(t) /\ \A c \in ColumnsOf(t) :
                 row[c] \in Value /\ HoldsAt(sch, seg, c, r, row[c])
  <2>1. IsTerm(t) /\ \A c \in ColumnsOf(t) : IndexOf(in.schema, c) # 0
        BY DEF Given
  <2>2. ASSUME NEW c \in ColumnsOf(t)
        PROVE  row[c] \in Value /\ HoldsAt(sch, seg, c, r, row[c])
    <3>1. row[c] \in Value /\ HoldsAt(in.schema, seg, c, r, row[c])
          BY <1>2, <1>4, <2>1, RowHolds
    <3>2. IndexOf(sch, c) \in DOMAIN seg.columns =>
              /\ IndexOf(sch, c) = IndexOf(in.schema, c)
              /\ sch[IndexOf(sch, c)].kind = in.schema[IndexOf(sch, c)].kind
          BY <1>5 DEF Steady
    <3> HIDE DEF row
    <3> QED BY <3>1, <3>2 DEF HoldsAt
  <2> QED BY <2>1, <2>2
<1> HIDE DEF row
<1>8. SurvivesPruning(sch, in.filter, BuildSegment(seg))
      BY <1>4, <1>6, <1>7, SegmentKept
<1> QED BY <1>2, <1>8

\* What Plan lists.
LEMMA PlanLists ==
    ASSUME ScanInv, Plan, Steady(input, schema)
    PROVE  AllListed(input, plan')
<1> DEFINE S == {i \in LiveSegments : SurvivesPruning(schema, input.filter, input.segments[i])}
<1>1. Given(input)
      BY DEF ScanInv, InvOf
<1>2. plan'.work = PlanWork(input, S)
      BY DEF Plan, PlanWork, Survivors
<1>3. S \in SUBSET DOMAIN input.segments
      BY DEF LiveSegments
<1> DEFINE work == PlanWork(input, S)
<1>4. /\ \A i \in S : \E k \in DOMAIN work : work[k] = Work("segment", i)
      /\ \A i \in DOMAIN input.memtable : \E k \in DOMAIN work : work[k] = Work("batch", i)
  <2> HIDE DEF S
  <2> QED BY <1>1, <1>3, WorkListed
<1> HIDE DEF work
<1> SUFFICES ASSUME NEW w \in Items, NEW r, Wanted(input, <<w, r>>)
             PROVE  \E k \in DOMAIN work : work[k] = w
    BY <1>2 DEF AllListed, work
<1>5. LiveAt(input, w, r) /\ w = Work(w.kind, w.at)
      BY DEF Wanted, Items, Work
<1>6. CASE w.kind = "segment" /\ w.at \in DOMAIN input.segments /\ r \in Live(input.segments[w.at])
  <2>1. w.at \in LiveSegments
        BY <1>1, <1>6, LiveCounted DEF LiveSegments
  <2>2. SurvivesPruning(schema, input.filter, input.segments[w.at])
        BY <1>1, <1>6, SteadyKeeps
  <2>3. w.at \in S
        BY <2>1, <2>2
  <2> QED BY <1>5, <1>6, <1>4, <2>3
<1>7. CASE w.kind = "batch" /\ w.at \in DOMAIN input.memtable
      BY <1>5, <1>7, <1>4
<1> QED BY <1>5, <1>6, <1>7 DEF LiveAt

\* A scan planned under such a schema reads every segment with a wanted row.
ListsAll == plan # Null /\ Steady(input, plan.schema) => AllListed(input, plan)

\* A scan without a filter is, whatever the schema.
LEMMA NoFilterSteady ==
    ASSUME ListsAll, plan # Null, input.filter = {}
    PROVE  AllListed(input, plan)
<1>1. Steady(input, plan.schema)
      BY DEF Steady
<1> QED BY <1>1 DEF ListsAll

\* The list stays as it is when only the schema changes.
LEMMA StillListed ==
    ASSUME ScanInv, ChangeSchema, AllListed(input, plan)
    PROVE  AllListed(input', plan')
<1>1. PICK change \in input.changes :
          /\ input' = [input EXCEPT !.changes = @ \ {change}, !.done = @ \cup {change}]
          /\ UNCHANGED <<snapshot, plan, next, stream>>
      BY DEF ChangeSchema
<1> DEFINE other == input'
<1>2. Given(input)
      BY DEF ScanInv, InvOf
<1>3. /\ other.schema = input.schema /\ other.segments = input.segments
      /\ other.memtable = input.memtable /\ other.filter = input.filter
      /\ other.limit = input.limit
      BY <1>1, <1>2 DEF Given
<1> HIDE DEF other
<1>4. \A x : Wanted(other, x) => Wanted(input, x)
      BY <1>3, SameInput
<1>5. AllListed(other, plan)
      BY <1>4 DEF AllListed
<1> QED BY <1>1, <1>5 DEF other

\* Every step keeps such a plan complete.
LEMMA ListsAllStep ==
    ASSUME ScanInv, ListsAll, [Next]_vars
    PROVE  ListsAll'
<1>1. CASE Pin
      BY <1>1 DEF Pin, ListsAll, ScanInv, InvOf
<1>2. CASE Plan
  <2>1. input' = input /\ plan'.schema = schema
        BY <1>2 DEF Plan
  <2>2. Steady(input, schema) => AllListed(input, plan')
        BY <1>2, PlanLists
  <2> QED BY <2>1, <2>2 DEF ListsAll
<1>3. CASE ChangeSchema
  <2>1. plan' = plan /\ input'.filter = input.filter /\ input'.schema = input.schema
        BY <1>3 DEF ChangeSchema, ScanInv, InvOf, Given
  <2>2. \A sch : Steady(input', sch) => Steady(input, sch)
        BY <2>1 DEF Steady
  <2> QED BY <1>3, <2>1, <2>2, StillListed DEF ListsAll
<1>4. ASSUME NEW p \in Active, Partition(p) PROVE ListsAll'
  <2>1. UNCHANGED <<input, plan>>
        BY <1>4 DEF Partition, Take, Project, OpenPages, Read, Decode, Emit
  <2> QED BY <2>1 DEF ListsAll
<1>5. CASE UNCHANGED vars
      BY <1>5 DEF vars, ListsAll
<1> QED BY <1>1, <1>2, <1>3, <1>4, <1>5 DEF Next

----------------------------------------------------------------------------
(* Scans that have finished.                                               *)

\* When all partitions are done all work is, and what was wanted of it has been
\* returned, unless a batch was cut.
LEMMA AllReturned ==
    ASSUME ScanInv, Finished, \A p \in Partitions : Uncut(stream[p]), AllListed(input, plan),
           NEW w \in Items, NEW r, Wanted(input, <<w, r>>)
    PROVE  <<w, r>> \in Returned
<1>1. plan # Null /\ PlanOK(input, plan) /\ Given(input) /\ next \in Nat
      BY DEF Finished, ScanInv, InvOf
<1>2. PICK k \in DOMAIN plan.work : plan.work[k] = w
      BY DEF AllListed
<1>3. /\ plan.count \in 1..MaxPartitions /\ Active = 0..(plan.count - 1)
      BY <1>1 DEF PlanOK, Active
<1>4. 0 \in Active /\ 0 \in Partitions
      BY <1>3, ScanAssumption DEF Partitions
<1>5. stream[0].state = "done"
      BY <1>4 DEF Finished
<1>6. Local(input, plan, next, stream[0])
      BY <1>4 DEF ScanInv, InvOf
<1>7. next >= Len(plan.work) /\ Len(plan.work) \in Nat /\ DOMAIN plan.work = 1..Len(plan.work)
      BY <1>1, <1>5, <1>6, WorkOf DEF Local, Placed
<1>8. k <= next
      BY <1>1, <1>7
<1>9. Seen(stream, <<w, r>>)
      BY <1>1, <1>2, <1>8 DEF ScanInv, InvOf, Covered
<1>10. PICK p \in Partitions : <<w, r>> \in ToSet(stream[p].out) \/ Ahead(stream[p], <<w, r>>)
      BY <1>9 DEF Seen
<1>11. stream[p].state \in {"done", "take"}
  <2>1. CASE p \in Active
        BY <2>1 DEF Finished
  <2>2. CASE p \notin Active
    <3>1. stream[p] = Stream(input.limit)
          BY <1>1, <2>2 DEF ScanInv, InvOf, Active, ActiveIn
    <3> QED BY <1>1, <3>1, StartLocal
  <2> QED BY <2>1, <2>2
<1>12. ~Ahead(stream[p], <<w, r>>)
      BY <1>11 DEF Ahead
<1> QED BY <1>10, <1>12 DEF Returned

\* All rows that are returned are live, and there are finitely many.
LEMMA ReturnedLive ==
    ASSUME ScanInv
    PROVE  /\ Returned \subseteq LiveRows
           /\ \A p \in Partitions : ToSet(stream[p].out) \subseteq Returned
<1>1. ASSUME NEW p \in Partitions, NEW x \in ToSet(stream[p].out) PROVE x \in LiveRows
  <2> DEFINE s == stream[p]
  <2>1. Given(input) /\ Placed(input, plan, next, s)
        BY DEF ScanInv, InvOf, Local
  <2>2. s.out \in Seq(Places) /\ LiveAt(input, x[1], x[2])
        BY <2>1 DEF Placed, Streams
  <2>3. x \in Places
        BY <2>2, ElementOfSeq DEF ToSet
  <2>4. x[1] \in Items /\ x = <<x[1], x[2]>>
        BY <2>3 DEF Places
  <2> QED BY <2>1, <2>2, <2>4, LiveRowsAre
<1> QED BY <1>1 DEF Returned

\* Without a filter every live row is wanted.
LEMMA NoFilterWants ==
    ASSUME Given(input), input.filter = {}, NEW x \in LiveRows
    PROVE  x[1] \in Items /\ x = <<x[1], x[2]>> /\ Wanted(input, <<x[1], x[2]>>)
<1>1. x \in Places /\ x = <<x[1], x[2]>> /\ LiveAt(input, x[1], x[2])
      BY LiveRowsType
<1>2. x[1] \in Items
      BY <1>1 DEF Places
<1> DEFINE w == x[1]
           r == x[2]
<1> HIDE DEF w, r
<1>3. LiveAt(input, w, r)
      BY <1>1 DEF w, r
<1>4. Wanted(input, <<w, r>>)
      BY <1>3 DEF Wanted, Selects
<1> QED BY <1>1, <1>2, <1>4 DEF w, r

\* A table has finitely many live rows.
LEMMA LiveRowsFinite ==
    ASSUME Given(input)
    PROVE  IsFiniteSet(LiveRows)
<1> DEFINE Of(kind, i, R) == {<<Work(kind, i), r>> : r \in R}
           A == {Of("segment", i, Live(input.segments[i])) : i \in DOMAIN input.segments}
           B == {{<<Work("batch", i), r - 1>> : r \in 1..input.memtable[i].rows}
                     : i \in DOMAIN input.memtable}
<1>1. /\ input.segments \in Seq(Built)
      /\ input.memtable \in Seq([rows : Nat, columns : Seq(Seq(Value))])
      BY DEF Given
<1>2. IsFiniteSet(DOMAIN input.segments) /\ IsFiniteSet(DOMAIN input.memtable)
  <2>1. DOMAIN input.segments = 1..Len(input.segments) /\ Len(input.segments) \in Nat
        BY <1>1
  <2>2. DOMAIN input.memtable = 1..Len(input.memtable) /\ Len(input.memtable) \in Nat
        BY <1>1
  <2>3. IsFiniteSet(1..Len(input.segments)) /\ IsFiniteSet(1..Len(input.memtable))
    <3> DEFINE m == Len(input.segments)
               n == Len(input.memtable)
    <3>1. m \in Int /\ n \in Int
          BY <2>1, <2>2
    <3> HIDE DEF m, n
    <3>2. IsFiniteSet(1..m) /\ IsFiniteSet(1..n)
          BY <3>1, FS_Interval
    <3> QED BY <3>2 DEF m, n
  <2> QED BY <2>1, <2>2, <2>3
<1>3. IsFiniteSet(A)
  <2> DEFINE f == [i \in DOMAIN input.segments |-> Of("segment", i, Live(input.segments[i]))]
  <2>1. A = {f[i] : i \in DOMAIN input.segments}
        OBVIOUS
  <2> HIDE DEF A, f
  <2> QED BY <1>2, <2>1, ImageFinite
<1>4. IsFiniteSet(B)
  <2> DEFINE f == [i \in DOMAIN input.memtable |->
                      {<<Work("batch", i), r - 1>> : r \in 1..input.memtable[i].rows}]
  <2>1. B = {f[i] : i \in DOMAIN input.memtable}
        OBVIOUS
  <2> HIDE DEF B, f
  <2> QED BY <1>2, <2>1, ImageFinite
<1>5. ASSUME NEW T \in A PROVE IsFiniteSet(T)
  <2>1. PICK i \in DOMAIN input.segments : T = Of("segment", i, Live(input.segments[i]))
        OBVIOUS
  <2> DEFINE L == Live(input.segments[i])
             f == [r \in L |-> <<Work("segment", i), r>>]
  <2>2. IsFiniteSet(L)
        BY LiveCounted
  <2> HIDE DEF L
  <2>3. T = {f[r] : r \in L}
        BY <2>1 DEF L
  <2> HIDE DEF f
  <2> QED BY <2>2, <2>3, ImageFinite
<1>6. ASSUME NEW T \in B PROVE IsFiniteSet(T)
  <2>1. PICK i \in DOMAIN input.memtable :
            T = {<<Work("batch", i), r - 1>> : r \in 1..input.memtable[i].rows}
        OBVIOUS
  <2> DEFINE L == 1..input.memtable[i].rows
             f == [r \in L |-> <<Work("batch", i), r - 1>>]
  <2>2. IsFiniteSet(L)
        BY GivenBatch, FS_Interval
  <2> HIDE DEF L
  <2>3. T = {f[r] : r \in L}
        BY <2>1 DEF L
  <2> HIDE DEF f
  <2> QED BY <2>2, <2>3, ImageFinite
<1>7. LiveRows = (UNION A) \cup (UNION B)
      BY DEF LiveRows
<1> HIDE DEF A, B
<1>8. IsFiniteSet(UNION A) /\ IsFiniteSet(UNION B)
      BY <1>3, <1>4, <1>5, <1>6, FS_UNION
<1> QED BY <1>7, <1>8, FS_Union

\* No partition returns more than the limit, all of them together at least what
\* a LIMIT needs.
LEMMA LimitKept ==
    ASSUME ScanInv, ListsAll
    PROVE  LimitServed
<1> SUFFICES ASSUME input.limit # Null PROVE
        /\ \A p \in Partitions : Len(stream[p].out) <= input.limit
        /\ Finished => Cardinality(Returned) >= Min({input.limit, Cardinality(LiveRows)})
        /\ Finished /\ plan.count = 1 =>
              Cardinality(Returned) = Min({input.limit, Cardinality(LiveRows)})
    BY DEF LimitServed
<1>1. Given(input) /\ input.limit \in Nat /\ input.filter = {}
      BY DEF ScanInv, InvOf, Given
<1>2. ASSUME NEW p \in Partitions
      PROVE  /\ stream[p].budget \in Int /\ stream[p].out \in Seq(Places)
             /\ Len(stream[p].out) = IF stream[p].budget >= 0 THEN input.limit - stream[p].budget
                                     ELSE input.limit
             /\ \A i, j \in DOMAIN stream[p].out : stream[p].out[i] = stream[p].out[j] => i = j
  <2>1. Local(input, plan, next, stream[p])
        BY DEF ScanInv, InvOf
  <2> QED BY <2>1 DEF Local, Placed, Streams, Budgeted, Once
<1>3. \A p \in Partitions : Len(stream[p].out) <= input.limit
      BY <1>1, <1>2
<1>4. IsFiniteSet(LiveRows) /\ Returned \subseteq LiveRows
      BY <1>1, LiveRowsFinite, ReturnedLive
<1>5. IsFiniteSet(Returned) /\ Cardinality(Returned) \in Nat /\ Cardinality(LiveRows) \in Nat
      BY <1>4, FS_Subset, FS_CardinalityType
<1>6. Min({input.limit, Cardinality(LiveRows)}) =
          IF input.limit <= Cardinality(LiveRows) THEN input.limit ELSE Cardinality(LiveRows)
      BY <1>1, <1>5, MinOfTwo
<1>7. ASSUME Finished PROVE Cardinality(Returned) >= Min({input.limit, Cardinality(LiveRows)})
  <2>1. CASE \A p \in Partitions : Uncut(stream[p])
    <3>1. AllListed(input, plan)
          BY <1>1, <1>7, NoFilterSteady DEF Finished
    <3>2. ASSUME NEW x \in LiveRows PROVE x \in Returned
      <4>1. x[1] \in Items /\ x = <<x[1], x[2]>> /\ Wanted(input, <<x[1], x[2]>>)
            BY <1>1, NoFilterWants
      <4>2. <<x[1], x[2]>> \in Returned
            BY <1>7, <2>1, <3>1, <4>1, AllReturned
      <4> QED BY <4>1, <4>2
    <3>3. Returned = LiveRows
          BY <1>4, <3>2
    <3> QED BY <1>1, <1>5, <1>6, <3>3
  <2>2. CASE \E p \in Partitions : ~Uncut(stream[p])
    <3>1. PICK p \in Partitions : ~Uncut(stream[p])
          BY <2>2
    <3> DEFINE out == stream[p].out
    <3>2. Len(out) = input.limit
          BY <1>2, <3>1 DEF Uncut
    <3>3. out \in Seq(Places) /\ (\A i, j \in DOMAIN out : out[i] = out[j] => i = j)
          /\ ToSet(out) \subseteq Returned
          BY <1>2, ReturnedLive
    <3> HIDE DEF out
    <3>4. Len(out) \in Nat /\ DOMAIN out = 1..Len(out)
          BY <3>3
    <3>5. ToSet(out) = {out[i] : i \in 1..Len(out)}
          BY <3>4 DEF ToSet
    <3>6. \A i, j \in 1..Len(out) : out[i] = out[j] => i = j
          BY <3>3, <3>4
    <3>7. Cardinality(ToSet(out)) = Len(out)
          BY <3>4, <3>5, <3>6, ListedOnce
    <3>8. Cardinality(ToSet(out)) <= Cardinality(Returned)
          BY <1>5, <3>3, FS_Subset
    <3> QED BY <1>1, <1>5, <1>6, <3>2, <3>7, <3>8
  <2> QED BY <2>1, <2>2
<1>8. ASSUME Finished, plan.count = 1
      PROVE  Cardinality(Returned) = Min({input.limit, Cardinality(LiveRows)})
  <2>1. plan # Null /\ Active = {0}
    <3>1. 0..(1 - 1) = {0}
          OBVIOUS
    <3> QED BY <1>8, <3>1 DEF Finished, Active
  <2>2. \A p \in Partitions : p # 0 => stream[p] = Stream(input.limit)
        BY <2>1 DEF ScanInv, InvOf, ActiveIn, Active
  <2>3. 0 \in Partitions /\ \A p \in Partitions : p # 0 => ToSet(stream[p].out) = {}
        BY <2>2, ScanAssumption DEF Stream, ToSet, Partitions
  <2>4. Returned = ToSet(stream[0].out)
        BY <2>3 DEF Returned
  <2> DEFINE out == stream[0].out
  <2>5. /\ out \in Seq(Places) /\ Len(out) <= input.limit
        /\ \A i, j \in DOMAIN out : out[i] = out[j] => i = j
        BY <1>2, <1>3, <2>3
  <2> HIDE DEF out
  <2>6. Len(out) \in Nat /\ DOMAIN out = 1..Len(out)
        BY <2>5
  <2>7. ToSet(out) = {out[i] : i \in 1..Len(out)}
        BY <2>6 DEF ToSet
  <2>8. \A i, j \in 1..Len(out) : out[i] = out[j] => i = j
        BY <2>5, <2>6
  <2>9. Cardinality(ToSet(out)) = Len(out)
        BY <2>6, <2>7, <2>8, ListedOnce
  <2>10. Cardinality(Returned) <= input.limit
        BY <2>4, <2>5, <2>9 DEF out
  <2>11. Cardinality(Returned) <= Cardinality(LiveRows)
        BY <1>4, FS_Subset
  <2> QED BY <1>1, <1>5, <1>6, <1>7, <1>8, <2>10, <2>11
<1> QED BY <1>3, <1>7, <1>8

\* The rows a piece of work counts for, and which they are.
RowsOfWork(in, w) ==
    IF w.kind = "segment" THEN LiveRowsIn(in.segments[w.at]) ELSE in.memtable[w.at].rows

Counted(in, pl) == UNION {{k} \X (1..RowsOfWork(in, pl.work[k])) : k \in DOMAIN pl.work}

RowAt(in, w, j) == IF w.kind = "segment" THEN Ascending(Live(in.segments[w.at]))[j] ELSE j - 1

\* Counting the rows of a piece of work lists its live rows, once each.
LEMMA RowsListed ==
    ASSUME NEW in, Given(in), NEW w \in Items,
           w.kind = "segment" => w.at \in DOMAIN in.segments,
           w.kind = "batch" => w.at \in DOMAIN in.memtable
    PROVE  /\ RowsOfWork(in, w) \in Nat
           /\ \A j \in 1..RowsOfWork(in, w) : LiveAt(in, w, RowAt(in, w, j))
           /\ \A i, j \in 1..RowsOfWork(in, w) : RowAt(in, w, i) = RowAt(in, w, j) => i = j
           /\ \A r : LiveAt(in, w, r) => \E j \in 1..RowsOfWork(in, w) : RowAt(in, w, j) = r
<1>1. w.kind \in {"segment", "batch"}
      BY DEF Items
<1>2. CASE w.kind = "segment"
  <2> DEFINE L == Live(in.segments[w.at])
             asc == Ascending(L)
             n == Cardinality(L)
  <2>1. L \in SUBSET Nat /\ IsFiniteSet(L) /\ LiveRowsIn(in.segments[w.at]) = n
        BY <1>2, GivenSegment, LiveCounted
  <2>2. RowsOfWork(in, w) = n /\ \A j : RowAt(in, w, j) = asc[j]
        BY <1>2, <2>1 DEF RowsOfWork, RowAt
  <2>3. \A r : LiveAt(in, w, r) <=> r \in L
        BY <1>2 DEF LiveAt
  <2> HIDE DEF L
  <2>4. /\ asc \in [1..n -> L] /\ n \in Nat
        /\ \A j, k \in 1..n : asc[j] = asc[k] => j = k
        /\ \A x \in L : \E k \in 1..n : asc[k] = x
        BY <2>1, AscendingLists
  <2> HIDE DEF asc, n
  <2> QED BY <2>2, <2>3, <2>4
<1>3. CASE w.kind = "batch"
  <2> DEFINE n == in.memtable[w.at].rows
  <2>1. n \in Nat
        BY <1>3, GivenBatch
  <2>2. RowsOfWork(in, w) = n /\ \A j : RowAt(in, w, j) = j - 1
        BY <1>3 DEF RowsOfWork, RowAt
  <2>3. \A r : LiveAt(in, w, r) <=> r \in 0..(n - 1)
        BY <1>3 DEF LiveAt
  <2> HIDE DEF n
  <2>4. \A r \in 0..(n - 1) : r + 1 \in 1..n /\ (r + 1) - 1 = r
        BY <2>1
  <2>5. \A j \in 1..n : j - 1 \in 0..(n - 1)
        BY <2>1
  <2>6. \A i, j \in 1..n : i - 1 = j - 1 => i = j
        BY <2>1
  <2>7. \A r : LiveAt(in, w, r) => \E j \in 1..n : j - 1 = r
        BY <2>3, <2>4
  <2>8. \A j \in 1..n : LiveAt(in, w, j - 1)
        BY <2>3, <2>5
  <2>9. \A j \in 1..n : LiveAt(in, w, RowAt(in, w, j))
        BY <2>2, <2>8
  <2>10. \A i, j \in 1..n : RowAt(in, w, i) = RowAt(in, w, j) => i = j
    <3> SUFFICES ASSUME NEW i \in 1..n, NEW j \in 1..n, RowAt(in, w, i) = RowAt(in, w, j)
                 PROVE  i = j
        OBVIOUS
    <3>1. i - 1 = j - 1
          BY <2>2
    <3> QED BY <2>6, <3>1
  <2>11. ASSUME NEW r, LiveAt(in, w, r) PROVE \E j \in 1..n : RowAt(in, w, j) = r
    <3>1. PICK j \in 1..n : j - 1 = r
          BY <2>7, <2>11
    <3>2. RowAt(in, w, j) = r
          BY <2>2, <3>1
    <3> QED BY <3>2
  <2>12. RowsOfWork(in, w) = n
        BY <2>2
  <2> QED BY <2>1, <2>9, <2>10, <2>11, <2>12
<1> QED BY <1>1, <1>2, <1>3

\* row_estimate adds up the live rows.
LEMMA CountsLive ==
    ASSUME ScanInv, plan # Null, AllListed(input, plan), input.filter = {}
    PROVE  Cardinality(Counted(input, plan)) = Cardinality(LiveRows)
<1>1. Given(input) /\ PlanOK(input, plan)
      BY DEF ScanInv, InvOf
<1> DEFINE work == plan.work
           P == Counted(input, plan)
           f == [x \in P |-> <<work[x[1]], RowAt(input, work[x[1]], x[2])>>]
<1>2. ASSUME NEW k \in DOMAIN work
      PROVE  /\ work[k] \in Items
             /\ work[k].kind = "segment" => work[k].at \in DOMAIN input.segments
             /\ work[k].kind = "batch" => work[k].at \in DOMAIN input.memtable
      BY <1>1, WorkOf DEF PlanOK
<1>3. ASSUME NEW k \in DOMAIN work
      PROVE  /\ RowsOfWork(input, work[k]) \in Nat
             /\ \A j \in 1..RowsOfWork(input, work[k]) :
                   LiveAt(input, work[k], RowAt(input, work[k], j))
             /\ \A i, j \in 1..RowsOfWork(input, work[k]) :
                   RowAt(input, work[k], i) = RowAt(input, work[k], j) => i = j
             /\ \A r : LiveAt(input, work[k], r) =>
                   \E j \in 1..RowsOfWork(input, work[k]) : RowAt(input, work[k], j) = r
  <2> DEFINE w == work[k]
  <2>1. /\ w \in Items
        /\ w.kind = "segment" => w.at \in DOMAIN input.segments
        /\ w.kind = "batch" => w.at \in DOMAIN input.memtable
        BY <1>2
  <2> HIDE DEF w
  <2>2. /\ RowsOfWork(input, w) \in Nat
        /\ \A j \in 1..RowsOfWork(input, w) : LiveAt(input, w, RowAt(input, w, j))
        /\ \A i, j \in 1..RowsOfWork(input, w) : RowAt(input, w, i) = RowAt(input, w, j) => i = j
        /\ \A r : LiveAt(input, w, r) => \E j \in 1..RowsOfWork(input, w) : RowAt(input, w, j) = r
        BY <1>1, <2>1, RowsListed
  <2> QED BY <2>2 DEF w
<1>4. ASSUME NEW x \in P
      PROVE  x[1] \in DOMAIN work /\ x[2] \in 1..RowsOfWork(input, work[x[1]]) /\ x = <<x[1], x[2]>>
      BY DEF Counted
<1>5. ASSUME NEW k \in DOMAIN work, NEW j \in 1..RowsOfWork(input, work[k])
      PROVE  <<k, j>> \in P
      BY DEF Counted
<1> HIDE DEF P, work
<1>6. \A x \in P : f[x] \in LiveRows
      BY <1>1, <1>2, <1>3, <1>4, LiveRowsAre
<1>7. \A x, y \in P : f[x] = f[y] => x = y
  <2> SUFFICES ASSUME NEW x \in P, NEW y \in P, f[x] = f[y] PROVE x = y
      OBVIOUS
  <2>1. work[x[1]] = work[y[1]] /\ RowAt(input, work[x[1]], x[2]) = RowAt(input, work[y[1]], y[2])
        OBVIOUS
  <2>2. \A j, k \in DOMAIN work : work[j] = work[k] => j = k
        BY <1>1 DEF PlanOK, work
  <2>3. x[1] = y[1]
        BY <1>4, <2>1, <2>2
  <2>4. x[2] = y[2]
        BY <1>3, <1>4, <2>1, <2>3
  <2> QED BY <1>4, <2>3, <2>4
<1>8. ASSUME NEW z \in LiveRows PROVE \E x \in P : f[x] = z
  <2>1. z[1] \in Items /\ z = <<z[1], z[2]>> /\ Wanted(input, <<z[1], z[2]>>)
        BY <1>1, NoFilterWants
  <2>2. LiveAt(input, z[1], z[2])
        BY <1>1, LiveRowsType
  <2>3. PICK k \in DOMAIN work : work[k] = z[1]
        BY <2>1 DEF AllListed, work
  <2>4. PICK j \in 1..RowsOfWork(input, work[k]) : RowAt(input, work[k], j) = z[2]
        BY <1>3, <2>2, <2>3
  <2>5. <<k, j>> \in P
        BY <1>5
  <2>6. f[<<k, j>>] = z
        BY <2>1, <2>3, <2>4, <2>5
  <2> QED BY <2>5, <2>6
<1>9. f \in Injection(P, LiveRows) /\ f \in Surjection(P, LiveRows)
  <2>1. f \in [P -> LiveRows]
        BY <1>6
  <2> HIDE DEF f
  <2> QED BY <1>7, <1>8, <2>1 DEF Injection, Surjection, IsInjective
<1> HIDE DEF f
<1>10. IsFiniteSet(LiveRows)
      BY <1>1, LiveRowsFinite
<1>11. Cardinality(P) = Cardinality(LiveRows)
      BY <1>9, <1>10, FS_Injection
<1> QED BY <1>11 DEF P

\* The count reported is the count of the rows returned.
LEMMA CountKept ==
    ASSUME ScanInv, ListsAll
    PROVE  CountIsExact
<1> SUFFICES ASSUME Finished, input.filter = {}, input.limit = Null \/ plan.count = 1
             PROVE  RowEstimate = Cardinality(Returned)
    BY DEF CountIsExact
<1>1. Given(input) /\ plan # Null /\ PlanOK(input, plan) /\ AllListed(input, plan)
      BY NoFilterSteady DEF ScanInv, InvOf, Finished
<1> DEFINE rows == Cardinality(LiveRows)
<1>2. RowEstimate = IF input.limit = Null THEN rows ELSE Min({rows, input.limit})
  <2>1. Cardinality(Counted(input, plan)) = rows
        BY <1>1, CountsLive
  <2>2. RowEstimate = LET all == Cardinality(Counted(input, plan))
                      IN  IF input.limit = Null THEN all ELSE Min({all, input.limit})
        BY DEF RowEstimate, Counted, RowsOfWork
  <2> HIDE DEF rows
  <2> QED BY <2>1, <2>2
<1>3. IsFiniteSet(LiveRows) /\ Returned \subseteq LiveRows
      BY <1>1, LiveRowsFinite, ReturnedLive
<1>4. IsFiniteSet(Returned) /\ Cardinality(Returned) \in Nat /\ rows \in Nat
      /\ Cardinality(Returned) <= rows
      BY <1>3, FS_Subset, FS_CardinalityType
<1> HIDE DEF rows
<1>5. ASSUME \A p \in Partitions : Uncut(stream[p]) PROVE Cardinality(Returned) = rows
  <2>1. ASSUME NEW x \in LiveRows PROVE x \in Returned
    <3>1. x[1] \in Items /\ x = <<x[1], x[2]>> /\ Wanted(input, <<x[1], x[2]>>)
          BY <1>1, NoFilterWants
    <3>2. <<x[1], x[2]>> \in Returned
          BY <1>1, <1>5, <3>1, AllReturned
    <3> QED BY <3>1, <3>2
  <2>2. Returned = LiveRows
        BY <1>3, <2>1
  <2> QED BY <2>2 DEF rows
<1>6. ASSUME NEW p \in Partitions PROVE Budgeted(input, stream[p]) /\ stream[p] \in Streams
      BY DEF ScanInv, InvOf, Local, Placed
<1>7. CASE input.limit = Null
  <2>1. \A p \in Partitions : Uncut(stream[p])
        BY <1>6, <1>7 DEF Budgeted, Uncut
  <2> QED BY <1>2, <1>5, <1>7, <2>1
<1>8. CASE input.limit # Null
  <2>1. input.limit \in Nat /\ plan.count = 1 /\ Active = {0}
    <3>1. 0..(1 - 1) = {0}
          OBVIOUS
    <3> QED BY <1>1, <1>8, <3>1 DEF Given, Active
  <2>2. Min({rows, input.limit}) = IF rows <= input.limit THEN rows ELSE input.limit
        BY <1>4, <2>1, MinOfTwo
  <2>3. 0 \in Partitions
        BY ScanAssumption DEF Partitions
  <2>4. \A p \in Partitions : p # 0 => stream[p] = Stream(input.limit)
        BY <1>1, <2>1 DEF ScanInv, InvOf, ActiveIn, Active
  <2>5. \A p \in Partitions : p # 0 => Uncut(stream[p]) /\ ToSet(stream[p].out) = {}
        BY <2>1, <2>4 DEF Stream, Uncut, ToSet
  <2>6. Returned = ToSet(stream[0].out)
        BY <2>3, <2>5 DEF Returned
  <2> DEFINE out == stream[0].out
             left == stream[0].budget
  <2>7. /\ left \in Int /\ out \in Seq(Places)
        /\ Len(out) = IF left >= 0 THEN input.limit - left ELSE input.limit
        BY <1>6, <1>8, <2>3 DEF Budgeted, Streams
  <2>8. Cardinality(Returned) = Len(out)
    <3>1. \A i, j \in DOMAIN out : out[i] = out[j] => i = j
          BY <2>3 DEF ScanInv, InvOf, Local, Once
    <3> HIDE DEF out
    <3>2. Len(out) \in Nat /\ DOMAIN out = 1..Len(out)
          BY <2>7
    <3>3. ToSet(out) = {out[i] : i \in 1..Len(out)}
          BY <3>2 DEF ToSet
    <3>4. \A i, j \in 1..Len(out) : out[i] = out[j] => i = j
          BY <3>1, <3>2
    <3>5. Cardinality(ToSet(out)) = Len(out)
          BY <3>2, <3>3, <3>4, ListedOnce
    <3> QED BY <2>6, <3>5 DEF out
  <2>9. CASE left >= 0
    <3>1. \A p \in Partitions : Uncut(stream[p])
          BY <2>5, <2>9 DEF Uncut
    <3>2. Cardinality(Returned) = rows
          BY <1>5, <3>1
    <3>3. rows <= input.limit
          BY <1>4, <2>1, <2>7, <2>8, <2>9, <3>2
    <3> QED BY <1>2, <1>8, <2>2, <3>2, <3>3
  <2>10. CASE ~(left >= 0)
    <3>1. Cardinality(Returned) = input.limit
          BY <2>7, <2>8, <2>10
    <3> QED BY <1>2, <1>4, <1>8, <2>1, <2>2, <3>1
  <2> QED BY <2>9, <2>10
<1> QED BY <1>7, <1>8

----------------------------------------------------------------------------
(* Limits and counts.                                                      *)

\* The plan lists what it should, throughout.
LEMMA ListedAlways == Spec => [](ScanInv /\ ListsAll)
<1>1. Init => ListsAll
      BY DEF Init, ListsAll
<1>2. ScanInv /\ ListsAll /\ [Next]_vars => ListsAll'
      BY ListsAllStep
<1> QED BY <1>1, <1>2, ScanAlways, PTL DEF Spec

\* A LIMIT is served, and no partition goes beyond it.
THEOREM LimitsServed == Spec => []LimitServed
<1>1. ScanInv /\ ListsAll => LimitServed
      BY LimitKept
<1> QED BY <1>1, ListedAlways, PTL

\* The row count that DataFusion answers COUNT(*) from is right.
THEOREM CountsExact == Spec => []CountIsExact
<1>1. ScanInv /\ ListsAll => CountIsExact
      BY CountKept
<1> QED BY <1>1, ListedAlways, PTL

----------------------------------------------------------------------------
(* Schema changes.                                                         *)

\* The provers do not know a literal for a string.
Field == [name : STRING \cup {"added", "renamed"}, kind : Kinds]

\* The input's schema is a sequence of fields.
LEMMA SchemaFields ==
    ASSUME NEW in, Given(in)
    PROVE  in.schema \in Seq(Field) /\ Len(in.schema) \in Nat /\ Len(in.schema) > 0
<1> DEFINE Plain == [name : STRING, kind : Kinds]
           sch == in.schema
<1>1. sch \in Seq(Plain) /\ Len(sch) > 0
      BY DEF Given
<1>2. \A f \in Plain : f \in Field
      BY DEF Field
<1> HIDE DEF Plain, sch
<1>3. DOMAIN sch = 1..Len(sch) /\ Len(sch) \in Nat
      BY <1>1
<1>4. \A i \in 1..Len(sch) : sch[i] \in Field
      BY <1>1, <1>2, <1>3, ElementOfSeq
<1>5. sch = [i \in 1..Len(sch) |-> sch[i]]
      BY <1>1, <1>3
<1>6. sch \in [1..Len(sch) -> Field]
      BY <1>4, <1>5
<1>7. sch \in Seq(Field)
      BY <1>3, <1>6, FunctionIsSeq
<1> QED BY <1>1, <1>3, <1>7 DEF sch

\* A schema that has grown: the columns of the input come first, under
\* whichever names.
Grown(in, sch) ==
    /\ Len(sch) >= Len(in.schema)
    /\ \A i \in 1..Len(in.schema) : sch[i].kind = in.schema[i].kind

\* A grown schema accepts what the input's does.
LEMMA GrownAccepts ==
    ASSUME NEW in, Given(in), NEW sch \in Seq(Field), Grown(in, sch),
           NEW i \in DOMAIN in.segments
    PROVE  Accepts(sch, in.segments[i].fields)
<1> DEFINE fields == in.segments[i].fields
<1>1. in.segments[i] \in Built /\ Accepts(in.schema, fields)
      BY GivenSegment DEF Given
<1>2. PICK seg \in Segments : in.segments[i] = BuildSegment(seg)
      BY <1>1 DEF Built
<1>3. fields \in Seq(Kinds)
  <2>1. fields = seg.fields
        BY <1>2, BuiltFacts
  <2> QED BY <2>1 DEF Segments
<1> HIDE DEF fields
<1>4. /\ Len(fields) <= Len(in.schema) /\ \A j \in DOMAIN fields : in.schema[j].kind = fields[j]
      /\ Len(fields) \in Nat /\ DOMAIN fields = 1..Len(fields)
      BY <1>1, <1>3 DEF Accepts
<1>5. Len(in.schema) \in Nat /\ Len(sch) \in Nat
      BY DEF Given
<1>6. \A j \in DOMAIN fields : sch[j].kind = fields[j]
      BY <1>4, <1>5 DEF Grown
<1>7. Len(fields) <= Len(sch)
      BY <1>4, <1>5 DEF Grown
<1> QED BY <1>6, <1>7 DEF Accepts, fields

\* As long as nothing was dropped or cast, the schema has grown and no stream
\* has failed.
Unharmed ==
    input.done \cap {"drop", "cast"} = {} =>
        /\ schema \in Seq(Field) /\ Grown(input, schema)
        /\ \A p \in Partitions : stream[p].state # "failed"

\* A column added comes after the others.
LEMMA AddGrows ==
    ASSUME NEW in, Given(in), schema \in Seq(Field), Grown(in, schema),
           NEW new \in Changed("add")
    PROVE  new \in Seq(Field) /\ Grown(in, new)
<1> DEFINE field == [name |-> "added", kind |-> "fixed"]
           L == Len(in.schema)
<1>1. new = Append(schema, field)
      BY DEF Changed
<1>2. field \in Field
  <2>1. "fixed" \in Kinds
        BY DEF Kinds, Numbers
  <2> QED BY <2>1 DEF Field
<1>3. Len(schema) \in Nat /\ L \in Nat /\ Len(schema) >= L
      BY SchemaFields DEF Grown
<1> HIDE DEF field
<1>4. /\ new \in Seq(Field) /\ Len(new) = Len(schema) + 1
      /\ \A i \in 1..Len(schema) : new[i] = schema[i]
      BY <1>1, <1>2
<1> QED BY <1>3, <1>4 DEF Grown

\* A new name leaves a column its kind.
LEMMA RenameGrows ==
    ASSUME NEW in, Given(in), schema \in Seq(Field), Grown(in, schema),
           NEW new \in Changed("rename")
    PROVE  new \in Seq(Field) /\ Grown(in, new)
<1> DEFINE L == Len(in.schema)
<1>1. PICK at \in DOMAIN schema : new = [schema EXCEPT ![at].name = "renamed"]
      BY DEF Changed
<1>2. Len(schema) \in Nat /\ DOMAIN schema = 1..Len(schema) /\ L \in Nat /\ Len(schema) >= L
      BY SchemaFields DEF Grown
<1>3. \A i \in DOMAIN schema : schema[i] \in Field
      BY ElementOfSeq
<1>4. \A i \in 1..Len(schema) :
          new[i] = IF i = at THEN [schema[i] EXCEPT !.name = "renamed"] ELSE schema[i]
      BY <1>1, <1>2
<1>5. DOMAIN new = 1..Len(schema) /\ new = [i \in 1..Len(schema) |-> new[i]]
      BY <1>1, <1>2
<1>6. \A f \in Field : LET g == [f EXCEPT !.name = "renamed"]
                       IN  g \in Field /\ g.kind = f.kind
      BY DEF Field
<1>7. \A i \in 1..Len(schema) : new[i] \in Field /\ new[i].kind = schema[i].kind
      BY <1>2, <1>3, <1>4, <1>6
<1>8. new \in Seq(Field) /\ Len(new) = Len(schema)
      BY <1>2, <1>5, <1>7, FunctionIsSeq
<1> QED BY <1>2, <1>7, <1>8 DEF Grown

\* A change that rewrites nothing leaves the scan unharmed.
LEMMA ChangeUnharmed ==
    ASSUME ScanInv, Unharmed, ChangeSchema
    PROVE  Unharmed'
<1>1. PICK change \in input.changes :
          /\ schema' \in Changed(change)
          /\ input' = [input EXCEPT !.changes = @ \ {change}, !.done = @ \cup {change}]
          /\ UNCHANGED <<snapshot, plan, next, stream>>
      BY DEF ChangeSchema
<1>2. Given(input)
      BY DEF ScanInv, InvOf
<1>3. input'.schema = input.schema /\ input'.done = input.done \cup {change}
      BY <1>1, <1>2 DEF Given
<1> SUFFICES ASSUME input'.done \cap {"drop", "cast"} = {}
             PROVE  /\ schema' \in Seq(Field) /\ Grown(input', schema')
                    /\ \A p \in Partitions : stream'[p].state # "failed"
    BY DEF Unharmed
<1>4. change \in {"add", "rename"} /\ input.done \cap {"drop", "cast"} = {}
      BY <1>2, <1>3 DEF Given
<1>5. schema \in Seq(Field) /\ Grown(input, schema)
      BY <1>4 DEF Unharmed
<1>6. schema' \in Seq(Field) /\ Grown(input, schema')
      BY <1>1, <1>2, <1>4, <1>5, AddGrows, RenameGrows
<1>7. Grown(input', schema')
      BY <1>3, <1>6 DEF Grown
<1> QED BY <1>1, <1>4, <1>6, <1>7 DEF Unharmed

\* At the start the schema is the one the scan sees.
LEMMA UnharmedInit ==
    ASSUME Init
    PROVE  Unharmed
<1>1. ScanInv
      BY ScanInvInit
<1>2. Given(input) /\ schema = input.schema
      BY <1>1 DEF ScanInv, InvOf, Init
<1>3. schema \in Seq(Field) /\ Len(schema) \in Nat
      BY <1>2, SchemaFields
<1>4. Grown(input, schema)
      BY <1>2, <1>3 DEF Grown
<1>5. \A p \in Partitions : stream[p].state # "failed"
      BY DEF Init, Stream
<1> QED BY <1>3, <1>4, <1>5 DEF Unharmed

\* Every step keeps it so.
LEMMA UnharmedStep ==
    ASSUME ScanInv, Unharmed, [Next]_vars
    PROVE  Unharmed'
<1> DEFINE Big == input.done \cap {"drop", "cast"} = {}
<1>1. Given(input)
      BY DEF ScanInv, InvOf
<1>2. Big => schema \in Seq(Field) /\ Grown(input, schema)
      BY DEF Unharmed
<1>3. CASE Pin
      BY <1>3 DEF Pin, Unharmed
<1>4. CASE Plan
      BY <1>4 DEF Plan, Unharmed
<1>5. CASE ChangeSchema
      BY <1>5, ChangeUnharmed
<1>6. ASSUME NEW p \in Active, Partition(p) PROVE Unharmed'
  <2>1. UNCHANGED <<input, schema, plan>>
        BY <1>6 DEF Partition, Take, Project, OpenPages, Read, Decode, Emit
  <2>2. p \in Partitions /\ DOMAIN stream = Partitions /\ Local(input, plan, next, stream[p])
        /\ PlanOK(input, plan) /\ stream[p] \in Streams
        BY ActiveFacts
  <2>3. ASSUME Big, NEW q \in Partitions PROVE stream'[q].state # "failed"
    <3>1. stream[q].state # "failed"
          BY <2>3 DEF Unharmed
    <3>2. CASE OpenPages(p)
      <4>1. stream[p].state = "open" /\ stream[p].item.kind = "segment"
            BY <3>2 DEF OpenPages
      <4>2. stream[p].item.at \in DOMAIN input.segments
            BY <1>1, <2>2, <4>1, ItemOf DEF Busy
      <4>3. Accepts(schema, input.segments[stream[p].item.at].fields)
            BY <1>1, <1>2, <2>3, <4>2, GrownAccepts
      <4>4. \E keep : stream' = [stream EXCEPT ![p].state = "read", ![p].keep = keep]
            BY <3>2, <4>3 DEF OpenPages
      <4> QED BY <2>2, <3>1, <4>4 DEF Streams
    <3>3. CASE ~OpenPages(p)
      <4>1. Take(p) \/ Project(p) \/ Read(p) \/ Decode(p) \/ Emit(p)
            BY <1>6, <3>3 DEF Partition
      <4>2. CASE Take(p)
            BY <2>2, <3>1, <4>2 DEF Take, Streams
      <4>3. CASE Project(p)
            BY <2>2, <3>1, <4>3 DEF Project, Streams
      <4>4. CASE Read(p)
            BY <2>2, <3>1, <4>4 DEF Read, Streams
      <4>5. CASE Decode(p)
            BY <2>2, <3>1, <4>5 DEF Decode, Streams
      <4>6. CASE Emit(p)
            BY <2>2, <3>1, <4>6 DEF Emit, Streams
      <4> QED BY <4>1, <4>2, <4>3, <4>4, <4>5, <4>6
    <3> QED BY <3>2, <3>3
  <2> QED BY <1>2, <2>1, <2>3 DEF Unharmed
<1>7. CASE UNCHANGED vars
      BY <1>7 DEF vars, Unharmed
<1> QED BY <1>3, <1>4, <1>5, <1>6, <1>7 DEF Next

\* Columns added or renamed meanwhile make no scan fail.
THEOREM GrowthSurvived == Spec => []ScanSurvivesGrowth
<1>1. Init => Unharmed
      BY UnharmedInit
<1>2. ScanInv /\ Unharmed /\ [Next]_vars => Unharmed'
      BY UnharmedStep
<1>3. Unharmed => ScanSurvivesGrowth
      BY DEF Unharmed, ScanSurvivesGrowth, NoScanFails
<1> QED BY <1>1, <1>2, <1>3, ScanAlways, PTL DEF Spec

\* With all wanted work on the plan a finished scan has returned every row the
\* filter selects.
LEMMA MatchesReturned ==
    ASSUME ScanInv, plan # Null => AllListed(input, plan)
    PROVE  NoMatchLost
<1> SUFFICES ASSUME Finished, input.limit = Null, NEW x \in LiveRows,
                    Selects(input.filter, Values(x))
             PROVE  x \in Returned
    BY DEF NoMatchLost
<1>1. Given(input) /\ plan # Null /\ snapshot = input.schema
      BY DEF ScanInv, InvOf, Finished
<1>2. x \in Places /\ x = <<x[1], x[2]>> /\ LiveAt(input, x[1], x[2])
      BY <1>1, LiveRowsType
<1>3. x[1] \in Items
      BY <1>2 DEF Places
<1>4. Values(x) = ShownAs(input, x)
      BY <1>1 DEF Values, ShownAs
<1>5. Wanted(input, <<x[1], x[2]>>)
  <2> DEFINE w == x[1]
             r == x[2]
  <2>1. x = <<w, r>> /\ LiveAt(input, w, r)
        BY <1>2
  <2> HIDE DEF w, r
  <2>2. Wanted(input, <<w, r>>)
        BY <1>4, <2>1 DEF Wanted
  <2> QED BY <2>2 DEF w, r
<1>6. \A p \in Partitions : Uncut(stream[p])
      BY DEF ScanInv, InvOf, Local, Budgeted, Uncut
<1>7. <<x[1], x[2]>> \in Returned
      BY <1>1, <1>3, <1>5, <1>6, AllReturned
<1> QED BY <1>2, <1>7

\* A scan planned under the schema of its snapshot, as far as its filter goes,
\* returns every row the filter selects, whatever is added, renamed, dropped or
\* cast while it is planned and run.
THEOREM MatchesKept == Spec => []PlannedMatchesKept
<1>1. ScanInv /\ ListsAll => PlannedMatchesKept
  <2> SUFFICES ASSUME ScanInv, ListsAll, plan # Null, PlannedAsPinned PROVE NoMatchLost
      BY DEF PlannedMatchesKept
  <2>1. snapshot = input.schema
        BY DEF ScanInv, InvOf
  <2>2. Steady(input, plan.schema)
        BY <2>1 DEF Steady, PlannedAsPinned
  <2> QED BY <2>2, MatchesReturned DEF ListsAll
<1> QED BY <1>1, ListedAlways, PTL

\* Without a filter it has whatever happened to the schema.
THEOREM AllRowsKept == Spec => [](input.filter = {} => NoMatchLost)
<1>1. ScanInv /\ ListsAll => (input.filter = {} => NoMatchLost)
      BY MatchesReturned, NoFilterSteady
<1> QED BY <1>1, ListedAlways, PTL

=============================================================================
