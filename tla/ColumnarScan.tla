---- MODULE ColumnarScan ----
(***************************************************************************)
(* One SQL scan of a columnar table: planned against a pinned snapshot by  *)
(* ColumnarTableProvider::scan, executed by the partitions of a            *)
(* ColumnarScanExec that draw segments and in-memory batches from a shared *)
(* counter.  Schema changes commit beside it.                              *)
(***************************************************************************)
EXTENDS Pruning

CONSTANTS
    Cases,          \* the tables and queries a scan may start with
    MaxPartitions   \* bounds the partitions of a plan

\* A table and a query: segments the schema accepts, rows in memory, a filter on
\* columns of the schema.  DataFusion pushes no limit below a filter that is not
\* exact.
IsCase(c) ==
    /\ DOMAIN c = {"schema", "segments", "memtable", "filter", "limit", "target",
                   "changes", "done"}
    /\ c.schema \in Seq([name : STRING, kind : Kinds]) /\ Len(c.schema) > 0
    /\ c.segments \in Seq(Segments)
    /\ \A i \in DOMAIN c.segments : Accepts(c.schema, c.segments[i].fields)
    /\ c.memtable \in Seq([rows : Nat, columns : Seq(Seq(Value))])
    /\ \A t \in c.filter :
        IsTerm(t) /\ \A name \in ColumnsOf(t) : IndexOf(c.schema, name) # 0
    /\ c.limit \in {Null} \cup Nat
    /\ c.limit # Null => c.filter = {}
    /\ c.target \in 1..MaxPartitions
    /\ c.changes \subseteq {"add", "rename", "drop", "cast"} /\ c.done = {}

ASSUME ScanAssumption ==
    /\ MaxPartitions \in Nat \ {0}
    /\ \A c \in Cases : IsCase(c)

VARIABLES
    input,      \* the case: segments, memtable, query, schema changes to come and
                \* done since the pin
    schema,     \* the table's current schema
    snapshot,   \* the schema of the pinned snapshot, or Null
    plan,       \* the ColumnarScanExec, or Null
    next,       \* Morsels::next
    stream      \* the stream of each partition

vars == <<input, schema, snapshot, plan, next, stream>>

Partitions == 0..(MaxPartitions - 1)
States == {"take", "open", "read", "decode", "emit", "done", "failed"}

\* Work::Segment or Work::Batch, by position in the table.
Work(kind, i) == [kind |-> kind, at |-> i]

\* execute(): a stream at its start, with a budget of its own.
Stream(limit) ==
    [state |-> "take", item |-> Null, keep |-> Null, ranges |-> {}, queue |-> <<>>,
     budget |-> limit, out |-> <<>>]

Init ==
    /\ \E case \in Cases :
        input = [case EXCEPT !.segments = [i \in DOMAIN @ |-> BuildSegment(@[i])]]
    /\ schema = input.schema
    /\ snapshot = Null /\ plan = Null
    /\ next = 0
    /\ stream = [p \in Partitions |-> Stream(input.limit)]

-----------------------------------------------------------------------------
(* Planning.                                                               *)

Pin ==
    /\ snapshot = Null
    /\ snapshot' = schema
    /\ UNCHANGED <<input, schema, plan, next, stream>>

LiveSegments == {i \in DOMAIN input.segments : LiveRowsIn(input.segments[i]) > 0}

\* prune() tests the bounds under the schema that is current now.
Survivors ==
    Ascending({i \in LiveSegments :
                  SurvivesPruning(schema, input.filter, input.segments[i])})

Plan ==
    /\ snapshot # Null /\ plan = Null
    /\ LET segments == [i \in DOMAIN Survivors |-> Work("segment", Survivors[i])]
           batches == [i \in DOMAIN input.memtable |-> Work("batch", i)]
           work == segments \o batches
       IN  plan' = [work |-> work,
                    count |-> Min({input.target, Max({Len(work), 1})}),
                    schema |-> schema,
                    predicates |-> Predicates(schema, input.filter),
                    columns |-> ReferencedColumns(schema, input.filter)]
    /\ UNCHANGED <<input, schema, snapshot, next, stream>>

-----------------------------------------------------------------------------
(* Execution: what one partition does between two awaits.                  *)

Active == IF plan = Null THEN {} ELSE 0..(plan.count - 1)

\* Mutant of Take: two partitions that draw at once store the same value.
TakeAndStore(p) ==
    /\ stream[p].state = "take"
    /\ next' = IF \E q \in Active \ {p} : stream[q].state = "open" THEN next ELSE next + 1
    /\ IF next < Len(plan.work)
       THEN stream' = [stream EXCEPT ![p].state = "open", ![p].item = plan.work[next + 1]]
       ELSE stream' = [stream EXCEPT ![p].state = "done", ![p].item = Null]
    /\ UNCHANGED <<input, schema, snapshot, plan>>

\* Mutant of Take: a partition that finds no work waits for some.
TakeOrWait(p) ==
    /\ stream[p].state = "take"
    /\ next < Len(plan.work)
    /\ next' = next + 1
    /\ stream' = [stream EXCEPT ![p].state = "open", ![p].item = plan.work[next + 1]]
    /\ UNCHANGED <<input, schema, snapshot, plan>>

\* Morsels::take.
Take(p) ==
    /\ stream[p].state = "take"
    /\ next' = next + 1
    /\ IF next < Len(plan.work)
       THEN stream' = [stream EXCEPT ![p].state = "open", ![p].item = plan.work[next + 1]]
       ELSE stream' = [stream EXCEPT ![p].state = "done", ![p].item = Null]
    /\ UNCHANGED <<input, schema, snapshot, plan>>

\* A batch in memory needs no read.
Project(p) ==
    LET item == stream[p].item
    IN  /\ stream[p].state = "open" /\ item.kind = "batch"
        /\ stream' = [stream EXCEPT
                ![p].state = "emit",
                ![p].queue = <<[r \in 1..input.memtable[item.at].rows |-> <<item, r - 1>>]>>]
        /\ UNCHANGED <<input, schema, snapshot, plan, next>>

\* Scanner::keep_pages: opens the segment under the table's current schema.
OpenPages(p) ==
    LET item == stream[p].item
        seg == input.segments[item.at]
    IN  /\ stream[p].state = "open" /\ item.kind = "segment"
        /\ \/ /\ plan.predicates = {} \/ plan.columns = {}
              /\ stream' = [stream EXCEPT ![p].state = "read", ![p].keep = Null]
           \/ /\ plan.predicates # {} /\ plan.columns # {}
              /\ Accepts(schema, seg.fields)
              /\ stream' = [stream EXCEPT ![p].state = "read",
                      ![p].keep = KeepPages(snapshot, plan.predicates, plan.columns, seg)]
           \/ /\ plan.predicates # {} /\ plan.columns # {}
              /\ ~Accepts(schema, seg.fields)
              /\ stream' = [stream EXCEPT ![p].state = "failed"]
        /\ UNCHANGED <<input, schema, snapshot, plan, next>>

\* read_segment_pages opens the segment under the snapshot's schema and works
\* out the ranges to decode.
Read(p) ==
    LET s == stream[p]
    IN  /\ s.state = "read"
        /\ stream' = [stream EXCEPT
                ![p].state = "decode",
                ![p].ranges = RangesToRead(input.segments[s.item.at], s.keep)]
        /\ UNCHANGED <<input, schema, snapshot, plan, next>>

\* Its loop: one range at a time from the first, the batches gathered until all
\* are decoded.
Decode(p) ==
    LET s == stream[p]
        range == CHOOSE r \in s.ranges : \A q \in s.ranges : r[1] <= q[1]
        batches == DecodeRange(input.segments[s.item.at], range)
        rows == [b \in DOMAIN batches |->
                    [i \in DOMAIN batches[b] |-> <<s.item, batches[b][i]>>]]
    IN  /\ s.state = "decode"
        /\ \/ /\ s.ranges # {}
              /\ stream' = [stream EXCEPT ![p].ranges = @ \ {range}, ![p].queue = @ \o rows]
           \/ /\ s.ranges = {}
              /\ stream' = [stream EXCEPT ![p].state = IF s.queue = <<>> THEN "take" ELSE "emit"]
        /\ UNCHANGED <<input, schema, snapshot, plan, next>>

\* Mutant of Fitting: a batch that crosses the limit is dropped whole.
FittingWhole(budget, batch) ==
    IF budget = Null \/ budget >= Len(batch) THEN batch ELSE <<>>

\* apply_budget: the part of a batch that still fits.
Fitting(budget, batch) ==
    IF budget = Null THEN batch
    ELSE SubSeq(batch, 1, Min({Len(batch), Max({budget, 0})}))

Emit(p) ==
    LET s == stream[p]
        batch == Head(s.queue)
    IN  /\ s.state = "emit"
        /\ stream' = [stream EXCEPT
                ![p].out = @ \o Fitting(s.budget, batch),
                ![p].budget = IF @ = Null THEN Null ELSE @ - Len(batch),
                ![p].queue = Tail(@),
                ![p].state = IF Len(s.queue) = 1 THEN "take" ELSE "emit"]
        /\ UNCHANGED <<input, schema, snapshot, plan, next>>

-----------------------------------------------------------------------------
(* Schema changes of other sessions.  The segments a pinned snapshot names *)
(* keep the fields they were written with.                                 *)

\* can_cast_types, between the kinds told apart here.
CanCast(from, to) ==
    /\ from # to
    /\ {from, to} \subseteq {"fixed", "float", "utf8"} \/ {from, to} = {"utf8", "binary"}

\* What a change leaves of the schema, whichever column it is about.
Changed(change) ==
    CASE change = "add" -> {Append(schema, [name |-> "added", kind |-> "fixed"])}
      [] change = "rename" -> {[schema EXCEPT ![i].name = "renamed"] : i \in DOMAIN schema}
      [] change = "drop" -> {RemoveAt(schema, i) : i \in {j \in DOMAIN schema : Len(schema) > 1}}
      [] change = "cast" ->
            {[schema EXCEPT ![f[1]].kind = f[2]] :
                f \in {g \in (DOMAIN schema) \X Kinds : CanCast(schema[g[1]].kind, g[2])}}

ChangeSchema ==
    \E change \in input.changes :
        /\ snapshot # Null
        /\ schema' \in Changed(change)
        /\ input' = [input EXCEPT !.changes = @ \ {change}, !.done = @ \cup {change}]
        /\ UNCHANGED <<snapshot, plan, next, stream>>

Partition(p) ==
    \/ Take(p)
    \/ Project(p)
    \/ OpenPages(p)
    \/ Read(p)
    \/ Decode(p)
    \/ Emit(p)

Next == Pin \/ Plan \/ ChangeSchema \/ \E p \in Active : Partition(p)

\* DataFusion plans the query and polls every stream to its end; nothing
\* obliges anyone to change the schema.
Fairness ==
    /\ WF_vars(Pin) /\ WF_vars(Plan)
    /\ \A p \in Partitions : WF_vars(p \in Active /\ Partition(p))

Spec == Init /\ [][Next]_vars /\ Fairness

-----------------------------------------------------------------------------
(* What a scan promises.                                                   *)

\* Every row the snapshot shows, by piece of work and position.
LiveRows ==
    (UNION {{<<Work("segment", i), r>> : r \in Live(input.segments[i])}
                : i \in DOMAIN input.segments})
    \cup
    (UNION {{<<Work("batch", i), r - 1>> : r \in 1..input.memtable[i].rows}
                : i \in DOMAIN input.memtable})

\* The values of a row under the snapshot's schema; a column that is younger
\* than the segment is null.
Values(row) ==
    LET columns == IF row[1].kind = "segment"
                   THEN input.segments[row[1].at].columns
                   ELSE input.memtable[row[1].at].columns
    IN  [c \in {snapshot[i].name : i \in DOMAIN snapshot} |->
            LET at == IndexOf(snapshot, c)
            IN  IF at \in DOMAIN columns THEN columns[at][row[2] + 1] ELSE Null]

Returned == UNION {ToSet(stream[p].out) : p \in Partitions}

Finished == plan # Null /\ \A p \in Active : stream[p].state = "done"

\* row_estimate, reported to DataFusion as an exact count: the rows of all work
\* added up, as so many pairs.
RowEstimate ==
    LET RowsOf(w) == IF w.kind = "segment" THEN LiveRowsIn(input.segments[w.at])
                     ELSE input.memtable[w.at].rows
        rows == Cardinality(UNION {{k} \X (1..RowsOf(plan.work[k])) : k \in DOMAIN plan.work})
    IN  IF input.limit = Null THEN rows ELSE Min({rows, input.limit})

\* Every variable has its type: the streams of ColumnarScanExec hold rows of
\* the snapshot, in a state of try_unfold.
TypeOK ==
    /\ next \in Nat
    /\ snapshot # Null => \A i \in DOMAIN snapshot : snapshot[i].kind \in Kinds
    /\ \A p \in Partitions :
        /\ stream[p].state \in States
        /\ ToSet(stream[p].out) \subseteq LiveRows
        /\ stream[p].budget \in Int \cup {Null}

\* No partition hands on a row another one has handed on, nor one twice:
\* Morsels::take gives each piece of work to one partition.
EachRowOnce ==
    \A p, q \in Partitions :
        /\ Cardinality(ToSet(stream[p].out)) = Len(stream[p].out)
        /\ p # q => ToSet(stream[p].out) \cap ToSet(stream[q].out) = {}

\* Segment pruning, page pruning and the cutting of ranges lose no row the
\* filter selects, deleted rows apart ("costs a read, never a row").
NoMatchLost ==
    Finished /\ input.limit = Null =>
        \A row \in LiveRows : Selects(input.filter, Values(row)) => row \in Returned

\* The columns of the filter that the schema of the plan names are the
\* snapshot's, by position and by kind: what self.schema() loads after the
\* snapshot is the schema of that snapshot, as far as the filter goes.
PlannedAsPinned ==
    \A c \in UNION {ColumnsOf(t) : t \in input.filter} :
        LET at == IndexOf(plan.schema, c)
        IN  at # 0 => at = IndexOf(snapshot, c) /\ plan.schema[at].kind = snapshot[at].kind

\* A scan planned under the schema of its snapshot loses no match, whatever is
\* added, renamed, dropped or cast while it is planned and run.
PlannedMatchesKept == plan # Null /\ PlannedAsPinned => NoMatchLost

\* A scan under a LIMIT returns enough rows for it, whichever partition they
\* came from; a partition returns no more than the limit, so a scan of one
\* partition returns exactly the rows asked for.
LimitServed ==
    input.limit # Null =>
        LET wanted == Min({input.limit, Cardinality(LiveRows)})
        IN  /\ \A p \in Partitions : Len(stream[p].out) <= input.limit
            /\ Finished => Cardinality(Returned) >= wanted
            /\ Finished /\ plan.count = 1 => Cardinality(Returned) = wanted

\* "Every partition draws from one budget": the partitions of a scan together
\* return no more rows than the limit.
OneBudget == input.limit # Null => Cardinality(Returned) <= input.limit

\* "Row counts are exact": partition_statistics reports the rows the scan
\* returns, whatever its filter and its partitions.
EveryCountIsExact == Finished => RowEstimate = Cardinality(Returned)

\* With no filter and one budget, partition_statistics reports exactly the
\* rows the scan goes on to return; DataFusion answers COUNT(*) from it.
CountIsExact ==
    Finished /\ input.filter = {} /\ (input.limit = Null \/ plan.count = 1) =>
        RowEstimate = Cardinality(Returned)

\* read_segment_as hands on no empty batch, none longer than asked for, and
\* none that spans two blocks.
BatchesFit ==
    \A p \in Partitions : \A b \in DOMAIN stream[p].queue :
        LET item == stream[p].item
            rows == {r[2] : r \in ToSet(stream[p].queue[b])}
            block == StoredBlockRows(input.segments[item.at])
        IN  item.kind = "segment" =>
                /\ rows # {}
                /\ ScanBatchRows > 0 => Cardinality(rows) <= ScanBatchRows
                /\ block > 0 => \A r, s \in rows : r \div block = s \div block

\* No scan fails: each reads its segments through the schema its snapshot was
\* taken under.
NoScanFails == \A p \in Partitions : stream[p].state # "failed"

\* Only a change that rewrites, a drop or a cast, makes a scan fail: columns
\* added or renamed meanwhile leave its segments readable, the ones with fewer
\* columns too, although keep_pages opens them under the current schema.
ScanSurvivesGrowth == input.done \cap {"drop", "cast"} = {} => NoScanFails

\* Every scan ends, however its partitions are scheduled.
ScanEnds == <>(plan # Null /\ \A p \in Active : stream[p].state \in {"done", "failed"})
====
