---- MODULE RowGroups ----
(***************************************************************************)
(* How a flush, a compaction or a rewrite cuts its rows into segments:     *)
(* the size of a row group (localtables-format/src/config.rs), batches     *)
(* kept whole where they fit (columnar/table/write.rs), and the z-order    *)
(* (columnar/zorder.rs).                                                   *)
(***************************************************************************)
EXTENDS ArrowBatches

CONSTANTS
    TARGET_ROW_GROUPS,
    DIM_BITS,           \* bits a column contributes to a z-order key
    Bits(_)             \* valuecodec::encode_value: the leading bits of a value

ASSUME RowGroupsAssumption ==
    /\ TARGET_ROW_GROUPS \in Nat \ {0} /\ DIM_BITS \in Nat \ {0}
    /\ \A v \in Numbers : Bits(v) \in [0..(DIM_BITS - 1) -> {0, 1}]

CeilDiv(a, b) == (a + b - 1) \div b

Clamp(n, low, high) == Max({low, Min({n, high})})

RowGroupSizeFor(o, totalRows) ==
    IF o.rowGroupRows = 0 THEN 0
    ELSE Clamp(CeilDiv(totalRows, TARGET_ROW_GROUPS),
               Max({1, Min({o.minRowGroupRows, o.rowGroupRows})}),
               o.rowGroupRows)

(***************************************************************************)
(* split_row_groups: groups closed so far, the open group and its rows.    *)
(***************************************************************************)
\* Mutant of Overfills: the room left in the open group is off by one.
OverfillsLate(open, rows, max) == open.rows > 0 /\ rows > max - open.rows + 1

Overfills(open, rows, max) == open.rows > 0 /\ rows > max - open.rows

Close(open) ==
    [groups |-> Append(open.groups, open.current), current |-> <<>>, rows |-> 0]

\* The pieces of max rows that `while batch.num_rows() > max_rows` cuts off.
Heads(batch, max) ==
    LET n == IF NumRows(batch) > max THEN (NumRows(batch) - 1) \div max ELSE 0
    IN [i \in 1..n |-> <<SliceBatch(batch, (i - 1) * max, max)>>]

Opened(open, rows, max) == IF Overfills(open, rows, max) THEN Close(open) ELSE open

\* Mutant of Rest: the rest starts with the last row cut off.
RestEarly(batch, cut) ==
    IF cut = 0 THEN batch ELSE SliceBatch(batch, cut - 1, NumRows(batch) - cut)

\* What the loop leaves of a batch after `cut` rows.
Rest(batch, cut) ==
    IF cut = 0 THEN batch ELSE SliceBatch(batch, cut, NumRows(batch) - cut)

Added(open, rest) ==
    IF NumRows(rest) = 0 THEN open
    ELSE [open EXCEPT !.current = Append(@, rest), !.rows = @ + NumRows(rest)]

CloseFull(open, max) == IF open.rows >= max THEN Close(open) ELSE open

AddPieces(open, batch, heads, max) ==
    CloseFull(Added([open EXCEPT !.groups = @ \o heads], Rest(batch, Len(heads) * max)), max)

AddBatch(open, batch, max) ==
    AddPieces(Opened(open, NumRows(batch), max), batch, Heads(batch, max), max)

Finish(open) ==
    IF open.current = <<>> THEN open.groups ELSE Append(open.groups, open.current)

\* The loop over the batches.
AddAll(batches, max) ==
    LET open[i \in 0..Len(batches)] ==
            IF i = 0 THEN [groups |-> <<>>, current |-> <<>>, rows |-> 0]
            ELSE AddBatch(open[i - 1], batches[i], max)
    IN  open[Len(batches)]

SplitRowGroups(batches, max) ==
    CASE batches = <<>> -> <<>>
      [] batches # <<>> /\ max = 0 -> <<batches>>
      [] batches # <<>> /\ max # 0 -> Finish(AddAll(batches, max))

(***************************************************************************)
(* cluster: rows ordered by a key that interleaves the bits of columns.    *)
(***************************************************************************)
\* resolve: every column exists and has a byte form that orders, none twice.
Resolves(columns) ==
    /\ ToSet(columns) \subseteq {c \in DOMAIN Types : Types[c] # "odd"}
    /\ IsInjective(columns)

DimensionBits(v) == IF v = Null THEN [b \in 0..(DIM_BITS - 1) |-> 0] ELSE Bits(v)

\* The bit at position p of the key of a row.
KeyBit(row, columns, p) ==
    DimensionBits(row[columns[(p % Len(columns)) + 1]])[p \div Len(columns)]

Key(row, columns) ==
    [p \in 0..(DIM_BITS * Len(columns) - 1) |-> KeyBit(row, columns, p)]

KeyLeq(k, l) ==
    k = l \/ \E p \in DOMAIN k : k[p] < l[p] /\ \A q \in 0..(p - 1) : k[q] = l[q]

\* The orders an unstable sort of the rows by key may return.
SortedOrders(rows, columns) ==
    {p \in SetToSeqs(DOMAIN rows) :
        \A i \in 1..(Len(p) - 1) :
            KeyLeq(Key(rows[p[i]], columns), Key(rows[p[i + 1]], columns))}

\* One batch of fresh arrays with the rows named by picks.
Gather(rows, picks) ==
    <<[c \in DOMAIN Types |-> Array(Types[c], [i \in DOMAIN picks |-> rows[picks[i]][c]])]>>

\* The order in chunks of `per`.
Chunks(rows, order, per) ==
    [g \in 1..CeilDiv(Len(rows), per) |->
        Gather(rows, SubSeq(order, (g - 1) * per + 1, Min({g * per, Len(rows)})))]

Cluster(batches, order, groupRows) ==
    Chunks(AllTuples(batches), order, IF groupRows = 0 THEN TotalRows(batches) ELSE groupRows)

\* The orders row_groups may write the rows in: only a z-order has a choice.
Orders(batches, columns) ==
    IF columns = <<>> THEN {<<>>} ELSE SortedOrders(AllTuples(batches), columns)

CutRows(batches, groupRows, columns, order) ==
    IF columns = <<>> THEN SplitRowGroups(batches, groupRows)
    ELSE IF TotalRows(batches) = 0 THEN <<>>
    ELSE Cluster(batches, order, groupRows)
====
