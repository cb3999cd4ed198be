---- MODULE Pruning ----
(***************************************************************************)
(* What a segment stores about its rows, and what a scan skips because of  *)
(* it: zone maps with truncated bounds, membership and trigram filters,    *)
(* page bounds, and the row ranges that are left to read.                  *)
(*                                                                         *)
(* A value is Null or a sequence of bytes, compared byte by byte; numbers  *)
(* are values of one byte.  A byte is 0 (plain text), 1 (continues a       *)
(* character), 2 (starts a character of two bytes) or TopByte (0xff, never *)
(* in text): enough for text that a truncation cuts inside a character.    *)
(* Rows and page numbers count from 0, as in the code.                     *)
(***************************************************************************)
EXTENDS Integers, Sequences, FiniteSets, SequencesExt, FiniteSetsExt

CONSTANTS
    Null,               \* SQL null, and Rust's None
    MAX_BOUND_BYTES,    \* zonemap.rs: longest bound that is stored
    SIZE,               \* trigram.rs: bytes in a piece
    PageRows,           \* TableOptions::page_rows
    BlockRows,          \* TableOptions::compression_block_rows
    ScanBatchRows,      \* TableOptions::scan_batch_rows
    Hash(_)             \* layout::checksum: any function of the bytes

ASSUME PruningAssumption ==
    /\ MAX_BOUND_BYTES \in Nat \ {0} /\ SIZE \in Nat \ {0}
    /\ PageRows \in Nat /\ BlockRows \in Nat /\ ScanBatchRows \in Nat
    /\ Null \notin Int

TopByte == 3
Byte == 0..TopByte

\* The kinds of column told apart: what has an order, what has a width, and two
\* types of number whose bytes differ for the same number (i64 and f64).
Kinds == {"fixed", "float", "utf8", "binary", "list"}
Numbers == {"fixed", "float"}

\* The bytes a value of a kind is stored as, and back: its own inverse.
Raw(kind, v) ==
    IF kind = "float" THEN [i \in DOMAIN v |-> (v[i] + 2) % (TopByte + 1)] ELSE v

ValidUtf8(s) ==
    \A i \in DOMAIN s :
        /\ s[i] # TopByte
        /\ s[i] = 1 <=> (i > 1 /\ s[i - 1] = 2)
        /\ s[i] = 2 => i < Len(s)

Less(a, b) ==
    \E i \in DOMAIN b :
        /\ \A j \in 1..(i - 1) : j <= Len(a) /\ a[j] = b[j]
        /\ i > Len(a) \/ a[i] < b[i]

Leq(a, b) == a = b \/ Less(a, b)

Value == {Null} \cup Seq(Byte)

\* The numbers of a finite set in ascending order.
Ascending(S) ==
    [k \in 1..Cardinality(S) |-> CHOOSE i \in S : Cardinality({j \in S : j <= i}) = k]

NonNull(array) == {array[i] : i \in DOMAIN array} \ {Null}

(***************************************************************************)
(* Zone maps.                                                              *)
(***************************************************************************)
Prefix(v) == SubSeq(v, 1, Min({Len(v), MAX_BOUND_BYTES}))

\* Mutant of IncrementPrefix: a cut maximum is kept as it is.
KeepPrefix(p) == p

\* The smallest value above everything that starts with p, of that length or
\* shorter; none when p is all 0xff.
IncrementPrefix(p) ==
    LET room == {i \in DOMAIN p : p[i] < TopByte}
    IN  IF room = {} THEN Null
        ELSE [SubSeq(p, 1, Max(room)) EXCEPT ![Max(room)] = @ + 1]

\* A maximum as it is stored, rounded up when it has to be cut.
UpperBound(v) ==
    IF Len(v) > MAX_BOUND_BYTES THEN IncrementPrefix(Prefix(v)) ELSE v

\* A bound as raw bytes of the column's type.
StoredBound(kind, v) == IF v = Null THEN Null ELSE Raw(kind, v)

ZoneMap(kind, array) ==
    LET found == NonNull(array)
        known == kind # "list" /\ found # {}
        min == CHOOSE v \in found : \A w \in found : Leq(v, w)
        max == CHOOSE v \in found : \A w \in found : Leq(w, v)
    IN  [null_count |-> Cardinality({i \in DOMAIN array : array[i] = Null}),
         min |-> IF known THEN StoredBound(kind, Prefix(min)) ELSE Null,
         max |-> IF known THEN StoredBound(kind, UpperBound(max)) ELSE Null]

\* Stored bytes read as a value of a type, if they are one: from_le_bytes takes
\* any bytes of the right length.
DecodeBound(kind, bytes) ==
    IF \/ bytes = Null
       \/ kind = "list"
       \/ kind \in Numbers /\ Len(bytes) # 1
       \/ kind = "utf8" /\ ~ValidUtf8(bytes)
    THEN Null ELSE Raw(kind, bytes)

(***************************************************************************)
(* Membership and trigram filters, as the hashes they would report.        *)
(***************************************************************************)
BloomFilter(kind, array) ==
    IF kind = "list" \/ NonNull(array) = {} THEN Null
    ELSE {Hash(Raw(kind, v)) : v \in NonNull(array)}

\* A probe is hashed as a value of the column's type; one that is null, or has
\* no hash, says nothing.
MayContain(filter, kind, v) == v = Null \/ Hash(Raw(kind, v)) \in filter

Trigrams(s) == {SubSeq(s, i, i + SIZE - 1) : i \in 1..(Len(s) - SIZE + 1)}

TrigramFilter(kind, array) ==
    LET seen == UNION {Trigrams(v) : v \in NonNull(array)}
    IN  IF kind \notin {"utf8", "binary"} \/ seen = {} THEN Null
        ELSE {Hash(t) : t \in seen}

\* The wildcards of a LIKE pattern, % and _.
ANY == -1
ONE == -2

\* The pieces of a pattern that no wildcard interrupts.
Required(pattern) == {t \in Trigrams(pattern) : \A j \in DOMAIN t : t[j] \in Byte}

(***************************************************************************)
(* Segments.  A segment keeps the kinds of its columns (its fingerprint),  *)
(* its columns, which of them have filters, what describes them, and the   *)
(* rows deleted since.  A schema is a sequence of named columns.           *)
(***************************************************************************)
RowCount(seg) == Len(seg.columns[1])

\* A segment as a flush hands it to build_segment: at least one column, all of
\* one length, deleted rows and filters inside it.
Segments ==
    {seg \in [fields : Seq(Kinds), columns : Seq(Seq(Value)), deletes : SUBSET Nat,
              blooms : SUBSET Nat, trigrams : SUBSET Nat] :
        /\ Len(seg.columns) = Len(seg.fields) /\ Len(seg.columns) > 0
        /\ \A i \in DOMAIN seg.columns : Len(seg.columns[i]) = RowCount(seg)
        /\ seg.deletes \subseteq 0..(RowCount(seg) - 1)
        /\ seg.blooms \cup seg.trigrams \subseteq DOMAIN seg.columns}

\* ceil(rows / n), the number of pages or blocks of n rows.
DivCeil(rows, n) == (rows + n - 1) \div n

\* One page of bounds would repeat the zone map, so then none are stored.
StoredPageRows(seg) ==
    IF PageRows > 0 /\ DivCeil(RowCount(seg), PageRows) > 1 THEN PageRows ELSE 0

\* With no compression only columns of variable width are cut into blocks.
StoredBlockRows(seg) ==
    IF /\ BlockRows > 0 /\ RowCount(seg) > BlockRows
       /\ \E i \in DOMAIN seg.fields : seg.fields[i] \notin Numbers
    THEN BlockRows ELSE 0

PageZones(seg, i) ==
    IF StoredPageRows(seg) = 0 THEN <<>>
    ELSE [page \in 1..DivCeil(RowCount(seg), PageRows) |->
            ZoneMap(seg.fields[i],
                    SubSeq(seg.columns[i], (page - 1) * PageRows + 1,
                           Min({page * PageRows, RowCount(seg)})))]

\* build_segment and write_column: what is stored beside the columns.
BuildSegment(seg) ==
    [fields |-> seg.fields, columns |-> seg.columns, deletes |-> seg.deletes,
     zone |-> [i \in DOMAIN seg.columns |-> ZoneMap(seg.fields[i], seg.columns[i])],
     pages |-> [i \in DOMAIN seg.columns |-> PageZones(seg, i)],
     bloom |-> [i \in seg.blooms |-> BloomFilter(seg.fields[i], seg.columns[i])],
     trigram |-> [i \in seg.trigrams |-> TrigramFilter(seg.fields[i], seg.columns[i])]]

\* Mutant of Accepts: only the last added column may be missing.
AcceptsLatest(schema, fields) ==
    /\ Len(schema) - Len(fields) \in 0..1
    /\ \A i \in DOMAIN fields : schema[i].kind = fields[i]

\* SchemaLayout::accepts: the segment's columns are the schema's first ones.
Accepts(schema, fields) ==
    /\ Len(fields) <= Len(schema)
    /\ \A i \in DOMAIN fields : schema[i].kind = fields[i]

\* Position of a column in a schema, or 0.
IndexOf(schema, column) == SelectInSeq(schema, LAMBDA field : field.name = column)

Live(seg) == (0..(RowCount(seg) - 1)) \ seg.deletes

\* Mutant of LiveRowsIn: deleted rows are counted.
AllRowsIn(seg) == RowCount(seg)

LiveRowsIn(seg) ==
    RowCount(seg) - Min({Cardinality(seg.deletes), RowCount(seg)})

(***************************************************************************)
(* Statistics of a container, a segment or a page, and what DataFusion     *)
(* concludes from them.  Null stands for "no information".                 *)
(***************************************************************************)
Nothing(rows) ==
    [kind |-> Null, min |-> Null, max |-> Null, nulls |-> Null, rows |-> rows, bloom |-> Null]

Known(kind, zone, rows, bloom) ==
    [kind |-> kind, min |-> DecodeBound(kind, zone.min), max |-> DecodeBound(kind, zone.max),
     nulls |-> zone.null_count, rows |-> rows, bloom |-> bloom]

SegmentStatistics(schema, seg, column) ==
    LET at == IndexOf(schema, column)
    IN  IF at \notin DOMAIN seg.zone THEN Nothing(RowCount(seg))
        ELSE Known(schema[at].kind, seg.zone[at], RowCount(seg),
                   IF at \in DOMAIN seg.bloom THEN seg.bloom[at] ELSE Null)

PageStatistics(schema, seg, loaded, column, page) ==
    LET at == IndexOf(schema, column)
        rows == Min({PageRows, RowCount(seg) - page * PageRows})
    IN  IF at \notin loaded THEN Nothing(rows)
        ELSE Known(schema[at].kind, seg.pages[at][page + 1], rows, Null)

\* contained(): the filter is sure that none of the values is there.
Excluded(s, values) ==
    s.bloom # Null /\ values # {} /\ \A v \in values : ~MayContain(s.bloom, s.kind, v)

\* PruningPredicate on one comparison: may some row of the container pass?
BoundsAllow(term, s) ==
    CASE term.op = "in" ->
            /\ s.nulls # s.rows
            /\ \E v \in term.of \ {Null} :
                /\ s.min = Null \/ Leq(s.min, v)
                /\ s.max = Null \/ Leq(v, s.max)
      [] term.op = "lt" -> s.nulls # s.rows /\ (s.min = Null \/ Less(s.min, term.of))
      [] term.op = "gt" -> s.nulls # s.rows /\ (s.max = Null \/ Less(term.of, s.max))
      [] term.op = "null" -> s.nulls # 0
      [] OTHER -> TRUE

\* A term is a comparison or a disjunction of comparisons; a disjunction
\* gives no guarantee on the values of one column.
Allows(term, statistics) ==
    IF term.op = "or"
    THEN \E t \in term.of : BoundsAllow(t, statistics[t.column])
    ELSE LET s == statistics[term.column]
         IN  /\ BoundsAllow(term, s)
             /\ term.op = "in" => ~Excluded(s, term.of)

ColumnsOf(term) ==
    IF term.op = "or" THEN {t.column : t \in term.of} ELSE {term.column}

IsComparison(t) ==
    CASE t.op = "in" -> t.of \subseteq Value
      [] t.op \in {"lt", "gt"} -> t.of \in Seq(Byte)
      [] t.op \in {"like", "notlike"} -> t.of \in Seq(Byte \cup {ANY, ONE})
      [] OTHER -> t.op = "null"

IsTerm(t) ==
    IF t.op = "or" THEN \A u \in t.of : IsComparison(u) ELSE IsComparison(t)

\* A filter is a set of terms, all of which must hold.  The ones that cannot
\* be tested against bounds are left out.
Predicates(schema, filter) ==
    {t \in filter :
        /\ t.op \notin {"like", "notlike"}
        /\ \A c \in ColumnsOf(t) : IndexOf(schema, c) # 0}

ReferencedColumns(schema, filter) ==
    {IndexOf(schema, c) : c \in UNION {ColumnsOf(t) : t \in filter}} \ {0}

\* SegmentZoneMaps::may_match for a plain LIKE that stands at the top of the
\* filter; a negated one, or one inside OR, requires nothing.
MayMatch(schema, seg, term) ==
    LET at == IndexOf(schema, term.column)
    IN  \/ at \notin DOMAIN seg.trigram
        \/ seg.trigram[at] = Null
        \/ \A t \in Required(term.of) : Hash(t) \in seg.trigram[at]

\* prune(): does a segment stay in the scan?
SurvivesPruning(schema, filter, seg) ==
    /\ \A t \in Predicates(schema, filter) :
        Allows(t, [c \in ColumnsOf(t) |-> SegmentStatistics(schema, seg, c)])
    /\ \A t \in filter : t.op = "like" => MayMatch(schema, seg, t)

\* PageFilters::keep_pages: which pages to read, or Null for all of them.
KeepPages(schema, predicates, columns, seg) ==
    LET loaded == columns \cap DOMAIN seg.columns
        pages == 0..(DivCeil(RowCount(seg), PageRows) - 1)
        kept == {p \in pages : \A t \in predicates :
                    Allows(t, [c \in ColumnsOf(t) |->
                                PageStatistics(schema, seg, loaded, c, p)])}
    IN  IF \/ predicates = {} \/ loaded = {} \/ StoredPageRows(seg) = 0
           \/ kept = pages
        THEN Null ELSE [p \in pages |-> p \in kept]

(***************************************************************************)
(* The rows that are left, as a set of ranges <<start, length>>.           *)
(***************************************************************************)
\* Neighbouring pages become one range, from the first of them to the start of
\* the next page that is not wanted or the end of the segment.
KeptRanges(seg, keep) ==
    LET pages == DivCeil(RowCount(seg), PageRows)
        First(p) == keep[p] /\ (p > 0 => ~keep[p - 1])
        After(p) == Min({q \in p..(pages - 1) : ~keep[q]} \cup {pages})
        End(p) == Min({After(p) * PageRows, RowCount(seg)})
    IN  {<<p * PageRows, End(p) - p * PageRows>> : p \in {q \in DOMAIN keep : First(q)}}

\* The part of range r in block b.
Piece(r, b, block) ==
    LET at == Max({r[1], b * block})
    IN  <<at, Min({r[1] + r[2], (b + 1) * block}) - at>>

\* Mutant of SplitAtBlocks: the ranges are handed on as they are.
NoSplit(ranges, block) == ranges

\* No range spans two blocks.
SplitAtBlocks(ranges, block) ==
    IF block = 0 THEN ranges
    ELSE UNION {{Piece(r, b, block) : b \in (r[1] \div block)..((r[1] + r[2] - 1) \div block)}
                    : r \in ranges}

SliceBatches(rows, n) ==
    CASE rows = <<>> -> <<>>
      [] rows # <<>> /\ n = 0 -> <<rows>>
      [] OTHER -> [k \in 1..DivCeil(Len(rows), n) |->
                      SubSeq(rows, (k - 1) * n + 1, Min({k * n, Len(rows)}))]

\* read_segment_as: the ranges it decodes, and the batches of each, as row
\* positions with the deleted ones masked out.
RangesToRead(seg, keep) ==
    SplitAtBlocks(IF keep = Null THEN {<<0, RowCount(seg)>>} ELSE KeptRanges(seg, keep),
                  StoredBlockRows(seg))

RowsIn(r) == r[1]..(r[1] + r[2] - 1)

\* Mutant of DecodeRange: the mask is not applied.
DecodeUnmasked(seg, r) == SliceBatches(Ascending(RowsIn(r)), ScanBatchRows)

DecodeRange(seg, r) == SliceBatches(Ascending(RowsIn(r) \ seg.deletes), ScanBatchRows)

(***************************************************************************)
(* The reference: which rows a filter selects.                             *)
(***************************************************************************)
\* LIKE: the pattern's elements take up the value's bytes one after the other; _
\* takes one character, which may be two bytes, and % any number of bytes.
Like(pattern, s) ==
    LET width(j) == IF s[j] = 2 /\ j < Len(s) THEN 2 ELSE 1
        Takes(x, j, k) ==
            CASE x = ANY -> j <= k
              [] x = ONE -> j <= Len(s) /\ k = j + width(j)
              [] OTHER -> j <= Len(s) /\ s[j] = x /\ k = j + 1
    IN  \E at \in [1..(Len(pattern) + 1) -> 1..(Len(s) + 1)] :
            /\ at[1] = 1 /\ at[Len(pattern) + 1] = Len(s) + 1
            /\ \A i \in DOMAIN pattern : Takes(pattern[i], at[i], at[i + 1])

\* A row gives each column a value; comparisons with null do not hold.
Passes(term, row) ==
    LET v == row[term.column]
    IN  IF term.op = "null" THEN v = Null
        ELSE /\ v # Null
             /\ CASE term.op = "in" -> v \in term.of
                  [] term.op = "lt" -> Less(v, term.of)
                  [] term.op = "gt" -> Less(term.of, v)
                  [] term.op = "like" -> Like(term.of, v)
                  [] term.op = "notlike" -> ~Like(term.of, v)

Selects(filter, row) ==
    \A t \in filter :
        IF t.op = "or" THEN \E u \in t.of : Passes(u, row) ELSE Passes(t, row)
====
