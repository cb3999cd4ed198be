---- MODULE MCColumnarScan ----
(* Instances of ColumnarScan for TLC: small tables and queries, and a hash *)
(* with collisions.                                                        *)
EXTENDS ColumnarScan

HashOf(bytes) == FoldLeft(LAMBDA h, b : (h * 5 + b + 1) % 7, 0, bytes)

Field(name, kind) == [name |-> name, kind |-> kind]
Term(op, of) == [op |-> op, column |-> "c", of |-> of]

\* Column c comes first; column a has the same value in every row.
Schema(kind) == <<Field("c", kind), Field("a", "fixed")>>

Segment(kind, values, deletes) ==
    [fields |-> <<kind, "fixed">>,
     columns |-> <<values, [i \in DOMAIN values |-> <<1>>]>>,
     deletes |-> deletes, blooms |-> {1}, trigrams |-> {1}]

\* Values whose bounds are cut, inside a character or at 0xff, and null.
ValuesOf(kind) ==
    {Null} \cup
    CASE kind \in Numbers -> {<<0>>, <<1>>, <<2>>}
      [] kind = "utf8" -> {<<0>>, <<0, 2, 1>>, <<2, 1, 0>>}
      [] kind = "binary" -> {<<1, 3, 0>>, <<3, 3, 1>>, <<3, 3>>}
      [] kind = "list" -> {<<0>>}

Patterns == {<<ANY, 3, 3, ANY>>, <<1, ONE, 0>>, <<0, ANY, 1>>, <<ONE, 0>>}

Filters(kind) ==
    LET values == ValuesOf(kind) \ {Null}
        simple == {Term("in", {v}) : v \in values}
                  \cup {Term("in", values), Term("null", Null)}
                  \cup {Term(op, v) : op \in {"lt", "gt"}, v \in values}
        text == {Term("gt", <<0, 1>>), Term("lt", <<3, 3, 2>>)}
                  \cup {Term("like", p) : p \in Patterns}
                  \cup {Term("notlike", <<ANY, 3, 3, ANY>>)}
        Either(t) == [op |-> "or", of |-> {Term("null", Null), t}]
        greater == Either(Term("gt", <<1>>))
    IN  {{t} : t \in simple}
        \cup (IF kind \in {"utf8", "binary"} THEN {{t} : t \in text} ELSE {})
        \cup {{greater}, {greater, Term("lt", <<3>>)}, {Either(Term("like", <<0, ANY, 1>>))}}

\* One partition over one segment of three rows: pruning against every
\* combination of values, filters and deleted rows.
PruningCases ==
    UNION {
        {[schema |-> Schema(kind), segments |-> <<Segment(kind, values, deletes)>>,
          memtable |-> <<>>, filter |-> filter, limit |-> Null, target |-> 1,
          changes |-> {}, done |-> {}]
            : values \in [1..3 -> ValuesOf(kind)],
              filter \in Filters(kind), deletes \in IF kind = "fixed" THEN {{}, {1}} ELSE {{}}}
        : kind \in Kinds}

Five(a, b) == <<a, a, b, b, a>>
Batch(rows) == [rows |-> rows,
                columns |-> <<[i \in 1..rows |-> <<2>>], [i \in 1..rows |-> <<1>>]>>]

\* A segment with a short last page and deleted rows, an emptied one, one that
\* was written before column a was added, and rows in memory.
Parallel(filter, limit, target, changes) ==
    [schema |-> Schema("utf8"),
     segments |-> <<Segment("utf8", Five(<<0>>, <<2, 1>>), {0, 3}),
                    Segment("utf8", <<<<0>>, <<0>>>>, {0, 1}),
                    [Segment("utf8", Five(<<2, 1>>, Null), {}) EXCEPT
                        !.fields = <<"utf8">>, !.columns = <<@[1]>>]>>,
     memtable |-> <<Batch(1)>>,
     filter |-> filter, limit |-> limit, target |-> target, changes |-> changes,
     done |-> {}]

ParallelCases ==
    {Parallel({}, limit, target, {}) : limit \in {Null, 1, 3, 5}, target \in 1..2}
    \cup {Parallel({t}, Null, 2, changes) :
            t \in {Term("gt", <<1>>), Term("null", Null)},
            changes \in {{"add", "rename"}, {"drop"}, {"cast"}}}

\* The filter names the second column, of the same values for two rows.
Beside(change, kind, v) ==
    [schema |-> <<Field("c", kind), Field("a", "fixed")>>,
     segments |-> <<[Segment(kind, <<<<0>>, <<v>>, <<0>>>>, {}) EXCEPT
                        !.columns[2] = <<<<0>>, <<2>>, <<2>>>>]>>,
     memtable |-> <<Batch(1)>>,
     filter |-> {[op |-> "gt", column |-> "a", of |-> <<1>>]},
     limit |-> Null, target |-> 2, changes |-> {change}, done |-> {}]

\* The first column is dropped, or a column cast, meanwhile.
ShiftCases == {Beside("drop", "fixed", v) : v \in {0, 2}}
CastCases == {Beside("cast", "fixed", v) : v \in {0, 2}}
RewriteCases == {Beside(change, "utf8", 0) : change \in {"drop", "cast"}}

AllCases == PruningCases \cup ParallelCases \cup ShiftCases \cup CastCases \cup RewriteCases

LimitCases == {Parallel({}, 1, 2, {})}
====
