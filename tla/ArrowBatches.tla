---- MODULE ArrowBatches ----
(***************************************************************************)
(* Arrow arrays and record batches, as far as this code relies on them     *)
(* (external: the arrow crates).  An array is a window of `len` rows that  *)
(* starts after `off` rows of the buffers it holds; a slice moves the      *)
(* window and keeps the buffers.  A batch is a sequence of arrays of one   *)
(* length.                                                                 *)
(***************************************************************************)
EXTENDS Integers, Sequences, SequencesExt, FiniteSets

CONSTANTS
    Null,       \* SQL null
    Numbers,    \* the values told apart; a text value has as many bytes as its number
    Types       \* the type of each column of the table schema, in order

\* The types told apart: those of a fixed width, those with offsets, and those
\* `concat` does not take.
DataTypes == {"fixed", "text", "odd"}

Value == Numbers \cup {Null}

ASSUME ArrowAssumption ==
    /\ Numbers \subseteq Nat /\ Null \notin Nat
    /\ Types \in Seq(DataTypes) /\ Types # <<>>

Array(type, values) ==
    [type |-> type, held |-> values, off |-> 0, len |-> Len(values)]

Rows(a) == SubSeq(a.held, a.off + 1, a.off + a.len)
Slice(a, start, len) == [a EXCEPT !.off = @ + start, !.len = len]

NumRows(batch) == batch[1].len
SliceBatch(batch, start, len) == [c \in DOMAIN batch |-> Slice(batch[c], start, len)]

\* A batch of the table's schema.
IsBatch(batch) ==
    /\ batch \in [DOMAIN Types -> [type : DataTypes, held : Seq(Value), off : Nat, len : Nat]]
    /\ \A c \in DOMAIN Types :
        /\ batch[c].type = Types[c] /\ batch[c].len = NumRows(batch)
        /\ batch[c].off + batch[c].len <= Len(batch[c].held)

\* The rows of a batch, each a tuple with a value per column.
Tuples(batch) ==
    [r \in 1..NumRows(batch) |-> [c \in DOMAIN batch |-> Rows(batch[c])[r]]]

AllTuples(batches) == FlattenSeq([b \in DOMAIN batches |-> Tuples(batches[b])])
TotalRows(batches) == Len(AllTuples(batches))

\* concat: one array of fresh buffers.
Concat(type, arrays) ==
    Array(type, FlattenSeq([i \in DOMAIN arrays |-> Rows(arrays[i])]))

\* The numbers of a finite set in ascending order, and what a sequence holds at
\* those places.
Ascending(S) ==
    [k \in 1..Cardinality(S) |-> CHOOSE i \in S : Cardinality({j \in S : j <= i}) = k]
Picked(s, at) == [k \in 1..Cardinality(at) |-> s[Ascending(at)[k]]]

\* filter_record_batch, keeping the rows whose numbers are in `kept`.
FilterBatch(batch, kept) ==
    [c \in DOMAIN batch |-> Array(batch[c].type, Picked(Rows(batch[c]), kept))]
====
