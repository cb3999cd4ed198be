---- MODULE MCFlushPipeline ----
(* Instances of FlushPipeline for TLC: column types, batches and options. *)
EXTENDS FlushPipeline

TypesOf == <<"fixed", "text", "odd">>

\* Two bits per value: 0 is 00 and 2 is 10.
BitsOf(v) == [b \in 0..1 |-> IF b = 0 THEN v \div 2 ELSE v % 2]

HalfOf(n) == (n + 1) \div 2

Plain == [rowGroupRows |-> 0, minRowGroupRows |-> 1, clusterBy |-> <<>>,
          compression |-> "none", dictionaryEncoding |-> FALSE, rleEncoding |-> FALSE,
          blockRows |-> 0, pageRows |-> 0]
Encoded == [Plain EXCEPT !.dictionaryEncoding = TRUE, !.rleEncoding = TRUE]

AllOptions ==
    {Plain,
     [Encoded EXCEPT !.pageRows = 2],
     [Encoded EXCEPT !.compression = "lz4", !.blockRows = 3, !.pageRows = 2],
     [Encoded EXCEPT !.compression = "auto", !.rowGroupRows = 3, !.blockRows = 2],
     [Plain EXCEPT !.compression = "zstd", !.rowGroupRows = 4, !.minRowGroupRows = 9],
     [Encoded EXCEPT !.clusterBy = <<1>>, !.rowGroupRows = 2, !.minRowGroupRows = 0],
     [Plain EXCEPT !.clusterBy = <<2, 1>>, !.rowGroupRows = 0]}

Batch(a, b, c) == <<Array("fixed", a), Array("text", b), Array("odd", c)>>

\* Some are slices of a larger batch, as a caller may pass them.
Long == Batch(<<2, 2, 2, 0, Null>>, <<0, 0, Null, 0, 0>>, <<Null, 2, 0, 0, Null>>)

AllInserts ==
    {Batch(<<0>>, <<Null>>, <<2>>),
     Batch(<<Null, 2>>, <<2, 0>>, <<Null, 0>>),
     Batch(<<2, 0, 2>>, <<2, 2, 2>>, <<0, Null, 2>>),
     Long, SliceBatch(Long, 1, 3), SliceBatch(Long, 2, 0)}
====
