---- MODULE MCColumnarTable ----
(* Instances of ColumnarTable for TLC: what each task is set to do. *)
EXTENDS ColumnarTable, TLC

CONSTANTS t1, t2

Sym == Permutations(Keys)

Of2(one, two, seqs, txns, changes) ==
    [calls |-> t1 :> one @@ t2 :> two,
     maxSeq |-> seqs, maxTxn |-> txns, maxChanges |-> changes]

Writes == {"insert", "delete", "flush"}
Statements == Writes \cup {"update"}

DmlBesideCompaction == Of2(Statements, {"compact"}, 3, 4, 0)
OneAtATime == Of2(Statements \cup {"compact", "cast", "widen"}, {}, 3, 4, 2)
AllBesideWiden == Of2(Writes \cup {"compact", "drop"}, {"widen"}, 2, 4, 3)

\* Any commit may fail: conversions and compactions beside writes, and every
\* call in one task.
WritesBesideRewrites ==
    Of2(Statements \cup {"drop", "fault"}, {"compact", "cast", "fault"}, 2, 4, 2)
AloneWithFaults == Of2(Operations \ {"widen"}, {}, 2, 4, 2)

EveryWorkload == {DmlBesideCompaction, OneAtATime, AllBesideWiden,
                  WritesBesideRewrites, AloneWithFaults}

\* What the code does not stand up to, each in a workload of its own: TwoDeletes
\* has a run, the others are for Workloads in MCColumnarTable.cfg.
DmlBesideLongCompaction == {Of2(Statements, {"compact"}, 3, 5, 0)}
TwoDeletes == {Of2({"insert", "delete"}, {"delete"}, 3, 3, 0)}
TwoCompactions == {Of2(Writes \cup {"compact"}, {"compact"}, 2, 4, 0)}
CompactionFails == {Of2(Writes, {"compact", "fault"}, 3, 4, 0)}
EmptiedThenDropped == {Of2(Writes \cup {"drop"}, {}, 3, 4, 0)}
EmptiedThenCast == {Of2(Writes \cup {"cast"}, {}, 2, 4, 2)}
DeleteBesideCast == {Of2(Writes, {"cast"}, 2, 4, 2)}
InsertBesideWiden == {Of2({"insert", "flush"}, {"widen"}, 3, 4, 2)}
====
