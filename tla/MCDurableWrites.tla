---- MODULE MCDurableWrites ----
(* Instances of DurableWrites for TLC. *)
EXTENDS DurableWrites, TLC
Sym == Permutations(Rows)
====
