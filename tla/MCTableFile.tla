---- MODULE MCTableFile ----
(* Instances of TableFile for TLC. *)
EXTENDS TableFile, TLC
Sym == Permutations(Readers) \cup Permutations(Payloads)
====
