---------------------------- MODULE AtomicCommit ----------------------------
(***************************************************************************)
(* What TableFile::commit promises to the rest of the crate: the table is  *)
(* one value, a commit replaces it as a whole, and a crash at any point    *)
(* leaves either the value before or the value after.                      *)
(***************************************************************************)
EXTENDS Naturals

VARIABLES
    table,      \* the committed table
    pending,    \* the commit on its way, a set of at most one
    up          \* is a handle open

vars == <<table, pending, up>>

Init ==
    /\ pending = {}
    /\ up = TRUE

\* A commit is under way: it replaces the table as a whole, or not at all.
Propose ==
    /\ up /\ pending = {}
    /\ pending' # {}
    /\ \A p \in pending' : p.txn = table.txn + 1
    /\ UNCHANGED <<table, up>>

Acknowledge ==
    /\ up
    /\ table' \in pending
    /\ pending' = {}
    /\ UNCHANGED up

\* The outcome is settled by the crash, however late it is read back.
Crash ==
    /\ up
    /\ up' = FALSE
    /\ table' \in {table} \cup pending
    /\ pending' = {}

Recover ==
    /\ ~up
    /\ up' = TRUE
    /\ UNCHANGED <<table, pending>>

Next == Propose \/ Acknowledge \/ Crash \/ Recover

Spec == Init /\ [][Next]_vars
=============================================================================
