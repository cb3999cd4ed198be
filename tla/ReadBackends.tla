--------------------------- MODULE ReadBackends ---------------------------
(***************************************************************************)
(* The backends a table is read through (open_backend of                   *)
(* localtables-format/src/io/mod.rs): positional reads, mappings, or the   *)
(* io_uring reactor.  A handle has one of them for its lifetime.           *)
(***************************************************************************)
EXTENDS UringReactor, MappedReads

VARIABLE backend

vars == <<backend, uringVars, mapVars>>

\* open_backend: what was asked for, never another one instead.
OpenBackend ==
    /\ backend \in {"Pread", "Mmap", "Uring"}
    /\ mapped = (backend = "Mmap")

Init == UringInit /\ MapInit /\ OpenBackend

\* A read goes to the backend of the handle.
Next ==
    /\ UNCHANGED backend
    /\ \/ backend = "Uring" /\ UringNext /\ UNCHANGED mapVars
       \/ backend # "Uring" /\ MapNext /\ UNCHANGED uringVars

Spec == Init /\ [][Next]_vars /\ UringFairness

=============================================================================
