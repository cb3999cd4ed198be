---------------------------- MODULE UringReactor ----------------------------
(***************************************************************************)
(* The io_uring backend (localtables-format/src/io/uring.rs): tasks hand a *)
(* call's reads to one reactor thread through a channel and await their    *)
(* replies; the reactor queues reads on the ring, waits, reaps what the    *)
(* kernel completed, in any order and possibly short, and queues the rest  *)
(* of a short read again.  A read's buffer belongs to the reactor's        *)
(* in_flight map while the kernel may write to it.                         *)
(*                                                                         *)
(* The bytes of a buffer are the file positions they were read from.  The  *)
(* kernel is external: it may answer any part of a request, zero only at   *)
(* the end of the file, or an error.  Lengths are below 2^32, so that the  *)
(* u32 of a ring entry holds them.                                         *)
(***************************************************************************)
EXTENDS Integers, Sequences, FiniteSets

CONSTANTS
    Clients,        \* tasks that call read_at or read_scattered, once each
    Reads,          \* the ranges they ask for
    Calls,          \* client -> the reads of its call, in order
    Begin, Size,    \* read -> where its range starts and how long it is
    FileLen,
    RING_ENTRIES,   \* room in the submission queue
    MaxFaults       \* bound: failed reads, failed or interrupted submits

ASSUME UringAssumption ==
    /\ Calls \in [Clients -> Seq(Reads)]
    /\ Begin \in [Reads -> Nat]
    /\ Size \in [Reads -> Nat]
    /\ FileLen \in Nat
    /\ RING_ENTRIES \in Nat \ {0}
    /\ MaxFaults \in Nat

VARIABLES
    client,     \* client -> how far its call is
    chan,       \* calls sent and not yet received
    closed,     \* UringIo is being dropped: no sender is left
    pc,         \* where the reactor is
    pending,    \* reads it is about to queue: whole ones, or rests of short ones
    in_flight,  \* reads it waits for, with what they have so far
    ring,       \* entries of both queues and those the kernel works on
    next_id,
    buf,        \* read -> its buffer
    reply,      \* read -> what its oneshot was sent
    ringFailed, \* history: submit_and_wait has failed
    faults

reactor == <<pc, pending, in_flight, next_id>>
uringVars == <<client, chan, closed, reactor, ring, buf, reply, ringFailed, faults>>

----------------------------------------------------------------------------

Op == [read : Reads, filled : Nat]
InFlight == [id : Nat, read : Reads, filled : Nat]

\* result is what the completion carries: -1 an error, otherwise bytes read.
Stages == {"queued", "kernel", "done", "reaping"}
Entry == [id : Nat, read : Reads, at : Nat, from : Nat, len : Nat,
          stage : Stages, result : Nat \cup {-1}]

In(stage) == {e \in ring : e.stage = stage}
Staged(es, before, after) ==
    {IF e.stage = before THEN [e EXCEPT !.stage = after] ELSE e : e \in es}

\* IoBuf::uninit: no byte of it comes from the file.
Uninit(r) == [j \in 0 .. Size[r] - 1 |-> -1]

UringInit ==
    /\ client = [c \in Clients |-> "ready"]
    /\ chan = <<>>
    /\ closed = FALSE
    /\ pc = "take" /\ pending = <<>> /\ in_flight = {} /\ next_id = 0
    /\ ring = {}
    /\ buf = [r \in Reads |-> Uninit(r)]
    /\ reply = [r \in Reads |-> "none"]
    /\ ringFailed = FALSE
    /\ faults = 0

Fault == faults < MaxFaults /\ faults' = faults + 1
Replied(rs, answer) == [r \in Reads |-> IF r \in rs THEN answer ELSE reply[r]]

----------------------------------------------------------------------------
(* submit_reads, in the calling task, and the drop of UringIo.             *)

\* A call with no ranges returns at once.
Send(c) ==
    /\ client[c] = "ready" /\ ~closed
    /\ IF Calls[c] = <<>>
       THEN client' = [client EXCEPT ![c] = "done"] /\ UNCHANGED chan
       ELSE client' = [client EXCEPT ![c] = "waiting"] /\ chan' = Append(chan, c)
    /\ UNCHANGED <<closed, reactor, ring, buf, reply, ringFailed, faults>>

\* The replies are awaited in order, and the first error is returned without
\* waiting for the others.
Return(c) ==
    LET ok(i) == reply[Calls[c][i]] = "ok"
        n == Len(Calls[c])
    IN /\ client[c] = "waiting"
       /\ \/ (\A i \in 1 .. n : ok(i)) /\ client' = [client EXCEPT ![c] = "done"]
          \/ /\ \E k \in 1 .. n : /\ \A i \in 1 .. k - 1 : ok(i)
                                  /\ reply[Calls[c][k]] = "err"
             /\ client' = [client EXCEPT ![c] = "failed"]
       /\ UNCHANGED <<chan, closed, reactor, ring, buf, reply, ringFailed, faults>>

\* The future is dropped while it waits; its replies go nowhere.
Cancel(c) ==
    /\ client[c] = "waiting"
    /\ client' = [client EXCEPT ![c] = "gone"]
    /\ UNCHANGED <<chan, closed, reactor, ring, buf, reply, ringFailed, faults>>

\* UringIo::drop, once no call borrows the handle: closes the channel and joins.
DropIo ==
    /\ ~closed
    /\ \A c \in Clients : client[c] # "waiting"
    /\ closed' = TRUE
    /\ UNCHANGED <<client, chan, reactor, ring, buf, reply, ringFailed, faults>>

----------------------------------------------------------------------------
(* reactor_loop.                                                           *)

Whole(c) == [i \in DOMAIN Calls[c] |-> [read |-> Calls[c][i], filled |-> 0]]

\* Mutant: the channel is waited on even while reads are in flight.
TakeBlocking ==
    /\ pc = "take"
    /\ IF chan # <<>>
       THEN /\ pending' = Whole(Head(chan))
            /\ chan' = Tail(chan)
            /\ pc' = "submit"
       ELSE /\ closed
            /\ pc' = "exited"
            /\ UNCHANGED <<pending, chan>>
    /\ UNCHANGED <<client, closed, in_flight, next_id, ring, buf, reply, ringFailed, faults>>

\* Take work, blocking only when nothing is in flight.
Take ==
    /\ pc = "take"
    /\ IF chan # <<>>
       THEN /\ pending' = Whole(Head(chan))
            /\ chan' = Tail(chan)
            /\ pc' = "submit"
       ELSE /\ in_flight # {} \/ closed
            /\ pc' = IF in_flight # {} THEN "submit" ELSE "exited"
            /\ UNCHANGED <<pending, chan>>
    /\ UNCHANGED <<client, closed, in_flight, next_id, ring, buf, reply, ringFailed, faults>>

\* Mutant: the rest of a short read is asked for at the start of its range.
EntryAtStart(id, op) ==
    [id |-> id, read |-> op.read, at |-> op.filled,
     from |-> Begin[op.read], len |-> Size[op.read] - op.filled,
     stage |-> "queued", result |-> 0]

\* Mutant: the rest of a short read is asked for with the length of the whole.
EntryWholeLength(id, op) ==
    [id |-> id, read |-> op.read, at |-> op.filled,
     from |-> Begin[op.read] + op.filled, len |-> Size[op.read],
     stage |-> "queued", result |-> 0]

\* The submission queue entry: where in the buffer, where in the file, how much.
EntryOf(id, op) ==
    [id |-> id, read |-> op.read, at |-> op.filled,
     from |-> Begin[op.read] + op.filled, len |-> Size[op.read] - op.filled,
     stage |-> "queued", result |-> 0]

\* What ring.submit leaves of the submission queue when it is full.
RingFull == Cardinality(In("queued")) >= RING_ENTRIES
AfterSubmit == IF RingFull THEN Staged(ring, "queued", "kernel") ELSE ring

\* submit_entry of the next read: nothing left to read is answered at once, a
\* full queue is handed to the kernel first, and if that fails the read is taken
\* out of in_flight and answered with the error.
SubmitEntry ==
    LET op == Head(pending)
    IN /\ pc \in {"submit", "resubmit"} /\ pending # <<>>
       /\ pending' = Tail(pending)
       /\ next_id' = next_id + 1
       /\ \/ /\ Size[op.read] = op.filled
             /\ reply' = Replied({op.read}, "ok")
             /\ UNCHANGED <<in_flight, ring, faults>>
          \/ /\ Size[op.read] # op.filled
             /\ in_flight' = in_flight \cup
                   {[id |-> next_id, read |-> op.read, filled |-> op.filled]}
             /\ ring' = AfterSubmit \cup {EntryOf(next_id, op)}
             /\ UNCHANGED <<reply, faults>>
          \/ /\ Size[op.read] # op.filled
             /\ RingFull /\ Fault
             /\ reply' = Replied({op.read}, "err")
             /\ UNCHANGED <<in_flight, ring>>
       /\ UNCHANGED <<client, chan, closed, pc, buf, ringFailed>>

\* Everything is queued: wait if something is in flight, else look for work.
Submitted ==
    /\ pc \in {"submit", "resubmit"} /\ pending = <<>>
    /\ pc' = IF pc = "submit" /\ in_flight # {} THEN "enter" ELSE "take"
    /\ UNCHANGED <<client, chan, closed, pending, in_flight, next_id, ring, buf, reply,
                   ringFailed, faults>>

\* submit_and_wait(1) hands the queue over.
Enter ==
    /\ pc = "enter"
    /\ ring' = Staged(ring, "queued", "kernel")
    /\ pc' = "wait"
    /\ UNCHANGED <<client, chan, closed, pending, in_flight, next_id, buf, reply,
                   ringFailed, faults>>

\* It returns with something to reap; or a signal ends the wait of a call that
\* has submitted entries, which is no error.
Wake ==
    /\ pc = "wait"
    /\ \/ In("done") # {} /\ UNCHANGED faults
       \/ Fault
    /\ ring' = Staged(ring, "done", "reaping")
    /\ pc' = "reap"
    /\ UNCHANGED <<client, chan, closed, pending, in_flight, next_id, buf, reply, ringFailed>>

\* submit_and_wait fails, before or after the queue was handed over: fail_all.
FailAll ==
    /\ pc \in {"enter", "wait"}
    /\ Fault
    /\ reply' = Replied({f.read : f \in in_flight}, "err")
    /\ in_flight' = {}
    /\ ringFailed' = TRUE
    /\ pc' = "take"
    /\ UNCHANGED <<client, chan, closed, pending, next_id, ring, buf>>

\* One completion of a read in flight.  An error, or the end of the file inside
\* the range, answers it with an error; a short read is set aside to be queued
\* again; a full buffer is sent.
Reap(e, f) ==
    LET filled == f.filled + e.result
    IN /\ pc = "reap" /\ e.stage = "reaping" /\ f.id = e.id
       /\ ring' = ring \ {e}
       /\ in_flight' = in_flight \ {f}
       /\ \/ /\ e.result < 0 \/ (e.result = 0 /\ filled < Size[f.read])
             /\ reply' = Replied({f.read}, "err")
             /\ UNCHANGED pending
          \/ /\ e.result > 0 /\ filled < Size[f.read]
             /\ pending' = Append(pending, [read |-> f.read, filled |-> filled])
             /\ UNCHANGED reply
          \/ /\ e.result >= 0 /\ filled >= Size[f.read]
             /\ reply' = Replied({f.read}, "ok")
             /\ UNCHANGED pending
       /\ UNCHANGED <<client, chan, closed, pc, next_id, buf, ringFailed, faults>>

\* A completion whose id is not in flight: its read was given up by fail_all.
Skip(e) ==
    /\ pc = "reap" /\ e.stage = "reaping"
    /\ \A f \in in_flight : f.id # e.id
    /\ ring' = ring \ {e}
    /\ UNCHANGED <<client, chan, closed, reactor, buf, reply, ringFailed, faults>>

Reaped ==
    /\ pc = "reap" /\ In("reaping") = {}
    /\ pc' = "resubmit"
    /\ UNCHANGED <<client, chan, closed, pending, in_flight, next_id, ring, buf, reply,
                   ringFailed, faults>>

----------------------------------------------------------------------------
(* The kernel.                                                             *)

Completed(e, n) == ring' = (ring \ {e}) \cup {[e EXCEPT !.stage = "done", !.result = n]}

\* n bytes arrive: any number up to what is asked for and what the file holds,
\* none only at its end.
Complete(e, n) ==
    /\ e.stage = "kernel"
    /\ n <= e.len /\ (n = 0 \/ e.from + n <= FileLen)
    /\ n = 0 => e.from >= FileLen
    /\ Completed(e, n)
    /\ buf' = [buf EXCEPT ![e.read] =
                  [j \in DOMAIN @ |-> IF j \in e.at .. e.at + n - 1
                                      THEN e.from + (j - e.at) ELSE @[j]]]
    /\ UNCHANGED <<client, chan, closed, reactor, reply, ringFailed, faults>>

Errored(e) ==
    /\ e.stage = "kernel"
    /\ Fault
    /\ Completed(e, -1)
    /\ UNCHANGED <<client, chan, closed, reactor, buf, reply, ringFailed>>

----------------------------------------------------------------------------

Reactor == Take \/ SubmitEntry \/ Submitted \/ Enter \/ Wake \/ FailAll \/ Reaped
           \/ \E e \in ring : Skip(e) \/ \E f \in in_flight : Reap(e, f)
Kernel(r) == \E e \in ring :
    e.read = r /\ (Errored(e) \/ \E n \in 0 .. e.len : Complete(e, n))

UringNext ==
    \/ \E c \in Clients : Send(c) \/ Return(c) \/ Cancel(c)
    \/ DropIo
    \/ Reactor
    \/ \E r \in Reads : Kernel(r)

\* The reactor thread runs, the kernel completes what it accepted, and a task
\* whose reply has come is polled.
UringFairness ==
    /\ WF_uringVars(Reactor)
    /\ \A r \in Reads : WF_uringVars(Kernel(r))
    /\ \A c \in Clients : WF_uringVars(Return(c))

UringSpec == UringInit /\ [][UringNext]_uringVars /\ UringFairness

----------------------------------------------------------------------------
(* Properties.                                                             *)

\* Every variable keeps its type.
UringTypeOK ==
    /\ client \in [Clients -> {"ready", "waiting", "done", "failed", "gone"}]
    /\ chan \in Seq(Clients)
    /\ closed \in BOOLEAN
    /\ pc \in {"take", "submit", "enter", "wait", "reap", "resubmit", "exited"}
    /\ pending \in Seq(Op)
    /\ in_flight \in SUBSET InFlight
    /\ ring \in SUBSET Entry
    /\ next_id \in Nat
    /\ DOMAIN buf = Reads /\ \A r \in Reads : buf[r] \in [0 .. Size[r] - 1 -> Int]
    /\ reply \in [Reads -> {"none", "ok", "err"}]
    /\ ringFailed \in BOOLEAN
    /\ faults \in Nat

\* A read answered with its buffer has every byte from its own place in the
\* file, however the kernel cut and ordered the reads; and a read inside the file
\* is refused only when something failed.
AnswersAreTrue == \A r \in Reads :
    /\ reply[r] = "ok" => \A j \in 0 .. Size[r] - 1 : buf[r][j] = Begin[r] + j
    /\ reply[r] = "err" => faults > 0 \/ Begin[r] + Size[r] > FileLen

\* Until a ring-level error gives up on everything in flight, an entry the kernel
\* may still write through names a buffer that in_flight holds for it.
BufferHeld == ringFailed \/ \A e \in ring : \E f \in in_flight :
    /\ f.id = e.id /\ f.read = e.read
    /\ e.at + e.len <= Size[f.read]

\* Every call returns, and dropping the backend, which joins the reactor, ends.
ReadsAnswered ==
    /\ \A c \in Clients : client[c] = "waiting" ~> client[c] # "waiting"
    /\ closed ~> pc = "exited"

=============================================================================
