---------------------------- MODULE UringProofs ----------------------------
(***************************************************************************)
(* Proofs about UringReactor, for any calls, file and ring size and any    *)
(* number of faults: the kernel writes only into buffers held for it, and  *)
(* an answered read has the right bytes.                                   *)
(***************************************************************************)
EXTENDS UringReactor, TLAPS

----------------------------------------------------------------------------
(* The inductive invariant.                                                *)

\* With buffers b, the first n bytes of read r's are the right ones.
Right(b, r, n) == \A j \in 0 .. Size[r] - 1 : j < n => b[r][j] = Begin[r] + j

\* Ids are fresh, so one names at most one entry of the ring.
IdsFresh ==
    /\ \A f \in in_flight : f.id < next_id
    /\ \A e \in ring : e.id < next_id
    /\ \A d, e \in ring : d.id = e.id => d = e

\* An entry reads the part of its range that starts at `at`.
Aimed(e) == e.from = Begin[e.read] + e.at /\ e.at + e.len = Size[e.read]

\* What a completion says is what arrived in the buffer.
Truthful(e) ==
    /\ e.result <= e.len
    /\ e.result = 0 => e.from >= FileLen
    /\ e.result < 0 => faults > 0
    /\ \A j \in 0 .. Size[e.read] - 1 :
          e.at <= j /\ j < e.at + e.result => buf[e.read][j] = Begin[e.read] + j

Entries == \A e \in ring :
    /\ Aimed(e)
    /\ e.stage \in {"done", "reaping"} => Truthful(e)

\* An entry and the read in flight with its id are the same read.
Matched == \A e \in ring : \A f \in in_flight :
    e.id = f.id => e.read = f.read /\ e.at = f.filled

\* What is queued again, or waited for, is right as far as it got.
Progressed ==
    /\ \A f \in in_flight : f.filled <= Size[f.read] /\ Right(buf, f.read, f.filled)
    /\ \A i \in 1 .. Len(pending) :
          /\ pending[i].filled <= Size[pending[i].read]
          /\ Right(buf, pending[i].read, pending[i].filled)

UringInv ==
    /\ UringTypeOK
    /\ IdsFresh
    /\ Entries
    /\ Matched
    /\ Progressed
    /\ BufferHeld
    /\ AnswersAreTrue

----------------------------------------------------------------------------
(* Lemmas.                                                                 *)

\* The fields of an entry, of a read in flight and of a read to be queued.
LEMMA Fields ==
    /\ \A e \in Entry : /\ e.id \in Nat /\ e.read \in Reads /\ e.at \in Nat
                        /\ e.from \in Nat /\ e.len \in Nat /\ e.stage \in Stages
                        /\ e.result \in Int
    /\ \A f \in InFlight : f.id \in Nat /\ f.read \in Reads /\ f.filled \in Nat
    /\ \A o \in Op : o.read \in Reads /\ o.filled \in Nat
    /\ \A r \in Reads : Begin[r] \in Nat /\ Size[r] \in Nat
BY UringAssumption DEF Entry, InFlight, Op

\* Handing entries on changes their stage and nothing else.
LEMMA StagedEntry ==
    ASSUME NEW es \in SUBSET Entry, NEW before \in Stages, NEW after \in Stages
    PROVE  /\ Staged(es, before, after) \in SUBSET Entry
           /\ \A d \in Staged(es, before, after) : \E e \in es :
                 /\ d.id = e.id /\ d.read = e.read /\ d.at = e.at
                 /\ d.from = e.from /\ d.len = e.len /\ d.result = e.result
                 /\ d.stage = (IF e.stage = before THEN after ELSE e.stage)
                 /\ d = (IF e.stage = before THEN [e EXCEPT !.stage = after] ELSE e)
BY DEF Staged, Entry

\* Handing entries on keeps everything the invariant says of the ring, as long
\* as no completion appears.
LEMMA StagedInv ==
    ASSUME UringInv, NEW before \in Stages, NEW after \in Stages,
           after \in {"done", "reaping"} => before \in {"done", "reaping"},
           ring' = Staged(ring, before, after),
           UNCHANGED <<in_flight, next_id, buf>>, faults' >= faults, faults' \in Nat
    PROVE  /\ ring' \in SUBSET Entry
           /\ IdsFresh' /\ Entries' /\ Matched'
           /\ (\A e \in ring : \E f \in in_flight :
                  f.id = e.id /\ f.read = e.read /\ e.at + e.len <= Size[f.read])
              => (\A e \in ring' : \E f \in in_flight :
                    f.id = e.id /\ f.read = e.read /\ e.at + e.len <= Size[f.read])
<1>0. ring \in SUBSET Entry BY DEF UringInv, UringTypeOK
<1>1. /\ ring' \in SUBSET Entry
      /\ \A d \in ring' : \E e \in ring :
            /\ d.id = e.id /\ d.read = e.read /\ d.at = e.at
            /\ d.from = e.from /\ d.len = e.len /\ d.result = e.result
            /\ d.stage = (IF e.stage = before THEN after ELSE e.stage)
            /\ d = (IF e.stage = before THEN [e EXCEPT !.stage = after] ELSE e)
  BY <1>0, StagedEntry
<1>2. IdsFresh'
  BY <1>1 DEF UringInv, IdsFresh
<1>3. Entries'
  <2> SUFFICES ASSUME NEW d \in ring'
               PROVE  Aimed(d) /\ (d.stage \in {"done", "reaping"} => Truthful(d)')
    BY DEF Entries, Aimed
  <2>1. PICK e \in ring :
            /\ d.id = e.id /\ d.read = e.read /\ d.at = e.at
            /\ d.from = e.from /\ d.len = e.len /\ d.result = e.result
            /\ d.stage = (IF e.stage = before THEN after ELSE e.stage)
    BY <1>1
  <2>2. Aimed(e) /\ (e.stage \in {"done", "reaping"} => Truthful(e))
    BY DEF UringInv, Entries
  <2>3. Aimed(d)
    BY <2>1, <2>2 DEF Aimed
  <2>4. ASSUME d.stage \in {"done", "reaping"} PROVE Truthful(d)'
    <3>1. Truthful(e)
      BY <2>1, <2>2, <2>4
    <3>2. faults \in Nat /\ faults' \in Nat
      BY DEF UringInv, UringTypeOK
    <3> QED BY <2>1, <3>1, <3>2 DEF Truthful
  <2> QED BY <2>3, <2>4
<1>4. Matched'
  BY <1>1 DEF UringInv, Matched
<1> QED BY <1>1, <1>2, <1>3, <1>4

\* A step that leaves reads, entries, buffers and answers alone.
LEMMA Untouched ==
    ASSUME UringInv, UringTypeOK',
           UNCHANGED <<pending, in_flight, ring, next_id, buf, reply, ringFailed, faults>>
    PROVE  UringInv'
BY DEF UringInv, IdsFresh, Entries, Aimed, Truthful, Matched, Progressed, Right,
       BufferHeld, AnswersAreTrue

\* The reads of a call, before any of them is queued.
LEMMA WholeCall ==
    ASSUME NEW c \in Clients
    PROVE  /\ Whole(c) \in Seq(Op)
           /\ \A i \in 1 .. Len(Whole(c)) : Whole(c)[i].filled = 0
<1>1. Calls[c] \in Seq(Reads)
  BY UringAssumption
<1>2. DOMAIN Calls[c] = 1 .. Len(Calls[c]) /\ Len(Calls[c]) \in Nat
  BY <1>1
<1>3. \A i \in 1 .. Len(Calls[c]) : Calls[c][i] \in Reads
  BY <1>1
<1>4. Whole(c) = [i \in 1 .. Len(Calls[c]) |-> [read |-> Calls[c][i], filled |-> 0]]
  BY <1>2 DEF Whole
<1>5. \A i \in 1 .. Len(Calls[c]) : [read |-> Calls[c][i], filled |-> 0] \in Op
  BY <1>3 DEF Op
<1>6. Whole(c) \in Seq(Op)
  BY <1>2, <1>4, <1>5
<1>7. Len(Whole(c)) = Len(Calls[c])
  BY <1>2, <1>4
<1> QED BY <1>4, <1>6, <1>7

LEMMA TakeInv == UringInv /\ Take => UringInv'
<1> SUFFICES ASSUME UringInv, Take PROVE UringInv'
  OBVIOUS
<1>0. chan \in Seq(Clients) /\ pending \in Seq(Op)
  BY DEF UringInv, UringTypeOK
<1>1. CASE chan # <<>>
  <2>1. Head(chan) \in Clients /\ Tail(chan) \in Seq(Clients)
    BY <1>0, <1>1
  <2>2. /\ Whole(Head(chan)) \in Seq(Op)
        /\ \A i \in 1 .. Len(Whole(Head(chan))) : Whole(Head(chan))[i].filled = 0
    BY <2>1, WholeCall
  <2>3. pending' = Whole(Head(chan)) /\ chan' = Tail(chan) /\ pc' = "submit"
    BY <1>1 DEF Take
  <2>4. UringTypeOK'
    BY <2>1, <2>2, <2>3 DEF UringInv, UringTypeOK, Take
  <2>5. \A i \in 1 .. Len(pending') :
           pending'[i].filled <= Size[pending'[i].read] /\ Right(buf', pending'[i].read, pending'[i].filled)
    <3> SUFFICES ASSUME NEW i \in 1 .. Len(pending')
                 PROVE  /\ pending'[i].filled <= Size[pending'[i].read]
                        /\ Right(buf', pending'[i].read, pending'[i].filled)
      OBVIOUS
    <3>1. pending'[i] \in Op /\ pending'[i].filled = 0
      BY <2>2, <2>3
    <3> QED BY <3>1, Fields DEF Right
  <2>6. UNCHANGED <<in_flight, ring, next_id, buf, reply, ringFailed, faults>>
    BY DEF Take
  <2>7. Progressed'
    BY <2>5, <2>6 DEF UringInv, Progressed
  <2> QED BY <2>4, <2>6, <2>7
          DEF UringInv, IdsFresh, Entries, Aimed, Truthful, Matched, BufferHeld, AnswersAreTrue
<1>2. CASE chan = <<>>
  <2>1. UringTypeOK'
    BY <1>2 DEF UringInv, UringTypeOK, Take
  <2> QED BY <1>2, <2>1, Untouched DEF Take
<1> QED BY <1>1, <1>2

\* The rest of the queue is as right as the whole queue was.
LEMMA TailProgressed ==
    ASSUME UringInv, pending # <<>>, pending' = Tail(pending)
    PROVE  /\ pending' \in Seq(Op)
           /\ Head(pending) \in Op
           /\ Head(pending).filled <= Size[Head(pending).read]
           /\ Right(buf, Head(pending).read, Head(pending).filled)
           /\ \A i \in 1 .. Len(pending') :
                 /\ pending'[i].filled <= Size[pending'[i].read]
                 /\ Right(buf, pending'[i].read, pending'[i].filled)
<1>1. pending \in Seq(Op)
  BY DEF UringInv, UringTypeOK
<1>2. \A i \in 1 .. Len(pending) :
         /\ pending[i].filled <= Size[pending[i].read]
         /\ Right(buf, pending[i].read, pending[i].filled)
  BY DEF UringInv, Progressed
<1>3. Head(pending) = pending[1] /\ 1 \in 1 .. Len(pending) /\ Head(pending) \in Op
  BY <1>1
<1>4. /\ Tail(pending) \in Seq(Op)
      /\ \A i \in 1 .. Len(Tail(pending)) :
            i + 1 \in 1 .. Len(pending) /\ Tail(pending)[i] = pending[i + 1]
  BY <1>1
<1> QED BY <1>2, <1>3, <1>4

\* A read is queued: an entry and a read in flight with the same new id.
LEMMA QueuedInv ==
    ASSUME UringInv, NEW op \in Op, NEW es, UringTypeOK',
           op.filled <= Size[op.read], Right(buf, op.read, op.filled),
           \/ es = ring
           \/ es = Staged(ring, "queued", "kernel"),
           in_flight' = in_flight \cup
              {[id |-> next_id, read |-> op.read, filled |-> op.filled]},
           ring' = es \cup {EntryOf(next_id, op)},
           next_id' = next_id + 1,
           UNCHANGED <<buf, reply, ringFailed, faults>>
    PROVE  /\ IdsFresh' /\ Entries' /\ Matched' /\ BufferHeld' /\ AnswersAreTrue'
           /\ \A f \in in_flight' : f.filled <= Size[f.read] /\ Right(buf', f.read, f.filled)
<1> DEFINE n == EntryOf(next_id, op)
           g == [id |-> next_id, read |-> op.read, filled |-> op.filled]
<1>0. /\ ring \in SUBSET Entry /\ in_flight \in SUBSET InFlight /\ next_id \in Nat
      /\ op.read \in Reads /\ op.filled \in Nat /\ faults \in Nat
      /\ Begin[op.read] \in Nat /\ Size[op.read] \in Nat
  BY Fields DEF UringInv, UringTypeOK
<1>1. /\ es \in SUBSET Entry
      /\ \A d \in es : \E e \in ring :
            /\ d.id = e.id /\ d.read = e.read /\ d.at = e.at
            /\ d.from = e.from /\ d.len = e.len /\ d.result = e.result
            /\ d.stage \in {"done", "reaping"} => e.stage \in {"done", "reaping"}
      /\ \A d, e \in es : d.id = e.id => d = e
  <2>1. CASE es = ring
    BY <2>1, <1>0 DEF UringInv, IdsFresh
  <2>2. CASE es = Staged(ring, "queued", "kernel")
    <3>1. /\ es \in SUBSET Entry
          /\ \A d \in es : \E e \in ring :
                /\ d.id = e.id /\ d.read = e.read /\ d.at = e.at
                /\ d.from = e.from /\ d.len = e.len /\ d.result = e.result
                /\ d.stage = (IF e.stage = "queued" THEN "kernel" ELSE e.stage)
                /\ d = (IF e.stage = "queued" THEN [e EXCEPT !.stage = "kernel"] ELSE e)
      BY <2>2, <1>0, StagedEntry DEF Stages
    <3>2. \A d, e \in es : d.id = e.id => d = e
      BY <3>1 DEF UringInv, IdsFresh
    <3> QED BY <3>1, <3>2
  <2> QED BY <2>1, <2>2
<1>2. /\ n.id = next_id /\ n.read = op.read /\ n.at = op.filled /\ n.stage = "queued"
      /\ n.from = Begin[op.read] + op.filled /\ n.len = Size[op.read] - op.filled
  BY DEF EntryOf
<1>3. g.id = next_id /\ g.read = op.read /\ g.filled = op.filled
  OBVIOUS
<1>4. \A e \in ring : e.id \in Nat /\ e.id < next_id
  BY <1>0, Fields DEF UringInv, IdsFresh
<1>5. \A f \in in_flight : f.id \in Nat /\ f.id < next_id
  BY <1>0, Fields DEF UringInv, IdsFresh
<1>6. \A d \in es : d.id \in Nat /\ d.id < next_id
  BY <1>1, <1>4
<1>7. IdsFresh'
  <2>1. \A f \in in_flight' : f.id < next_id'
    BY <1>0, <1>3, <1>5
  <2>2. \A e \in ring' : e.id < next_id'
    BY <1>0, <1>2, <1>6
  <2>3. \A d, e \in ring' : d.id = e.id => d = e
    BY <1>0, <1>1, <1>2, <1>6
  <2> QED BY <2>1, <2>2, <2>3 DEF IdsFresh
<1>8. Entries'
  <2> SUFFICES ASSUME NEW d \in ring'
               PROVE  Aimed(d) /\ (d.stage \in {"done", "reaping"} => Truthful(d)')
    BY DEF Entries, Aimed
  <2>1. CASE d = n
    BY <2>1, <1>0, <1>2 DEF Aimed
  <2>2. CASE d \in es
    <3>1. PICK e \in ring :
            /\ d.id = e.id /\ d.read = e.read /\ d.at = e.at
            /\ d.from = e.from /\ d.len = e.len /\ d.result = e.result
            /\ d.stage \in {"done", "reaping"} => e.stage \in {"done", "reaping"}
      BY <2>2, <1>1
    <3>2. Aimed(e) /\ (e.stage \in {"done", "reaping"} => Truthful(e))
      BY DEF UringInv, Entries
    <3> QED BY <3>1, <3>2 DEF Aimed, Truthful
  <2> QED BY <2>1, <2>2
<1>9. Matched'
  <2> SUFFICES ASSUME NEW d \in ring', NEW f \in in_flight', d.id = f.id
               PROVE  d.read = f.read /\ d.at = f.filled
    BY DEF Matched
  <2>1. CASE d = n /\ f = g
    BY <2>1, <1>2, <1>3
  <2>2. CASE d = n /\ f \in in_flight
    BY <2>2, <1>0, <1>2, <1>5
  <2>3. CASE d \in es /\ f = g
    BY <2>3, <1>0, <1>3, <1>6
  <2>4. CASE d \in es /\ f \in in_flight
    BY <2>4, <1>1 DEF UringInv, Matched
  <2> QED BY <2>1, <2>2, <2>3, <2>4
<1>10. BufferHeld'
  <2> SUFFICES ASSUME ringFailed' = FALSE, NEW d \in ring'
               PROVE  \E f \in in_flight' :
                         f.id = d.id /\ f.read = d.read /\ d.at + d.len <= Size[f.read]
    BY DEF BufferHeld, UringInv, UringTypeOK
  <2>1. CASE d = n
    <3>1. g \in in_flight'
      OBVIOUS
    <3>2. g.id = d.id /\ g.read = d.read /\ d.at + d.len <= Size[g.read]
      BY <2>1, <1>0, <1>2, <1>3
    <3> HIDE DEF g
    <3> QED BY <3>1, <3>2
  <2>2. CASE d \in es
    <3>1. PICK e \in ring : /\ d.id = e.id /\ d.read = e.read /\ d.at = e.at /\ d.len = e.len
      BY <2>2, <1>1
    <3>2. \E f \in in_flight : f.id = e.id /\ f.read = e.read /\ e.at + e.len <= Size[f.read]
      BY DEF UringInv, BufferHeld
    <3> QED BY <3>1, <3>2
  <2> QED BY <2>1, <2>2
<1>11. AnswersAreTrue'
  BY DEF UringInv, AnswersAreTrue
<1>12. \A f \in in_flight' : f.filled <= Size[f.read] /\ Right(buf', f.read, f.filled)
  BY <1>3 DEF UringInv, Progressed
<1> QED BY <1>7, <1>8, <1>9, <1>10, <1>11, <1>12

LEMMA SubmitEntryInv == UringInv /\ SubmitEntry => UringInv'
<1> SUFFICES ASSUME UringInv, SubmitEntry PROVE UringInv'
  OBVIOUS
<1> DEFINE op == Head(pending)
<1>0. /\ pending \in Seq(Op) /\ next_id \in Nat /\ faults \in Nat /\ ring \in SUBSET Entry
      /\ in_flight \in SUBSET InFlight /\ reply \in [Reads -> {"none", "ok", "err"}]
  BY DEF UringInv, UringTypeOK
<1>1. pending # <<>> /\ pending' = Tail(pending) /\ next_id' = next_id + 1
  BY DEF SubmitEntry
<1>2. /\ pending' \in Seq(Op)
      /\ op \in Op
      /\ op.filled <= Size[op.read]
      /\ Right(buf, op.read, op.filled)
      /\ \A i \in 1 .. Len(pending') :
            /\ pending'[i].filled <= Size[pending'[i].read]
            /\ Right(buf, pending'[i].read, pending'[i].filled)
  BY <1>1, TailProgressed
<1>3. /\ op.read \in Reads /\ op.filled \in Nat
      /\ Begin[op.read] \in Nat /\ Size[op.read] \in Nat
  BY <1>2, Fields
<1>4. UNCHANGED <<client, chan, closed, pc, buf, ringFailed>>
  BY DEF SubmitEntry
<1>5. ASSUME Size[op.read] = op.filled, reply' = Replied({op.read}, "ok"),
             UNCHANGED <<in_flight, ring, faults>>
      PROVE  UringInv'
  <2>1. UringTypeOK'
    BY <1>0, <1>1, <1>2, <1>4, <1>5 DEF UringInv, UringTypeOK, Replied
  <2>0. \A j \in 0 .. Size[op.read] - 1 : buf[op.read][j] = Begin[op.read] + j
    BY <1>2, <1>3, <1>5 DEF Right
  <2>2. AnswersAreTrue'
    BY <1>3, <1>4, <1>5, <2>0 DEF UringInv, AnswersAreTrue, Replied
  <2>3. IdsFresh'
    BY <1>0, <1>1, <1>5, Fields DEF UringInv, IdsFresh
  <2>4. Progressed'
    BY <1>2, <1>4, <1>5 DEF UringInv, Progressed
  <2> QED BY <2>1, <2>2, <2>3, <2>4, <1>4, <1>5
          DEF UringInv, Entries, Aimed, Truthful, Matched, BufferHeld
<1>6. ASSUME Size[op.read] # op.filled,
             in_flight' = in_flight \cup
                {[id |-> next_id, read |-> op.read, filled |-> op.filled]},
             ring' = AfterSubmit \cup {EntryOf(next_id, op)},
             UNCHANGED <<reply, faults>>
      PROVE  UringInv'
  <2>1. AfterSubmit = ring \/ AfterSubmit = Staged(ring, "queued", "kernel")
    BY DEF AfterSubmit
  <2>2. AfterSubmit \in SUBSET Entry
    BY <2>1, <1>0, StagedEntry DEF Stages
  <2>3. EntryOf(next_id, op) \in Entry
    BY <1>0, <1>2, <1>3 DEF EntryOf, Entry, Stages
  <2>4. [id |-> next_id, read |-> op.read, filled |-> op.filled] \in InFlight
    BY <1>0, <1>3 DEF InFlight
  <2>5. ring' \in SUBSET Entry /\ in_flight' \in SUBSET InFlight
    BY <1>0, <1>6, <2>2, <2>3, <2>4
  <2>6. UringTypeOK'
    BY <1>0, <1>1, <1>2, <1>4, <1>6, <2>5 DEF UringInv, UringTypeOK
  <2>7. /\ IdsFresh' /\ Entries' /\ Matched' /\ BufferHeld' /\ AnswersAreTrue'
        /\ \A f \in in_flight' : f.filled <= Size[f.read] /\ Right(buf', f.read, f.filled)
    BY <1>1, <1>2, <1>4, <1>6, <2>1, <2>6, QueuedInv
  <2>8. Progressed'
    BY <1>2, <1>4, <2>7 DEF Progressed
  <2> QED BY <2>6, <2>7, <2>8 DEF UringInv
<1>7. ASSUME faults' = faults + 1, reply' = Replied({op.read}, "err"),
             UNCHANGED <<in_flight, ring>>
      PROVE  UringInv'
  <2>1. UringTypeOK'
    BY <1>0, <1>1, <1>2, <1>4, <1>7 DEF UringInv, UringTypeOK, Replied
  <2>2. AnswersAreTrue'
    BY <1>0, <1>3, <1>4, <1>7 DEF UringInv, AnswersAreTrue, Replied
  <2>3. IdsFresh'
    BY <1>0, <1>1, <1>7, Fields DEF UringInv, IdsFresh
  <2>4. Progressed'
    BY <1>2, <1>4, <1>7 DEF UringInv, Progressed
  <2>5. Entries'
    BY <1>0, <1>4, <1>7 DEF UringInv, Entries, Aimed, Truthful
  <2> QED BY <2>1, <2>2, <2>3, <2>4, <2>5, <1>4, <1>7
          DEF UringInv, Matched, BufferHeld
<1> QED BY <1>5, <1>6, <1>7 DEF SubmitEntry, Fault

LEMMA EnterInv == UringInv /\ Enter => UringInv'
<1> SUFFICES ASSUME UringInv, Enter PROVE UringInv'
  OBVIOUS
<1>1. /\ ring' = Staged(ring, "queued", "kernel")
      /\ UNCHANGED <<client, chan, closed, pending, in_flight, next_id, buf, reply,
                     ringFailed, faults>>
      /\ pc' = "wait"
  BY DEF Enter
<1>2. faults \in Nat
  BY DEF UringInv, UringTypeOK
<1>3. /\ ring' \in SUBSET Entry
      /\ IdsFresh' /\ Entries' /\ Matched'
      /\ (\A e \in ring : \E f \in in_flight :
             f.id = e.id /\ f.read = e.read /\ e.at + e.len <= Size[f.read])
         => (\A e \in ring' : \E f \in in_flight :
               f.id = e.id /\ f.read = e.read /\ e.at + e.len <= Size[f.read])
  BY <1>1, <1>2, StagedInv DEF Stages
<1>4. BufferHeld'
  BY <1>1, <1>3 DEF UringInv, BufferHeld
<1>5. UringTypeOK'
  BY <1>1, <1>3 DEF UringInv, UringTypeOK
<1> QED BY <1>1, <1>3, <1>4, <1>5 DEF UringInv, Progressed, AnswersAreTrue

LEMMA WakeInv == UringInv /\ Wake => UringInv'
<1> SUFFICES ASSUME UringInv, Wake PROVE UringInv'
  OBVIOUS
<1>1. /\ ring' = Staged(ring, "done", "reaping")
      /\ UNCHANGED <<client, chan, closed, pending, in_flight, next_id, buf, reply,
                     ringFailed>>
      /\ pc' = "reap"
  BY DEF Wake
<1>2. faults \in Nat /\ faults' \in Nat /\ faults' >= faults
  BY DEF UringInv, UringTypeOK, Wake, Fault
<1>3. /\ ring' \in SUBSET Entry
      /\ IdsFresh' /\ Entries' /\ Matched'
      /\ (\A e \in ring : \E f \in in_flight :
             f.id = e.id /\ f.read = e.read /\ e.at + e.len <= Size[f.read])
         => (\A e \in ring' : \E f \in in_flight :
               f.id = e.id /\ f.read = e.read /\ e.at + e.len <= Size[f.read])
  BY <1>1, <1>2, StagedInv DEF Stages
<1>4. BufferHeld'
  BY <1>1, <1>3 DEF UringInv, BufferHeld
<1>5. UringTypeOK'
  BY <1>1, <1>2, <1>3 DEF UringInv, UringTypeOK
<1>6. AnswersAreTrue'
  BY <1>1, <1>2 DEF UringInv, AnswersAreTrue
<1> QED BY <1>1, <1>3, <1>4, <1>5, <1>6 DEF UringInv, Progressed

LEMMA FailAllInv == UringInv /\ FailAll => UringInv'
<1> SUFFICES ASSUME UringInv, FailAll PROVE UringInv'
  OBVIOUS
<1>1. /\ faults \in Nat /\ faults' = faults + 1 /\ in_flight' = {} /\ ringFailed' = TRUE
      /\ UNCHANGED <<client, chan, closed, pending, next_id, ring, buf>> /\ pc' = "take"
      /\ reply' = Replied({f.read : f \in in_flight}, "err")
  BY DEF UringInv, UringTypeOK, FailAll, Fault
<1>2. UringTypeOK'
  BY <1>1 DEF UringInv, UringTypeOK, Replied
<1>3. AnswersAreTrue'
  BY <1>1 DEF UringInv, AnswersAreTrue, Replied
<1>4. Entries'
  BY <1>1 DEF UringInv, Entries, Aimed, Truthful
<1> QED BY <1>1, <1>2, <1>3, <1>4 DEF UringInv, IdsFresh, Matched, Progressed, BufferHeld

LEMMA SkipInv == ASSUME UringInv, NEW e \in ring, Skip(e) PROVE UringInv'
<1>1. /\ ring' = ring \ {e}
      /\ UNCHANGED <<client, chan, closed, pc, pending, in_flight, next_id, buf, reply,
                     ringFailed, faults>>
  BY DEF Skip, reactor
<1>2. UringTypeOK'
  BY <1>1 DEF UringInv, UringTypeOK
<1>3. Entries'
  BY <1>1 DEF UringInv, Entries, Aimed, Truthful
<1> QED BY <1>1, <1>2, <1>3
        DEF UringInv, IdsFresh, Matched, Progressed, BufferHeld, AnswersAreTrue

\* A read is answered with the error of its completion, or with its whole buffer.
LEMMA ReapInv ==
    ASSUME UringInv, NEW e \in ring, NEW f \in in_flight, Reap(e, f)
    PROVE  UringInv'
<1> DEFINE filled == f.filled + e.result
<1>0. /\ ring \in SUBSET Entry /\ in_flight \in SUBSET InFlight /\ faults \in Nat
      /\ pending \in Seq(Op) /\ reply \in [Reads -> {"none", "ok", "err"}]
      /\ FileLen \in Nat
  BY UringAssumption DEF UringInv, UringTypeOK
<1>1. /\ e.id \in Nat /\ e.read \in Reads /\ e.at \in Nat /\ e.from \in Nat
      /\ e.len \in Nat /\ e.result \in Int
      /\ f.read \in Reads /\ f.filled \in Nat
      /\ Begin[f.read] \in Nat /\ Size[f.read] \in Nat
  BY <1>0, Fields
<1>2. /\ e.stage = "reaping" /\ f.id = e.id
      /\ ring' = ring \ {e} /\ in_flight' = in_flight \ {f}
      /\ UNCHANGED <<client, chan, closed, pc, next_id, buf, ringFailed, faults>>
  BY DEF Reap
<1>3. e.read = f.read /\ e.at = f.filled
  BY <1>2 DEF UringInv, Matched
<1>4. Aimed(e) /\ Truthful(e)
  BY <1>2 DEF UringInv, Entries
<1>5. Right(buf, f.read, f.filled)
  BY DEF UringInv, Progressed
<1>6. e.result >= 0 => Right(buf, f.read, filled) /\ filled <= Size[f.read]
  BY <1>1, <1>3, <1>4, <1>5 DEF Right, Aimed, Truthful
<1>7. IdsFresh' /\ Matched'
  BY <1>2 DEF UringInv, IdsFresh, Matched
<1>8. Entries'
  BY <1>2 DEF UringInv, Entries, Aimed, Truthful
<1>9. BufferHeld'
  <2> SUFFICES ASSUME ringFailed = FALSE, NEW d \in ring'
               PROVE  \E g \in in_flight' :
                         g.id = d.id /\ g.read = d.read /\ d.at + d.len <= Size[g.read]
    BY <1>2 DEF BufferHeld, UringInv, UringTypeOK
  <2>1. d \in ring /\ d.id # e.id
    BY <1>2 DEF UringInv, IdsFresh
  <2>2. PICK g \in in_flight : g.id = d.id /\ g.read = d.read /\ d.at + d.len <= Size[g.read]
    BY <2>1 DEF UringInv, BufferHeld
  <2>3. g \in in_flight'
    BY <1>2, <2>1, <2>2
  <2> QED BY <2>2, <2>3
<1>10. \A g \in in_flight' : g.filled <= Size[g.read] /\ Right(buf', g.read, g.filled)
  BY <1>2 DEF UringInv, Progressed
<1>11. ASSUME e.result < 0 \/ (e.result = 0 /\ filled < Size[f.read]),
              reply' = Replied({f.read}, "err"), UNCHANGED pending
       PROVE  UringInv'
  <2>1. UringTypeOK'
    BY <1>0, <1>2, <1>11 DEF UringInv, UringTypeOK, Replied
  <2>2. faults > 0 \/ Begin[f.read] + Size[f.read] > FileLen
    BY <1>0, <1>1, <1>3, <1>4, <1>11 DEF Aimed, Truthful
  <2>3. AnswersAreTrue'
    BY <1>2, <1>11, <2>2 DEF UringInv, AnswersAreTrue, Replied
  <2>4. Progressed'
    BY <1>2, <1>10, <1>11 DEF UringInv, Progressed
  <2> QED BY <1>7, <1>8, <1>9, <2>1, <2>3, <2>4 DEF UringInv
<1>12. ASSUME e.result > 0, filled < Size[f.read], UNCHANGED reply,
              pending' = Append(pending, [read |-> f.read, filled |-> filled])
       PROVE  UringInv'
  <2> DEFINE o == [read |-> f.read, filled |-> filled]
  <2>1. o \in Op /\ o.read = f.read /\ o.filled = filled
    BY <1>1, <1>12 DEF Op
  <2> HIDE DEF o
  <2>2. pending' = Append(pending, o)
    BY <1>12 DEF o
  <2>3. /\ pending' \in Seq(Op) /\ Len(pending') = Len(pending) + 1 /\ Len(pending) \in Nat
        /\ \A i \in 1 .. Len(pending) : pending'[i] = pending[i]
        /\ pending'[Len(pending) + 1] = o
    BY <1>0, <2>1, <2>2
  <2>4. UringTypeOK'
    BY <1>0, <1>2, <1>12, <2>3 DEF UringInv, UringTypeOK
  <2>5. ASSUME NEW i \in 1 .. Len(pending')
        PROVE  /\ pending'[i].filled <= Size[pending'[i].read]
               /\ Right(buf', pending'[i].read, pending'[i].filled)
    <3>1. CASE i \in 1 .. Len(pending)
      BY <1>2, <2>3, <3>1 DEF UringInv, Progressed
    <3>2. CASE i = Len(pending) + 1
      <4>1. pending'[i] = o
        BY <2>3, <3>2
      <4>2. Right(buf', o.read, o.filled) /\ o.filled <= Size[o.read]
        BY <1>1, <1>2, <1>6, <1>12, <2>1
      <4> QED BY <4>1, <4>2
    <3> QED BY <2>3, <3>1, <3>2
  <2>6. Progressed'
    BY <1>10, <2>5 DEF Progressed
  <2>7. AnswersAreTrue'
    BY <1>2, <1>12 DEF UringInv, AnswersAreTrue
  <2> QED BY <1>7, <1>8, <1>9, <2>4, <2>6, <2>7 DEF UringInv
<1>13. ASSUME e.result >= 0, filled >= Size[f.read],
              reply' = Replied({f.read}, "ok"), UNCHANGED pending
       PROVE  UringInv'
  <2>1. UringTypeOK'
    BY <1>0, <1>2, <1>13 DEF UringInv, UringTypeOK, Replied
  <2>2. \A j \in 0 .. Size[f.read] - 1 : buf[f.read][j] = Begin[f.read] + j
    BY <1>1, <1>6, <1>13 DEF Right
  <2>3. AnswersAreTrue'
    BY <1>2, <1>13, <2>2 DEF UringInv, AnswersAreTrue, Replied
  <2>4. Progressed'
    BY <1>2, <1>10, <1>13 DEF UringInv, Progressed
  <2> QED BY <1>7, <1>8, <1>9, <2>1, <2>3, <2>4 DEF UringInv
<1> QED BY <1>11, <1>12, <1>13 DEF Reap

\* The kernel writes right bytes only, so what was right stays right.
LEMMA WrittenRight ==
    ASSUME UringInv, NEW e \in ring, NEW n \in Nat, n <= e.len,
           buf' = [buf EXCEPT ![e.read] =
                     [j \in DOMAIN @ |-> IF j \in e.at .. e.at + n - 1
                                         THEN e.from + (j - e.at) ELSE @[j]]]
    PROVE  /\ DOMAIN buf' = Reads /\ \A r \in Reads : buf'[r] \in [0 .. Size[r] - 1 -> Int]
           /\ \A r \in Reads : \A j \in 0 .. Size[r] - 1 :
                 buf[r][j] = Begin[r] + j => buf'[r][j] = Begin[r] + j
           /\ \A j \in 0 .. Size[e.read] - 1 :
                 e.at <= j /\ j < e.at + n => buf'[e.read][j] = Begin[e.read] + j
<1>0. /\ ring \in SUBSET Entry
      /\ DOMAIN buf = Reads /\ \A r \in Reads : buf[r] \in [0 .. Size[r] - 1 -> Int]
  BY DEF UringInv, UringTypeOK
<1>1. /\ e.read \in Reads /\ e.at \in Nat /\ e.from \in Nat /\ e.len \in Nat
      /\ Begin[e.read] \in Nat /\ Size[e.read] \in Nat
  BY <1>0, Fields
<1>2. e.from = Begin[e.read] + e.at
  BY DEF UringInv, Entries, Aimed
<1> DEFINE b == [j \in 0 .. Size[e.read] - 1 |->
                   IF j \in e.at .. e.at + n - 1
                   THEN e.from + (j - e.at) ELSE buf[e.read][j]]
<1>3. DOMAIN buf[e.read] = 0 .. Size[e.read] - 1
  BY <1>0, <1>1
<1>4. buf' = [buf EXCEPT ![e.read] = b]
  BY <1>3
<1>5. b \in [0 .. Size[e.read] - 1 -> Int]
  BY <1>0, <1>1
<1>6. \A j \in 0 .. Size[e.read] - 1 :
         /\ e.at <= j /\ j < e.at + n => b[j] = Begin[e.read] + j
         /\ ~(e.at <= j /\ j < e.at + n) => b[j] = buf[e.read][j]
  <2> SUFFICES ASSUME NEW j \in 0 .. Size[e.read] - 1
               PROVE  /\ e.at <= j /\ j < e.at + n => b[j] = Begin[e.read] + j
                      /\ ~(e.at <= j /\ j < e.at + n) => b[j] = buf[e.read][j]
    OBVIOUS
  <2>1. b[j] = IF j \in e.at .. e.at + n - 1 THEN e.from + (j - e.at) ELSE buf[e.read][j]
    OBVIOUS
  <2>2. j \in Int /\ (j \in e.at .. e.at + n - 1 <=> e.at <= j /\ j < e.at + n)
    BY <1>1
  <2> HIDE DEF b
  <2>3. CASE e.at <= j /\ j < e.at + n
    BY <1>1, <1>2, <2>1, <2>2, <2>3
  <2>4. CASE ~(e.at <= j /\ j < e.at + n)
    BY <2>1, <2>2, <2>4
  <2> QED BY <2>3, <2>4
<1> HIDE DEF b
<1>7. DOMAIN buf' = Reads /\ buf'[e.read] = b
      /\ \A r \in Reads : r # e.read => buf'[r] = buf[r]
  BY <1>0, <1>1, <1>4
<1> QED BY <1>0, <1>5, <1>6, <1>7

\* A completion takes the place of the entry it completes.
LEMMA CompletedInv ==
    ASSUME UringInv, NEW e \in ring, NEW n \in Nat \cup {-1}, e.stage = "kernel",
           Completed(e, n), faults' \in Nat, faults' >= faults,
           n <= e.len, n = 0 => e.from >= FileLen, n < 0 => faults' > 0,
           DOMAIN buf' = Reads, \A r \in Reads : buf'[r] \in [0 .. Size[r] - 1 -> Int],
           \A r \in Reads : \A j \in 0 .. Size[r] - 1 :
              buf[r][j] = Begin[r] + j => buf'[r][j] = Begin[r] + j,
           \A j \in 0 .. Size[e.read] - 1 :
              e.at <= j /\ j < e.at + n => buf'[e.read][j] = Begin[e.read] + j,
           UNCHANGED <<client, chan, closed, pc, pending, in_flight, next_id, reply,
                       ringFailed>>
    PROVE  UringInv'
<1> DEFINE c == [e EXCEPT !.stage = "done", !.result = n]
<1>0. /\ ring \in SUBSET Entry /\ in_flight \in SUBSET InFlight /\ faults \in Nat
      /\ pending \in Seq(Op) /\ e \in Entry
  BY DEF UringInv, UringTypeOK
<1>1. /\ c \in Entry /\ c.id = e.id /\ c.read = e.read /\ c.at = e.at /\ c.from = e.from
      /\ c.len = e.len /\ c.stage = "done" /\ c.result = n
  BY <1>0 DEF Entry, Stages
<1>2. ring' = (ring \ {e}) \cup {c}
  BY DEF Completed
<1> HIDE DEF c
<1>3. e.read \in Reads /\ \A r \in Reads : Begin[r] \in Nat /\ Size[r] \in Nat
  BY <1>0, Fields
<1>4. UringTypeOK'
  BY <1>0, <1>1, <1>2 DEF UringInv, UringTypeOK
<1>5. IdsFresh'
  BY <1>1, <1>2 DEF UringInv, IdsFresh
<1>6. Matched'
  BY <1>1, <1>2 DEF UringInv, Matched
<1>7. Entries'
  <2> SUFFICES ASSUME NEW d \in ring'
               PROVE  Aimed(d) /\ (d.stage \in {"done", "reaping"} => Truthful(d)')
    BY DEF Entries, Aimed
  <2>1. CASE d = c
    <3>1. Aimed(e)
      BY DEF UringInv, Entries
    <3> QED BY <1>1, <2>1, <3>1 DEF Aimed, Truthful
  <2>2. CASE d \in ring
    <3>1. Aimed(d) /\ (d.stage \in {"done", "reaping"} => Truthful(d))
      BY <2>2 DEF UringInv, Entries
    <3>2. d.read \in Reads
      BY <1>0, <2>2, Fields
    <3>3. ASSUME Truthful(d) PROVE Truthful(d)'
      BY <1>0, <3>2, <3>3 DEF Truthful
    <3> QED BY <3>1, <3>3
  <2> QED BY <1>2, <2>1, <2>2
<1>8. BufferHeld'
  BY <1>1, <1>2 DEF UringInv, BufferHeld
<1>9. Progressed'
  <2>1. ASSUME NEW r \in Reads, NEW k \in Nat, Right(buf, r, k) PROVE Right(buf', r, k)
    BY <2>1 DEF Right
  <2>2. \A f \in in_flight : f.read \in Reads /\ f.filled \in Nat
    BY <1>0, Fields
  <2>3. \A i \in 1 .. Len(pending) : pending[i].read \in Reads /\ pending[i].filled \in Nat
    BY <1>0, Fields
  <2> QED BY <2>1, <2>2, <2>3 DEF UringInv, Progressed
<1>10. AnswersAreTrue'
  BY <1>0 DEF UringInv, AnswersAreTrue
<1> QED BY <1>4, <1>5, <1>6, <1>7, <1>8, <1>9, <1>10 DEF UringInv

LEMMA KernelInv == ASSUME UringInv, NEW r \in Reads, Kernel(r) PROVE UringInv'
<1>0. ring \in SUBSET Entry /\ faults \in Nat
  BY DEF UringInv, UringTypeOK
<1>1. PICK e \in ring : Errored(e) \/ \E n \in 0 .. e.len : Complete(e, n)
  BY DEF Kernel
<1>2. e.len \in Nat /\ e.at \in Nat /\ e.read \in Reads /\ Size[e.read] \in Nat
  BY <1>0, Fields
<1>3. CASE Errored(e)
  <2>1. /\ e.stage = "kernel" /\ Completed(e, -1) /\ faults' = faults + 1
        /\ UNCHANGED <<client, chan, closed, pc, pending, in_flight, next_id, buf, reply,
                       ringFailed>>
    BY <1>3 DEF Errored, Fault, reactor
  <2>2. DOMAIN buf' = Reads /\ \A q \in Reads : buf'[q] \in [0 .. Size[q] - 1 -> Int]
    BY <2>1 DEF UringInv, UringTypeOK
  <2>3. \A j \in 0 .. Size[e.read] - 1 : ~(e.at <= j /\ j < e.at + (-1))
    BY <1>2
  <2>4. faults' \in Nat /\ faults' >= faults /\ faults' > 0 /\ -1 <= e.len /\ -1 # 0
    BY <1>0, <1>2, <2>1
  <2> QED BY <1>2, <2>1, <2>2, <2>3, <2>4, CompletedInv
<1>4. CASE \E n \in 0 .. e.len : Complete(e, n)
  <2>1. PICK n \in 0 .. e.len : Complete(e, n)
    BY <1>4
  <2>2. /\ e.stage = "kernel" /\ Completed(e, n) /\ (n = 0 => e.from >= FileLen)
        /\ UNCHANGED <<client, chan, closed, pc, pending, in_flight, next_id, reply,
                       ringFailed, faults>>
        /\ buf' = [buf EXCEPT ![e.read] =
                     [j \in DOMAIN @ |-> IF j \in e.at .. e.at + n - 1
                                         THEN e.from + (j - e.at) ELSE @[j]]]
    BY <2>1 DEF Complete, reactor
  <2>3. n \in Nat /\ n <= e.len /\ ~(n < 0)
    BY <1>2
  <2>4. /\ DOMAIN buf' = Reads /\ \A q \in Reads : buf'[q] \in [0 .. Size[q] - 1 -> Int]
        /\ \A q \in Reads : \A j \in 0 .. Size[q] - 1 :
              buf[q][j] = Begin[q] + j => buf'[q][j] = Begin[q] + j
        /\ \A j \in 0 .. Size[e.read] - 1 :
              e.at <= j /\ j < e.at + n => buf'[e.read][j] = Begin[e.read] + j
    BY <2>2, <2>3, WrittenRight
  <2>5. faults' \in Nat /\ faults' >= faults
    BY <1>0, <2>2
  <2> QED BY <2>2, <2>3, <2>4, <2>5, CompletedInv
<1> QED BY <1>1, <1>3, <1>4

\* Steps of the calling tasks, and the moves of the reactor between its phases.
LEMMA CallerInv ==
    ASSUME UringInv,
           \/ \E c \in Clients : Send(c) \/ Return(c) \/ Cancel(c)
           \/ DropIo \/ Submitted \/ Reaped
    PROVE  UringInv'
<1>1. UNCHANGED <<pending, in_flight, ring, next_id, buf, reply, ringFailed, faults>>
  BY DEF Send, Return, Cancel, DropIo, Submitted, Reaped, reactor
<1>2. UringTypeOK'
  <2>1. ASSUME NEW c \in Clients, Send(c) PROVE UringTypeOK'
    <3>1. chan \in Seq(Clients)
      BY DEF UringInv, UringTypeOK
    <3>2. chan' \in Seq(Clients)
      BY <2>1, <3>1 DEF Send
    <3>3. client' \in [Clients -> {"ready", "waiting", "done", "failed", "gone"}]
      BY <2>1 DEF UringInv, UringTypeOK, Send
    <3>4. UNCHANGED <<closed, pc>>
      BY <2>1 DEF Send, reactor
    <3> QED BY <1>1, <3>2, <3>3, <3>4 DEF UringInv, UringTypeOK
  <2>2. ASSUME NEW c \in Clients, Return(c) \/ Cancel(c) PROVE UringTypeOK'
    BY <2>2 DEF UringInv, UringTypeOK, Return, Cancel, reactor
  <2>3. ASSUME DropIo \/ Submitted \/ Reaped PROVE UringTypeOK'
    BY <2>3 DEF UringInv, UringTypeOK, DropIo, Submitted, Reaped, reactor
  <2> QED BY <2>1, <2>2, <2>3
<1> QED BY <1>1, <1>2, Untouched

----------------------------------------------------------------------------
(* Theorems.                                                               *)

LEMMA InitInv == UringInit => UringInv
<1> SUFFICES ASSUME UringInit PROVE UringInv
  OBVIOUS
<1>1. \A r \in Reads : Size[r] \in Nat
  BY UringAssumption
<1>2. DOMAIN buf = Reads /\ \A r \in Reads : buf[r] \in [0 .. Size[r] - 1 -> Int]
  BY <1>1 DEF UringInit, Uninit
<1>3. chan \in Seq(Clients) /\ pending \in Seq(Op)
  BY DEF UringInit
<1>4. UringTypeOK
  BY <1>2, <1>3 DEF UringInit, UringTypeOK
<1> QED BY <1>4 DEF UringInit, UringInv, IdsFresh, Entries, Matched, Progressed,
                    BufferHeld, AnswersAreTrue

LEMMA NextInv == UringInv /\ [UringNext]_uringVars => UringInv'
<1> SUFFICES ASSUME UringInv, [UringNext]_uringVars PROVE UringInv'
  OBVIOUS
<1>1. CASE UNCHANGED uringVars
  <2>1. UringTypeOK'
    BY <1>1 DEF UringInv, UringTypeOK, uringVars, reactor
  <2> QED BY <1>1, <2>1, Untouched DEF uringVars, reactor
<1>2. CASE \E r \in Reads : Kernel(r)
  BY <1>2, KernelInv
<1>3. CASE Reactor
  BY <1>3, TakeInv, SubmitEntryInv, CallerInv, EnterInv, WakeInv, FailAllInv, SkipInv,
     ReapInv DEF Reactor
<1>4. CASE (\E c \in Clients : Send(c) \/ Return(c) \/ Cancel(c)) \/ DropIo
  BY <1>4, CallerInv
<1> QED BY <1>1, <1>2, <1>3, <1>4 DEF UringNext

LEMMA UringInvariant == UringSpec => []UringInv
BY InitInv, NextInv, PTL DEF UringSpec

\* The type invariant of the reactor holds in every state.
THEOREM UringTypeCorrect == UringSpec => []UringTypeOK
BY UringInvariant, PTL DEF UringInv

\* As long as submit_and_wait has not failed, every entry of the ring, queued, in
\* the kernel or completed, writes inside a buffer that in_flight holds for it:
\* the safety argument of submit_entry.
THEOREM KernelWritesHeldBuffers == UringSpec => []BufferHeld
BY UringInvariant, PTL DEF UringInv

\* Whatever the kernel cuts short or reorders, a read answered with its buffer
\* has the bytes of its own range, and is refused only after a fault or because
\* the file ends inside the range.
THEOREM ReadsAreRight == UringSpec => []AnswersAreTrue
BY UringInvariant, PTL DEF UringInv

=============================================================================
