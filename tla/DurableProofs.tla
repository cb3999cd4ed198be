--------------------------- MODULE DurableProofs ---------------------------
(***************************************************************************)
(* Proofs about DurableWrites, for any rows, group sizes, records,         *)
(* rotations, crashes and errors: what is acknowledged is kept, replayed   *)
(* once and shown, and an update is all or nothing.                        *)
(*                                                                         *)
(* The argument is about sets of records.  Must is what a crash cannot     *)
(* take away, May what it may leave; replaying any set between the two     *)
(* gives the acknowledged rows, up to the statements nobody was told of.   *)
(***************************************************************************)
EXTENDS DurableWrites, FiniteSetTheorems, SequenceTheorems, WellFoundedInduction, TLAPS

----------------------------------------------------------------------------
(* What replay makes of a set of records.                                  *)

MemOf(P) ==
    {x \in Rows : \E r \in P : /\ x \in r.put
                               /\ \A q \in P : x \in q.del => q.lsn <= r.lsn}

\* The last bitmap P holds for each segment.
TopMaps(P, segs) ==
    {b \in {c \in UNION {r.maps : r \in P} : \E s \in segs : s.id = c.id} :
        \E r \in P : /\ b \in r.maps
                     /\ \A q \in P : \A c \in q.maps : c.id = b.id => q.lsn <= r.lsn}

DeadOf(P, d) == Remapped(d.dead, TopMaps(P, d.segs), d.segs)

----------------------------------------------------------------------------
(* The records.                                                            *)

\* What log i may hold after a crash, and what it surely holds.
Held(i) == UNION {SeqRange(a.recs) : a \in logImg[i]}
Firm(i) == {logs[i].recs[k] : k \in {j \in 1 .. Len(logs[i].recs) : j <= len[i]}}

Live(S) == {r \in S : r.lsn > disk.cp}

May == Live(Held(0) \cup Held(1))
Must == IF pc = "closed" THEN May ELSE Live(Firm(0) \cup Firm(1))
New == SeqRange(writing)

\* Rows and segments a flush has taken out and not committed yet.
Flushing == pc \in {"frozen", "rotating", "rotated"}
TakenRows == IF Flushing THEN frozen.rows ELSE {}
TakenDirty == IF Flushing THEN frozen.dirty ELSE {}

----------------------------------------------------------------------------
(* The inductive invariant.                                                *)

\* Records are numbered below the next LSN and the checkpoint is of the past.
LsnInv ==
    /\ disk.cp <= MaxLsn
    /\ \A i \in Log : logs[i] \in logImg[i]
    /\ \A i \in Log : \A r \in Held(i) : r.lsn <= MaxLsn
    /\ pc # "closed" =>
          /\ disk.cp < nextLsn /\ nextLsn <= MaxLsn + 1
          /\ \A i \in Log : \A r \in Held(i) : r.lsn < nextLsn
          /\ len[active] <= Len(logs[active].recs)
    /\ pc = "closed" => /\ \A i \in Log : logImg[i] = {logs[i]}
                        /\ lapses \subseteq {"lost"}
    /\ pc = "committed" => disk.cp + 1 = nextLsn
    /\ pc # "appending" => writing = <<>>
    /\ pc \in {"frozen", "rotating", "rotated", "committed", "closed"} =>
          mem = {} /\ dirty = {}

\* Segments are apart from one another and from what is yet to be flushed.
RowInv ==
    /\ \A s, t \in disk.segs : s.id = t.id \/ s.rows \cap t.rows # {} => s = t
    /\ \A s \in disk.segs : s.id < disk.nextId
    /\ \A s \in disk.segs : \A x \in s.rows : x \notin mem /\ x \notin TakenRows
    /\ disk.dead \subseteq RowsIn(disk.segs)
    /\ deletes \subseteq RowsIn(disk.segs)
    /\ \A r \in May : /\ r.put \cap RowsIn(disk.segs) = {}
                      /\ \A b \in r.maps :
                            \E s \in disk.segs : s.id = b.id /\ b.dead \subseteq s.rows
    /\ \A x \in MaybePut : /\ x \notin RowsIn(disk.segs) /\ x \notin mem
                           /\ x \notin acked /\ x \notin TakenRows

\* The append under way.
AppendInv ==
    /\ \A k \in 1 .. Len(writing) :
          /\ len[active] + k <= Len(logs[active].recs)
          /\ logs[active].recs[len[active] + k] = writing[k]
    /\ New \subseteq May
    /\ New \cap Must = {}
    /\ \A n \in New : \A r \in May \ New : r.lsn < n.lsn
    /\ \A n \in New :
          /\ \A x \in n.put : x \notin mem /\ x \notin acked /\ x \notin MaybePut
          /\ n.del \subseteq mem
          /\ \A b \in n.maps : \A s \in disk.segs :
                s.id = b.id => deletes \cap s.rows \subseteq b.dead
          /\ n.del # {} \/ n.maps # {} => writing = <<n>>

\* What the open table has in memory is what was acknowledged.
MemoryInv ==
    /\ \A s \in disk.segs : \A x \in s.rows : x \in acked <=> x \notin deletes
    /\ "aborted" \notin lapses =>
          /\ \A x \in Rows : x \in acked <=>
                \/ x \in RowsIn(disk.segs) /\ x \notin deletes
                \/ x \in mem \/ x \in TakenRows
          /\ shown = acked
          /\ \A s \in disk.segs : s.id \notin dirty /\ s.id \notin TakenDirty =>
                disk.dead \cap s.rows = deletes \cap s.rows

\* Replaying P on table d gives the acknowledged rows a; what it lacks or has
\* beyond them is what the unsettled statements u remove or put, and only those
\* that P holds remove.
Faithful(P, d, a, u) ==
    /\ \A x \in a :
          x \notin RowsIn(d.segs) =>
              x \in MemOf(P) \/ \E q \in P \cap u : x \in q.del
    /\ \A x \in MemOf(P) : x \in a \/ \E q \in u : x \in q.put
    /\ \A s \in d.segs : \A x \in s.rows :
          /\ x \in DeadOf(P, d) /\ x \in a =>
                \E q \in P \cap u : \E b \in q.maps : x \in b.dead
          /\ x \notin DeadOf(P, d) => x \in a

\* Which records put and delete a row.
OrderInv ==
    /\ \A r \in (May \ New) \ Must : r.put \subseteq MaybePut
    /\ \A y \in mem : \E p \in Must : y \in p.put
    /\ \A q \in May : \A y \in q.del :
          y \notin MaybePut /\ \E p \in Must : y \in p.put
    /\ \A p, q \in May : p.put \cap q.del # {} => p.lsn < q.lsn
    /\ \A p, q \in May : p.put \cap q.put # {} => p = q
    /\ \A p \in May : \A u \in unsure :
          p.put \cap u.put # {} /\ (u.del # {} \/ u.maps # {}) => p = u

\* A crash leaves every record it cannot take away.  A log that may hold a
\* record to be replayed holds one, so that rotating it is noticed.
ImageInv ==
    /\ \A i \in Log : \A a \in logImg[i] : Live(Firm(i)) \subseteq SeqRange(a.recs)
    /\ \A i \in Log : Live(Held(i)) # {} => Live(SeqRange(logs[i].recs)) # {}
    /\ pc = "rotating" => Live(Held(1 - active)) = {}

\* Whatever a crash leaves is replayed to what was acknowledged.
FaithInv ==
    \A P \in SUBSET (May \ New) : Must \subseteq P => Faithful(P, disk, acked, unsure)

DurableInv ==
    /\ TypeOK
    /\ LsnInv
    /\ RowInv
    /\ AppendInv
    /\ "lost" \notin lapses /\ pc # "closed" => MemoryInv
    /\ "lost" \notin lapses /\ "exposed" \notin lapses =>
          OrderInv /\ ImageInv /\ FaithInv

----------------------------------------------------------------------------
(* Replaying a set of records to which the latest statement M is added.    *)

\* P adds M to Q: M was logged after everything in Q, and deletes rows only if
\* it is a single record.
Latest(P, Q, M) ==
    /\ P = Q \cup M
    /\ \A m \in M : m.lsn \in Nat
    /\ \A q \in Q : q.lsn \in Nat
    /\ \A q \in Q : \A m \in M : q.lsn < m.lsn
    /\ \A m \in M : m.del # {} \/ m.maps # {} => M = {m}

\* The records of P name segments of the table and mark only their rows.
MapsFit(P, segs) ==
    \A r \in P : \A b \in r.maps :
        \E s \in segs : s.id = b.id /\ b.dead \subseteq s.rows

\* Segments have their own identities and rows.
Apart(segs) ==
    \A s, t \in segs : s.id = t.id \/ s.rows \cap t.rows # {} => s = t

\* The memtable after the latest statement.
LEMMA MemLatest ==
    ASSUME NEW Q, NEW M, NEW P, Latest(P, Q, M),
           \A m \in M : m.put \subseteq Rows, NEW x
    PROVE  x \in MemOf(P) <=>
               \/ x \in MemOf(Q) /\ \A m \in M : x \notin m.del
               \/ \E m \in M : x \in m.put
<1> P = Q \cup M
    BY DEF Latest
<1>1. ASSUME x \in MemOf(P), \A m \in M : x \notin m.put
      PROVE  x \in MemOf(Q) /\ \A m \in M : x \notin m.del
  <2>1. PICK r \in P : x \in r.put /\ \A q \in P : x \in q.del => q.lsn <= r.lsn
        BY <1>1 DEF MemOf
  <2>2. r \in Q
        BY <2>1, <1>1
  <2>3. \A m \in M : x \notin m.del
        BY <2>1, <2>2 DEF Latest
  <2>4. x \in MemOf(Q)
        BY <2>1, <2>2, <1>1 DEF MemOf
  <2> QED BY <2>3, <2>4
<1>2. ASSUME NEW m \in M, x \in m.put
      PROVE  x \in MemOf(P)
  <2>1. \A q \in Q : q.lsn <= m.lsn
        BY DEF Latest
  <2>2. \A q \in M : x \in q.del => q.lsn <= m.lsn
        BY DEF Latest
  <2> QED BY <1>2, <2>1, <2>2 DEF MemOf
<1>3. ASSUME x \in MemOf(Q), \A m \in M : x \notin m.del
      PROVE  x \in MemOf(P)
      BY <1>3 DEF MemOf
<1> QED BY <1>1, <1>2, <1>3

\* The bitmaps after the latest statement: its own, and the earlier ones of the
\* segments it leaves alone.
LEMMA TopLatest ==
    ASSUME NEW Q, NEW M, NEW P, NEW segs, Latest(P, Q, M), MapsFit(P, segs), NEW b
    PROVE  b \in TopMaps(P, segs) <=>
               \/ \E m \in M : b \in m.maps
               \/ /\ b \in TopMaps(Q, segs)
                  /\ \A m \in M : \A c \in m.maps : c.id # b.id
<1> P = Q \cup M
    BY DEF Latest
<1>1. ASSUME b \in TopMaps(P, segs), \A m \in M : b \notin m.maps
      PROVE  b \in TopMaps(Q, segs) /\ \A m \in M : \A c \in m.maps : c.id # b.id
  <2>1. PICK r \in P :
            /\ b \in r.maps
            /\ \A q \in P : \A c \in q.maps : c.id = b.id => q.lsn <= r.lsn
        BY <1>1 DEF TopMaps
  <2>2. r \in Q
        BY <2>1, <1>1
  <2>3. \A m \in M : \A c \in m.maps : c.id # b.id
        BY <2>1, <2>2 DEF Latest
  <2>4. b \in TopMaps(Q, segs)
        BY <2>1, <2>2, <1>1 DEF TopMaps
  <2> QED BY <2>3, <2>4
<1>2. ASSUME NEW m \in M, b \in m.maps
      PROVE  b \in TopMaps(P, segs)
  <2>1. \A q \in P : q.lsn <= m.lsn
        BY <1>2 DEF Latest
  <2>2. \E s \in segs : s.id = b.id
        BY <1>2 DEF MapsFit
  <2> QED BY <1>2, <2>1, <2>2 DEF TopMaps
<1>3. ASSUME b \in TopMaps(Q, segs), \A m \in M : \A c \in m.maps : c.id # b.id
      PROVE  b \in TopMaps(P, segs)
      BY <1>3 DEF TopMaps
<1> QED BY <1>1, <1>2, <1>3

\* The deleted rows of one segment: those of its last bitmap, or those the file
\* marks when no record has one.
LEMMA DeadAt ==
    ASSUME NEW P, NEW d, Apart(d.segs), MapsFit(P, d.segs),
           NEW s \in d.segs, NEW x \in s.rows
    PROVE  /\ x \in DeadOf(P, d) <=>
                 \/ \E b \in TopMaps(P, d.segs) : x \in b.dead
                 \/ x \in d.dead /\ \A b \in TopMaps(P, d.segs) : b.id # s.id
           /\ \A r \in P : \A b \in r.maps : x \in b.dead => b.id = s.id
<1>1. \A r \in P : \A b \in r.maps : x \in b.dead => b.id = s.id
      BY DEF Apart, MapsFit
<1>2. \A t \in d.segs : x \in t.rows => t = s
      BY DEF Apart
<1>3. x \in RowsIn({t \in d.segs : \E b \in TopMaps(P, d.segs) : b.id = t.id})
         <=> \E b \in TopMaps(P, d.segs) : b.id = s.id
      BY <1>2 DEF RowsIn
<1> QED BY <1>1, <1>3 DEF DeadOf, Remapped

\* Bitmaps logged after Q's decide the segments they name; Q's still decide the
\* others.
LEMMA DeadLatest ==
    ASSUME NEW Q, NEW M, NEW P, NEW d, Latest(P, Q, M), Apart(d.segs),
           MapsFit(P, d.segs), NEW s \in d.segs, NEW x \in s.rows
    PROVE  x \in DeadOf(P, d) <=>
               \/ \E m \in M : \E b \in m.maps : x \in b.dead
               \/ x \in DeadOf(Q, d) /\ \A m \in M : \A b \in m.maps : b.id # s.id
<1> P = Q \cup M
    BY DEF Latest
<1>0. MapsFit(Q, d.segs)
      BY DEF MapsFit
<1>1. /\ x \in DeadOf(P, d) <=>
            \/ \E b \in TopMaps(P, d.segs) : x \in b.dead
            \/ x \in d.dead /\ \A b \in TopMaps(P, d.segs) : b.id # s.id
      /\ \A r \in P : \A b \in r.maps : x \in b.dead => b.id = s.id
      BY DeadAt
<1>2. x \in DeadOf(Q, d) <=>
            \/ \E b \in TopMaps(Q, d.segs) : x \in b.dead
            \/ x \in d.dead /\ \A b \in TopMaps(Q, d.segs) : b.id # s.id
      BY <1>0, DeadAt
<1>3. \A b : b \in TopMaps(P, d.segs) <=>
            \/ \E m \in M : b \in m.maps
            \/ /\ b \in TopMaps(Q, d.segs)
               /\ \A m \in M : \A c \in m.maps : c.id # b.id
      BY TopLatest
<1>4. \A b \in TopMaps(Q, d.segs) : \E r \in Q : b \in r.maps
      BY DEF TopMaps
<1>5. CASE \E m \in M : \E b \in m.maps : b.id = s.id
  <2>1. PICK m \in M : \E b \in m.maps : b.id = s.id
        BY <1>5
  <2>5. PICK b \in m.maps : b.id = s.id
        BY <2>1
  <2>2. b \in TopMaps(P, d.segs)
        BY <1>3
  <2>3. \A c \in TopMaps(P, d.segs) : x \in c.dead => \E n \in M : c \in n.maps
    <3> SUFFICES ASSUME NEW c \in TopMaps(P, d.segs), x \in c.dead,
                        \A n \in M : c \notin n.maps
                 PROVE  FALSE
        OBVIOUS
    <3>1. c \in TopMaps(Q, d.segs) /\ c.id # b.id
          BY <1>3
    <3>2. c.id = s.id
          BY <3>1, <1>4, <1>1
    <3> QED BY <3>1, <3>2, <2>5
  <2>4. \A n \in M : \A c \in n.maps : c \in TopMaps(P, d.segs)
        BY <1>3
  <2> QED BY <2>5, <2>2, <2>3, <2>4, <1>1
<1>6. CASE \A m \in M : \A b \in m.maps : b.id # s.id
  <2>1. \A m \in M : \A b \in m.maps : x \notin b.dead
        BY <1>1, <1>6
  <2>2. \A b : b.id = s.id => (b \in TopMaps(P, d.segs) <=> b \in TopMaps(Q, d.segs))
        BY <1>3, <1>6
  <2>3. \A b \in TopMaps(P, d.segs) : x \in b.dead => b.id = s.id
        BY <1>1 DEF TopMaps
  <2>4. \A b \in TopMaps(Q, d.segs) : x \in b.dead => b.id = s.id
        BY <1>1, <1>4
  <2> QED BY <1>1, <1>2, <1>6, <2>1, <2>2, <2>3, <2>4
<1> QED BY <1>5, <1>6

\* The latest statement M against the table d, the acknowledged rows a and the
\* deletes in memory.
Suits(P, Q, M, d, a, dels) ==
    /\ Latest(P, Q, M)
    /\ Apart(d.segs)
    /\ MapsFit(P, d.segs)
    /\ \A r \in P : r.put \subseteq Rows
    /\ \A s \in d.segs : \A x \in s.rows :
          /\ \A r \in P : x \notin r.put
          /\ \A m \in M : x \notin m.del
          /\ \A m \in M : \A b \in m.maps : b.id = s.id /\ x \in dels => x \in b.dead
          /\ x \in a <=> x \notin dels

\* A row that waits in the log for the memtable is in no segment.
LEMMA MemApart ==
    ASSUME NEW P, NEW segs, NEW x, x \in MemOf(P),
           \A s \in segs : \A y \in s.rows : \A r \in P : y \notin r.put
    PROVE  x \notin RowsIn(segs)
BY DEF MemOf, RowsIn

\* An acknowledged statement: the replay of its records gives its effect.
LEMMA FaithAcked ==
    ASSUME NEW Q, NEW M, NEW P, NEW d, NEW a, NEW u, NEW dels, NEW now,
           Suits(P, Q, M, d, a, dels),
           Faithful(Q, d, a, u),
           \A x : x \in now <=>
               \/ x \in a /\ \A m \in M : x \notin m.del /\ \A b \in m.maps : x \notin b.dead
               \/ \E m \in M : x \in m.put
    PROVE  Faithful(P, d, now, u)
<1> P = Q \cup M
    BY DEF Suits, Latest
<1>1. \A x : x \in MemOf(P) <=>
               \/ x \in MemOf(Q) /\ \A m \in M : x \notin m.del
               \/ \E m \in M : x \in m.put
      BY MemLatest DEF Suits
<1>2. \A s \in d.segs : \A x \in s.rows :
          /\ x \in DeadOf(P, d) <=>
               \/ \E m \in M : \E b \in m.maps : x \in b.dead
               \/ x \in DeadOf(Q, d) /\ \A m \in M : \A b \in m.maps : b.id # s.id
          /\ \A m \in M : \A b \in m.maps : x \in b.dead => b.id = s.id
  <2> TAKE s \in d.segs
  <2> TAKE x \in s.rows
  <2>1. Latest(P, Q, M) /\ Apart(d.segs) /\ MapsFit(P, d.segs)
        BY DEF Suits
  <2>2. \A r \in P : \A b \in r.maps : x \in b.dead => b.id = s.id
        BY <2>1 DEF Apart, MapsFit
  <2>3. x \in DeadOf(P, d) <=>
               \/ \E m \in M : \E b \in m.maps : x \in b.dead
               \/ x \in DeadOf(Q, d) /\ \A m \in M : \A b \in m.maps : b.id # s.id
        BY <2>1, DeadLatest
  <2> QED BY <2>2, <2>3
<1>3. ASSUME NEW x \in now, x \notin RowsIn(d.segs)
      PROVE  x \in MemOf(P) \/ \E q \in P \cap u : x \in q.del
      BY <1>3, <1>1 DEF Faithful
<1>4. ASSUME NEW x \in MemOf(P)
      PROVE  x \in now \/ \E q \in u : x \in q.put
  <2>1. CASE x \in MemOf(Q) /\ \A m \in M : x \notin m.del
    <3>1. x \notin RowsIn(d.segs)
          BY <2>1, MemApart DEF Suits
    <3>2. \A m \in M : \A b \in m.maps : x \notin b.dead
          BY <3>1 DEF Suits, MapsFit, RowsIn
    <3> QED BY <2>1, <3>2 DEF Faithful
  <2> QED BY <2>1, <1>1
<1>5. ASSUME NEW s \in d.segs, NEW x \in s.rows, x \in DeadOf(P, d), x \in now
      PROVE  \E q \in P \cap u : \E b \in q.maps : x \in b.dead
  <2>1. x \in a /\ \A m \in M : \A b \in m.maps : x \notin b.dead
        BY <1>5 DEF Suits
  <2>2. x \in DeadOf(Q, d)
        BY <2>1, <1>5, <1>2
  <2> QED BY <2>1, <2>2 DEF Faithful
<1>6. ASSUME NEW s \in d.segs, NEW x \in s.rows, x \notin DeadOf(P, d)
      PROVE  x \in now
  <2>1. \A m \in M : x \notin m.del /\ \A b \in m.maps : x \notin b.dead
        BY <1>6, <1>2 DEF Suits
  <2>2. CASE \E m \in M : \E b \in m.maps : b.id = s.id
        BY <2>1, <2>2 DEF Suits
  <2>3. CASE \A m \in M : \A b \in m.maps : b.id # s.id
    <3>1. x \notin DeadOf(Q, d)
          BY <2>3, <1>6, <1>2
    <3> QED BY <3>1, <2>1 DEF Faithful
  <2> QED BY <2>2, <2>3
<1> QED BY <1>3, <1>4, <1>5, <1>6 DEF Faithful

\* A statement nobody was told of: what survives of it is accounted for once it
\* counts as unsettled.
LEMMA FaithUnsure ==
    ASSUME NEW Q, NEW M, NEW P, NEW d, NEW a, NEW u, NEW dels, NEW v,
           Suits(P, Q, M, d, a, dels),
           Faithful(Q, d, a, u),
           u \subseteq v,
           \A m \in M : m.del # {} \/ m.maps # {} => m \in v,
           \A m \in M : \A x \in m.put : \E q \in v : x \in q.put
    PROVE  Faithful(P, d, a, v)
<1> P = Q \cup M
    BY DEF Suits, Latest
<1>1. \A x : x \in MemOf(P) <=>
               \/ x \in MemOf(Q) /\ \A m \in M : x \notin m.del
               \/ \E m \in M : x \in m.put
      BY MemLatest DEF Suits
<1>2. \A s \in d.segs : \A x \in s.rows :
          /\ x \in DeadOf(P, d) <=>
               \/ \E m \in M : \E b \in m.maps : x \in b.dead
               \/ x \in DeadOf(Q, d) /\ \A m \in M : \A b \in m.maps : b.id # s.id
          /\ \A m \in M : \A b \in m.maps : x \in b.dead => b.id = s.id
  <2> TAKE s \in d.segs
  <2> TAKE x \in s.rows
  <2>1. Latest(P, Q, M) /\ Apart(d.segs) /\ MapsFit(P, d.segs)
        BY DEF Suits
  <2>2. \A r \in P : \A b \in r.maps : x \in b.dead => b.id = s.id
        BY <2>1 DEF Apart, MapsFit
  <2>3. x \in DeadOf(P, d) <=>
               \/ \E m \in M : \E b \in m.maps : x \in b.dead
               \/ x \in DeadOf(Q, d) /\ \A m \in M : \A b \in m.maps : b.id # s.id
        BY <2>1, DeadLatest
  <2> QED BY <2>2, <2>3
<1>3. ASSUME NEW x \in a, x \notin RowsIn(d.segs)
      PROVE  x \in MemOf(P) \/ \E q \in P \cap v : x \in q.del
  <2>1. CASE \E m \in M : x \in m.del
        BY <2>1
  <2>2. CASE \A m \in M : x \notin m.del
        BY <2>2, <1>3, <1>1 DEF Faithful
  <2> QED BY <2>1, <2>2
<1>4. ASSUME NEW x \in MemOf(P)
      PROVE  x \in a \/ \E q \in v : x \in q.put
      BY <1>1 DEF Faithful
<1>5. ASSUME NEW s \in d.segs, NEW x \in s.rows, x \in DeadOf(P, d), x \in a
      PROVE  \E q \in P \cap v : \E b \in q.maps : x \in b.dead
  <2>1. CASE \E m \in M : \E b \in m.maps : x \in b.dead
        BY <2>1
  <2>2. CASE x \in DeadOf(Q, d)
        BY <2>2, <1>5 DEF Faithful
  <2> QED BY <2>1, <2>2, <1>5, <1>2
<1>6. ASSUME NEW s \in d.segs, NEW x \in s.rows, x \notin DeadOf(P, d)
      PROVE  x \in a
  <2>1. \A m \in M : \A b \in m.maps : x \notin b.dead
        BY <1>6, <1>2
  <2>2. CASE \E m \in M : \E b \in m.maps : b.id = s.id
        BY <2>1, <2>2 DEF Suits
  <2>3. CASE \A m \in M : \A b \in m.maps : b.id # s.id
    <3>1. x \notin DeadOf(Q, d)
          BY <2>3, <1>6, <1>2
    <3> QED BY <3>1 DEF Faithful
  <2> QED BY <2>2, <2>3
<1> QED BY <1>3, <1>4, <1>5, <1>6 DEF Faithful

----------------------------------------------------------------------------
(* The log files as sequences.                                             *)

\* The bytes of an append go behind the records the handle knows of; what was
\* beyond them is overwritten, cut off or left.
LEMMA WriteEffect ==
    ASSUME TypeOK, LsnInv, pc # "closed",
           NEW new \in Seq(WalRecord), WriteRecords(active, new)
    PROVE  /\ logs' \in [Log -> LogFile]
           /\ logImg' \in [Log -> SUBSET LogFile]
           /\ logs'[active] \in logImg'[active]
           /\ logImg[active] \subseteq logImg'[active]
           /\ \A i \in Log : i # active => logs'[i] = logs[i] /\ logImg'[i] = logImg[i]
           /\ \A k \in 1 .. Len(new) :
                 /\ len[active] + k <= Len(logs'[active].recs)
                 /\ logs'[active].recs[len[active] + k] = new[k]
           /\ len[active] <= Len(logs'[active].recs)
           /\ \A j \in 1 .. len[active] : logs'[active].recs[j] = logs[active].recs[j]
           /\ \A a \in logImg'[active] :
                 \/ a \in logImg[active]
                 \/ /\ SeqRange(a.recs) \subseteq SeqRange(logs[active].recs) \cup SeqRange(new)
                    /\ \A j \in 1 .. len[active] :
                          j <= Len(a.recs) /\ a.recs[j] = logs[active].recs[j]
<1> DEFINE old == logs[active].recs
           n == len[active]
           base == Base(active)
           Fits(a) == /\ a \in LogFile
                      /\ SeqRange(a.recs) \subseteq SeqRange(old) \cup SeqRange(new)
                      /\ \A j \in 1 .. n : j <= Len(a.recs) /\ a.recs[j] = old[j]
<1>1. /\ active \in Log /\ logs[active] \in LogFile
      /\ old \in Seq(WalRecord) /\ n \in Nat /\ n <= Len(old)
      BY DEF TypeOK, LsnInv, LogFile
<1>2. base \in Seq(WalRecord) /\ Len(base) = n /\ \A j \in 1 .. n : base[j] = old[j]
  <2>1. \A j \in 1 .. n : old[j] \in WalRecord
        BY <1>1, LenProperties, ElementOfSeq
  <2> QED BY <1>1, <2>1, SubSeqProperties DEF Base
<1>3. ASSUME NEW mid \in Seq(WalRecord), NEW tail \in Seq(WalRecord),
             SeqRange(mid) \subseteq SeqRange(old) \cup SeqRange(new),
             SeqRange(tail) \subseteq SeqRange(old) \cup SeqRange(new)
      PROVE  /\ Fits([logs[active] EXCEPT !.recs = base \o mid \o tail])
             /\ \A k \in 1 .. Len(mid) :
                   /\ n + k <= Len(base \o mid \o tail)
                   /\ (base \o mid \o tail)[n + k] = mid[k]
  <2> DEFINE s == base \o mid
             t == s \o tail
             a == [logs[active] EXCEPT !.recs = t]
  <2>1. /\ s \in Seq(WalRecord) /\ Len(s) = n + Len(mid)
        /\ \A i \in 1 .. Len(s) : s[i] = IF i <= n THEN old[i] ELSE mid[i - n]
    <3>1. /\ s \in Seq(WalRecord) /\ Len(s) = Len(base) + Len(mid)
          /\ \A i \in 1 .. Len(base) + Len(mid) :
                s[i] = IF i <= Len(base) THEN base[i] ELSE mid[i - Len(base)]
          BY <1>2, ConcatProperties
    <3> HIDE DEF s, base
    <3>2. Len(mid) \in Nat
          BY LenProperties
    <3> QED BY <1>1, <1>2, <3>1, <3>2
  <2>2. /\ t \in Seq(WalRecord) /\ Len(t) = Len(s) + Len(tail)
        /\ \A i \in 1 .. Len(t) : t[i] = IF i <= Len(s) THEN s[i] ELSE tail[i - Len(s)]
        BY <2>1, ConcatProperties
  <2> HIDE DEF s, t
  <2>3. Len(mid) \in Nat /\ Len(tail) \in Nat /\ Len(s) \in Nat /\ Len(old) \in Nat
        BY <2>1, <1>1, LenProperties
  <2>4. a \in LogFile /\ a.recs = t
        BY <1>1, <2>2 DEF LogFile
  <2>5. \A k \in 1 .. Len(mid) : n + k <= Len(t) /\ t[n + k] = mid[k]
        BY <1>1, <2>1, <2>2, <2>3
  <2>6. \A j \in 1 .. n : j <= Len(t) /\ t[j] = old[j]
        BY <1>1, <2>1, <2>2, <2>3
  <2>7. ASSUME NEW i \in 1 .. Len(t)
        PROVE  t[i] \in SeqRange(old) \cup SeqRange(mid) \cup SeqRange(tail)
    <3>1. CASE i <= n
      <4>1. t[i] = old[i] /\ i \in 1 .. Len(old)
            BY <3>1, <1>1, <2>1, <2>2, <2>3
      <4> QED BY <4>1 DEF SeqRange
    <3>2. CASE i > n /\ i <= Len(s)
      <4>1. t[i] = mid[i - n] /\ i - n \in 1 .. Len(mid)
            BY <3>2, <1>1, <2>1, <2>2, <2>3
      <4> QED BY <4>1 DEF SeqRange
    <3>3. CASE i > Len(s)
      <4>1. t[i] = tail[i - Len(s)] /\ i - Len(s) \in 1 .. Len(tail)
            BY <3>3, <1>1, <2>1, <2>2, <2>3
      <4> QED BY <4>1 DEF SeqRange
    <3> QED BY <3>1, <3>2, <3>3, <1>1, <2>1, <2>3
  <2>8. SeqRange(t) \subseteq SeqRange(old) \cup SeqRange(new)
        BY <2>7, <1>3 DEF SeqRange
  <2> QED BY <2>4, <2>5, <2>6, <2>8 DEF s, t
<1>4. \A c \in Cut(active, new) : Fits(c)
  <2> SUFFICES ASSUME NEW k \in 0 .. Len(new)
               PROVE  Fits([logs[active] EXCEPT !.recs = base \o SubSeq(new, 1, k)])
      BY DEF Cut
  <2>0. Len(new) \in Nat /\ k \in Nat
        BY LenProperties
  <2>1. \A j \in 1 .. k : new[j] \in WalRecord
        BY <2>0, ElementOfSeq
  <2>2. /\ SubSeq(new, 1, k) \in Seq(WalRecord)
        /\ Len(SubSeq(new, 1, k)) = k
        /\ \A j \in 1 .. k : SubSeq(new, 1, k)[j] = new[j]
        BY <2>0, <2>1, SubSeqProperties
  <2>3. SeqRange(SubSeq(new, 1, k)) \subseteq SeqRange(new)
        BY <2>0, <2>2 DEF SeqRange
  <2>4. <<>> \in Seq(WalRecord) /\ SeqRange(<<>>) = {}
        BY DEF SeqRange
  <2>5. base \o SubSeq(new, 1, k) \in Seq(WalRecord)
        BY <1>2, <2>2, ConcatProperties
  <2>6. base \o SubSeq(new, 1, k) \o <<>> = base \o SubSeq(new, 1, k)
        BY <2>5, ConcatEmptySeq
  <2>7. Fits([logs[active] EXCEPT !.recs = base \o SubSeq(new, 1, k) \o <<>>])
        BY <2>2, <2>3, <2>4, <1>3
  <2> QED BY <2>6, <2>7
<1>5. PICK tail \in {<<>>, SubSeq(Left(active), Len(new) + 1, Len(Left(active)))} :
          LET full == [logs[active] EXCEPT !.recs = base \o new \o tail]
          IN /\ logs' = [logs EXCEPT ![active] = full]
             /\ logImg' = [logImg EXCEPT ![active] = @ \cup Cut(active, new) \cup {full}]
      BY DEF WriteRecords
<1>6. tail \in Seq(WalRecord) /\ SeqRange(tail) \subseteq SeqRange(old)
  <2>1. CASE tail = <<>>
        BY <2>1 DEF SeqRange
  <2>2. CASE tail = SubSeq(Left(active), Len(new) + 1, Len(Left(active)))
    <3> DEFINE left == Left(active)
    <3>1. \A j \in n + 1 .. Len(old) : old[j] \in WalRecord
          BY <1>1, LenProperties, ElementOfSeq
    <3>2. /\ left \in Seq(WalRecord)
          /\ Len(left) = IF n + 1 <= Len(old) THEN Len(old) - n ELSE 0
          /\ \A j \in 1 .. Len(old) - n : left[j] = old[n + j]
      <4> HIDE DEF old, n
      <4>1. left = SubSeq(old, n + 1, Len(old))
            BY DEF Left, old, n
      <4>2. n + 1 \in Int /\ Len(old) \in Int
            BY <1>1, LenProperties
      <4>3. /\ left \in Seq(WalRecord)
            /\ Len(left) = IF n + 1 <= Len(old) THEN Len(old) - (n + 1) + 1 ELSE 0
            /\ \A j \in 1 .. Len(old) - (n + 1) + 1 : left[j] = old[n + 1 + j - 1]
            BY <4>1, <4>2, <3>1, SubSeqProperties
      <4> HIDE DEF left
      <4> QED BY <1>1, <4>2, <4>3
    <3> HIDE DEF left
    <3>3. Len(left) \in Nat /\ Len(old) \in Nat /\ Len(new) \in Nat
          BY <3>2, <1>1, LenProperties
    <3>4. \A j \in Len(new) + 1 .. Len(left) : left[j] \in WalRecord
          BY <3>2, <3>3, ElementOfSeq
    <3>5. /\ tail \in Seq(WalRecord)
          /\ Len(tail) = IF Len(new) + 1 <= Len(left) THEN Len(left) - Len(new) ELSE 0
          /\ \A j \in 1 .. Len(left) - Len(new) : tail[j] = left[Len(new) + j]
          BY <2>2, <3>3, <3>4, SubSeqProperties DEF left
    <3>6. ASSUME NEW j \in 1 .. Len(tail)
          PROVE  tail[j] \in SeqRange(old)
      <4>1. tail[j] = left[Len(new) + j] /\ Len(new) + j \in 1 .. Len(left)
            BY <3>3, <3>5
      <4> DEFINE m == Len(new) + j
      <4> HIDE DEF m, old, n
      <4>2. m \in 1 .. Len(left)
            BY <4>1 DEF m
      <4>3. m \in 1 .. Len(old) - n
            BY <4>2, <3>2, <3>3, <1>1
      <4>4. left[m] = old[n + m] /\ n + m \in 1 .. Len(old)
            BY <4>3, <3>2, <3>3, <1>1
      <4> QED BY <4>1, <4>4 DEF SeqRange, m
    <3> QED BY <3>5, <3>6 DEF SeqRange
  <2> QED BY <2>1, <2>2
<1>7. /\ Fits([logs[active] EXCEPT !.recs = base \o new \o tail])
      /\ \A k \in 1 .. Len(new) :
            /\ n + k <= Len(base \o new \o tail)
            /\ (base \o new \o tail)[n + k] = new[k]
      BY <1>3, <1>6
<1> DEFINE full == [logs[active] EXCEPT !.recs = base \o new \o tail]
<1>8. full.recs = base \o new \o tail
      BY <1>1 DEF LogFile
<1> HIDE DEF base, full
<1>9. /\ logs' = [logs EXCEPT ![active] = full]
      /\ logImg' = [logImg EXCEPT ![active] = @ \cup Cut(active, new) \cup {full}]
      BY <1>5 DEF full
<1>10. /\ logs'[active] = full
       /\ logImg'[active] = logImg[active] \cup Cut(active, new) \cup {full}
       /\ \A i \in Log : i # active => logs'[i] = logs[i] /\ logImg'[i] = logImg[i]
       BY <1>9, <1>1 DEF TypeOK
<1>11. Fits(full)
       BY <1>7 DEF full
<1>12. logs' \in [Log -> LogFile] /\ logImg' \in [Log -> SUBSET LogFile]
       BY <1>9, <1>11, <1>4 DEF TypeOK
<1>13. len[active] <= Len(full.recs)
  <2>1. CASE n = 0
        BY <2>1, <1>11, LenProperties DEF LogFile
  <2>2. CASE n # 0
        BY <2>2, <1>1, <1>11
  <2> QED BY <2>1, <2>2
<1> QED BY <1>4, <1>7, <1>8, <1>10, <1>11, <1>12, <1>13

\* What a sequence of elements of S lists.
LEMMA RangeType ==
    ASSUME NEW S, NEW t \in Seq(S)
    PROVE  /\ SeqRange(t) \subseteq S
           /\ Len(t) \in Nat
           /\ \A k \in 1 .. Len(t) : t[k] \in SeqRange(t)
           /\ \A r \in SeqRange(t) : \E k \in 1 .. Len(t) : r = t[k]
BY LenProperties, ElementOfSeq DEF SeqRange

\* Must and New are among the records a crash may leave.
LEMMA RecordTypes ==
    ASSUME TypeOK, LsnInv
    PROVE  /\ \A i \in Log : Held(i) \subseteq WalRecord
           /\ \A i \in Log : SeqRange(logs[i].recs) \subseteq Held(i)
           /\ \A i \in Log : Firm(i) \subseteq SeqRange(logs[i].recs)
           /\ May \subseteq WalRecord
           /\ Must \subseteq May
           /\ New \subseteq WalRecord
           /\ \A r \in May : r \in Held(0) \/ r \in Held(1)
           /\ \A i \in Log : Live(Held(i)) \subseteq May
           /\ 0 \in Log /\ 1 \in Log
<1>1. \A i \in Log : \A a \in logImg[i] : SeqRange(a.recs) \subseteq WalRecord
  <2> SUFFICES ASSUME NEW i \in Log, NEW a \in logImg[i]
               PROVE  SeqRange(a.recs) \subseteq WalRecord
      OBVIOUS
  <2>1. a.recs \in Seq(WalRecord)
        BY DEF TypeOK, LogFile
  <2> QED BY <2>1, RangeType
<1>2. \A i \in Log : Held(i) \subseteq WalRecord
      BY <1>1 DEF Held
<1>3. \A i \in Log : SeqRange(logs[i].recs) \subseteq Held(i)
      BY DEF LsnInv, Held
<1>4. \A i \in Log : Firm(i) \subseteq SeqRange(logs[i].recs)
      BY DEF Firm, SeqRange
<1>5. New \subseteq WalRecord
      BY RangeType DEF New, TypeOK
<1>6. 0 \in Log /\ 1 \in Log
      BY DEF Log
<1>7. May \subseteq WalRecord
      BY <1>2, <1>6 DEF May, Live
<1>8. Must \subseteq May
      BY <1>3, <1>4, <1>6 DEF May, Must, Live
<1>9. \A i \in Log : Live(Held(i)) \subseteq May
      BY <1>6 DEF May, Live, Log
<1>10. \A r \in May : r \in Held(0) \/ r \in Held(1)
      BY DEF May, Live
<1> QED BY <1>2, <1>3, <1>4, <1>5, <1>6, <1>7, <1>8, <1>9, <1>10

\* A nonempty set of numbers up to n has a largest one.
LEMMA LargestExists ==
    ASSUME NEW n \in Nat, NEW S, S \subseteq 0 .. n, S # {}
    PROVE  SetMax(S) \in S /\ \A y \in S : SetMax(S) >= y
<1> DEFINE T == {n - x : x \in S}
           R == OpToRel(<, Nat)
<1>1. T \subseteq Nat /\ T # {}
  <2>1. \A x \in S : n - x \in Nat
        OBVIOUS
  <2>2. PICK x \in S : TRUE
        OBVIOUS
  <2>3. n - x \in T
        OBVIOUS
  <2> QED BY <2>1, <2>3
<1>2. IsWellFoundedOn(R, Nat)
      BY NatLessThanWellFounded
<1>3. \A y, z \in Nat : <<y, z>> \in R <=> y < z
      BY DEF OpToRel
<1> HIDE DEF T, R
<1>4. \E x \in T : \A y \in T : ~ (<<y, x>> \in R)
      BY <1>1, <1>2, WFMin
<1>5. PICK x \in T : \A y \in T : ~ (<<y, x>> \in R)
      BY <1>4
<1>6. PICK m \in S : x = n - m
      BY DEF T
<1>7. \A y \in S : m >= y
  <2> SUFFICES ASSUME NEW y \in S PROVE m >= y
      OBVIOUS
  <2>1. n - y \in T
        BY DEF T
  <2>2. ~(n - y < x)
        BY <2>1, <1>1, <1>3, <1>5
  <2> QED BY <2>2, <1>6
<1> QED BY <1>7 DEF SetMax

----------------------------------------------------------------------------
(* The steps.                                                              *)

\* What an insert, a delete or an update logs.
Proper(recs) ==
    /\ recs \in Seq(WalRecord)
    /\ Len(recs) > 0
    /\ \A k \in 1 .. Len(recs) :
          /\ recs[k].lsn = nextLsn + k - 1
          /\ recs[k].put \subseteq Unused
          /\ recs[k].del \subseteq mem
          /\ \A b \in recs[k].maps : \E s \in disk.segs :
                s.id = b.id /\ b.dead \subseteq s.rows /\ deletes \cap s.rows \subseteq b.dead
          /\ recs[k].del # {} \/ recs[k].maps # {} => recs = <<recs[k]>>
    /\ \A k, l \in 1 .. Len(recs) : recs[k].put \cap recs[l].put # {} => k = l

\* The records of an insert: fresh rows, consecutive sequence numbers.
LEMMA InsertProper ==
    ASSUME DurableInv, NEW xs \in Groups, Insert(xs)
    PROVE  \E recs : Proper(recs) /\ StartAppend(recs)
<1> DEFINE rec(k) == [lsn |-> nextLsn + k - 1, put |-> {xs[k]}, del |-> {}, maps |-> {}]
           recs == [k \in 1 .. Len(xs) |-> rec(k)]
<1>1. PICK n \in 1 .. MaxGroup : xs \in [1 .. n -> Unused]
      BY DEF Groups
<1>2. n \in Nat /\ Len(xs) = n
      BY <1>1, DurableWritesAssumption
<1>3. \A k \in 1 .. n : xs[k] \in Unused /\ xs[k] \in Rows
      BY <1>1 DEF Unused
<1>4. \A k \in 1 .. n : rec(k) \in WalRecord
      BY <1>2, <1>3 DEF DurableInv, TypeOK, WalRecord
<1>5. recs \in Seq(WalRecord) /\ Len(recs) = n /\ \A k \in 1 .. n : recs[k] = rec(k)
      BY <1>2, <1>4, IsASeq
<1>6. \A k, l \in 1 .. n : xs[k] = xs[l] => k = l
      BY <1>1 DEF Groups
<1>7. Proper(recs)
  <2> HIDE DEF recs
  <2>1. \A k \in 1 .. n : /\ recs[k].lsn = nextLsn + k - 1 /\ recs[k].put = {xs[k]}
                          /\ recs[k].del = {} /\ recs[k].maps = {}
        BY <1>5
  <2> QED BY <1>2, <1>3, <1>5, <1>6, <2>1 DEF Proper
<1> QED BY <1>7 DEF Insert

\* The record of a delete or an update: deletes and replacements together, and
\* bitmaps that start from the deletes in memory.
LEMMA ReplaceProper ==
    ASSUME DurableInv, NEW S \in SUBSET acked, NEW new \in SUBSET Unused, Replace(S, new)
    PROVE  \E recs : Proper(recs) /\ StartAppend(recs)
<1> DEFINE rec == [lsn |-> nextLsn, put |-> new, del |-> S \cap mem, maps |-> Maps(S)]
           recs == <<rec>>
<1>1. \A b \in Maps(S) :
          /\ b \in Bitmap
          /\ \E s \in disk.segs :
                s.id = b.id /\ b.dead \subseteq s.rows /\ deletes \cap s.rows \subseteq b.dead
  <2> SUFFICES ASSUME NEW s \in Touched(S)
               PROVE  LET b == [id |-> s.id, dead |-> (deletes \cup S) \cap s.rows]
                      IN /\ b \in Bitmap
                         /\ \E t \in disk.segs :
                               t.id = b.id /\ b.dead \subseteq t.rows /\ deletes \cap t.rows \subseteq b.dead
      BY DEF Maps
  <2>1. s \in disk.segs /\ s \in Segment
        BY DEF Touched, DurableInv, TypeOK
  <2> QED BY <2>1 DEF Bitmap, Segment, DurableInv, TypeOK
<1>2. rec \in WalRecord
      BY <1>1 DEF WalRecord, DurableInv, TypeOK, Unused
<1>3. recs \in Seq(WalRecord) /\ Len(recs) = 1 /\ recs[1] = rec
      BY <1>2
<1>4. Proper(recs)
  <2>1. /\ rec.lsn = nextLsn /\ rec.put = new
        /\ rec.del = S \cap mem /\ rec.maps = Maps(S)
        OBVIOUS
  <2>2. nextLsn \in Nat
        BY DEF DurableInv, TypeOK
  <2> HIDE DEF rec
  <2>3. \A k \in 1 .. 1 : k = 1
        OBVIOUS
  <2> QED BY <1>1, <1>3, <2>1, <2>2, <2>3 DEF Proper
<1> QED BY <1>4 DEF Replace

\* The records after an append has begun.
LEMMA StartRecords ==
    ASSUME DurableInv, NEW recs, Proper(recs), StartAppend(recs)
    PROVE  /\ New = {} /\ New' = SeqRange(recs) /\ writing' = recs
           /\ logs' \in [Log -> LogFile] /\ logImg' \in [Log -> SUBSET LogFile]
           /\ nextLsn' \in Nat /\ nextLsn <= nextLsn' /\ nextLsn' <= MaxLsn + 1
           /\ \A i \in Log : logs'[i] \in logImg'[i]
           /\ \A i \in Log : Held(i) \subseteq Held(i)'
           /\ \A i \in Log : \A r \in Held(i)' : r \in Held(i) \/ r \in New'
           /\ \A n \in New' : /\ n \in WalRecord /\ nextLsn <= n.lsn /\ n.lsn < nextLsn'
                              /\ n \in Live(SeqRange(logs'[active].recs))
           /\ \A r \in May : r.lsn < nextLsn
           /\ May' = May \cup New' /\ Must' = Must /\ May' \ New' = May
           /\ \A i \in Log : Firm(i)' = Firm(i)
           /\ \A i \in Log : \A a \in logImg'[i] :
                 a \in logImg[i] \/ Firm(i) \subseteq SeqRange(a.recs)
           /\ \A k \in 1 .. Len(recs) :
                 /\ len[active] + k <= Len(logs'[active].recs)
                 /\ logs'[active].recs[len[active] + k] = recs[k]
           /\ len[active] <= Len(logs'[active].recs)
<1>0. /\ TypeOK /\ LsnInv /\ pc = "idle" /\ pc # "closed" /\ pc' = "appending"
      /\ disk' = disk /\ len' = len /\ active' = active /\ writing' = recs
      /\ recs \in Seq(WalRecord) /\ active \in Log
      BY DEF DurableInv, StartAppend, Proper, TypeOK
<1>1. New = {} /\ New' = SeqRange(recs)
      BY <1>0 DEF LsnInv, New, SeqRange
<1>2. Len(recs) \in Nat /\ nextLsn \in Nat /\ MaxLsn \in Nat
      BY <1>0, RangeType, DurableWritesAssumption DEF TypeOK
<1>3. nextLsn' = nextLsn + Len(recs) /\ nextLsn' <= MaxLsn + 1
      BY <1>2 DEF StartAppend
<1>4. \A n \in New' : n \in WalRecord /\ nextLsn <= n.lsn /\ n.lsn < nextLsn'
  <2> SUFFICES ASSUME NEW n \in New'
               PROVE  n \in WalRecord /\ nextLsn <= n.lsn /\ n.lsn < nextLsn'
      OBVIOUS
  <2>1. PICK k \in 1 .. Len(recs) : n = recs[k]
        BY <1>0, <1>1, RangeType
  <2>2. n.lsn = nextLsn + k - 1
        BY <2>1 DEF Proper
  <2>3. n \in WalRecord
        BY <1>0, <1>1, RangeType
  <2> QED BY <2>2, <2>3, <1>2, <1>3
<1>5. /\ logs' \in [Log -> LogFile]
      /\ logImg' \in [Log -> SUBSET LogFile]
      /\ logs'[active] \in logImg'[active]
      /\ logImg[active] \subseteq logImg'[active]
      /\ \A i \in Log : i # active => logs'[i] = logs[i] /\ logImg'[i] = logImg[i]
      /\ \A k \in 1 .. Len(recs) :
            /\ len[active] + k <= Len(logs'[active].recs)
            /\ logs'[active].recs[len[active] + k] = recs[k]
      /\ len[active] <= Len(logs'[active].recs)
      /\ \A j \in 1 .. len[active] : logs'[active].recs[j] = logs[active].recs[j]
      /\ \A a \in logImg'[active] :
            \/ a \in logImg[active]
            \/ /\ SeqRange(a.recs) \subseteq SeqRange(logs[active].recs) \cup SeqRange(recs)
               /\ \A j \in 1 .. len[active] :
                     j <= Len(a.recs) /\ a.recs[j] = logs[active].recs[j]
  <2>1. WriteRecords(active, recs)
        BY DEF StartAppend
  <2> QED BY ONLY <1>0, <2>1, WriteEffect
<1>6. \A i \in Log : logs'[i] \in logImg'[i]
      BY <1>0, <1>5 DEF LsnInv
<1>7. \A i \in Log : Held(i) \subseteq Held(i)'
  <2> SUFFICES ASSUME NEW i \in Log PROVE logImg[i] \subseteq logImg'[i]
      BY DEF Held
  <2> QED BY <1>5
<1>8. ASSUME NEW i \in Log, NEW r \in Held(i)'
      PROVE  r \in Held(i) \/ r \in New'
  <2>1. PICK a \in logImg'[i] : r \in SeqRange(a.recs)
        BY DEF Held
  <2>2. CASE a \in logImg[i]
        BY <2>1, <2>2 DEF Held
  <2>3. CASE a \notin logImg[i]
    <3>1. r \in SeqRange(logs[i].recs) \cup SeqRange(recs)
          BY <2>1, <2>3, <1>5
    <3>2. SeqRange(logs[i].recs) \subseteq Held(i)
          BY <1>0, RecordTypes
    <3> QED BY <3>1, <3>2, <1>1
  <2> QED BY <2>2, <2>3
<1>9. \A k \in 1 .. Len(recs) : recs[k] \in SeqRange(logs'[active].recs)
  <2> SUFFICES ASSUME NEW k \in 1 .. Len(recs)
               PROVE  recs[k] \in SeqRange(logs'[active].recs)
      OBVIOUS
  <2>1. len[active] \in Nat /\ logs'[active].recs \in Seq(WalRecord)
        BY <1>0, <1>5 DEF TypeOK, LogFile
  <2>2. len[active] + k \in 1 .. Len(logs'[active].recs)
        BY <2>1, <1>5, RangeType
  <2> QED BY <2>1, <2>2, <1>5, RangeType
<1>10. \A n \in New' : n \in Live(SeqRange(logs'[active].recs))
  <2> SUFFICES ASSUME NEW n \in New' PROVE n \in Live(SeqRange(logs'[active].recs))
      OBVIOUS
  <2>1. n \in SeqRange(logs'[active].recs)
        BY <1>0, <1>1, <1>9, RangeType
  <2>2. n.lsn > disk.cp
        BY <1>0, <1>2, <1>4 DEF LsnInv, TypeOK, WalRecord
  <2> QED BY <2>1, <2>2 DEF Live
<1>11. \A r \in May : r.lsn < nextLsn
       BY <1>0, RecordTypes DEF LsnInv
<1>12. May' = May \cup New'
  <2>1. \A i \in Log : i = active => New' \subseteq Held(i)'
    <3>1. \A i \in Log : SeqRange(logs'[i].recs) \subseteq Held(i)'
          BY <1>6 DEF Held
    <3> QED BY <3>1, <1>10 DEF Live
  <2>2. \A n \in New' : n.lsn > disk.cp
        BY <1>10 DEF Live
  <2>3. active = 0 \/ active = 1
        BY <1>0 DEF Log
  <2>4. \A r : r \in Held(0)' \cup Held(1)' <=> r \in Held(0) \cup Held(1) \cup New'
    <3>1. 0 \in Log /\ 1 \in Log
          BY DEF Log
    <3>2. New' \subseteq Held(0)' \/ New' \subseteq Held(1)'
          BY <2>1, <2>3, <3>1
    <3> QED BY <3>1, <3>2, <1>7, <1>8
  <2> QED BY <2>2, <2>4, <1>0 DEF May, Live
<1>13. May' \ New' = May
  <2>1. ASSUME NEW r \in May, r \in New' PROVE FALSE
    <3>1. r.lsn \in Nat /\ r.lsn < nextLsn /\ nextLsn <= r.lsn
          BY <2>1, <1>4, <1>11 DEF WalRecord
    <3> QED BY <3>1, <1>2
  <2> QED BY <2>1, <1>12
<1>14. \A i \in Log : Firm(i)' = Firm(i)
  <2> SUFFICES ASSUME NEW i \in Log PROVE Firm(i)' = Firm(i)
      OBVIOUS
  <2>1. CASE i # active
        BY <2>1, <1>0, <1>5 DEF Firm
  <2>2. CASE i = active
    <3>1. /\ len[active] \in Nat /\ Len(logs[active].recs) \in Nat
          /\ Len(logs'[active].recs) \in Nat /\ len[active] <= Len(logs[active].recs)
          BY <1>0, <1>5, LenProperties DEF TypeOK, LsnInv, LogFile
    <3>2. {j \in 1 .. Len(logs[active].recs) : j <= len[active]} = 1 .. len[active]
          BY <3>1
    <3>3. {j \in 1 .. Len(logs'[active].recs) : j <= len[active]} = 1 .. len[active]
          BY <3>1, <1>5
    <3> QED BY <2>2, <3>2, <3>3, <1>0, <1>5 DEF Firm
  <2> QED BY <2>1, <2>2
<1>15. Must' = Must
       BY <1>0, <1>14 DEF Must, Live, Log
<1>16. ASSUME NEW i \in Log, NEW a \in logImg'[i], a \notin logImg[i]
       PROVE  Firm(i) \subseteq SeqRange(a.recs)
  <2>1. i = active
        BY <1>16, <1>5
  <2>2. \A j \in 1 .. len[active] : j <= Len(a.recs) /\ a.recs[j] = logs[active].recs[j]
        BY <1>16, <2>1, <1>5
  <2>3. Len(a.recs) \in Nat /\ len[active] \in Nat
        BY <1>0, <1>5, LenProperties DEF TypeOK, LogFile
  <2>4. \A j \in 1 .. len[active] : a.recs[j] \in SeqRange(a.recs)
        BY <2>2, <2>3 DEF SeqRange
  <2> QED BY <2>1, <2>2, <2>3, <2>4 DEF Firm
<1>17. nextLsn' \in Nat /\ nextLsn <= nextLsn'
       BY <1>2, <1>3
<1> QED BY <1>0, <1>1, <1>3, <1>4, <1>5, <1>6, <1>7, <1>8, <1>10, <1>11, <1>12,
           <1>13, <1>14, <1>15, <1>16, <1>17

\* An append is under way: records are in the file, nobody has been told.
LEMMA StartStep ==
    ASSUME DurableInv, NEW recs, Proper(recs), StartAppend(recs)
    PROVE  DurableInv'
<1> DEFINE news == SeqRange(recs)
<1>0. /\ TypeOK /\ LsnInv /\ RowInv /\ AppendInv /\ pc = "idle" /\ pc' = "appending"
      /\ UNCHANGED <<disk, mem, deletes, dirty, active, len, frozen, shown, acked,
                     unsure, lapses, crashes, errors>>
      /\ recs \in Seq(WalRecord)
      BY DEF DurableInv, StartAppend, Proper, history
<1>1. /\ New = {} /\ New' = news /\ writing' = recs
      /\ logs' \in [Log -> LogFile] /\ logImg' \in [Log -> SUBSET LogFile]
      /\ nextLsn' \in Nat /\ nextLsn <= nextLsn' /\ nextLsn' <= MaxLsn + 1
      /\ \A i \in Log : logs'[i] \in logImg'[i]
      /\ \A i \in Log : Held(i) \subseteq Held(i)'
      /\ \A i \in Log : \A r \in Held(i)' : r \in Held(i) \/ r \in news
      /\ \A n \in news : /\ n \in WalRecord /\ nextLsn <= n.lsn /\ n.lsn < nextLsn'
                         /\ n \in Live(SeqRange(logs'[active].recs))
      /\ \A r \in May : r.lsn < nextLsn
      /\ May' = May \cup news /\ Must' = Must /\ May' \ New' = May
      /\ \A i \in Log : Firm(i)' = Firm(i)
      /\ \A i \in Log : \A a \in logImg'[i] :
            a \in logImg[i] \/ Firm(i) \subseteq SeqRange(a.recs)
      /\ \A k \in 1 .. Len(recs) :
            /\ len[active] + k <= Len(logs'[active].recs)
            /\ logs'[active].recs[len[active] + k] = recs[k]
      /\ len[active] <= Len(logs'[active].recs)
      BY StartRecords
<1>2. /\ May \subseteq WalRecord /\ Must \subseteq May
      /\ \A r \in Must : \E i \in Log : r \in SeqRange(logs[i].recs)
  <2>1. \A r \in Must : r \in Firm(0) \/ r \in Firm(1)
        BY <1>0 DEF Must, Live
  <2> QED BY <1>0, <2>1, RecordTypes
<1>3. /\ \A n \in news : /\ n.put \subseteq Unused
                         /\ n.del \subseteq mem
                         /\ \A b \in n.maps : \E s \in disk.segs :
                               /\ s.id = b.id /\ b.dead \subseteq s.rows
                               /\ deletes \cap s.rows \subseteq b.dead
                         /\ n.del # {} \/ n.maps # {} => recs = <<n>>
      /\ \A n, m \in news : n.put \cap m.put # {} => n = m
      /\ \E n \in news : TRUE
  <2>1. \A n \in news : \E k \in 1 .. Len(recs) : n = recs[k]
        BY <1>0, RangeType
  <2>2. Len(recs) \in Nat /\ 1 \in 1 .. Len(recs)
        BY <1>0, RangeType DEF Proper
  <2>3. recs[1] \in news
        BY <2>2, <1>0, RangeType
  <2> HIDE DEF news
  <2>4. ASSUME NEW n \in news
        PROVE  /\ n.put \subseteq Unused
               /\ n.del \subseteq mem
               /\ \A b \in n.maps : \E s \in disk.segs :
                     /\ s.id = b.id /\ b.dead \subseteq s.rows
                     /\ deletes \cap s.rows \subseteq b.dead
               /\ n.del # {} \/ n.maps # {} => recs = <<n>>
    <3>1. PICK k \in 1 .. Len(recs) : n = recs[k]
          BY <2>1
    <3> QED BY <3>1 DEF Proper
  <2>5. ASSUME NEW n \in news, NEW m \in news, n.put \cap m.put # {}
        PROVE  n = m
    <3>1. PICK k \in 1 .. Len(recs) : n = recs[k]
          BY <2>1
    <3>2. PICK l \in 1 .. Len(recs) : m = recs[l]
          BY <2>1
    <3> QED BY <3>1, <3>2, <2>5 DEF Proper
  <2> QED BY <2>3, <2>4, <2>5
<1> HIDE DEF news
<1>4. TypeOK'
      BY <1>0, <1>1 DEF TypeOK
<1>5. LsnInv'
  <2>1. \A i \in Log : \A r \in Held(i)' : r.lsn < nextLsn' /\ r.lsn <= MaxLsn
    <3> SUFFICES ASSUME NEW i \in Log, NEW r \in Held(i)'
                 PROVE  r.lsn < nextLsn' /\ r.lsn <= MaxLsn
        OBVIOUS
    <3>1. r \in WalRecord
          BY <1>0, <1>1, RecordTypes
    <3>2. r \in Held(i) => r.lsn < nextLsn
          BY <1>0 DEF LsnInv
    <3>3. r.lsn \in Nat /\ nextLsn \in Nat /\ MaxLsn \in Nat
          BY <3>1, <1>0, DurableWritesAssumption DEF WalRecord, TypeOK
    <3> QED BY <1>1, <3>2, <3>3
  <2>2. disk.cp < nextLsn'
        BY <1>0, <1>1 DEF LsnInv, TypeOK
  <2> QED BY <1>0, <1>1, <2>1, <2>2 DEF LsnInv
<1>6. TakenRows = {} /\ TakenRows' = {} /\ TakenDirty = {} /\ TakenDirty' = {} /\ MaybePut' = MaybePut
      BY <1>0 DEF TakenRows, TakenDirty, Flushing, MaybePut
<1>7. /\ Unused \cap RowsIn(disk.segs) = {} /\ Unused \cap mem = {} /\ Unused \cap acked = {}
      /\ Unused \cap MaybePut = {}
      /\ \A x \in Unused : \A r \in Must : x \notin r.put
  <2>1. Unused \cap Issued = {}
        BY DEF Unused
  <2>2. Unused \cap MaybePut = {}
        BY <2>1 DEF Issued, MaybePut
  <2>3. ASSUME NEW x \in Unused, NEW r \in Must PROVE x \notin r.put
    <3>1. PICK i \in Log : r \in SeqRange(logs[i].recs)
          BY <1>2
    <3> QED BY <3>1 DEF Unused
  <2>4. RowsIn(disk.segs) \cup mem \cup acked \subseteq Issued
        BY DEF Issued
  <2> QED BY <2>1, <2>2, <2>3, <2>4
<1>8. RowInv'
  <2>1. \A r \in news : /\ r.put \cap RowsIn(disk.segs) = {}
                        /\ \A b \in r.maps :
                              \E s \in disk.segs : s.id = b.id /\ b.dead \subseteq s.rows
        BY <1>3, <1>7
  <2> QED BY <2>1, <1>0, <1>1, <1>6 DEF RowInv
<1>9. AppendInv'
  <2>1. news \cap Must = {}
        BY <1>1, <1>2
  <2>2. \A n \in news : \A r \in May : r.lsn < n.lsn
    <3> SUFFICES ASSUME NEW n \in news, NEW r \in May PROVE r.lsn < n.lsn
        OBVIOUS
    <3>1. n.lsn \in Nat /\ r.lsn \in Nat /\ nextLsn \in Nat
          BY <1>0, <1>1, <1>2 DEF WalRecord, TypeOK
    <3> QED BY <1>1, <3>1
  <2>3. \A n \in news : /\ \A x \in n.put : x \notin mem /\ x \notin acked /\ x \notin MaybePut
                        /\ n.del \subseteq mem
                        /\ \A b \in n.maps : \A s \in disk.segs :
                              s.id = b.id => deletes \cap s.rows \subseteq b.dead
    <3> SUFFICES ASSUME NEW n \in news
                 PROVE  \A b \in n.maps : \A s \in disk.segs :
                            s.id = b.id => deletes \cap s.rows \subseteq b.dead
        BY <1>3, <1>7
    <3> QED BY <1>3, <1>0 DEF RowInv
  <2> QED BY <2>1, <2>2, <2>3, <1>0, <1>1, <1>3, <1>6 DEF AppendInv
<1>10. ASSUME MemoryInv PROVE MemoryInv'
       BY <1>10, <1>0, <1>6 DEF MemoryInv
<1>11. ASSUME OrderInv PROVE OrderInv'
  <2>1. \A r \in May : r \in Must \/ r.put \subseteq MaybePut
        BY <1>11, <1>1 DEF OrderInv
  <2>2. \A x \in Unused : \A r \in May : x \notin r.put
        BY <2>1, <1>7
  <2>3. \A x \in Unused : \A r \in May' : x \notin r.del
        BY <2>2, <1>1, <1>2, <1>3, <1>7, <1>11 DEF OrderInv
  <2>4. \A q \in May' : \A y \in q.del : y \notin MaybePut /\ \E p \in Must : y \in p.put
    <3>1. \A y \in mem : y \notin MaybePut /\ \E p \in Must : y \in p.put
          BY <1>0, <1>11 DEF OrderInv, RowInv
    <3> QED BY <3>1, <1>1, <1>3, <1>11 DEF OrderInv
  <2>5. \A p, q \in May' : p.put \cap q.del # {} => p.lsn < q.lsn
    <3> SUFFICES ASSUME NEW p \in May', NEW q \in May', p.put \cap q.del # {}
                 PROVE  p.lsn < q.lsn
        OBVIOUS
    <3>1. p \in May
          BY <2>3, <1>1, <1>3
    <3>2. CASE q \in May
          BY <3>1, <3>2, <1>11 DEF OrderInv
    <3>3. CASE q \in news
          BY <3>1, <3>3, <1>0, <1>1, <1>2 DEF WalRecord, TypeOK
    <3> QED BY <3>2, <3>3, <1>1
  <2>6. \A p, q \in May' : p.put \cap q.put # {} => p = q
    <3> SUFFICES ASSUME NEW p \in May', NEW q \in May', p.put \cap q.put # {}
                 PROVE  p = q
        OBVIOUS
    <3>1. CASE p \in news /\ q \in news
          BY <3>1, <1>3
    <3>2. CASE p \in May /\ q \in May
          BY <3>2, <1>11 DEF OrderInv
    <3>3. CASE p \in news /\ q \in May
          BY <3>3, <1>3, <2>2
    <3>4. CASE p \in May /\ q \in news
          BY <3>4, <1>3, <2>2
    <3> QED BY <3>1, <3>2, <3>3, <3>4, <1>1
  <2>7. \A p \in May' : \A u \in unsure :
            p.put \cap u.put # {} /\ (u.del # {} \/ u.maps # {}) => p = u
    <3>1. \A p \in news : \A u \in unsure : p.put \cap u.put = {}
          BY <1>3, <1>7 DEF MaybePut
    <3> QED BY <3>1, <1>1, <1>11 DEF OrderInv
  <2> QED BY <2>4, <2>5, <2>6, <2>7, <1>0, <1>1, <1>6, <1>11 DEF OrderInv
<1>12. ASSUME ImageInv PROVE ImageInv'
  <2>1. \A S : Live(S)' = Live(S)
        BY <1>0 DEF Live
  <2>2. ASSUME NEW i \in Log, NEW a \in logImg'[i]
        PROVE  Live(Firm(i)') \subseteq SeqRange(a.recs)
        BY <1>1, <1>12, <2>2 DEF ImageInv, Live
  <2>3. ASSUME NEW i \in Log, Live(Held(i)') # {}
        PROVE  Live(SeqRange(logs'[i].recs)) # {}
    <3>1. CASE i = active
          BY <3>1, <1>1, <1>3
    <3>2. CASE i # active
      <4>1. logs'[i] = logs[i] /\ logImg'[i] = logImg[i]
            BY <3>2, <1>0 DEF StartAppend, WriteRecords, TypeOK
      <4> QED BY <4>1, <2>3, <1>12 DEF ImageInv, Held
    <3> QED BY <3>1, <3>2
  <2> QED BY <2>1, <2>2, <2>3, <1>0 DEF ImageInv
<1>13. ASSUME FaithInv PROVE FaithInv'
       BY <1>13, <1>0, <1>1 DEF FaithInv
<1> QED BY <1>0, <1>4, <1>5, <1>8, <1>9, <1>10, <1>11, <1>12, <1>13 DEF DurableInv

\* The statement under way is the latest one of whatever a crash leaves.
LEMMA NewSuits ==
    ASSUME DurableInv, MemoryInv, pc # "closed", NEW P \in SUBSET May
    PROVE  Suits(P, P \ New, P \cap New, disk, acked, deletes)
<1> DEFINE Q == P \ New
           M == P \cap New
<1>0. TypeOK /\ LsnInv /\ RowInv /\ AppendInv
      BY DEF DurableInv
<1>1. May \subseteq WalRecord
      BY <1>0, RecordTypes
<1>2. Latest(P, Q, M)
  <2>1. \A r \in P : r.lsn \in Nat
        BY <1>1 DEF WalRecord
  <2>2. \A q \in Q : \A m \in M : q.lsn < m.lsn
        BY <1>0 DEF AppendInv
  <2>3. ASSUME NEW m \in M, m.del # {} \/ m.maps # {} PROVE M = {m}
    <3>1. writing = <<m>>
          BY <2>3, <1>0 DEF AppendInv
    <3>2. New = {m}
          BY <3>1 DEF New, SeqRange
    <3> QED BY <3>2
  <2> QED BY <2>1, <2>2, <2>3 DEF Latest
<1>3. MapsFit(P, disk.segs) /\ Apart(disk.segs)
      BY <1>0 DEF RowInv, MapsFit, Apart
<1>4. \A r \in P : r.put \subseteq Rows
      BY <1>1 DEF WalRecord
<1>5. ASSUME NEW s \in disk.segs, NEW x \in s.rows
      PROVE  /\ \A r \in P : x \notin r.put
             /\ \A m \in M : x \notin m.del
             /\ \A m \in M : \A b \in m.maps : b.id = s.id /\ x \in deletes => x \in b.dead
             /\ x \in acked <=> x \notin deletes
  <2>1. x \in RowsIn(disk.segs)
        BY DEF RowsIn
  <2>2. \A r \in P : x \notin r.put
        BY <2>1, <1>0 DEF RowInv
  <2>3. \A m \in M : m.del \subseteq mem
        BY <1>0 DEF AppendInv
  <2>4. x \notin mem
        BY <1>0 DEF RowInv
  <2>5. \A m \in M : \A b \in m.maps : b.id = s.id /\ x \in deletes => x \in b.dead
        BY <1>0 DEF AppendInv
  <2>6. x \in acked <=> x \notin deletes
        BY DEF MemoryInv
  <2> QED BY <2>2, <2>3, <2>4, <2>5, <2>6
<1> HIDE DEF Q, M
<1>6. Suits(P, Q, M, disk, acked, deletes)
  <2>1. P = Q \cup M
        BY DEF Q, M
  <2> QED BY <2>1, <1>2, <1>3, <1>4, <1>5 DEF Suits
<1> QED BY <1>6 DEF Q, M

\* The records once an append is synced.
LEMMA FinishRecords ==
    ASSUME DurableInv, FinishAppend
    PROVE  /\ New' = {}
           /\ \A i \in Log : i # active => Held(i)' = Held(i) /\ Firm(i)' = Firm(i)
           /\ \A i \in Log : i = active =>
                 Held(i)' = SeqRange(logs[i].recs) /\ Firm(i)' = Firm(i) \cup New
           /\ Must' = Must \cup New
           /\ May' \subseteq May
           /\ len' \in [Log -> Nat] /\ len'[active] <= Len(logs[active].recs)
<1>0. /\ TypeOK /\ LsnInv /\ AppendInv /\ pc = "appending" /\ pc' = "idle"
      /\ writing' = <<>> /\ active \in Log
      /\ UNCHANGED <<disk, logs, active>>
      /\ logImg' = [logImg EXCEPT ![active] = {logs[active]}]
      /\ len' = [len EXCEPT ![active] = @ + Len(writing)]
      BY DEF DurableInv, FinishAppend, TypeOK
<1>1. New' = {}
      BY <1>0 DEF New, SeqRange
<1>2. /\ logImg'[active] = {logs[active]} /\ len'[active] = len[active] + Len(writing)
      /\ \A i \in Log : i # active => logImg'[i] = logImg[i] /\ len'[i] = len[i]
      BY <1>0 DEF TypeOK
<1>3. /\ len[active] \in Nat /\ Len(writing) \in Nat /\ Len(logs[active].recs) \in Nat
      /\ len[active] <= Len(logs[active].recs)
      BY <1>0, LenProperties DEF TypeOK, LogFile, LsnInv
<1>4. len'[active] <= Len(logs[active].recs) /\ len' \in [Log -> Nat]
  <2>1. CASE Len(writing) = 0
        BY <2>1, <1>0, <1>2, <1>3 DEF TypeOK
  <2>2. CASE Len(writing) # 0
    <3>1. Len(writing) \in 1 .. Len(writing)
          BY <2>2, <1>3
    <3> QED BY <3>1, <1>0, <1>2, <1>3 DEF AppendInv, TypeOK
  <2> QED BY <2>1, <2>2
<1>5. \A i \in Log : i # active => Held(i)' = Held(i) /\ Firm(i)' = Firm(i)
      BY <1>0, <1>2 DEF Held, Firm
<1>6. \A i \in Log : i = active => Held(i)' = SeqRange(logs[i].recs)
      BY <1>2 DEF Held
<1>7. \A i \in Log : i = active => Firm(i)' = Firm(i) \cup New
  <2> DEFINE recs == logs[active].recs
             n == len[active]
             w == Len(writing)
  <2>1. \A i \in Log : i = active =>
            /\ Firm(i)' = {recs[k] : k \in {j \in 1 .. Len(recs) : j <= n + w}}
            /\ Firm(i) = {recs[k] : k \in {j \in 1 .. Len(recs) : j <= n}}
        BY <1>0, <1>2 DEF Firm
  <2>2. \A k \in 1 .. w : recs[n + k] = writing[k]
        BY <1>0 DEF AppendInv
  <2>3. New = {recs[n + k] : k \in 1 .. w}
        BY <2>2 DEF New, SeqRange
  <2>4. n \in Nat /\ w \in Nat /\ Len(recs) \in Nat /\ n + w <= Len(recs)
        BY <1>2, <1>3, <1>4
  <2> HIDE DEF recs, n, w
  <2>5. \A j \in 1 .. Len(recs) :
            j <= n + w => j <= n \/ \E k \in 1 .. w : j = n + k
    <3> SUFFICES ASSUME NEW j \in 1 .. Len(recs), j <= n + w, ~(j <= n)
                 PROVE  \E k \in 1 .. w : j = n + k
        OBVIOUS
    <3>1. j - n \in 1 .. w /\ j = n + (j - n)
          BY <2>4
    <3> QED BY <3>1
  <2>6. \A k \in 1 .. w : n + k \in 1 .. Len(recs) /\ n + k <= n + w
        BY <2>4
  <2>7. \A j \in 1 .. Len(recs) : j <= n => j <= n + w
        BY <2>4
  <2>8. {recs[k] : k \in {j \in 1 .. Len(recs) : j <= n + w}} =
        {recs[k] : k \in {j \in 1 .. Len(recs) : j <= n}} \cup {recs[n + k] : k \in 1 .. w}
        BY <2>5, <2>6, <2>7
  <2> QED BY <2>1, <2>3, <2>8
<1>8. Must' = Must \cup New
  <2>1. \A n \in New : n.lsn > disk.cp
        BY <1>0 DEF AppendInv, May, Live
  <2>2. \A r : r \in Firm(0)' \cup Firm(1)' <=> r \in Firm(0) \cup Firm(1) \cup New
        BY <1>0, <1>5, <1>7 DEF Log
  <2> QED BY <2>1, <2>2, <1>0 DEF Must, Live
<1>9. May' \subseteq May
  <2>1. \A i \in Log : Held(i)' \subseteq Held(i)
        BY <1>0, <1>5, <1>6, RecordTypes
  <2> QED BY <2>1, <1>0 DEF May, Live, Log
<1> QED BY <1>1, <1>4, <1>5, <1>6, <1>7, <1>8, <1>9

\* No append is under way.
LEMMA NoAppend ==
    ASSUME writing' = <<>>
    PROVE  AppendInv'
<1>1. New' = {}
      BY DEF New, SeqRange
<1>2. Len(writing') = 0 /\ \A k \in 1 .. Len(writing') : FALSE
      OBVIOUS
<1> QED BY <1>1, <1>2 DEF AppendInv

\* What an acknowledged statement does to memory, row by row.
LEMMA FinishRows ==
    ASSUME DurableInv, FinishAppend
    PROVE  /\ mem' \subseteq Rows /\ acked' \subseteq Rows
           /\ deletes' \subseteq RowsIn(disk.segs) /\ dirty' \subseteq Nat
           /\ \A x : x \in mem' <=>
                 \/ x \in mem /\ \A n \in New : x \notin n.del
                 \/ \E n \in New : x \in n.put
           /\ \A x : x \in acked' <=>
                 \/ x \in acked /\ \A n \in New : x \notin n.del /\ \A b \in n.maps : x \notin b.dead
                 \/ \E n \in New : x \in n.put
           /\ \A x : x \in deletes' <=>
                 x \in deletes \/ \E n \in New : \E b \in n.maps : x \in b.dead
           /\ \A i : i \in dirty' <=> i \in dirty \/ \E n \in New : \E b \in n.maps : b.id = i
<1> DEFINE put == UNION {r.put : r \in New}
           gone == UNION {r.del : r \in New}
           maps == UNION {r.maps : r \in New}
           dead == UNION {b.dead : b \in maps}
<1>0. /\ TypeOK /\ LsnInv /\ RowInv /\ AppendInv
      /\ deletes' = Remapped(deletes, maps, disk.segs)
      /\ dirty' = dirty \cup {b.id : b \in maps}
      /\ mem' = (mem \ gone) \cup put
      /\ acked' = (acked \ (gone \cup dead)) \cup put
      BY DEF DurableInv, FinishAppend, New
<1>1. New \subseteq WalRecord
      BY <1>0, RecordTypes
<1>2. /\ \A x : x \in put <=> \E n \in New : x \in n.put
      /\ \A x : x \in gone <=> \E n \in New : x \in n.del
      /\ \A b : b \in maps <=> \E n \in New : b \in n.maps
      /\ \A x : x \in dead <=> \E n \in New : \E b \in n.maps : x \in b.dead
      OBVIOUS
<1>3. put \subseteq Rows /\ maps \subseteq Bitmap
      BY <1>1 DEF WalRecord
<1>4. \A b \in maps : \E s \in disk.segs :
          s.id = b.id /\ b.dead \subseteq s.rows /\ deletes \cap s.rows \subseteq b.dead
  <2> SUFFICES ASSUME NEW n \in New, NEW b \in n.maps
               PROVE  \E s \in disk.segs :
                          s.id = b.id /\ b.dead \subseteq s.rows /\ deletes \cap s.rows \subseteq b.dead
      BY <1>2
  <2>1. n \in May
        BY <1>0 DEF AppendInv
  <2>2. PICK s \in disk.segs : s.id = b.id /\ b.dead \subseteq s.rows
        BY <2>1, <1>0 DEF RowInv
  <2>3. deletes \cap s.rows \subseteq b.dead
        BY <2>2, <1>0 DEF AppendInv
  <2> QED BY <2>2, <2>3
<1> HIDE DEF put, gone, maps
<1>5. \A x : x \in deletes' <=> x \in deletes \/ x \in dead
  <2>1. ASSUME NEW x, x \in deletes, x \notin dead
        PROVE  x \notin RowsIn({s \in disk.segs : \E b \in maps : b.id = s.id})
    <3> SUFFICES ASSUME NEW s \in disk.segs, NEW b \in maps, b.id = s.id, x \in s.rows
                 PROVE  FALSE
        BY DEF RowsIn
    <3>1. PICK t \in disk.segs :
              t.id = b.id /\ b.dead \subseteq t.rows /\ deletes \cap t.rows \subseteq b.dead
          BY <1>4
    <3>2. t = s
          BY <3>1, <1>0 DEF RowInv
    <3> QED BY <3>1, <3>2, <2>1
  <2> QED BY <2>1, <1>0 DEF Remapped
<1>6. deletes' \subseteq RowsIn(disk.segs)
  <2>1. deletes \subseteq RowsIn(disk.segs)
        BY <1>0 DEF RowInv
  <2>2. dead \subseteq RowsIn(disk.segs)
        BY <1>4 DEF RowsIn
  <2> QED BY <2>1, <2>2, <1>5
<1>7. \A i : i \in dirty' <=> i \in dirty \/ \E n \in New : \E b \in n.maps : b.id = i
      BY <1>0, <1>2
<1>8. dirty' \subseteq Nat
      BY <1>0, <1>3 DEF TypeOK, Bitmap
<1>9. mem' \subseteq Rows /\ acked' \subseteq Rows
      BY <1>0, <1>3 DEF TypeOK
<1> QED BY <1>0, <1>2, <1>5, <1>6, <1>7, <1>8, <1>9

\* The sync returned: the records must be replayed from now on.
LEMMA FinishStep ==
    ASSUME DurableInv, FinishAppend
    PROVE  DurableInv'
<1>0. /\ TypeOK /\ LsnInv /\ RowInv /\ AppendInv /\ pc = "appending" /\ pc' = "idle"
      /\ UNCHANGED <<disk, logs, nextLsn, active, frozen, unsure, lapses, crashes, errors>>
      /\ writing' = <<>> /\ active \in Log
      /\ logImg' = [logImg EXCEPT ![active] = {logs[active]}]
      /\ shown' = Visible(disk.segs, deletes', mem')
      BY DEF DurableInv, FinishAppend, TypeOK
<1>1. /\ New' = {}
      /\ \A i \in Log : i # active => Held(i)' = Held(i) /\ Firm(i)' = Firm(i)
      /\ \A i \in Log : i = active =>
            Held(i)' = SeqRange(logs[i].recs) /\ Firm(i)' = Firm(i) \cup New
      /\ Must' = Must \cup New
      /\ May' \subseteq May
      /\ len' \in [Log -> Nat] /\ len'[active] <= Len(logs[active].recs)
      BY FinishRecords
<1>2. /\ mem' \subseteq Rows /\ acked' \subseteq Rows
      /\ deletes' \subseteq RowsIn(disk.segs) /\ dirty' \subseteq Nat
      /\ \A x : x \in mem' <=>
            \/ x \in mem /\ \A n \in New : x \notin n.del
            \/ \E n \in New : x \in n.put
      /\ \A x : x \in acked' <=>
            \/ x \in acked /\ \A n \in New : x \notin n.del /\ \A b \in n.maps : x \notin b.dead
            \/ \E n \in New : x \in n.put
      /\ \A x : x \in deletes' <=>
            x \in deletes \/ \E n \in New : \E b \in n.maps : x \in b.dead
      /\ \A i : i \in dirty' <=> i \in dirty \/ \E n \in New : \E b \in n.maps : b.id = i
      BY FinishRows
<1>3. /\ New \subseteq May /\ May \subseteq WalRecord /\ Must \subseteq May /\ New \cap Must = {}
      BY <1>0, RecordTypes DEF AppendInv
<1>4. /\ \A n \in New : n.put \cap RowsIn(disk.segs) = {} /\ n.del \cap RowsIn(disk.segs) = {}
      /\ \A n \in New : \A b \in n.maps : b.dead \subseteq RowsIn(disk.segs)
  <2>1. mem \cap RowsIn(disk.segs) = {}
        BY <1>0 DEF RowInv, RowsIn
  <2>2. \A n \in New : n.put \cap RowsIn(disk.segs) = {} /\ n.del \cap RowsIn(disk.segs) = {}
        BY <2>1, <1>0, <1>3 DEF RowInv, AppendInv
  <2>3. ASSUME NEW n \in New, NEW b \in n.maps PROVE b.dead \subseteq RowsIn(disk.segs)
        BY <1>0, <1>3 DEF RowInv, RowsIn
  <2> QED BY <2>2, <2>3
<1>5. TypeOK'
  <2>1. RowsIn(disk.segs) \subseteq Rows
        BY <1>0 DEF TypeOK, RowsIn, Segment
  <2>2. shown' \subseteq Rows
        BY <2>1, <1>0, <1>2 DEF Visible
  <2>3. logImg' \in [Log -> SUBSET LogFile]
        BY <1>0 DEF TypeOK
  <2>4. deletes' \subseteq Rows
        BY <2>1, <1>2
  <2>5. writing' \in Seq(WalRecord)
        BY <1>0
  <2> QED BY <2>2, <2>3, <2>4, <2>5, <1>0, <1>1, <1>2 DEF TypeOK
<1>6. LsnInv'
  <2>1. \A i \in Log : logs'[i] \in logImg'[i]
        BY <1>0 DEF LsnInv, TypeOK
  <2>2. \A i \in Log : \A r \in Held(i)' : r \in Held(i)
        BY <1>0, <1>1, RecordTypes
  <2> QED BY <2>1, <2>2, <1>0, <1>1 DEF LsnInv
<1>7. TakenRows = {} /\ TakenRows' = {} /\ TakenDirty = {} /\ TakenDirty' = {} /\ MaybePut' = MaybePut
      BY <1>0 DEF TakenRows, TakenDirty, Flushing, MaybePut
<1>8. RowInv'
  <2>1. \A s \in disk.segs : \A x \in s.rows : x \in RowsIn(disk.segs)
        BY DEF RowsIn
  <2>2. \A s \in disk.segs : \A x \in s.rows : x \notin mem'
        BY <2>1, <1>0, <1>2, <1>4 DEF RowInv
  <2>3. \A x \in MaybePut : x \notin mem' /\ x \notin acked'
        BY <1>0, <1>2 DEF RowInv, AppendInv
  <2> QED BY <2>2, <2>3, <1>0, <1>1, <1>2, <1>7 DEF RowInv
<1>9. AppendInv'
      BY <1>0, NoAppend
<1>10. ASSUME MemoryInv PROVE MemoryInv'
  <2>1. \A s \in disk.segs : \A x \in s.rows : x \in RowsIn(disk.segs)
        BY DEF RowsIn
  <2>2. \A s \in disk.segs : \A x \in s.rows : x \in acked' <=> x \notin deletes'
        BY <2>1, <1>2, <1>4, <1>10 DEF MemoryInv
  <2>3. ASSUME "aborted" \notin lapses
        PROVE  /\ \A x \in Rows : x \in acked' <=>
                      (x \in RowsIn(disk.segs) /\ x \notin deletes') \/ x \in mem'
               /\ shown' = acked'
               /\ \A s \in disk.segs : s.id \notin dirty' =>
                      disk.dead \cap s.rows = deletes' \cap s.rows
    <3>1. ASSUME NEW x \in Rows
          PROVE  x \in acked' <=> (x \in RowsIn(disk.segs) /\ x \notin deletes') \/ x \in mem'
      <4>0. x \in acked <=> (x \in RowsIn(disk.segs) /\ x \notin deletes) \/ x \in mem
            BY <1>7, <1>10, <2>3 DEF MemoryInv
      <4>1. CASE x \in RowsIn(disk.segs)
        <5>1. PICK s \in disk.segs : x \in s.rows
              BY <4>1 DEF RowsIn
        <5>2. x \notin mem'
              BY <4>1, <5>1, <1>0, <1>2, <1>4 DEF RowInv
        <5> QED BY <5>1, <5>2, <4>1, <2>2
      <4>2. CASE x \notin RowsIn(disk.segs)
            BY <4>0, <4>2, <1>2, <1>4
      <4> QED BY <4>1, <4>2
    <3>2. shown' = acked'
      <4>1. RowsIn(disk.segs) \subseteq Rows
            BY <1>0 DEF TypeOK, RowsIn, Segment
      <4> QED BY <4>1, <3>1, <1>0, <1>2 DEF Visible
    <3>3. ASSUME NEW s \in disk.segs, s.id \notin dirty'
          PROVE  disk.dead \cap s.rows = deletes' \cap s.rows
      <4>1. disk.dead \cap s.rows = deletes \cap s.rows
            BY <1>2, <1>7, <1>10, <2>3, <3>3 DEF MemoryInv
      <4>2. \A n \in New : \A b \in n.maps : b.dead \cap s.rows = {}
        <5> SUFFICES ASSUME NEW n \in New, NEW b \in n.maps, NEW x \in b.dead \cap s.rows
                     PROVE  FALSE
            OBVIOUS
        <5>1. PICK t \in disk.segs : t.id = b.id /\ b.dead \subseteq t.rows
              BY <1>0, <1>3 DEF RowInv
        <5>2. t = s
              BY <5>1, <1>0 DEF RowInv
        <5> QED BY <5>1, <5>2, <3>3, <1>2
      <4> QED BY <4>1, <4>2, <1>2
    <3> QED BY <3>1, <3>2, <3>3
  <2> QED BY <2>2, <2>3, <1>0, <1>7 DEF MemoryInv
<1>11. ASSUME OrderInv PROVE OrderInv'
  <2>1. \A r \in (May' \ New') \ Must' : r.put \subseteq MaybePut
        BY <1>1, <1>11 DEF OrderInv
  <2>2. \A y \in mem' : \E p \in Must' : y \in p.put
        BY <1>1, <1>2, <1>11 DEF OrderInv
  <2>3. \A q \in May' : \A y \in q.del : y \notin MaybePut /\ \E p \in Must' : y \in p.put
        BY <1>1, <1>11 DEF OrderInv
  <2> QED BY <2>1, <2>2, <2>3, <1>0, <1>1, <1>7, <1>11 DEF OrderInv
<1>12. ASSUME ImageInv PROVE ImageInv'
  <2>1. \A S : Live(S)' = Live(S)
        BY <1>0 DEF Live
  <2>2. ASSUME NEW i \in Log, NEW a \in logImg'[i]
        PROVE  Live(Firm(i)') \subseteq SeqRange(a.recs)
    <3>1. CASE i = active
      <4>1. a = logs'[i] /\ Firm(i)' \subseteq SeqRange(logs'[i].recs)
            BY <3>1, <2>2, <1>0 DEF TypeOK, Firm, SeqRange
      <4> QED BY <4>1 DEF Live
    <3>2. CASE i # active
          BY <3>2, <2>2, <1>0, <1>1, <1>12 DEF ImageInv, TypeOK
    <3> QED BY <3>1, <3>2
  <2>3. ASSUME NEW i \in Log, Live(Held(i)') # {}
        PROVE  Live(SeqRange(logs'[i].recs)) # {}
        BY <2>3, <1>0, <1>1, <1>12 DEF ImageInv
  <2> QED BY <2>1, <2>2, <2>3, <1>0 DEF ImageInv
<1>13. ASSUME FaithInv, MemoryInv PROVE FaithInv'
  <2> SUFFICES ASSUME NEW P \in SUBSET May', Must' \subseteq P
               PROVE  Faithful(P, disk, acked', unsure)
      BY <1>0, <1>1 DEF FaithInv
  <2> DEFINE Q == P \ New
  <2>1. Suits(P, Q, P \cap New, disk, acked, deletes)
        BY <1>0, <1>1, <1>13, NewSuits
  <2>2. P \cap New = New
        BY <1>1
  <2>3. Q \in SUBSET (May \ New) /\ Must \subseteq Q
        BY <1>1, <1>3
  <2> HIDE DEF Q
  <2>4. Faithful(Q, disk, acked, unsure)
        BY <2>3, <1>13 DEF FaithInv
  <2>5. Suits(P, Q, New, disk, acked, deletes)
        BY <2>1, <2>2
  <2> QED BY ONLY <2>4, <2>5, <1>2, FaithAcked
<1> QED BY <1>0, <1>5, <1>6, <1>8, <1>9, <1>10, <1>11, <1>12, <1>13 DEF DurableInv

\* The statement of a single record is that record.
LEMMA StatementFacts ==
    ASSUME DurableInv, NEW u \in Statement(writing)
    PROVE  /\ u \in WalRecord
           /\ \A x \in u.put : \E n \in New : x \in n.put
           /\ u.del # {} \/ u.maps # {} => u \in New
<1> DEFINE all == SeqRange(writing)
<1>0. TypeOK /\ LsnInv /\ AppendInv /\ writing \in Seq(WalRecord) /\ New = all
      BY DEF DurableInv, TypeOK, New
<1>1. PICK k \in 1 .. Len(writing) :
          u = [lsn |-> writing[1].lsn,
               put |-> UNION {r.put : r \in all},
               del |-> UNION {r.del : r \in all},
               maps |-> UNION {r.maps : r \in all}]
      BY DEF Statement
<1>2. all \subseteq WalRecord /\ Len(writing) \in Nat
      BY <1>0, RangeType
<1>3. writing[1] \in WalRecord
      BY <1>0, <1>1, <1>2, ElementOfSeq
<1>4. u \in WalRecord
  <2>1. /\ UNION {r.put : r \in all} \subseteq Rows
        /\ UNION {r.del : r \in all} \subseteq Rows
        /\ UNION {r.maps : r \in all} \subseteq Bitmap
        BY <1>2 DEF WalRecord
  <2> QED BY <1>1, <1>3, <2>1 DEF WalRecord
<1>5. \A x \in u.put : \E n \in New : x \in n.put
      BY <1>0, <1>1
<1>6. ASSUME u.del # {} \/ u.maps # {} PROVE u \in New
  <2>1. PICK n \in New : n.del # {} \/ n.maps # {}
        BY <1>0, <1>1, <1>6
  <2>2. writing = <<n>>
        BY <2>1, <1>0 DEF AppendInv
  <2>3. all = {n} /\ writing[1] = n
        BY <2>2 DEF SeqRange
  <2>4. n \in WalRecord
        BY <1>0, <1>2
  <2>5. u = n
    <3>1. u = [lsn |-> n.lsn, put |-> n.put, del |-> n.del, maps |-> n.maps]
          BY <1>1, <2>3
    <3> QED BY <3>1, <2>4 DEF WalRecord
  <2> QED BY <2>5
<1> QED BY <1>4, <1>5, <1>6

\* Every record of the append under way is accounted for by its statement.
LEMMA StatementCovers ==
    ASSUME DurableInv, NEW n \in New
    PROVE  /\ \A x \in n.put : \E u \in Statement(writing) : x \in u.put
           /\ n.del # {} \/ n.maps # {} => n \in Statement(writing)
<1> DEFINE all == SeqRange(writing)
           u == [lsn |-> writing[1].lsn,
                 put |-> UNION {r.put : r \in all},
                 del |-> UNION {r.del : r \in all},
                 maps |-> UNION {r.maps : r \in all}]
<1>0. TypeOK /\ AppendInv /\ writing \in Seq(WalRecord) /\ New = all
      BY DEF DurableInv, TypeOK, New
<1>1. \E k \in 1 .. Len(writing) : TRUE
      BY <1>0, RangeType
<1>2. u \in Statement(writing)
      BY <1>1 DEF Statement
<1>3. n.put \subseteq u.put
      BY <1>0
<1>4. ASSUME n.del # {} \/ n.maps # {} PROVE n = u
  <2>1. writing = <<n>>
        BY <1>4, <1>0 DEF AppendInv
  <2>2. all = {n} /\ writing[1] = n
        BY <2>1 DEF SeqRange
  <2>3. n \in WalRecord
        BY <1>0, RangeType
  <2>4. u = [lsn |-> n.lsn, put |-> n.put, del |-> n.del, maps |-> n.maps]
        BY <2>2
  <2> QED BY <2>3, <2>4 DEF WalRecord
<1> QED BY <1>2, <1>3, <1>4

\* Once the statement under way counts as unsettled, its records are records
\* like any other: what survives of them is replayed to what is known, and they
\* keep the order of puts and deletes.
LEMMA SettleFaith ==
    ASSUME DurableInv, MemoryInv, FaithInv, pc # "closed",
           NEW keep, Must \subseteq keep, keep \subseteq May,
           NEW u, u = unsure \cup Statement(writing)
    PROVE  Faithful(keep, disk, acked, u)
<1>0. AppendInv /\ New \subseteq May /\ New \cap Must = {}
      BY DEF DurableInv, AppendInv
<1> DEFINE Q == keep \ New
           M == keep \cap New
<1>1. Suits(keep, Q, M, disk, acked, deletes)
      BY NewSuits
<1>2. Q \in SUBSET (May \ New) /\ Must \subseteq Q /\ M \subseteq New
      BY <1>0
<1> HIDE DEF Q, M
<1>3. Faithful(Q, disk, acked, unsure)
      BY <1>2 DEF FaithInv
<1>4. unsure \subseteq u
      OBVIOUS
<1>5. \A m \in M : m.del # {} \/ m.maps # {} => m \in u
      BY <1>2, StatementCovers
<1>6. \A m \in M : \A x \in m.put : \E q \in u : x \in q.put
      BY <1>2, StatementCovers
<1> QED BY ONLY <1>1, <1>3, <1>4, <1>5, <1>6, FaithUnsure

\* Counting the statement being written among the unsure ones changes nothing
\* about which records may follow which.
LEMMA SettleOrder ==
    ASSUME DurableInv, OrderInv
    PROVE  LET u == unsure \cup Statement(writing)
           IN /\ \A q \in May : \A y \in q.del : \A r \in u : y \notin r.put
              /\ \A p \in May : \A r \in u :
                    p.put \cap r.put # {} /\ (r.del # {} \/ r.maps # {}) => p = r
              /\ \A r \in May : r \in Must \/ \A x \in r.put : \E q \in u : x \in q.put
<1> DEFINE u == unsure \cup Statement(writing)
<1>0. /\ AppendInv /\ New \subseteq May /\ New \cap Must = {} /\ TypeOK /\ LsnInv
      BY DEF DurableInv, AppendInv
<1>2. ASSUME NEW q \in May, NEW y \in q.del, NEW r \in u
      PROVE  y \notin r.put
  <2>1. y \notin MaybePut /\ \E p \in Must : y \in p.put
        BY DEF OrderInv
  <2>2. CASE r \in unsure
        BY <2>1, <2>2 DEF MaybePut
  <2>3. CASE r \in Statement(writing)
    <3> SUFFICES ASSUME y \in r.put PROVE FALSE
        OBVIOUS
    <3>1. PICK n \in New : y \in n.put
          BY <2>3, StatementFacts
    <3>2. PICK p \in Must : y \in p.put
          BY <2>1
    <3>3. p \in May
          BY <1>0, RecordTypes
    <3>4. p = n
          BY <3>1, <3>2, <3>3, <1>0 DEF OrderInv
    <3> QED BY <3>2, <3>4, <1>0
  <2> QED BY <2>2, <2>3
<1>3. ASSUME NEW p \in May, NEW r \in u,
             p.put \cap r.put # {}, r.del # {} \/ r.maps # {}
      PROVE  p = r
  <2>1. CASE r \in unsure
        BY <2>1, <1>3 DEF OrderInv
  <2>2. CASE r \in Statement(writing)
        BY <2>2, <1>0, <1>3, StatementFacts DEF OrderInv
  <2> QED BY <2>1, <2>2
<1>4. ASSUME NEW r \in May, r \notin Must, NEW x \in r.put
      PROVE  \E q \in u : x \in q.put
  <2>1. CASE r \in New
        BY <2>1, StatementCovers
  <2>2. CASE r \notin New
        BY <2>2, <1>4 DEF OrderInv, MaybePut
  <2> QED BY <2>1, <2>2
<1> QED BY <1>2, <1>3, <1>4

\* The rows an unsettled statement may have put are nowhere else.
LEMMA SettleRows ==
    ASSUME DurableInv, NEW r \in Statement(writing), NEW x \in r.put
    PROVE  /\ x \notin RowsIn(disk.segs) /\ x \notin mem /\ x \notin acked
<1>1. PICK n \in New : x \in n.put
      BY StatementFacts
<1>2. n \in May /\ AppendInv /\ RowInv
      BY DEF DurableInv, AppendInv
<1> QED BY <1>1, <1>2 DEF RowInv, AppendInv

\* append_group failed: its records may or may not survive.
LEMMA FailAppendStep ==
    ASSUME DurableInv, FailAppend
    PROVE  DurableInv'
<1>0. /\ TypeOK /\ LsnInv /\ RowInv /\ AppendInv /\ pc = "appending" /\ pc' = "idle"
      /\ UNCHANGED <<disk, logs, logImg, mem, deletes, dirty, nextLsn, active, len,
                     frozen, shown, acked, lapses, crashes>>
      /\ writing' = <<>> /\ unsure' = unsure \cup Statement(writing)
      /\ errors' \in Nat
      BY DEF DurableInv, FailAppend, TypeOK, memVars
<1>1. New' = {} /\ May' = May /\ Must' = Must
      BY <1>0 DEF New, SeqRange, May, Must, Live, Held, Firm
<1>2. /\ \A i : Held(i)' = Held(i)
      /\ \A i : Firm(i)' = Firm(i)
      /\ \A S : Live(S)' = Live(S)
      BY <1>0 DEF Held, Firm, Live
<1>3. TypeOK'
  <2>1. unsure' \subseteq WalRecord
        BY <1>0, StatementFacts DEF TypeOK
  <2>2. writing' \in Seq(WalRecord)
        BY <1>0
  <2> QED BY <2>1, <2>2, <1>0 DEF TypeOK
<1>4. LsnInv'
      BY <1>0, <1>2 DEF LsnInv
<1>5. TakenRows = {} /\ TakenRows' = {} /\ TakenDirty = {} /\ TakenDirty' = {}
      BY <1>0 DEF TakenRows, TakenDirty, Flushing
<1>6. RowInv'
  <2>1. \A x \in MaybePut' : x \in MaybePut \/ \E r \in Statement(writing) : x \in r.put
        BY <1>0 DEF MaybePut
  <2>2. \A x \in MaybePut' : x \notin RowsIn(disk.segs) /\ x \notin mem /\ x \notin acked
        BY <2>1, <1>0, SettleRows DEF RowInv
  <2> QED BY <2>2, <1>0, <1>1, <1>5 DEF RowInv
<1>7. AppendInv'
      BY <1>0, NoAppend
<1>8. ASSUME MemoryInv PROVE MemoryInv'
      BY <1>8, <1>0, <1>5 DEF MemoryInv
<1>9. ASSUME MemoryInv, OrderInv, FaithInv PROVE OrderInv' /\ FaithInv'
  <2>1. Must \subseteq May /\ pc # "closed"
        BY <1>0, RecordTypes
  <2>2. \A P \in SUBSET May : Must \subseteq P => Faithful(P, disk, acked, unsure')
        BY <2>1, <1>0, <1>9, SettleFaith
  <2>3. /\ \A q \in May : \A y \in q.del : \A r \in unsure' : y \notin r.put
        /\ \A p \in May : \A r \in unsure' :
              p.put \cap r.put # {} /\ (r.del # {} \/ r.maps # {}) => p = r
        /\ \A r \in May : r \in Must \/ \A x \in r.put : \E q \in unsure' : x \in q.put
        BY <1>0, <1>9, SettleOrder
  <2>4. FaithInv'
        BY <2>2, <1>0, <1>1 DEF FaithInv
  <2>5. OrderInv'
    <3>1. \A r \in May \ Must : r.put \subseteq MaybePut'
          BY <2>3 DEF MaybePut
    <3>2. \A q \in May : \A y \in q.del : y \notin MaybePut'
          BY <2>3 DEF MaybePut
    <3> QED BY <2>3, <3>1, <3>2, <1>0, <1>1, <1>9 DEF OrderInv
  <2> QED BY <2>4, <2>5
<1>10. ASSUME ImageInv PROVE ImageInv'
       BY <1>10, <1>0, <1>2 DEF ImageInv
<1> QED BY <1>0, <1>3, <1>4, <1>6, <1>7, <1>8, <1>9, <1>10 DEF DurableInv

\* The memtable and the dirty bitmaps move into the flush.
LEMMA FreezeStep ==
    ASSUME DurableInv, Freeze
    PROVE  DurableInv'
<1>0. /\ TypeOK /\ LsnInv /\ RowInv /\ AppendInv /\ pc = "idle"
      /\ UNCHANGED <<disk, logs, logImg, deletes, nextLsn, active, len, writing, shown,
                     acked, unsure, lapses, crashes, errors>>
      /\ frozen' = [rows |-> mem, dirty |-> dirty] /\ mem' = {} /\ dirty' = {}
      /\ pc' = IF mem = {} /\ dirty = {} THEN "idle" ELSE "frozen"
      BY DEF DurableInv, Freeze, history
<1>1. pc' \in {"idle", "frozen"} /\ (pc' = "idle" => mem = {} /\ dirty = {})
      BY <1>0
<1>2. New' = New /\ May' = May /\ Must' = Must /\ MaybePut' = MaybePut
      BY <1>0, <1>1 DEF New, May, Must, Live, Held, Firm, MaybePut
<1>3. /\ \A i : Held(i)' = Held(i)
      /\ \A i : Firm(i)' = Firm(i)
      /\ \A S : Live(S)' = Live(S)
      BY <1>0 DEF Held, Firm, Live
<1>4. TypeOK'
      BY <1>0, <1>1 DEF TypeOK
<1>5. LsnInv'
      BY <1>0, <1>1, <1>3 DEF LsnInv
<1>6. TakenRows = {} /\ TakenRows' = mem /\ TakenDirty = {} /\ TakenDirty' = dirty
      BY <1>0, <1>1 DEF TakenRows, TakenDirty, Flushing
<1>7. RowInv'
      BY <1>0, <1>2, <1>6 DEF RowInv
<1>8. AppendInv'
      BY <1>0, NoAppend DEF LsnInv
<1>9. ASSUME MemoryInv PROVE MemoryInv'
      BY <1>9, <1>0, <1>6 DEF MemoryInv
<1>10. ASSUME OrderInv PROVE OrderInv'
       BY <1>10, <1>0, <1>2 DEF OrderInv
<1>11. ASSUME ImageInv PROVE ImageInv'
       BY <1>11, <1>0, <1>1, <1>3 DEF ImageInv
<1>12. ASSUME FaithInv PROVE FaithInv'
       BY <1>12, <1>0, <1>2 DEF FaithInv
<1> QED BY <1>0, <1>1, <1>4, <1>5, <1>7, <1>8, <1>9, <1>10, <1>11, <1>12 DEF DurableInv

\* Emptying the log that appends do not go to.  I is what a crash may then leave
\* of it: the old contents too, as long as the change is not synced.
Empties(other, c, I) ==
    /\ other = 1 - active
    /\ c \in LogFile /\ c.recs = <<>>
    /\ c \in I /\ I \subseteq logImg[other] \cup {c}
    /\ logs' = [logs EXCEPT ![other] = c]
    /\ logImg' = [logImg EXCEPT ![other] = I]
    /\ len' \in [Log -> Nat] /\ len'[active] = len[active]
    /\ disk' = disk
    /\ pc # "closed" /\ pc' # "closed"

\* What is left in the logs after that.
Emptied(other, c, I) ==
    /\ active \in Log /\ other \in Log /\ other # active
    /\ \A i \in Log : i = active \/ i = other
    /\ logs' \in [Log -> LogFile] /\ logImg' \in [Log -> SUBSET LogFile]
    /\ \A i \in Log : logs'[i] \in logImg'[i]
    /\ logs'[other] = c /\ logImg'[other] = I
    /\ logs'[active] = logs[active] /\ logImg'[active] = logImg[active]
    /\ \A i \in Log : Held(i)' \subseteq Held(i)
    /\ \A i \in Log : i = active => Held(i)' = Held(i) /\ Firm(i)' = Firm(i)
    /\ \A i \in Log : i = other => Firm(i)' = {}
    /\ May' \subseteq May
    /\ Live(Held(other)) = {} =>
          /\ \A i \in Log : i = other => Live(Held(i)') = {}
          /\ May' = May /\ Must' = Must

\* What remains to be replayed when the log that is not active is emptied.
LEMMA ResetOther ==
    ASSUME TypeOK, LsnInv, NEW other, NEW c, NEW I, Empties(other, c, I)
    PROVE  Emptied(other, c, I)
<1> USE DEF Empties
<1>1. /\ active \in Log /\ other \in Log /\ other # active
      /\ \A i \in Log : i = active \/ i = other
      BY DEF TypeOK, Log
<1>2. /\ logs'[other] = c /\ logImg'[other] = I
      /\ logs'[active] = logs[active] /\ logImg'[active] = logImg[active]
      BY <1>1 DEF TypeOK
<1>3. /\ logs' \in [Log -> LogFile] /\ logImg' \in [Log -> SUBSET LogFile]
      BY <1>1 DEF TypeOK
<1>4. \A i \in Log : logs'[i] \in logImg'[i]
      BY <1>1, <1>2 DEF LsnInv
<1>5. SeqRange(c.recs) = {}
      BY DEF SeqRange
<1>6. \A i \in Log : i = active => Held(i)' = Held(i) /\ Firm(i)' = Firm(i)
      BY <1>2 DEF Held, Firm
<1>7. \A i \in Log : i = other => Held(i)' \subseteq Held(i)
  <2> SUFFICES ASSUME NEW i \in Log, i = other, NEW r \in Held(i)' PROVE r \in Held(i)
      OBVIOUS
  <2>1. PICK a \in I : r \in SeqRange(a.recs)
        BY <1>2 DEF Held
  <2> QED BY <2>1, <1>5 DEF Held
<1>8. \A i \in Log : i = other => Firm(i)' = {}
  <2> SUFFICES ASSUME NEW i \in Log, i = other PROVE Firm(i)' = {}
      OBVIOUS
  <2>1. Len(logs'[i].recs) = 0
        BY <1>2
  <2> QED BY <2>1 DEF Firm
<1>9. \A i \in Log : Held(i)' \subseteq Held(i)
      BY <1>1, <1>6, <1>7
<1>10. May' \subseteq May
       BY <1>9 DEF May, Live, Log
<1>11. ASSUME Live(Held(other)) = {}
       PROVE  /\ \A i \in Log : i = other => Live(Held(i)') = {}
              /\ May' = May /\ Must' = Must
  <2>1. \A i \in Log : i = other => Live(Held(i)') = {}
        BY <1>7, <1>11 DEF Live
  <2>2. May \subseteq May'
    <3> SUFFICES ASSUME NEW r \in May PROVE r \in May'
        OBVIOUS
    <3>1. r.lsn > disk.cp /\ \E i \in Log : r \in Held(i)
          BY DEF May, Live, Log
    <3>2. PICK i \in Log : r \in Held(i)
          BY <3>1
    <3>3. i = active
          BY <3>1, <3>2, <1>1, <1>11 DEF Live
    <3>4. r \in Held(i)'
          BY <3>2, <3>3, <1>6
    <3> QED BY <3>1, <3>4 DEF May, Live, Log
  <2>3. Live(Firm(other)) = {}
        BY <1>1, <1>11, RecordTypes DEF Live
  <2>4. Must' = Must
    <3>1. \A r : r.lsn > disk.cp =>
             (r \in Firm(0)' \cup Firm(1)' <=> r \in Firm(0) \cup Firm(1))
      <4> SUFFICES ASSUME NEW r, r.lsn > disk.cp, NEW i \in Log
                   PROVE  r \in Firm(i)' <=> r \in Firm(i)
          BY DEF Log
      <4>1. CASE i = active
            BY <4>1, <1>6
      <4>2. CASE i = other
            BY <4>2, <1>8, <2>3 DEF Live
      <4> QED BY <4>1, <4>2, <1>1
    <3> QED BY <3>1 DEF Must, Live
  <2> QED BY <2>1, <2>2, <2>4, <1>10
<1> QED BY <1>1, <1>2, <1>3, <1>4, <1>6, <1>8, <1>9, <1>10, <1>11 DEF Emptied

\* The same records, numbers and rows: the invariants about them still hold.
LEMMA SameRecords ==
    ASSUME May' = May, Must' = Must, New' = New, mem' = mem,
           disk' = disk, acked' = acked, unsure' = unsure
    PROVE  (OrderInv => OrderInv') /\ (FaithInv => FaithInv')
<1>1. MaybePut' = MaybePut
      BY DEF MaybePut
<1>2. OrderInv => OrderInv'
      BY <1>1 DEF OrderInv
<1>3. FaithInv => FaithInv'
      BY DEF FaithInv
<1> QED BY <1>2, <1>3

\* rotate cuts the other log to nothing.
LEMMA RotateTruncateStep ==
    ASSUME DurableInv, RotateTruncate
    PROVE  DurableInv'
<1> DEFINE other == 1 - active
           c == NoHeader
           I == logImg[other] \cup {NoHeader}
<1>0. /\ TypeOK /\ LsnInv /\ RowInv /\ AppendInv /\ pc = "frozen" /\ pc' = "rotating"
      /\ UNCHANGED <<disk, mem, deletes, dirty, nextLsn, active, len, writing, frozen,
                     shown, acked, unsure, crashes, errors>>
      /\ logs' = [logs EXCEPT ![other] = c]
      /\ logImg' = [logImg EXCEPT ![other] = I]
      /\ lapses' = lapses \cup
             {"exposed" : r \in Pending(logs, disk.cp) \cap SeqRange(logs[other].recs)}
      /\ len \in [Log -> Nat]
      BY DEF DurableInv, RotateTruncate, SetLog, memVars, TypeOK
<1>1. c \in LogFile /\ c.recs = <<>> /\ I \subseteq logImg[other] \cup {c} /\ c \in I
      BY DEF NoHeader, LogFile
<1> HIDE DEF other, c, I
<1>2. Emptied(other, c, I)
  <2> other = 1 - active /\ len' \in [Log -> Nat] /\ len'[active] = len[active]
      BY <1>0 DEF other
  <2>1. Empties(other, c, I)
        BY <1>0, <1>1 DEF Empties
  <2> QED BY <1>0, <2>1, ResetOther
<1>3. TypeOK'
      BY <1>0, <1>2 DEF TypeOK, Emptied
<1>4. LsnInv'
      BY <1>0, <1>2 DEF LsnInv, Emptied
<1>5. /\ TakenRows' = TakenRows /\ TakenDirty' = TakenDirty /\ MaybePut' = MaybePut
      /\ New' = New
      BY <1>0 DEF TakenRows, TakenDirty, Flushing, MaybePut, New
<1>6. RowInv'
      BY <1>0, <1>2, <1>5 DEF RowInv, Emptied
<1>7. AppendInv'
      BY <1>0, NoAppend DEF LsnInv
<1>8. ASSUME MemoryInv PROVE MemoryInv'
  <2>1. "aborted" \notin lapses' => "aborted" \notin lapses
        BY <1>0
  <2> QED BY <2>1, <1>8, <1>0, <1>5 DEF MemoryInv
<1>9. ASSUME ImageInv, "exposed" \notin lapses'
      PROVE  Live(Held(other)) = {}
  <2>1. Pending(logs, disk.cp) \cap SeqRange(logs[other].recs) = {}
        BY <1>0, <1>9
  <2>2. Live(SeqRange(logs[other].recs)) = {}
    <3> SUFFICES ASSUME NEW r \in SeqRange(logs[other].recs), r.lsn > disk.cp PROVE FALSE
        BY DEF Live
    <3>1. r \in Logged(logs)
          BY <1>2 DEF Logged, Log, Emptied
    <3> QED BY <3>1, <2>1 DEF Pending
  <2> QED BY <2>2, <1>2, <1>9 DEF ImageInv, Emptied
<1>10. ASSUME OrderInv, ImageInv, FaithInv, "exposed" \notin lapses'
       PROVE  OrderInv' /\ ImageInv' /\ FaithInv'
  <2>1. /\ \A i \in Log : i = other => Live(Held(i)') = {}
        /\ May' = May /\ Must' = Must
        BY <1>2, <1>9, <1>10 DEF Emptied
  <2>2. OrderInv' /\ FaithInv'
        BY <2>1, <1>0, <1>5, <1>10, SameRecords
  <2>3. \A S : Live(S)' = Live(S)
        BY <1>0 DEF Live
  <2>4. \A i \in Log : i = 1 - active' => Live(Held(i)') = {}
        BY <2>1, <1>0 DEF other
  <2>5. \A i \in Log : \A a \in logImg'[i] : Live(Firm(i)') \subseteq SeqRange(a.recs)
    <3> SUFFICES ASSUME NEW i \in Log, NEW a \in logImg'[i]
                 PROVE  Live(Firm(i)') \subseteq SeqRange(a.recs)
        OBVIOUS
    <3>1. CASE i = active
          BY <3>1, <1>2, <1>10 DEF ImageInv, Emptied
    <3>2. CASE i = other
          BY <3>2, <1>2 DEF Live, Emptied
    <3> QED BY <3>1, <3>2, <1>2 DEF Emptied
  <2>6. \A i \in Log : Live(Held(i)') # {} => Live(SeqRange(logs'[i].recs)) # {}
        BY <2>1, <1>2, <1>10 DEF ImageInv, Emptied
  <2>7. Live(Held(1 - active)') = {}
        BY <2>4, <1>0, <1>2 DEF other, Emptied
  <2> QED BY <2>2, <2>3, <2>5, <2>6, <2>7 DEF ImageInv
<1> QED BY <1>0, <1>3, <1>4, <1>6, <1>7, <1>8, <1>10 DEF DurableInv

\* rotate gives the other log its header and makes it the active one.
LEMMA RotateHeaderStep ==
    ASSUME DurableInv, RotateHeader
    PROVE  DurableInv'
<1> DEFINE other == 1 - active
           c == Fresh(logs[active].gen + 1)
           I == {c}
<1>0. /\ TypeOK /\ LsnInv /\ RowInv /\ AppendInv /\ pc = "rotating" /\ pc' = "rotated"
      /\ UNCHANGED <<disk, mem, deletes, dirty, nextLsn, writing, frozen,
                     shown, acked, unsure, lapses, crashes, errors>>
      /\ logs' = [logs EXCEPT ![other] = c]
      /\ logImg' = [logImg EXCEPT ![other] = I]
      /\ active' = other /\ len' = [len EXCEPT ![other] = 0]
      BY DEF DurableInv, RotateHeader, SetLogSynced, history, TypeOK
<1>1. c \in LogFile /\ c.recs = <<>> /\ I \subseteq logImg[other] \cup {c} /\ c \in I
      BY <1>0 DEF Fresh, LogFile, TypeOK
<1>11. /\ other = 1 - active /\ len' \in [Log -> Nat] /\ len'[active] = len[active]
      /\ len'[other] = 0
      BY <1>0 DEF TypeOK, Log
<1> HIDE DEF other, c, I
<1>2. Emptied(other, c, I)
  <2>1. Empties(other, c, I)
        BY <1>0, <1>1, <1>11 DEF Empties
  <2> QED BY <1>0, <2>1, ResetOther
<1>3. TypeOK'
      BY <1>0, <1>2, <1>11 DEF TypeOK, Emptied
<1>4. LsnInv'
  <2>1. len'[active'] <= Len(logs'[active'].recs)
        BY <1>0, <1>1, <1>2, <1>11 DEF Emptied
  <2> QED BY <2>1, <1>0, <1>2 DEF LsnInv, Emptied
<1>5. /\ TakenRows' = TakenRows /\ TakenDirty' = TakenDirty /\ MaybePut' = MaybePut
      /\ New' = New
      BY <1>0 DEF TakenRows, TakenDirty, Flushing, MaybePut, New
<1>6. RowInv'
      BY <1>0, <1>2, <1>5 DEF RowInv, Emptied
<1>7. AppendInv'
      BY <1>0, NoAppend DEF LsnInv
<1>8. ASSUME MemoryInv PROVE MemoryInv'
      BY <1>8, <1>0, <1>5 DEF MemoryInv
<1>10. ASSUME OrderInv, ImageInv, FaithInv
       PROVE  OrderInv' /\ ImageInv' /\ FaithInv'
  <2>0. Live(Held(other)) = {}
        BY <1>0, <1>10 DEF ImageInv, other
  <2>1. /\ \A i \in Log : i = other => Live(Held(i)') = {}
        /\ May' = May /\ Must' = Must
        BY <2>0, <1>2 DEF Emptied
  <2>2. OrderInv' /\ FaithInv'
        BY <2>1, <1>0, <1>5, <1>10, SameRecords
  <2>3. \A S : Live(S)' = Live(S)
        BY <1>0 DEF Live
  <2>5. \A i \in Log : \A a \in logImg'[i] : Live(Firm(i)') \subseteq SeqRange(a.recs)
    <3> SUFFICES ASSUME NEW i \in Log, NEW a \in logImg'[i]
                 PROVE  Live(Firm(i)') \subseteq SeqRange(a.recs)
        OBVIOUS
    <3>1. CASE i = active
          BY <3>1, <1>2, <1>10 DEF ImageInv, Emptied
    <3>2. CASE i = other
          BY <3>2, <1>2 DEF Live, Emptied
    <3> QED BY <3>1, <3>2, <1>2 DEF Emptied
  <2>6. \A i \in Log : Live(Held(i)') # {} => Live(SeqRange(logs'[i].recs)) # {}
        BY <2>1, <1>2, <1>10 DEF ImageInv, Emptied
  <2> QED BY <2>2, <2>3, <2>5, <2>6, <1>0 DEF ImageInv
<1> QED BY <1>0, <1>3, <1>4, <1>6, <1>7, <1>8, <1>10 DEF DurableInv

\* The retired log is emptied: the commit covers all its records.
LEMMA TruncateRetiredStep ==
    ASSUME DurableInv, TruncateRetired
    PROVE  DurableInv'
<1> DEFINE other == 1 - active
           c == [logs[other] EXCEPT !.recs = <<>>]
           I == {c}
<1>0. /\ TypeOK /\ LsnInv /\ RowInv /\ AppendInv /\ pc = "committed" /\ pc' = "idle"
      /\ UNCHANGED <<disk, mem, deletes, dirty, nextLsn, active, writing,
                     shown, acked, unsure, lapses, crashes, errors>>
      /\ logs' = [logs EXCEPT ![other] = c]
      /\ logImg' = [logImg EXCEPT ![other] = I]
      /\ frozen' = [rows |-> {}, dirty |-> {}] /\ len' = [len EXCEPT ![other] = 0]
      BY DEF DurableInv, TruncateRetired, SetLogSynced, history, TypeOK
<1>11. /\ other = 1 - active /\ len' \in [Log -> Nat] /\ len'[active] = len[active]
      /\ other \in Log
      BY <1>0 DEF TypeOK, Log
<1>1. c \in LogFile /\ c.recs = <<>> /\ I \subseteq logImg[other] \cup {c} /\ c \in I
  <2>1. logs[other] \in LogFile /\ <<>> \in Seq(WalRecord)
        BY <1>0, <1>11 DEF TypeOK
  <2> QED BY <2>1 DEF LogFile
<1> HIDE DEF other, c, I
<1>2. Emptied(other, c, I)
  <2>1. Empties(other, c, I)
        BY <1>0, <1>1, <1>11 DEF Empties
  <2> QED BY <1>0, <2>1, ResetOther
<1>3. TypeOK'
      BY <1>0, <1>2, <1>11 DEF TypeOK, Emptied
<1>4. LsnInv'
      BY <1>0, <1>2, <1>11 DEF LsnInv, Emptied
<1>5. /\ TakenRows' = {} /\ TakenRows = {} /\ TakenDirty' = {} /\ TakenDirty = {}
      /\ MaybePut' = MaybePut /\ New' = New
      BY <1>0 DEF TakenRows, TakenDirty, Flushing, MaybePut, New
<1>6. RowInv'
      BY <1>0, <1>2, <1>5 DEF RowInv, Emptied
<1>7. AppendInv'
      BY <1>0, NoAppend DEF LsnInv
<1>8. ASSUME MemoryInv PROVE MemoryInv'
      BY <1>8, <1>0, <1>5 DEF MemoryInv
<1>9. \A i \in Log : Live(Held(i)) = {}
  <2> SUFFICES ASSUME NEW i \in Log, NEW r \in Held(i), r.lsn > disk.cp PROVE FALSE
      BY DEF Live
  <2>1. r.lsn < nextLsn /\ disk.cp + 1 = nextLsn
        BY <1>0 DEF LsnInv
  <2>2. r.lsn \in Nat /\ disk.cp \in Nat
        BY <1>0, RecordTypes DEF WalRecord, TypeOK
  <2> QED BY <2>1, <2>2
<1>10. ASSUME OrderInv, ImageInv, FaithInv
       PROVE  OrderInv' /\ ImageInv' /\ FaithInv'
  <2>1. May' = May /\ Must' = Must
        BY <1>2, <1>9 DEF Emptied
  <2>2. OrderInv' /\ FaithInv'
        BY <2>1, <1>0, <1>5, <1>10, SameRecords
  <2>3. \A S : Live(S)' = Live(S)
        BY <1>0 DEF Live
  <2>4. \A i \in Log : Live(Held(i)') = {}
        BY <1>2, <1>9 DEF Live, Emptied
  <2>5. \A i \in Log : Live(Firm(i)') = {}
    <3>1. \A i \in Log : Live(Firm(i)) = {}
          BY <1>0, <1>9, RecordTypes DEF Live
    <3> QED BY <3>1, <1>2 DEF Live, Emptied
  <2> QED BY <2>2, <2>3, <2>4, <2>5, <1>0 DEF ImageInv
<1> QED BY <1>0, <1>3, <1>4, <1>6, <1>7, <1>8, <1>10 DEF DurableInv

\* A flush fails in any of its steps.
LEMMA FailFlushStep ==
    ASSUME DurableInv, FailFlush
    PROVE  DurableInv'
<1>0. /\ TypeOK /\ LsnInv /\ RowInv /\ AppendInv
      /\ pc \in {"frozen", "rotating", "rotated", "committed"} /\ pc' = "idle"
      /\ UNCHANGED <<disk, mem, deletes, dirty, nextLsn, active, len, writing,
                     shown, acked, unsure, crashes>>
      /\ frozen' = [rows |-> {}, dirty |-> {}] /\ errors' \in Nat
      /\ lapses' = IF pc = "committed" THEN lapses ELSE lapses \cup {"aborted"}
      /\ len \in [Log -> Nat]
      BY DEF DurableInv, FailFlush, memVars, TypeOK
<1>1. mem = {} /\ dirty = {} /\ writing = <<>> /\ lapses' \subseteq {"exposed", "aborted", "lost"}
      BY <1>0 DEF LsnInv, TypeOK
<1>2. /\ MaybePut' = MaybePut /\ New' = New /\ TakenRows' = {} /\ TakenDirty' = {}
      BY <1>0 DEF TakenRows, TakenDirty, Flushing, MaybePut, New
<1>3. ASSUME /\ logs' \in [Log -> LogFile] /\ logImg' \in [Log -> SUBSET LogFile]
             /\ \A i \in Log : logs'[i] \in logImg'[i]
             /\ \A i \in Log : Held(i)' \subseteq Held(i)
             /\ logs'[active] = logs[active] /\ May' \subseteq May
      PROVE  TypeOK' /\ LsnInv' /\ RowInv' /\ AppendInv'
  <2>1. TypeOK'
        BY <1>0, <1>1, <1>3 DEF TypeOK
  <2>2. LsnInv'
        BY <1>0, <1>1, <1>3 DEF LsnInv
  <2>3. RowInv'
        BY <1>0, <1>1, <1>2, <1>3 DEF RowInv
  <2> QED BY <2>1, <2>2, <2>3, <1>0, <1>1, NoAppend
<1>4. ASSUME MemoryInv PROVE MemoryInv'
  <2>1. CASE pc = "committed"
    <3>1. TakenRows = {} /\ TakenDirty = {}
          BY <2>1 DEF TakenRows, TakenDirty, Flushing
    <3> QED BY <3>1, <2>1, <1>0, <1>2, <1>4 DEF MemoryInv
  <2>2. CASE pc # "committed"
        BY <2>2, <1>0, <1>4 DEF MemoryInv
  <2> QED BY <2>1, <2>2
<1>5. \A S : Live(S)' = Live(S)
      BY <1>0 DEF Live
<1>6. CASE UNCHANGED <<logs, logImg>>
  <2>1. /\ \A i : Held(i)' = Held(i)
        /\ \A i : Firm(i)' = Firm(i)
        /\ May' = May /\ Must' = Must
        BY <1>0, <1>6 DEF Held, Firm, May, Must, Live
  <2>2. TypeOK' /\ LsnInv' /\ RowInv' /\ AppendInv'
        BY <2>1, <1>0, <1>3, <1>6 DEF TypeOK, LsnInv
  <2>3. ASSUME OrderInv, ImageInv, FaithInv PROVE OrderInv' /\ ImageInv' /\ FaithInv'
    <3>1. OrderInv' /\ FaithInv'
          BY <2>1, <2>3, <1>0, <1>2, SameRecords
    <3>2. ImageInv'
          BY <2>1, <2>3, <1>0, <1>5, <1>6 DEF ImageInv
    <3> QED BY <3>1, <3>2
  <2> QED BY <2>2, <2>3, <1>0, <1>4 DEF DurableInv
<1>7. CASE pc = "rotating" /\ SetLog(1 - active, Fresh(logs[active].gen + 1))
  <2> DEFINE other == 1 - active
             c == Fresh(logs[active].gen + 1)
             I == logImg[other] \cup {c}
  <2>1. Empties(other, c, I)
    <3>1. c \in LogFile /\ c.recs = <<>>
          BY <1>0 DEF Fresh, LogFile, TypeOK
    <3>2. logs' = [logs EXCEPT ![other] = c] /\ logImg' = [logImg EXCEPT ![other] = I]
          BY <1>7 DEF SetLog
    <3> HIDE DEF c
    <3> QED BY <3>1, <3>2, <1>0 DEF Empties
  <2>2. other = 1 - active /\ c.recs = <<>>
        BY DEF Fresh
  <2> HIDE DEF other, c, I
  <2>3. Emptied(other, c, I)
        BY <2>1, <1>0, ResetOther
  <2>4. TypeOK' /\ LsnInv' /\ RowInv' /\ AppendInv'
        BY <2>3, <1>3 DEF Emptied
  <2>5. ASSUME OrderInv, ImageInv, FaithInv PROVE OrderInv' /\ ImageInv' /\ FaithInv'
    <3>1. Live(Held(other)) = {}
          BY <2>2, <2>5, <1>7 DEF ImageInv
    <3>2. /\ \A i \in Log : i = other => Live(Held(i)') = {}
          /\ May' = May /\ Must' = Must
          BY <3>1, <2>3 DEF Emptied
    <3>3. OrderInv' /\ FaithInv'
          BY <3>2, <2>5, <1>0, <1>2, SameRecords
    <3>4. \A i \in Log : \A a \in logImg'[i] : Live(Firm(i)') \subseteq SeqRange(a.recs)
      <4> SUFFICES ASSUME NEW i \in Log, NEW a \in logImg'[i]
                   PROVE  Live(Firm(i)') \subseteq SeqRange(a.recs)
          OBVIOUS
      <4>1. CASE i = active
            BY <4>1, <2>3, <2>5 DEF ImageInv, Emptied
      <4>2. CASE i = other
            BY <4>2, <2>3 DEF Live, Emptied
      <4> QED BY <4>1, <4>2, <2>3 DEF Emptied
    <3>5. \A i \in Log : Live(Held(i)') # {} => Live(SeqRange(logs'[i].recs)) # {}
          BY <3>2, <2>3, <2>5 DEF ImageInv, Emptied
    <3> QED BY <3>3, <3>4, <3>5, <1>0, <1>5 DEF ImageInv
  <2> QED BY <2>4, <2>5, <1>0, <1>4 DEF DurableInv
<1> QED BY <1>6, <1>7 DEF FailFlush

\* What a commit makes of the table, row by row.
LEMMA CommitRows ==
    ASSUME DurableInv, CommitTable
    PROVE  /\ disk' \in [segs : SUBSET Segment, dead : SUBSET Rows, cp : Nat, nextId : Nat]
           /\ disk'.cp = nextLsn - 1 /\ disk'.cp + 1 = nextLsn
           /\ disk.segs \subseteq disk'.segs
           /\ \A s \in disk'.segs : s \in disk.segs \/ (s.id = disk.nextId /\ s.rows = TakenRows)
           /\ \A x : x \in RowsIn(disk'.segs) <=> x \in RowsIn(disk.segs) \/ x \in TakenRows
           /\ \A s \in disk'.segs : s.id < disk'.nextId
           /\ \A s \in disk.segs : \A x \in s.rows : x \in disk'.dead <=>
                 IF s.id \in TakenDirty THEN x \in deletes ELSE x \in disk.dead
           /\ \A x \in disk'.dead : x \in RowsIn(disk.segs)
<1> DEFINE touched == RowsIn({s \in disk.segs : s.id \in frozen.dirty})
           new == IF frozen.rows = {} THEN {}
                  ELSE {[id |-> disk.nextId, rows |-> frozen.rows]}
           segs == disk.segs \cup new
           dead == (disk.dead \ touched) \cup (deletes \cap touched)
           next == disk.nextId + Cardinality(new)
<1>0. /\ TypeOK /\ LsnInv /\ RowInv /\ pc = "rotated"
      /\ disk' = [segs |-> segs, dead |-> dead, cp |-> nextLsn - 1, nextId |-> next]
      BY DEF DurableInv, CommitTable, CommitThrough
<1>1. TakenRows = frozen.rows /\ TakenDirty = frozen.dirty
      BY <1>0 DEF TakenRows, TakenDirty, Flushing
<1>2. nextLsn - 1 \in Nat /\ nextLsn - 1 + 1 = nextLsn
      BY <1>0 DEF LsnInv, TypeOK
<1>3. next \in Nat /\ disk.nextId <= next /\ (new # {} => disk.nextId < next)
  <2>1. CASE frozen.rows = {}
    <3>1. new = {} /\ Cardinality(new) = 0
          BY <2>1, FS_EmptySet
    <3> QED BY <3>1, <1>0 DEF TypeOK
  <2>2. CASE frozen.rows # {}
    <3>1. Cardinality(new) = 1
          BY <2>2, FS_Singleton
    <3> QED BY <3>1, <1>0 DEF TypeOK
  <2> QED BY <2>1, <2>2
<1>4. /\ \A s \in new : s \in Segment /\ s.id = disk.nextId /\ s.rows = frozen.rows
      /\ \A x : x \in frozen.rows <=> \E s \in new : x \in s.rows
  <2> DEFINE seg == [id |-> disk.nextId, rows |-> frozen.rows]
  <2>1. seg \in Segment /\ seg.id = disk.nextId /\ seg.rows = frozen.rows
        BY <1>0 DEF TypeOK, Segment
  <2> HIDE DEF seg
  <2>2. new = IF frozen.rows = {} THEN {} ELSE {seg}
        BY DEF seg
  <2> HIDE DEF new
  <2> QED BY <2>1, <2>2
<1>5. \A s \in disk.segs : \A x \in s.rows : x \in touched <=> s.id \in frozen.dirty
  <2> SUFFICES ASSUME NEW s \in disk.segs, NEW x \in s.rows
               PROVE  x \in touched <=> s.id \in frozen.dirty
      OBVIOUS
  <2>1. \A t \in disk.segs : x \in t.rows => t = s
        BY <1>0 DEF RowInv
  <2> QED BY <2>1 DEF RowsIn
<1>6. disk.dead \subseteq RowsIn(disk.segs) /\ deletes \subseteq RowsIn(disk.segs)
      BY <1>0 DEF RowInv
<1> HIDE DEF touched, new, next
<1>7. /\ disk'.segs = segs /\ disk'.dead = dead /\ disk'.cp = nextLsn - 1 /\ disk'.nextId = next
      BY <1>0
<1>8. dead \subseteq Rows /\ segs \subseteq Segment
      BY <1>0, <1>4 DEF TypeOK
<1>9. disk' \in [segs : SUBSET Segment, dead : SUBSET Rows, cp : Nat, nextId : Nat]
      BY <1>0, <1>2, <1>3, <1>8
<1>10. \A x : x \in RowsIn(segs) <=> x \in RowsIn(disk.segs) \/ x \in frozen.rows
       BY <1>4 DEF RowsIn
<1>11. \A s \in segs : s.id < next
  <2>1. \A s \in disk.segs : s.id < disk.nextId /\ s.id \in Nat /\ disk.nextId \in Nat
        BY <1>0 DEF RowInv, TypeOK, Segment
  <2> QED BY <2>1, <1>3, <1>4
<1>12. \A s \in disk.segs : \A x \in s.rows : x \in dead <=>
           IF s.id \in frozen.dirty THEN x \in deletes ELSE x \in disk.dead
       BY <1>5
<1>13. \A x \in dead : x \in RowsIn(disk.segs)
       BY <1>6
<1>14. /\ disk.segs \subseteq segs
       /\ \A s \in segs : s \in disk.segs \/ (s.id = disk.nextId /\ s.rows = frozen.rows)
       BY <1>4
<1> HIDE DEF segs, dead
<1> QED BY <1>1, <1>2, <1>7, <1>9, <1>10, <1>11, <1>12, <1>13, <1>14

\* The flush commits: what it froze moves from the logs to the table file.
LEMMA CommitStep ==
    ASSUME DurableInv, CommitTable
    PROVE  DurableInv'
<1>0. /\ TypeOK /\ LsnInv /\ RowInv /\ AppendInv /\ pc = "rotated" /\ pc' = "committed"
      /\ UNCHANGED <<logs, logImg, mem, deletes, dirty, nextLsn, active, len, writing,
                     frozen, acked, unsure, crashes, errors>>
      /\ shown' = Visible(disk'.segs, deletes, mem)
      /\ lapses' = IF "aborted" \in lapses THEN {"lost"} ELSE lapses \ {"exposed"}
      BY DEF DurableInv, CommitTable, CommitThrough, memVars
<1>1. /\ disk' \in [segs : SUBSET Segment, dead : SUBSET Rows, cp : Nat, nextId : Nat]
      /\ disk'.cp = nextLsn - 1 /\ disk'.cp + 1 = nextLsn
      /\ disk.segs \subseteq disk'.segs
      /\ \A s \in disk'.segs : s \in disk.segs \/ (s.id = disk.nextId /\ s.rows = TakenRows)
      /\ \A x : x \in RowsIn(disk'.segs) <=> x \in RowsIn(disk.segs) \/ x \in TakenRows
      /\ \A s \in disk'.segs : s.id < disk'.nextId
      /\ \A s \in disk.segs : \A x \in s.rows : x \in disk'.dead <=>
            IF s.id \in TakenDirty THEN x \in deletes ELSE x \in disk.dead
      /\ \A x \in disk'.dead : x \in RowsIn(disk.segs)
      BY CommitRows
<1>2. mem = {} /\ dirty = {} /\ writing = <<>> /\ lapses' \subseteq {"exposed", "aborted", "lost"}
      BY <1>0 DEF LsnInv, TypeOK
<1>3. \A i : Held(i)' = Held(i)
      BY <1>0 DEF Held
<1>4. \A i \in Log : Live(Held(i))' = {}
  <2> SUFFICES ASSUME NEW i \in Log, NEW r \in Held(i), r.lsn > disk'.cp PROVE FALSE
      BY <1>3 DEF Live
  <2>1. r.lsn < nextLsn
        BY <1>0 DEF LsnInv
  <2>2. r.lsn \in Nat /\ disk'.cp \in Nat
        BY <1>0, <1>1, RecordTypes DEF WalRecord
  <2> QED BY <2>1, <2>2, <1>1
<1>5. TypeOK'
  <2>1. RowsIn(disk'.segs) \subseteq Rows
        BY <1>1 DEF RowsIn, Segment
  <2>2. shown' \subseteq Rows
        BY <2>1, <1>0 DEF Visible, TypeOK
  <2> QED BY <2>2, <1>0, <1>1, <1>2 DEF TypeOK
<1>6. LsnInv'
  <2>1. disk'.cp <= MaxLsn /\ disk'.cp < nextLsn
        BY <1>0, <1>1, DurableWritesAssumption DEF LsnInv, TypeOK
  <2> QED BY <2>1, <1>0, <1>1, <1>2, <1>3 DEF LsnInv
<1>7. May' = {} /\ Must' = {}
  <2>1. May' = {}
        BY <1>4 DEF May, Live, Log
  <2>2. \A i \in Log : Firm(i)' \subseteq Held(i)'
    <3>1. \A i \in Log : Firm(i)' = Firm(i)
          BY <1>0 DEF Firm
    <3> QED BY <3>1, <1>0, <1>3, RecordTypes
  <2>3. Must' = {}
        BY <2>2, <1>0, <1>4 DEF Must, Live, Log
  <2> QED BY <2>1, <2>3
<1>8. MaybePut' = MaybePut /\ New' = New /\ TakenRows' = {} /\ TakenDirty' = {}
      BY <1>0 DEF TakenRows, TakenDirty, Flushing, MaybePut, New
<1>9. \A s \in disk.segs : s.id # disk.nextId
      BY <1>0 DEF RowInv, TypeOK, Segment
<1>10. \A s \in disk.segs : \A x \in s.rows : x \in RowsIn(disk.segs) /\ x \notin TakenRows
       BY <1>0 DEF RowInv, RowsIn
<1>11. RowInv'
  <2>1. \A s, t \in disk'.segs : s.id = t.id \/ s.rows \cap t.rows # {} => s = t
    <3> SUFFICES ASSUME NEW s \in disk'.segs, NEW t \in disk'.segs,
                        s.id = t.id \/ s.rows \cap t.rows # {}
                 PROVE  s = t
        OBVIOUS
    <3>1. CASE s \in disk.segs /\ t \in disk.segs
          BY <3>1, <1>0 DEF RowInv
    <3>2. CASE s \notin disk.segs /\ t \notin disk.segs
          BY <3>2, <1>1 DEF Segment
    <3>3. CASE s \in disk.segs /\ t \notin disk.segs
          BY <3>3, <1>1, <1>9, <1>10
    <3>4. CASE s \notin disk.segs /\ t \in disk.segs
          BY <3>4, <1>1, <1>9, <1>10
    <3> QED BY <3>1, <3>2, <3>3, <3>4
  <2>2. deletes \subseteq RowsIn(disk'.segs) /\ disk'.dead \subseteq RowsIn(disk'.segs)
        BY <1>0, <1>1 DEF RowInv
  <2>3. \A x \in MaybePut : x \notin RowsIn(disk'.segs) /\ x \notin acked
        BY <1>0, <1>1 DEF RowInv
  <2> QED BY <2>1, <2>2, <2>3, <1>0, <1>1, <1>2, <1>7, <1>8 DEF RowInv
<1>12. AppendInv'
       BY <1>0, <1>2, NoAppend
<1>13. ASSUME MemoryInv, "lost" \notin lapses'
       PROVE  MemoryInv' /\ Faithful({}, disk', acked, unsure)
  <2>1. "aborted" \notin lapses
        BY <1>0, <1>13
  <2>2. /\ \A x \in Rows : x \in acked <=>
              \/ x \in RowsIn(disk.segs) /\ x \notin deletes
              \/ x \in TakenRows
        /\ \A s \in disk.segs : \A x \in s.rows : x \in acked <=> x \notin deletes
        /\ \A s \in disk.segs : s.id \notin TakenDirty =>
              disk.dead \cap s.rows = deletes \cap s.rows
        BY <2>1, <1>2, <1>13 DEF MemoryInv
  <2>3. TakenRows \subseteq Rows /\ acked \subseteq Rows
        BY <1>0 DEF TakenRows, TypeOK
  <2>4. \A x \in TakenRows : x \in acked /\ x \notin deletes /\ x \notin disk'.dead
    <3>1. \A x \in TakenRows : x \notin RowsIn(disk.segs)
          BY <1>10 DEF RowsIn
    <3> QED BY <3>1, <2>2, <2>3, <1>0, <1>1 DEF RowInv
  <2>5. \A s \in disk.segs : \A x \in s.rows : x \in disk'.dead <=> x \in deletes
        BY <2>2, <1>1
  <2>6. \A s \in disk'.segs : \A x \in s.rows :
            (x \in acked <=> x \notin deletes) /\ (x \in disk'.dead <=> x \in deletes)
        BY <2>2, <2>4, <2>5, <1>1
  <2>7. \A x \in Rows : x \in acked <=> x \in RowsIn(disk'.segs) /\ x \notin deletes
        BY <2>2, <2>4, <1>1
  <2>8. shown' = acked
    <3>1. RowsIn(disk'.segs) \subseteq Rows
          BY <1>1 DEF RowsIn, Segment
    <3> QED BY <3>1, <2>3, <2>7, <1>0, <1>2 DEF Visible
  <2>9. MemoryInv'
    <3>1. \A s \in disk'.segs : disk'.dead \cap s.rows = deletes \cap s.rows
          BY <2>6
    <3> QED BY <3>1, <2>6, <2>7, <2>8, <1>0, <1>2, <1>8 DEF MemoryInv
  <2>10. MemOf({}) = {} /\ DeadOf({}, disk') = disk'.dead
    <3>1. TopMaps({}, disk'.segs) = {}
          BY DEF TopMaps
    <3> QED BY <3>1 DEF MemOf, DeadOf, Remapped, RowsIn
  <2>11. Faithful({}, disk', acked, unsure)
    <3>1. \A x \in acked : x \in RowsIn(disk'.segs)
          BY <2>3, <2>7
    <3> QED BY <3>1, <2>6, <2>10 DEF Faithful
  <2> QED BY <2>9, <2>11
<1>14. OrderInv'
       BY <1>0, <1>2, <1>7 DEF OrderInv
<1>15. ImageInv'
  <2>1. \A i \in Log : Firm(i)' \subseteq Held(i)'
    <3>1. \A i \in Log : Firm(i)' = Firm(i)
          BY <1>0 DEF Firm
    <3> QED BY <3>1, <1>0, <1>3, RecordTypes
  <2>2. \A i \in Log : Live(Firm(i))' = {}
        BY <2>1, <1>4 DEF Live
  <2> QED BY <2>2, <1>0, <1>4 DEF ImageInv
<1>16. Faithful({}, disk', acked, unsure) => FaithInv'
       BY <1>0, <1>7 DEF FaithInv
<1>17. "lost" \notin lapses' => "lost" \notin lapses
       BY <1>0
<1> QED BY <1>0, <1>5, <1>6, <1>11, <1>12, <1>13, <1>14, <1>15, <1>16, <1>17 DEF DurableInv

\* A crash keeps a prefix of each log that has everything synced.
LEMMA CrashStep ==
    ASSUME DurableInv, Crash
    PROVE  DurableInv'
<1>0. /\ TypeOK /\ LsnInv /\ RowInv /\ AppendInv /\ pc # "closed" /\ pc' = "closed"
      /\ UNCHANGED <<disk, acked, errors>> /\ crashes' \in Nat
      /\ unsure' = unsure \cup Statement(writing)
      /\ mem' = {} /\ deletes' = {} /\ dirty' = {} /\ nextLsn' = 0 /\ active' = 0
      /\ len' = [i \in Log |-> 0] /\ writing' = <<>>
      /\ frozen' = [rows |-> {}, dirty |-> {}] /\ shown' = {}
      /\ lapses' = IF "exposed" \in lapses THEN {"lost"} ELSE lapses \ {"aborted"}
      BY DEF DurableInv, Crash, TypeOK
<1>1. PICK f : /\ f \in [Log -> LogFile] /\ \A i \in Log : f[i] \in logImg[i]
               /\ logs' = f /\ logImg' = [i \in Log |-> {f[i]}]
  <2>1. PICK a \in logImg[0], b \in logImg[1] :
            /\ logs' = [i \in Log |-> IF i = 0 THEN a ELSE b]
            /\ logImg' = [i \in Log |-> IF i = 0 THEN {a} ELSE {b}]
        BY DEF Crash
  <2> DEFINE f == [i \in Log |-> IF i = 0 THEN a ELSE b]
  <2>2. f \in [Log -> LogFile] /\ \A i \in Log : f[i] \in logImg[i]
        BY <1>0 DEF TypeOK, Log
  <2>3. logImg' = [i \in Log |-> {f[i]}]
        BY <2>1
  <2> QED BY <2>1, <2>2, <2>3
<1>2. /\ \A i \in Log : logs'[i] = f[i] /\ logImg'[i] = {f[i]} /\ len'[i] = 0
      /\ \A i \in Log : Held(i)' = SeqRange(f[i].recs)
      /\ \A i \in Log : Held(i)' \subseteq Held(i)
      /\ \A i \in Log : Firm(i)' = {}
  <2>1. \A i \in Log : logs'[i] = f[i] /\ logImg'[i] = {f[i]} /\ len'[i] = 0
        BY <1>0, <1>1
  <2>2. \A i \in Log : Held(i)' = SeqRange(f[i].recs)
        BY <2>1 DEF Held
  <2>3. \A i \in Log : Held(i)' \subseteq Held(i)
        BY <2>2, <1>1 DEF Held
  <2>4. ASSUME NEW i \in Log PROVE Firm(i)' = {}
    <3>1. \A j \in 1 .. Len(logs'[i].recs) : ~(j <= len'[i])
          BY <2>1
    <3> QED BY <3>1 DEF Firm
  <2> QED BY <2>1, <2>2, <2>3, <2>4
<1>3. New' = {} /\ May' \subseteq May /\ Must' = May'
  <2>1. New' = {}
        BY <1>0 DEF New, SeqRange
  <2>2. May' \subseteq May
        BY <1>0, <1>2 DEF May, Live, Log
  <2> QED BY <2>1, <2>2, <1>0 DEF Must
<1>4. lapses' \subseteq {"lost"}
      BY <1>0 DEF TypeOK
<1>5. TypeOK'
  <2>1. unsure' \subseteq WalRecord
        BY <1>0, StatementFacts DEF TypeOK
  <2>2. writing' \in Seq(WalRecord) /\ 0 \in Log
        BY <1>0 DEF Log
  <2>3. logImg' \in [Log -> SUBSET LogFile] /\ logs' \in [Log -> LogFile]
        BY <1>1
  <2> QED BY <2>1, <2>2, <2>3, <1>0, <1>4 DEF TypeOK
<1>6. LsnInv'
      BY <1>0, <1>2, <1>4 DEF LsnInv
<1>7. TakenRows' = {} /\ TakenDirty' = {}
      BY <1>0 DEF TakenRows, TakenDirty, Flushing
<1>8. RowInv'
  <2>1. \A x \in MaybePut' : x \in MaybePut \/ \E r \in Statement(writing) : x \in r.put
        BY <1>0 DEF MaybePut
  <2>2. \A x \in MaybePut' : x \notin RowsIn(disk.segs) /\ x \notin acked
        BY <2>1, <1>0, SettleRows DEF RowInv
  <2> QED BY <2>2, <1>0, <1>3, <1>7 DEF RowInv
<1>9. AppendInv'
      BY <1>0, NoAppend
<1>10. ASSUME MemoryInv, OrderInv, ImageInv, FaithInv
       PROVE  OrderInv' /\ ImageInv' /\ FaithInv'
  <2>1. Must \subseteq May'
    <3> SUFFICES ASSUME NEW r \in Must PROVE r \in May'
        OBVIOUS
    <3>1. r.lsn > disk.cp /\ \E i \in Log : r \in Firm(i)
          BY <1>0 DEF Must, Live, Log
    <3>2. PICK i \in Log : r \in Firm(i)
          BY <3>1
    <3>3. r \in SeqRange(f[i].recs)
          BY <3>1, <3>2, <1>1, <1>10 DEF ImageInv, Live
    <3> QED BY <3>1, <3>3, <1>0, <1>2 DEF May, Live, Log
  <2>2. Faithful(May', disk, acked, unsure')
        BY <2>1, <1>0, <1>3, <1>10, SettleFaith
  <2>3. FaithInv'
    <3>1. \A P \in SUBSET (May' \ New') : Must' \subseteq P => P = May'
          BY <1>3
    <3> QED BY <3>1, <2>2, <1>0 DEF FaithInv
  <2>4. /\ \A q \in May : \A y \in q.del : \A r \in unsure' : y \notin r.put
        /\ \A p \in May : \A r \in unsure' :
              p.put \cap r.put # {} /\ (r.del # {} \/ r.maps # {}) => p = r
        BY <1>0, <1>10, SettleOrder
  <2>5. OrderInv'
    <3>1. \A q \in May' : \A y \in q.del :
              y \notin MaybePut' /\ \E p \in Must' : y \in p.put
          BY <2>1, <2>4, <1>3, <1>10 DEF MaybePut, OrderInv
    <3> QED BY <2>4, <3>1, <1>0, <1>3, <1>10 DEF OrderInv
  <2>6. ImageInv'
    <3>1. \A i \in Log : Held(i)' = SeqRange(logs'[i].recs)
          BY <1>2
    <3>2. \A S : Live(S)' = Live(S)
          BY <1>0 DEF Live
    <3>3. Live({}) = {}
          BY DEF Live
    <3> QED BY <3>1, <3>2, <3>3, <1>0, <1>2 DEF ImageInv
  <2> QED BY <2>3, <2>5, <2>6
<1>11. "lost" \notin lapses' => "lost" \notin lapses /\ "exposed" \notin lapses
       BY <1>0
<1> QED BY <1>0, <1>5, <1>6, <1>8, <1>9, <1>10, <1>11 DEF DurableInv

\* What a closed table's logs hold is what a reopen replays.
LEMMA ReplayIs ==
    ASSUME DurableInv, pc = "closed"
    PROVE  /\ May = Pending(logs, disk.cp) /\ Must = May /\ New = {}
           /\ \A i \in Log : Held(i) = SeqRange(logs[i].recs)
           /\ ReplayedMem(logs, disk.cp) = MemOf(May)
           /\ ReplayedDeletes(logs, disk) = DeadOf(May, disk)
           /\ \A x : x \in Recovered(logs, disk) <=>
                 \/ x \in RowsIn(disk.segs) /\ x \notin DeadOf(May, disk)
                 \/ x \in MemOf(May)
<1>0. LsnInv /\ \A i \in Log : logImg[i] = {logs[i]}
      BY DEF DurableInv, LsnInv
<1>1. \A i \in Log : Held(i) = SeqRange(logs[i].recs)
      BY <1>0 DEF Held
<1>2. May = Pending(logs, disk.cp)
      BY <1>1 DEF May, Live, Pending, Logged, Log
<1>3. New = {} /\ Must = May
      BY <1>0 DEF LsnInv, New, SeqRange, Must
<1>4. ReplayedMem(logs, disk.cp) = MemOf(May)
      BY <1>2 DEF ReplayedMem, MemOf
<1>5. LastMaps(logs, disk.cp, disk.segs) = TopMaps(May, disk.segs)
      BY <1>2 DEF LastMaps, LoggedMaps, TopMaps
<1>6. ReplayedDeletes(logs, disk) = DeadOf(May, disk)
      BY <1>5 DEF ReplayedDeletes, DeadOf
<1> QED BY <1>1, <1>2, <1>3, <1>4, <1>6 DEF Recovered, Visible

\* Where replayed rows and deletes lie.
LEMMA ReplayApart ==
    ASSUME DurableInv
    PROVE  /\ MemOf(May) \subseteq Rows
           /\ \A s \in disk.segs : \A x \in s.rows : x \notin MemOf(May)
           /\ DeadOf(May, disk) \subseteq RowsIn(disk.segs)
           /\ RowsIn(disk.segs) \subseteq Rows
           /\ MapsFit(May, disk.segs) /\ Apart(disk.segs)
<1>0. TypeOK /\ RowInv
      BY DEF DurableInv
<1>1. MemOf(May) \subseteq Rows
      BY DEF MemOf
<1>2. \A s \in disk.segs : \A x \in s.rows : x \notin MemOf(May)
      BY <1>0 DEF RowInv, MemOf, RowsIn
<1>3. MapsFit(May, disk.segs) /\ Apart(disk.segs)
      BY <1>0 DEF RowInv, MapsFit, Apart
<1>4. DeadOf(May, disk) \subseteq RowsIn(disk.segs)
  <2>1. \A b \in TopMaps(May, disk.segs) : b.dead \subseteq RowsIn(disk.segs)
        BY <1>3 DEF MapsFit, TopMaps, RowsIn
  <2>2. disk.dead \subseteq RowsIn(disk.segs)
        BY <1>0 DEF RowInv
  <2> QED BY <2>1, <2>2 DEF DeadOf, Remapped
<1>5. RowsIn(disk.segs) \subseteq Rows
      BY <1>0 DEF TypeOK, RowsIn, Segment
<1> QED BY <1>1, <1>2, <1>3, <1>4, <1>5

\* A segment no replayed record has a bitmap for is as the file marks it.
LEMMA CleanSegment ==
    ASSUME DurableInv, NEW s \in disk.segs,
           \A r \in May : \A b \in r.maps : b.id # s.id
    PROVE  disk.dead \cap s.rows = DeadOf(May, disk) \cap s.rows
<1>1. \A b \in TopMaps(May, disk.segs) : b.id # s.id
      BY DEF TopMaps
<1>2. \A x \in s.rows : \A b \in TopMaps(May, disk.segs) : x \notin b.dead
      BY <1>1, ReplayApart DEF MapsFit, Apart, TopMaps
<1>3. \A x \in s.rows : x \in DeadOf(May, disk) <=> x \in disk.dead
  <2> SUFFICES ASSUME NEW x \in s.rows
               PROVE  x \in DeadOf(May, disk) <=> x \in disk.dead
      OBVIOUS
  <2>1. x \in DeadOf(May, disk) <=>
             \/ \E b \in TopMaps(May, disk.segs) : x \in b.dead
             \/ x \in disk.dead /\ \A b \in TopMaps(May, disk.segs) : b.id # s.id
        BY ReplayApart, DeadAt
  <2> QED BY <2>1, <1>1, <1>2
<1> QED BY <1>3

\* LSNs go on after the last record and the checkpoint.
LEMMA ReplayLsn ==
    ASSUME DurableInv, pc = "closed"
    PROVE  LET n == ReplayedLsn(logs, disk.cp)
           IN /\ n \in Nat /\ disk.cp < n /\ n <= MaxLsn + 1
              /\ \A i \in Log : \A r \in Held(i) : r.lsn < n
<1> DEFINE S == {disk.cp} \cup {r.lsn : r \in Pending(logs, disk.cp)}
<1>0. TypeOK /\ LsnInv /\ May = Pending(logs, disk.cp) /\ MaxLsn \in Nat
      BY ReplayIs, DurableWritesAssumption DEF DurableInv
<1>1. \A r \in May : r.lsn \in Nat /\ r.lsn <= MaxLsn
      BY <1>0, RecordTypes DEF LsnInv, WalRecord
<1>2. S \subseteq 0 .. MaxLsn /\ disk.cp \in S
      BY <1>0, <1>1 DEF TypeOK, LsnInv
<1>3. \A r \in May : r.lsn \in S
      BY <1>0
<1> HIDE DEF S
<1>4. SetMax(S) \in S /\ \A y \in S : SetMax(S) >= y
      BY <1>0, <1>2, LargestExists
<1> DEFINE m == SetMax(S)
<1>5. ReplayedLsn(logs, disk.cp) = m + 1
      BY DEF ReplayedLsn, S
<1> HIDE DEF m
<1>6. m \in 0 .. MaxLsn /\ \A y \in S : y \in Nat /\ m >= y
  <2>1. m \in S /\ \A y \in S : m >= y
        BY <1>4 DEF m
  <2> QED BY <2>1, <1>0, <1>2
<1>7. ASSUME NEW i \in Log, NEW r \in Held(i) PROVE r.lsn < m + 1
  <2>1. r.lsn \in Nat /\ disk.cp \in Nat
        BY <1>0, RecordTypes DEF WalRecord, TypeOK
  <2>2. r.lsn <= disk.cp \/ r \in May
        BY <2>1, <1>0, RecordTypes DEF Live
  <2>3. m >= disk.cp
        BY <1>2, <1>6
  <2>4. CASE r \in May
        BY <2>1, <2>4, <1>3, <1>6
  <2>5. CASE r.lsn <= disk.cp
        BY <2>1, <2>3, <2>5, <1>6
  <2> QED BY <2>2, <2>4, <2>5
<1>8. disk.cp < m + 1 /\ m + 1 <= MaxLsn + 1 /\ m + 1 \in Nat
      BY <1>0, <1>2, <1>6 DEF TypeOK
<1> QED BY <1>5, <1>7, <1>8

\* from_file replays the logs: memory is what the records say.
LEMMA OpenStep ==
    ASSUME DurableInv, Open
    PROVE  DurableInv'
<1> DEFINE now == Recovered(logs, disk)
           doubt == UNION {r.put \cup r.del \cup UNION {b.dead : b \in r.maps} : r \in unsure}
<1>0. /\ TypeOK /\ LsnInv /\ RowInv /\ AppendInv /\ pc = "closed" /\ pc' = "idle"
      /\ UNCHANGED <<disk, logs, logImg, writing, frozen, lapses, crashes, errors>>
      /\ mem' = ReplayedMem(logs, disk.cp)
      /\ deletes' = ReplayedDeletes(logs, disk)
      /\ dirty' = {b.id : b \in LoggedMaps(logs, disk.cp, disk.segs)}
      /\ nextLsn' = ReplayedLsn(logs, disk.cp)
      /\ active' = Newest(logs)
      /\ len' = [i \in Log |-> Len(logs[i].recs)]
      /\ shown' = now
      /\ acked' = (acked \ doubt) \cup (now \cap doubt)
      /\ unsure' = {}
      BY DEF DurableInv, Open
<1>1. /\ May = Pending(logs, disk.cp) /\ Must = May /\ New = {}
      /\ \A i \in Log : Held(i) = SeqRange(logs[i].recs)
      /\ mem' = MemOf(May)
      /\ deletes' = DeadOf(May, disk)
      /\ \A x : x \in now <=>
            \/ x \in RowsIn(disk.segs) /\ x \notin DeadOf(May, disk)
            \/ x \in MemOf(May)
      BY <1>0, ReplayIs
<1>2. /\ MemOf(May) \subseteq Rows
      /\ \A s \in disk.segs : \A x \in s.rows : x \notin MemOf(May)
      /\ DeadOf(May, disk) \subseteq RowsIn(disk.segs)
      /\ RowsIn(disk.segs) \subseteq Rows
      BY ReplayApart
<1>3. \A x : x \in doubt <=> \E r \in unsure :
          x \in r.put \/ x \in r.del \/ \E b \in r.maps : x \in b.dead
      OBVIOUS
<1> HIDE DEF now, doubt
<1>4. writing = <<>> /\ active' \in Log /\ now \subseteq Rows
      BY <1>0, <1>1, <1>2 DEF LsnInv, Newest, Log
<1>5. /\ nextLsn' \in Nat /\ disk.cp < nextLsn' /\ nextLsn' <= MaxLsn + 1
      /\ \A i \in Log : \A r \in Held(i) : r.lsn < nextLsn'
      BY <1>0, ReplayLsn
<1>6. \A i \in Log : len'[i] = Len(logs[i].recs) /\ Len(logs[i].recs) \in Nat
      BY <1>0, LenProperties DEF TypeOK, LogFile
<1>7. /\ \A i \in Log : Held(i)' = Held(i)
      /\ \A i \in Log : Firm(i)' = SeqRange(logs[i].recs)
      /\ May' = May /\ Must' = May /\ New' = {}
  <2>1. \A i \in Log : Held(i)' = Held(i)
        BY <1>0 DEF Held
  <2>2. ASSUME NEW i \in Log PROVE Firm(i)' = SeqRange(logs[i].recs)
    <3>1. {j \in 1 .. Len(logs[i].recs) : j <= len'[i]} = 1 .. Len(logs[i].recs)
          BY <1>6
    <3> QED BY <3>1, <1>0 DEF Firm, SeqRange
  <2>3. May' = May
        BY <2>1, <1>0 DEF May, Live, Log
  <2>4. Must' = May
        BY <2>2, <1>0, <1>1 DEF Must, May, Live, Log
  <2>5. New' = {}
        BY <1>0, <1>1 DEF New
  <2> QED BY <2>1, <2>2, <2>3, <2>4, <2>5
<1>8. /\ \A i : i \in dirty' <=> \E r \in May : \E b \in r.maps : b.id = i
      /\ dirty' \subseteq Nat
  <2>1. \A b : b \in LoggedMaps(logs, disk.cp, disk.segs) <=> \E r \in May : b \in r.maps
        BY <1>0, <1>1 DEF LoggedMaps, RowInv
  <2>2. \A i : i \in dirty' <=> \E r \in May : \E b \in r.maps : b.id = i
        BY <2>1, <1>0
  <2>3. \A r \in May : \A b \in r.maps : b.id \in Nat
        BY <1>0, RecordTypes DEF WalRecord, Bitmap
  <2> QED BY <2>2, <2>3
<1>9. TypeOK'
  <2>1. len' \in [Log -> Nat]
        BY <1>0, <1>6
  <2>2. acked' \subseteq Rows
        BY <1>0, <1>4 DEF TypeOK
  <2>3. mem' \subseteq Rows /\ deletes' \subseteq Rows
        BY <1>1, <1>2
  <2> QED BY <2>1, <2>2, <2>3, <1>0, <1>4, <1>5, <1>8 DEF TypeOK
<1>10. LsnInv'
  <2>1. len'[active'] <= Len(logs[active'].recs)
        BY <1>4, <1>6
  <2>2. pc' \notin {"closed", "committed", "appending", "frozen", "rotating", "rotated"}
        BY <1>0
  <2> QED BY <2>1, <2>2, <1>0, <1>4, <1>5, <1>7 DEF LsnInv
<1>11. TakenRows' = {} /\ TakenDirty' = {} /\ MaybePut' = {}
       BY <1>0 DEF TakenRows, TakenDirty, Flushing, MaybePut
<1>12. RowInv'
       BY <1>0, <1>1, <1>2, <1>7, <1>11 DEF RowInv
<1>13. AppendInv'
       BY <1>0, <1>4, NoAppend
<1>14. ASSUME FaithInv PROVE acked' = now
  <2>1. Faithful(May, disk, acked, unsure)
        BY <1>1, <1>14 DEF FaithInv
  <2>2. ASSUME NEW x \in acked, x \notin doubt PROVE x \in now
    <3>1. CASE x \in RowsIn(disk.segs)
      <4>1. PICK s \in disk.segs : x \in s.rows
            BY <3>1 DEF RowsIn
      <4>2. x \notin DeadOf(May, disk)
            BY <4>1, <2>1, <2>2, <1>3 DEF Faithful
      <4> QED BY <4>2, <3>1, <1>1
    <3>2. CASE x \notin RowsIn(disk.segs)
          BY <3>2, <2>1, <2>2, <1>1, <1>3 DEF Faithful
    <3> QED BY <3>1, <3>2
  <2>3. ASSUME NEW x \in now, x \notin doubt PROVE x \in acked
    <3>1. CASE x \in MemOf(May)
          BY <3>1, <2>1, <2>3, <1>3 DEF Faithful
    <3>2. CASE x \in RowsIn(disk.segs) /\ x \notin DeadOf(May, disk)
      <4>1. PICK s \in disk.segs : x \in s.rows
            BY <3>2 DEF RowsIn
      <4> QED BY <4>1, <3>2, <2>1 DEF Faithful
    <3> QED BY <3>1, <3>2, <2>3, <1>1
  <2> QED BY <2>2, <2>3, <1>0
<1>15. ASSUME acked' = now PROVE MemoryInv'
  <2>1. \A s \in disk.segs : \A x \in s.rows : x \in RowsIn(disk.segs)
        BY DEF RowsIn
  <2>2. \A s \in disk.segs : \A x \in s.rows : x \in acked' <=> x \notin deletes'
        BY <2>1, <1>1, <1>2, <1>15
  <2>3. \A x \in Rows : x \in acked' <=>
            (x \in RowsIn(disk.segs) /\ x \notin deletes') \/ x \in mem'
        BY <1>1, <1>15
  <2>4. ASSUME NEW s \in disk.segs, s.id \notin dirty'
        PROVE  disk.dead \cap s.rows = deletes' \cap s.rows
        BY <2>4, <1>1, <1>8, CleanSegment
  <2> QED BY <2>2, <2>3, <2>4, <1>0, <1>11, <1>15 DEF MemoryInv
<1>16. ASSUME acked' = now PROVE FaithInv'
  <2>1. \A P \in SUBSET (May' \ New') : Must' \subseteq P => P = May
        BY <1>7
  <2>2. Faithful(May, disk, now, {})
    <3>1. \A s \in disk.segs : \A x \in s.rows : x \in RowsIn(disk.segs)
          BY DEF RowsIn
    <3> QED BY <3>1, <1>1, <1>2 DEF Faithful
  <2> QED BY <2>1, <2>2, <1>0, <1>16 DEF FaithInv
<1>17. ASSUME OrderInv PROVE OrderInv'
  <2>1. \A y \in mem' : \E p \in Must' : y \in p.put
        BY <1>1, <1>7 DEF MemOf
  <2> QED BY <2>1, <1>0, <1>1, <1>7, <1>11, <1>17 DEF OrderInv
<1>18. ImageInv'
  <2>1. \A i \in Log : logImg'[i] = {logs[i]}
        BY <1>0 DEF LsnInv
  <2>2. \A S : Live(S)' = Live(S)
        BY <1>0 DEF Live
  <2>3. \A i \in Log : \A a \in logImg'[i] : Live(Firm(i)') \subseteq SeqRange(a.recs)
        BY <2>1, <1>7 DEF Live
  <2> QED BY <2>2, <2>3, <1>0, <1>1, <1>7 DEF ImageInv
<1>19. lapses \subseteq {"lost"} /\ lapses' = lapses
       BY <1>0 DEF LsnInv
<1> QED BY <1>0, <1>9, <1>10, <1>12, <1>13, <1>14, <1>15, <1>16, <1>17, <1>18, <1>19
        DEF DurableInv

\* A new table.
LEMMA InitHolds ==
    ASSUME Init
    PROVE  DurableInv
<1> USE DEF Init
<1>1. <<>> \in Seq(WalRecord) /\ Fresh(0) \in LogFile /\ Fresh(0).recs = <<>>
      BY DEF Fresh, LogFile
<1>2. TypeOK
      BY <1>1 DEF TypeOK, Log
<1>3. /\ \A i \in Log : logs[i] = Fresh(0) /\ logImg[i] = {Fresh(0)} /\ len[i] = 0
      /\ SeqRange(Fresh(0).recs) = {}
      BY <1>1 DEF SeqRange
<1>4. \A i \in Log : Held(i) = {}
      BY <1>3 DEF Held
<1>5. \A i \in Log : Firm(i) = {}
      BY <1>1, <1>3 DEF Firm
<1>6. May = {} /\ Must = {} /\ New = {}
      BY <1>4, <1>5 DEF May, Must, New, Live, Log, SeqRange
<1>7. LsnInv
      BY <1>1, <1>3, <1>4, DurableWritesAssumption DEF LsnInv, Log
<1>8. MaybePut = {} /\ TakenRows = {} /\ RowsIn(disk.segs) = {}
      BY DEF MaybePut, TakenRows, Flushing, RowsIn
<1>9. RowInv
      BY <1>6, <1>8 DEF RowInv
<1>10. AppendInv
  <2>1. \A k \in 1 .. Len(writing) : FALSE
        OBVIOUS
  <2> QED BY <2>1, <1>6 DEF AppendInv
<1>11. MemoryInv
       BY <1>8 DEF MemoryInv
<1>12. OrderInv
       BY <1>6 DEF OrderInv
<1>13. ImageInv
       BY <1>4, <1>5 DEF ImageInv, Live
<1>14. FaithInv
  <2>1. MemOf({}) = {}
        BY DEF MemOf
  <2> QED BY <2>1, <1>6 DEF FaithInv, Faithful
<1> QED BY <1>2, <1>7, <1>9, <1>10, <1>11, <1>12, <1>13, <1>14 DEF DurableInv

\* The invariant only speaks of vars.
LEMMA StutterHolds ==
    ASSUME DurableInv, UNCHANGED vars
    PROVE  DurableInv'
<1> USE DEF vars, memVars, history
<1>1. /\ \A i : Held(i)' = Held(i)
      /\ \A i : Firm(i)' = Firm(i)
      /\ \A S : Live(S)' = Live(S)
      /\ May' = May /\ Must' = Must /\ New' = New
      /\ MaybePut' = MaybePut /\ TakenRows' = TakenRows /\ TakenDirty' = TakenDirty
      BY DEF Held, Firm, Live, May, Must, New, MaybePut, TakenRows, TakenDirty, Flushing
<1>2. TypeOK => TypeOK'
      BY DEF TypeOK
<1>3. LsnInv => LsnInv'
      BY <1>1 DEF LsnInv
<1>4. RowInv => RowInv'
      BY <1>1 DEF RowInv
<1>5. AppendInv => AppendInv'
      BY <1>1 DEF AppendInv
<1>6. MemoryInv => MemoryInv'
      BY <1>1 DEF MemoryInv
<1>7. ImageInv => ImageInv'
      BY <1>1 DEF ImageInv
<1>8. (OrderInv => OrderInv') /\ (FaithInv => FaithInv')
      BY <1>1, SameRecords
<1> QED BY <1>2, <1>3, <1>4, <1>5, <1>6, <1>7, <1>8 DEF DurableInv

\* Every action, one by one.
LEMMA NextHolds ==
    ASSUME DurableInv, [Next]_vars
    PROVE  DurableInv'
<1>1. ASSUME NEW xs \in Groups, Insert(xs) PROVE DurableInv'
      BY <1>1, InsertProper, StartStep
<1>2. ASSUME NEW S \in SUBSET acked, Delete(S) PROVE DurableInv'
  <2>1. Replace(S, {}) /\ {} \in SUBSET Unused
        BY <1>2 DEF Delete
  <2>2. \E recs : Proper(recs) /\ StartAppend(recs)
        BY <2>1, ReplaceProper
  <2> QED BY <2>2, StartStep
<1>3. ASSUME NEW S \in SUBSET acked, NEW x \in Unused, Update(S, {x}) PROVE DurableInv'
  <2>1. Replace(S, {x}) /\ {x} \in SUBSET Unused
        BY <1>3 DEF Update
  <2>2. \E recs : Proper(recs) /\ StartAppend(recs)
        BY <2>1, ReplaceProper
  <2> QED BY <2>2, StartStep
<1>4. CASE FinishAppend
      BY <1>4, FinishStep
<1>5. CASE FailAppend
      BY <1>5, FailAppendStep
<1>6. CASE Freeze
      BY <1>6, FreezeStep
<1>7. CASE RotateTruncate
      BY <1>7, RotateTruncateStep
<1>8. CASE RotateHeader
      BY <1>8, RotateHeaderStep
<1>9. CASE CommitTable
      BY <1>9, CommitStep
<1>10. CASE TruncateRetired
       BY <1>10, TruncateRetiredStep
<1>11. CASE FailFlush
       BY <1>11, FailFlushStep
<1>12. CASE Crash
       BY <1>12, CrashStep
<1>13. CASE Open
       BY <1>13, OpenStep
<1>14. CASE UNCHANGED vars
       BY <1>14, StutterHolds
<1> QED BY <1>1, <1>2, <1>3, <1>4, <1>5, <1>6, <1>7, <1>8, <1>9, <1>10, <1>11, <1>12,
           <1>13, <1>14 DEF Next

\* Whatever is inserted, deleted, updated, flushed, failed or cut off by a
\* crash, the logs, the table file and memory stay in step (DurableInv).
THEOREM DurableInvariant == Spec => []DurableInv
<1>1. Init => DurableInv
      BY InitHolds
<1>2. DurableInv /\ [Next]_vars => DurableInv'
      BY NextHolds
<1> QED BY <1>1, <1>2, PTL DEF Spec

\* The writer's state, the logs and the table file keep their types.
THEOREM DurableTypes == Spec => []TypeOK
<1>1. DurableInv => TypeOK
      BY DEF DurableInv
<1> QED BY <1>1, DurableInvariant, PTL

\* Replay (from_file) never puts a row in the memtable that a committed segment
\* already holds, and no two segments hold the same row.
THEOREM ReplayHappensOnce == Spec => []ReplayedOnce
<1>1. DurableInv => ReplayedOnce
  <2> SUFFICES ASSUME DurableInv, pc = "closed"
               PROVE  /\ ReplayedMem(logs, disk.cp) \cap RowsIn(disk.segs) = {}
                      /\ \A s, t \in disk.segs : s.rows \cap t.rows # {} => s = t
      BY DEF ReplayedOnce
  <2>1. ReplayedMem(logs, disk.cp) = MemOf(May)
        BY ReplayIs
  <2>2. MemOf(May) \cap RowsIn(disk.segs) = {}
        BY ReplayApart DEF RowsIn
  <2>3. \A s, t \in disk.segs : s.rows \cap t.rows # {} => s = t
        BY DEF DurableInv, RowInv
  <2> QED BY <2>1, <2>2, <2>3
<1> QED BY <1>1, DurableInvariant, PTL

\* A closed table that has lost nothing replays to what was acknowledged.
LEMMA ClosedFaithful ==
    ASSUME DurableInv, pc = "closed", "lost" \notin lapses
    PROVE  OrderInv /\ Faithful(May, disk, acked, unsure)
<1>1. LsnInv /\ lapses \subseteq {"lost"}
      BY DEF DurableInv, LsnInv
<1>2. OrderInv /\ FaithInv
      BY <1>1 DEF DurableInv
<1>3. Must = May /\ New = {}
      BY ReplayIs
<1> QED BY <1>2, <1>3 DEF FaithInv

\* A row whose insert returned is there after a crash and a reopen, and a row
\* whose delete returned is not, up to the statements nobody was told about;
\* unless a crash followed a rotation of a log no commit covered, or a flush
\* committed past rows a failed one had dropped from memory.
THEOREM AcknowledgedRowsSurvive == Spec => []AckedRowsKept
<1>1. DurableInv => AckedRowsKept
  <2> SUFFICES ASSUME DurableInv, "lost" \notin lapses, pc = "closed"
               PROVE  /\ acked \ MaybeGone \subseteq Recovered(logs, disk)
                      /\ Recovered(logs, disk) \subseteq acked \cup MaybePut
      BY DEF AckedRowsKept, AckedRowsRecovered
  <2>1. Faithful(May, disk, acked, unsure)
        BY ClosedFaithful
  <2>2. \A x : x \in Recovered(logs, disk) <=>
            \/ x \in RowsIn(disk.segs) /\ x \notin DeadOf(May, disk)
            \/ x \in MemOf(May)
        BY ReplayIs
  <2>3. \A x : x \in RowsIn(disk.segs) <=> \E s \in disk.segs : x \in s.rows
        BY DEF RowsIn
  <2>4. \A x : x \in MaybeGone <=>
            \E q \in unsure : x \in q.del \/ \E b \in q.maps : x \in b.dead
        BY DEF MaybeGone, Removes
  <2>5. ASSUME NEW x \in acked, x \notin MaybeGone PROVE x \in Recovered(logs, disk)
    <3>1. CASE x \in RowsIn(disk.segs)
          BY <3>1, <2>1, <2>2, <2>3, <2>4, <2>5 DEF Faithful
    <3>2. CASE x \notin RowsIn(disk.segs)
          BY <3>2, <2>1, <2>2, <2>4, <2>5 DEF Faithful
    <3> QED BY <3>1, <3>2
  <2>6. ASSUME NEW x \in Recovered(logs, disk) PROVE x \in acked \/ x \in MaybePut
    <3>1. CASE x \in MemOf(May)
          BY <3>1, <2>1 DEF Faithful, MaybePut
    <3>2. CASE x \in RowsIn(disk.segs) /\ x \notin DeadOf(May, disk)
          BY <3>2, <2>1, <2>3 DEF Faithful
    <3> QED BY <3>1, <3>2, <2>2
  <2> QED BY <2>5, <2>6
<1> QED BY <1>1, DurableInvariant, PTL

\* A scan of an open table shows exactly the acknowledged rows, during a flush
\* too, as long as no flush has failed since the table was opened.
THEOREM AcknowledgedRowsAreShown == Spec => []AckedRowsVisible
<1>1. DurableInv => AckedRowsVisible
      BY DEF DurableInv, MemoryInv, AckedRowsVisible
<1> QED BY <1>1, DurableInvariant, PTL

\* A record to be replayed that no acknowledged row accounts for.
LEMMA UpdatePresent ==
    ASSUME DurableInv, pc = "closed", "lost" \notin lapses,
           NEW r \in unsure, NEW y \in r.put, y \in Recovered(logs, disk),
           r.del # {} \/ r.maps # {}
    PROVE  r \in May
<1>1. OrderInv /\ RowInv
      BY ClosedFaithful DEF DurableInv
<1>2. y \notin RowsIn(disk.segs)
      BY <1>1 DEF RowInv, MaybePut
<1>3. y \in MemOf(May)
      BY <1>2, ReplayIs
<1>4. PICK p \in May : y \in p.put
      BY <1>3 DEF MemOf
<1> QED BY <1>1, <1>4 DEF OrderInv

\* An update to be replayed removes its rows, save those of a segment that a
\* later bitmap replaces.
LEMMA UpdateRemoves ==
    ASSUME DurableInv, pc = "closed", "lost" \notin lapses,
           NEW r \in unsure, r \in May, NEW x,
           \/ x \in r.del
           \/ \E b \in r.maps : x \in b.dead /\ ~Outdated(b, r.lsn)
    PROVE  x \notin Recovered(logs, disk)
<1>1. OrderInv /\ RowInv /\ TypeOK /\ LsnInv
      BY ClosedFaithful DEF DurableInv
<1>2. /\ Must = May /\ May = Pending(logs, disk.cp)
      /\ x \in Recovered(logs, disk) <=>
            \/ x \in RowsIn(disk.segs) /\ x \notin DeadOf(May, disk)
            \/ x \in MemOf(May)
      BY ReplayIs
<1>3. \A q \in May : q.lsn \in Nat
      BY <1>1, RecordTypes DEF WalRecord
<1>4. CASE x \in r.del
  <2>1. PICK p \in May : x \in p.put
        BY <1>1, <1>2, <1>4 DEF OrderInv
  <2>2. x \notin RowsIn(disk.segs)
        BY <1>1, <2>1 DEF RowInv
  <2>3. \A q \in May : x \in q.put => q.lsn < r.lsn
        BY <1>1, <1>4 DEF OrderInv
  <2>4. x \notin MemOf(May)
        BY <1>3, <1>4, <2>3 DEF MemOf
  <2> QED BY <1>2, <2>2, <2>4
<1>5. ASSUME NEW b \in r.maps, x \in b.dead, ~Outdated(b, r.lsn)
      PROVE  x \notin Recovered(logs, disk)
  <2>1. PICK s \in disk.segs : s.id = b.id /\ x \in s.rows
        BY <1>1, <1>5 DEF RowInv
  <2>2. \A q \in May : \A c \in q.maps : c.id = b.id => q.lsn <= r.lsn
        BY <1>2, <1>3, <1>5 DEF Outdated
  <2>3. b \in TopMaps(May, disk.segs)
        BY <2>1, <2>2 DEF TopMaps
  <2>4. x \in DeadOf(May, disk)
        BY <2>3, <1>5 DEF DeadOf, Remapped
  <2>5. x \notin MemOf(May)
        BY <2>1, ReplayApart
  <2> QED BY <1>2, <2>4, <2>5
<1> QED BY <1>4, <1>5

\* An update to be replayed shows its replacements.
LEMMA UpdateShows ==
    ASSUME DurableInv, pc = "closed", "lost" \notin lapses,
           NEW r \in unsure, r \in May
    PROVE  r.put \subseteq Recovered(logs, disk)
<1>1. OrderInv /\ TypeOK /\ LsnInv
      BY ClosedFaithful DEF DurableInv
<1>2. ASSUME NEW y \in r.put PROVE y \in MemOf(May)
  <2>1. y \in Rows
        BY <1>1, RecordTypes DEF WalRecord
  <2>2. y \in MaybePut
        BY DEF MaybePut
  <2>3. \A q \in May : y \notin q.del
        BY <1>1, <2>2 DEF OrderInv
  <2> QED BY <2>1, <2>3 DEF MemOf
<1> QED BY <1>2, ReplayIs

\* An acknowledged row that replay does not show is removed by an unsettled
\* statement that is replayed.
LEMMA MissingRemoved ==
    ASSUME DurableInv, pc = "closed", "lost" \notin lapses,
           NEW x \in acked, x \notin Recovered(logs, disk)
    PROVE  \E q \in May \cap unsure : x \in Removes(q)
<1>1. Faithful(May, disk, acked, unsure)
      BY ClosedFaithful
<1>2. /\ x \in RowsIn(disk.segs) => x \in DeadOf(May, disk)
      /\ x \notin MemOf(May)
      BY ReplayIs
<1>3. CASE x \in RowsIn(disk.segs)
  <2>1. PICK s \in disk.segs : x \in s.rows
        BY <1>3 DEF RowsIn
  <2>2. \E q \in May \cap unsure : \E b \in q.maps : x \in b.dead
        BY <1>1, <1>2, <1>3, <2>1 DEF Faithful
  <2> QED BY <2>2 DEF Removes
<1>4. CASE x \notin RowsIn(disk.segs)
      BY <1>1, <1>2, <1>4 DEF Faithful, Removes
<1> QED BY <1>3, <1>4

\* An UPDATE that an error or a crash cut off is replayed whole or not at all:
\* one record carries its deletes and its replacements (update, write.rs).
THEOREM UpdatesAreAllOrNothing == Spec => []UpdateAllOrNothing
<1>1. DurableInv => UpdateAllOrNothing
  <2> DEFINE now == Recovered(logs, disk)
             others(r) == UNION {Removes(q) : q \in unsure \ {r}}
             replaced(r) == r.del \cup
                 UNION {b.dead : b \in {c \in r.maps : ~Outdated(c, r.lsn)}}
  <2> SUFFICES ASSUME DurableInv, pc = "closed", "lost" \notin lapses,
                      NEW r \in unsure, r.put # {}
               PROVE  /\ r.put \subseteq now => replaced(r) \cap now = {}
                      /\ ~(r.put \subseteq now) =>
                            (Removes(r) \cap acked) \ others(r) \subseteq now
      BY DEF UpdateAllOrNothing
  <2>1. ASSUME r.put \subseteq now, NEW x \in replaced(r), x \in now
        PROVE  FALSE
    <3>1. \/ x \in r.del
          \/ \E b \in r.maps : x \in b.dead /\ ~Outdated(b, r.lsn)
          BY <2>1
    <3>2. PICK y \in r.put : y \in now
          BY <2>1
    <3>3. r \in May
          BY <3>1, <3>2, UpdatePresent
    <3> QED BY <3>1, <3>3, <2>1, UpdateRemoves
  <2>2. ASSUME ~(r.put \subseteq now),
               NEW x \in Removes(r) \cap acked, x \notin others(r), x \notin now
        PROVE  FALSE
    <3>1. PICK q \in May \cap unsure : x \in Removes(q)
          BY <2>2, MissingRemoved
    <3>2. q = r
          BY <2>2, <3>1
    <3> QED BY <2>2, <3>1, <3>2, UpdateShows
  <2> QED BY <2>1, <2>2
<1> QED BY <1>1, DurableInvariant, PTL

============================================================================
