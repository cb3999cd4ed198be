---- MODULE FlushProofs ----
(***************************************************************************)
(* Proofs about FlushPipeline.  The inductive invariant IInv is at the end,*)
(* with one lemma per action; before it, from the bottom up: sequences and *)
(* sets of numbers, the memtable, the row groups, reading a segment, and   *)
(* writing one.                                                            *)
(*                                                                         *)
(* A recursive function is reasoned about through a predicate that states  *)
(* its equation (Flattens, Adds, Sums, ...), and induction is by the least *)
(* number that would be a counterexample (Least, SetInduction).            *)
(***************************************************************************)
EXTENDS FlushPipeline, FiniteSetTheorems, SequenceTheorems, WellFoundedInduction, TLAPS

----------------------------------------------------------------------------
(* Induction.                                                              *)

\* A set of natural numbers has a least one.
LEMMA Least ==
    ASSUME NEW S \in SUBSET Nat, S # {}
    PROVE  \E x \in S : \A y \in S : x <= y
<1> DEFINE R == OpToRel(<, Nat)
<1>1. IsWellFoundedOn(R, Nat)
      BY NatLessThanWellFounded
<1>2. \A y, z \in Nat : <<y, z>> \in R <=> y < z
      BY DEF OpToRel
<1> HIDE DEF R
<1>3. PICK x \in S : \A y \in S : ~ (<<y, x>> \in R)
      BY <1>1, WFMin
<1>4. ASSUME NEW y \in S PROVE x <= y
  <2>1. x \in Nat /\ y \in Nat /\ ~(<<y, x>> \in R)
        BY <1>3
  <2>2. ~(y < x)
        BY <1>2, <2>1
  <2> QED BY <2>1, <2>2
<1> QED BY <1>4

\* Induction, with a set for the property.
LEMMA SetInduction ==
    ASSUME NEW S, 0 \in S, \A n \in Nat : n \in S => n + 1 \in S
    PROVE  Nat \subseteq S
<1> SUFFICES ASSUME Nat \ S # {} PROVE FALSE
    OBVIOUS
<1>1. PICK x \in Nat \ S : \A y \in Nat \ S : x <= y
      BY Least
<1>2. x # 0 /\ x - 1 \in Nat
      BY <1>1
<1>3. x - 1 \in S
      BY <1>1, <1>2
<1> QED BY <1>1, <1>2, <1>3

\* The least element of a set of naturals.
LEMMA MinIs ==
    ASSUME NEW S \in SUBSET Nat, S # {}
    PROVE  Min(S) \in S /\ \A x \in S : Min(S) <= x
BY Least DEF Min

\* The smaller of two numbers.
LEMMA MinOfTwo ==
    ASSUME NEW a \in Int, NEW b \in Int
    PROVE  Min({a, b}) = IF a <= b THEN a ELSE b
<1>1. \E x \in {a, b} : \A y \in {a, b} : x <= y
      OBVIOUS
<1>2. Min({a, b}) \in {a, b} /\ \A y \in {a, b} : Min({a, b}) <= y
      BY <1>1 DEF Min
<1> QED BY <1>2

\* The larger of two numbers.
LEMMA MaxOfTwo ==
    ASSUME NEW a \in Int, NEW b \in Int
    PROVE  Max({a, b}) = IF a >= b THEN a ELSE b
<1>1. \E x \in {a, b} : \A y \in {a, b} : x >= y
      OBVIOUS
<1>2. Max({a, b}) \in {a, b} /\ \A y \in {a, b} : Max({a, b}) >= y
      BY <1>1 DEF Max
<1> QED BY <1>2

----------------------------------------------------------------------------
(* Sequences put together.                                                 *)

\* What the recursive definition in FlattenSeq asks of a function.
Flattens(f, s) == f = [i \in 1..Len(s) |-> IF i = 1 THEN s[i] ELSE f[i - 1] \o s[i]]

\* There is such a function.
LEMMA FlattenExists ==
    ASSUME NEW s, Len(s) \in Nat
    PROVE  \E f : Flattens(f, s)
<1> DEFINE Up(n) == \E f : f = [i \in 1..n |-> IF i = 1 THEN s[i] ELSE f[i - 1] \o s[i]]
           N == {n \in Nat : Up(n)}
<1>1. 0 \in N
  <2>1. Up(0)
    <3> DEFINE f == [i \in 1..0 |-> s[i]]
    <3>1. f = [i \in 1..0 |-> IF i = 1 THEN s[i] ELSE f[i - 1] \o s[i]]
          OBVIOUS
    <3> QED BY <3>1
  <2> QED BY <2>1
<1>2. ASSUME NEW n \in Nat, n \in N PROVE n + 1 \in N
  <2>1. PICK f : f = [i \in 1..n |-> IF i = 1 THEN s[i] ELSE f[i - 1] \o s[i]]
        BY <1>2
  <2> DEFINE m == n + 1
             g == [i \in 1..m |-> IF i = m THEN (IF i = 1 THEN s[i] ELSE f[i - 1] \o s[i])
                                  ELSE f[i]]
  <2>2. ASSUME NEW i \in 1..m PROVE g[i] = IF i = 1 THEN s[i] ELSE g[i - 1] \o s[i]
    <3>1. CASE i = m
          BY <3>1
    <3>2. CASE i # m
      <4>1. i \in 1..n /\ g[i] = f[i]
            BY <3>2
      <4>2. i # 1 => i - 1 \in 1..m /\ i - 1 # m /\ g[i - 1] = f[i - 1]
            BY <3>2
      <4>3. f[i] = IF i = 1 THEN s[i] ELSE f[i - 1] \o s[i]
            BY <2>1, <4>1
      <4> QED BY <4>1, <4>2, <4>3
    <3> QED BY <3>1, <3>2
  <2>3. g = [i \in 1..m |-> IF i = 1 THEN s[i] ELSE g[i - 1] \o s[i]]
        BY <2>2
  <2> HIDE DEF g
  <2>4. Up(m)
        BY <2>3
  <2>5. m \in Nat
        OBVIOUS
  <2> HIDE DEF Up
  <2> QED BY <2>4, <2>5
<1> HIDE DEF N
<1>3. Len(s) \in N
      BY <1>1, <1>2, SetInduction
<1> QED BY <1>3 DEF N, Flattens

\* FlattenSeq is given by one.
LEMMA FlattenIs ==
    ASSUME NEW s, Len(s) \in Nat \ {0}
    PROVE  \E f : Flattens(f, s) /\ FlattenSeq(s) = f[Len(s)]
<1> DEFINE f == CHOOSE f : Flattens(f, s)
<1>1. Flattens(f, s)
      BY FlattenExists
<1>2. FlattenSeq(s) = f[Len(s)]
      BY DEF FlattenSeq, Flattens
<1> QED BY <1>1, <1>2

\* One step of it.
LEMMA FlattenStep ==
    ASSUME NEW s, Len(s) \in Nat, NEW f, Flattens(f, s), NEW i \in 1..Len(s)
    PROVE  f[i] = IF i = 1 THEN s[i] ELSE f[i - 1] \o s[i]
BY DEF Flattens

\* Two of them agree as far as the sequences do.
LEMMA FlattenAgrees ==
    ASSUME NEW s, NEW t, NEW f, NEW g, NEW m \in Nat, NEW k \in Nat, NEW l \in Nat,
           Len(s) = k, Len(t) = l, m <= k, m <= l, \A i \in 1..m : s[i] = t[i],
           Flattens(f, s), Flattens(g, t)
    PROVE  \A i \in 1..m : f[i] = g[i]
<1> DEFINE N == {n \in Nat : n \in 1..m => f[n] = g[n]}
<1>1. 0 \in N
      OBVIOUS
<1>2. ASSUME NEW n \in Nat, n \in N PROVE n + 1 \in N
  <2> SUFFICES ASSUME n + 1 \in 1..m PROVE f[n + 1] = g[n + 1]
      OBVIOUS
  <2>5. n + 1 \in 1..Len(s) /\ n + 1 \in 1..Len(t)
        OBVIOUS
  <2>1. f[n + 1] = IF n + 1 = 1 THEN s[n + 1] ELSE f[n + 1 - 1] \o s[n + 1]
        BY <2>5, FlattenStep
  <2>2. g[n + 1] = IF n + 1 = 1 THEN t[n + 1] ELSE g[n + 1 - 1] \o t[n + 1]
        BY <2>5, FlattenStep
  <2>3. n + 1 # 1 => f[n] = g[n]
        BY <1>2
  <2>4. n + 1 - 1 = n /\ s[n + 1] = t[n + 1]
        OBVIOUS
  <2> QED BY <2>1, <2>2, <2>3, <2>4
<1> HIDE DEF N
<1>3. \A n \in Nat : n \in N
      BY <1>1, <1>2, SetInduction
<1> QED BY <1>3 DEF N

\* Nothing put together.
LEMMA FlattenEmpty == FlattenSeq(<<>>) = <<>>
BY DEF FlattenSeq

\* One sequence more, after the first.
LEMMA FlattenMore ==
    ASSUME NEW s, NEW t, NEW n \in Nat \ {0}, Len(s) = n, Len(t) = n + 1,
           \A i \in 1..n : s[i] = t[i]
    PROVE  FlattenSeq(t) = FlattenSeq(s) \o t[n + 1]
<1>1. PICK f : Flattens(f, s) /\ FlattenSeq(s) = f[Len(s)]
      BY FlattenIs
<1>2. PICK g : Flattens(g, t) /\ FlattenSeq(t) = g[Len(t)]
      BY FlattenIs
<1>6. n \in Nat /\ n + 1 \in Nat /\ n <= n /\ n <= n + 1
      OBVIOUS
<1>7. Flattens(f, s) /\ Flattens(g, t)
      BY <1>1, <1>2
<1>3. \A i \in 1..n : f[i] = g[i]
      BY <1>6, <1>7, FlattenAgrees
<1>4. g[n + 1] = IF n + 1 = 1 THEN t[n + 1] ELSE g[n + 1 - 1] \o t[n + 1]
      BY <1>2, FlattenStep
<1>5. n + 1 # 1 /\ n + 1 - 1 = n /\ n \in 1..n
      OBVIOUS
<1> QED BY <1>1, <1>2, <1>3, <1>4, <1>5

\* One sequence more.
LEMMA FlattenAppend ==
    ASSUME NEW T, NEW s \in Seq(Seq(T)), NEW x \in Seq(T)
    PROVE  FlattenSeq(Append(s, x)) = FlattenSeq(s) \o x
<1> DEFINE t == Append(s, x)
           n == Len(s)
<1>1. n \in Nat /\ Len(t) = n + 1 /\ t[n + 1] = x /\ \A i \in 1..n : s[i] = t[i]
      OBVIOUS
<1> HIDE DEF t
<1>2. CASE s = <<>>
  <2>1. Len(t) = 1 /\ t[1] = x
        BY <1>1, <1>2
  <2>2. PICK g : Flattens(g, t) /\ FlattenSeq(t) = g[Len(t)]
    <3>1. Len(t) \in Nat \ {0}
          BY <2>1
    <3> QED BY <3>1, FlattenIs
  <2>3. g[1] = t[1] /\ <<>> \o x = x
        BY <2>1, <2>2 DEF Flattens
  <2> QED BY <1>2, <2>1, <2>2, <2>3, FlattenEmpty DEF t
<1>3. CASE s # <<>>
  <2>1. n \in Nat \ {0} /\ Len(s) = n
        BY <1>1, <1>3
  <2> HIDE DEF n
  <2>2. FlattenSeq(t) = FlattenSeq(s) \o t[n + 1]
        BY <1>1, <2>1, FlattenMore
  <2> QED BY <1>1, <2>2 DEF t
<1> QED BY <1>2, <1>3

\* Its type.
LEMMA FlattenType ==
    ASSUME NEW T, NEW s \in Seq(Seq(T))
    PROVE  FlattenSeq(s) \in Seq(T)
<1> DEFINE N == {n \in Nat : \A u \in Seq(Seq(T)) : Len(u) = n => FlattenSeq(u) \in Seq(T)}
<1>1. 0 \in N
  <2> SUFFICES ASSUME NEW u \in Seq(Seq(T)), Len(u) = 0 PROVE FlattenSeq(u) \in Seq(T)
      OBVIOUS
  <2>1. u = <<>> /\ <<>> \in Seq(T)
        OBVIOUS
  <2> QED BY <2>1, FlattenEmpty
<1>2. ASSUME NEW n \in Nat, n \in N PROVE n + 1 \in N
  <2> SUFFICES ASSUME NEW u \in Seq(Seq(T)), Len(u) = n + 1 PROVE FlattenSeq(u) \in Seq(T)
      OBVIOUS
  <2>1. u # <<>>
        OBVIOUS
  <2>2. PICK v \in Seq(Seq(T)), x \in Seq(T) : u = Append(v, x)
        BY <2>1, SequenceEmptyOrAppend
  <2>3. Len(v) = n
        BY <2>2
  <2>4. FlattenSeq(v) \in Seq(T)
        BY <1>2, <2>3
  <2>5. FlattenSeq(u) = FlattenSeq(v) \o x
        BY <2>2, FlattenAppend
  <2> QED BY <2>4, <2>5
<1> HIDE DEF N
<1>3. Len(s) \in N
      BY <1>1, <1>2, SetInduction
<1> QED BY <1>3 DEF N

\* A sequence put together from the front and the back.
LEMMA FlattenConcat ==
    ASSUME NEW T, NEW s \in Seq(Seq(T)), NEW t \in Seq(Seq(T))
    PROVE  FlattenSeq(s \o t) = FlattenSeq(s) \o FlattenSeq(t)
<1> DEFINE N == {n \in Nat : \A u \in Seq(Seq(T)) : Len(u) = n =>
                    FlattenSeq(s \o u) = FlattenSeq(s) \o FlattenSeq(u)}
<1>1. 0 \in N
  <2> SUFFICES ASSUME NEW u \in Seq(Seq(T)), Len(u) = 0
               PROVE  FlattenSeq(s \o u) = FlattenSeq(s) \o FlattenSeq(u)
      OBVIOUS
  <2>1. u = <<>> /\ s \o <<>> = s
        OBVIOUS
  <2>2. FlattenSeq(s) \in Seq(T)
        BY FlattenType
  <2>3. FlattenSeq(s) \o <<>> = FlattenSeq(s)
        BY <2>2
  <2> QED BY <2>1, <2>3, FlattenEmpty
<1>2. ASSUME NEW n \in Nat, n \in N PROVE n + 1 \in N
  <2> SUFFICES ASSUME NEW u \in Seq(Seq(T)), Len(u) = n + 1
               PROVE  FlattenSeq(s \o u) = FlattenSeq(s) \o FlattenSeq(u)
      OBVIOUS
  <2>1. u # <<>>
        OBVIOUS
  <2>2. PICK v \in Seq(Seq(T)), x \in Seq(T) : u = Append(v, x)
        BY <2>1, SequenceEmptyOrAppend
  <2>3. Len(v) = n /\ s \o v \in Seq(Seq(T))
        BY <2>2
  <2>4. FlattenSeq(s \o v) = FlattenSeq(s) \o FlattenSeq(v)
        BY <1>2, <2>3
  <2>5. s \o Append(v, x) = Append(s \o v, x)
    <3> DEFINE l == s \o Append(v, x)
               r == Append(s \o v, x)
    <3>1. l \in Seq(Seq(T)) /\ r \in Seq(Seq(T)) /\ Len(l) = Len(r)
          OBVIOUS
    <3>2. ASSUME NEW i \in 1..Len(l) PROVE l[i] = r[i]
      <4>1. CASE i <= Len(s)
            BY <4>1
      <4>2. CASE i > Len(s) /\ i <= Len(s) + Len(v)
            BY <4>2
      <4>3. CASE i = Len(s) + Len(v) + 1
            BY <4>3
      <4> QED BY <4>1, <4>2, <4>3
    <3> HIDE DEF l, r
    <3>3. l = r
          BY <3>1, <3>2, SeqEqual
    <3> QED BY <3>3 DEF l, r
  <2>6. FlattenSeq(Append(s \o v, x)) = FlattenSeq(s \o v) \o x
        BY <2>3, FlattenAppend
  <2>7. FlattenSeq(Append(v, x)) = FlattenSeq(v) \o x
        BY FlattenAppend
  <2>8. FlattenSeq(s) \in Seq(T) /\ FlattenSeq(v) \in Seq(T)
        BY FlattenType
  <2>9. (FlattenSeq(s) \o FlattenSeq(v)) \o x = FlattenSeq(s) \o (FlattenSeq(v) \o x)
    <3> DEFINE a == FlattenSeq(s)
               b == FlattenSeq(v)
    <3>1. a \in Seq(T) /\ b \in Seq(T) /\ x \in Seq(T)
          BY <2>8
    <3> HIDE DEF a, b
    <3>2. (a \o b) \o x = a \o (b \o x)
          BY ONLY <3>1, ConcatAssociative
    <3> QED BY <3>2 DEF a, b
  <2> QED BY <2>2, <2>4, <2>5, <2>6, <2>7, <2>9
<1> HIDE DEF N
<1>3. Len(t) \in N
  <2>1. Len(t) \in Nat
        OBVIOUS
  <2> QED BY <1>1, <1>2, <2>1, SetInduction
<1> QED BY <1>3 DEF N

\* Induction over sequences, with a set for the property.
LEMMA SeqInduction ==
    ASSUME NEW U, NEW P, <<>> \in P,
           \A s \in Seq(U) : \A x \in U : s \in P => Append(s, x) \in P
    PROVE  Seq(U) \subseteq P
<1> DEFINE N == {n \in Nat : \A s \in Seq(U) : Len(s) = n => s \in P}
<1>1. 0 \in N
  <2> SUFFICES ASSUME NEW s \in Seq(U), Len(s) = 0 PROVE s \in P
      OBVIOUS
  <2>1. s = <<>>
        OBVIOUS
  <2> QED BY <2>1
<1>2. ASSUME NEW n \in Nat, n \in N PROVE n + 1 \in N
  <2> SUFFICES ASSUME NEW s \in Seq(U), Len(s) = n + 1 PROVE s \in P
      OBVIOUS
  <2>1. s # <<>>
        OBVIOUS
  <2>2. PICK v \in Seq(U), x \in U : s = Append(v, x)
        BY <2>1, SequenceEmptyOrAppend
  <2>3. Len(v) = n
        BY <2>2
  <2>4. v \in P
        BY <1>2, <2>3
  <2> QED BY <2>2, <2>4
<1> HIDE DEF N
<1>3. \A n \in Nat : n \in N
      BY <1>1, <1>2, SetInduction
<1>4. ASSUME NEW s \in Seq(U) PROVE s \in P
  <2>1. Len(s) \in Nat
        OBVIOUS
  <2>2. Len(s) \in N
        BY <1>3, <2>1
  <2> QED BY <2>2 DEF N
<1> QED BY <1>4

----------------------------------------------------------------------------
(* Sets in ascending order.                                                *)

\* p lists the numbers of S, each once and in ascending order.
Lists(p, S) ==
    /\ p \in Seq(Nat)
    /\ \A x : x \in S <=> \E k \in 1..Len(p) : p[k] = x
    /\ \A j, k \in 1..Len(p) : j < k => p[j] < p[k]

\* A list is the one Ascending gives.
LEMMA ListsIs ==
    ASSUME NEW p, NEW S, Lists(p, S)
    PROVE  /\ IsFiniteSet(S) /\ S \subseteq Nat
           /\ Cardinality(S) = Len(p)
           /\ Ascending(S) = p
<1> DEFINE n == Len(p)
           UpTo(i) == {j \in S : j <= i}
<1>1. p \in Seq(Nat) /\ n \in Nat /\ p \in [1..n -> Nat]
      BY DEF Lists
<1>2. \A x : x \in S <=> \E k \in 1..n : p[k] = x
      BY DEF Lists
<1>3. \A j, k \in 1..n : j < k => p[j] < p[k]
      BY DEF Lists
<1>4. \A j, k \in 1..n : p[j] = p[k] => j = k
  <2> SUFFICES ASSUME NEW j \in 1..n, NEW k \in 1..n, p[j] = p[k], j # k PROVE FALSE
      OBVIOUS
  <2>1. (j < k \/ k < j) /\ p[j] \in Nat
        BY <1>1
  <2> QED BY <1>3, <2>1
<1>5. S \subseteq Nat
      BY <1>1, <1>2
<1> HIDE DEF n
<1>6. ASSUME NEW k \in 1..n
      PROVE  /\ IsFiniteSet(UpTo(p[k])) /\ Cardinality(UpTo(p[k])) = k
  <2> DEFINE q == [j \in 1..k |-> p[j]]
  <2>1. k \in Nat /\ \A j \in 1..k : j \in 1..n
        BY <1>1
  <2>2. ASSUME NEW j \in 1..k PROVE p[j] \in UpTo(p[k])
    <3>1. j \in 1..n /\ (j < k \/ j = k)
          BY <2>1
    <3>2. p[j] \in S /\ p[j] \in Nat /\ p[k] \in Nat
          BY <1>1, <1>2, <3>1
    <3>3. p[j] <= p[k]
          BY <1>3, <3>1, <3>2
    <3> QED BY <3>2, <3>3
  <2>3. ASSUME NEW x \in UpTo(p[k]) PROVE \E j \in 1..k : p[j] = x
    <3>1. x \in S /\ x <= p[k]
          OBVIOUS
    <3>2. PICK j \in 1..n : p[j] = x
          BY <1>2, <3>1
    <3>3. p[j] \in Nat /\ p[k] \in Nat
          BY <1>1
    <3>4. ~(k < j)
          BY <1>3, <3>1, <3>2, <3>3
    <3>5. j \in 1..k
          BY <1>1, <3>4
    <3> QED BY <3>2, <3>5
  <2>4. \A j, l \in 1..k : p[j] = p[l] => j = l
        BY <1>4, <2>1
  <2> HIDE DEF UpTo
  <2>5. q \in Bijection(1..k, UpTo(p[k]))
    <3>1. q \in [1..k -> UpTo(p[k])]
          BY <2>2
    <3>2. \A j, l \in 1..k : q[j] = q[l] => j = l
          BY <2>4
    <3>3. \A x \in UpTo(p[k]) : \E j \in 1..k : q[j] = x
          BY <2>3
    <3> HIDE DEF q
    <3> QED BY <3>1, <3>2, <3>3 DEF Bijection, Injection, Surjection, IsInjective
  <2>6. ExistsBijection(1..k, UpTo(p[k]))
        BY <2>5 DEF ExistsBijection
  <2> QED BY <2>1, <2>6, FS_CountingElements, FS_NatBijection
<1>7. IsFiniteSet(S) /\ Cardinality(S) = n
  <2>1. p \in Bijection(1..n, S)
    <3>1. p \in [1..n -> S]
          BY <1>1, <1>2
    <3> QED BY <1>2, <1>4, <3>1 DEF Bijection, Injection, Surjection, IsInjective
  <2>2. ExistsBijection(1..n, S)
        BY <2>1 DEF ExistsBijection
  <2> QED BY <1>1, <2>2, FS_CountingElements, FS_NatBijection
<1>8. ASSUME NEW k \in 1..n
      PROVE  (CHOOSE i \in S : Cardinality({j \in S : j <= i}) = k) = p[k]
  <2>1. p[k] \in S /\ Cardinality(UpTo(p[k])) = k
        BY <1>2, <1>6
  <2>2. ASSUME NEW i \in S, Cardinality(UpTo(i)) = k PROVE i = p[k]
    <3>1. PICK j \in 1..n : p[j] = i
          BY <1>2
    <3>2. Cardinality(UpTo(p[j])) = j
          BY <1>6
    <3> HIDE DEF UpTo
    <3> QED BY <2>2, <3>1, <3>2
  <2>3. PICK i \in S : i = (CHOOSE x \in S : Cardinality(UpTo(x)) = k) /\ Cardinality(UpTo(i)) = k
        BY <2>1
  <2> QED BY <2>2, <2>3
<1>9. Ascending(S) = [k \in 1..n |-> p[k]]
      BY <1>7, <1>8 DEF Ascending
<1> QED BY <1>1, <1>5, <1>7, <1>9 DEF n

\* The list of nothing.
LEMMA ListsEmpty == Lists(<<>>, {})
BY DEF Lists

\* Lists one after the other.
LEMMA ListsConcat ==
    ASSUME NEW p, NEW A, NEW q, NEW B, Lists(p, A), Lists(q, B),
           \A a \in A : \A b \in B : a < b
    PROVE  Lists(p \o q, A \cup B)
<1> DEFINE r == p \o q
           m == Len(p)
           n == Len(q)
<1>1. p \in Seq(Nat) /\ q \in Seq(Nat) /\ m \in Nat /\ n \in Nat
      BY DEF Lists
<1>2. r \in Seq(Nat) /\ Len(r) = m + n
      BY <1>1
<1>3. \A k \in 1..m : r[k] = p[k] /\ k \in 1..(m + n)
      BY <1>1
<1>4. \A k \in 1..n : r[m + k] = q[k] /\ m + k \in 1..(m + n)
      BY <1>1
<1>5. \A k \in 1..(m + n) : k \in 1..m \/ (k > m /\ k - m \in 1..n /\ r[k] = q[k - m])
      BY <1>1
<1>6. \A x : x \in A <=> \E k \in 1..m : p[k] = x
      BY DEF Lists
<1>7. \A x : x \in B <=> \E k \in 1..n : q[k] = x
      BY DEF Lists
<1>8. (\A j, k \in 1..m : j < k => p[j] < p[k]) /\ (\A j, k \in 1..n : j < k => q[j] < q[k])
      BY DEF Lists
<1> HIDE DEF r, m, n
<1>9. ASSUME NEW x PROVE x \in A \cup B <=> \E k \in 1..(m + n) : r[k] = x
  <2>1. ASSUME x \in A \cup B PROVE \E k \in 1..(m + n) : r[k] = x
        BY <1>3, <1>4, <1>6, <1>7, <2>1
  <2>2. ASSUME NEW k \in 1..(m + n), r[k] = x PROVE x \in A \cup B
        BY <1>3, <1>5, <1>6, <1>7, <2>2
  <2> QED BY <2>1, <2>2
<1>10. ASSUME NEW j \in 1..(m + n), NEW k \in 1..(m + n), j < k PROVE r[j] < r[k]
  <2>1. CASE k \in 1..m
    <3>1. j \in 1..m
          BY <1>1, <1>10, <2>1
    <3> QED BY <1>3, <1>8, <1>10, <2>1, <3>1
  <2>2. CASE j > m
    <3>1. j - m \in 1..n /\ k - m \in 1..n /\ r[j] = q[j - m] /\ r[k] = q[k - m]
      <4>1. j \notin 1..m /\ k \notin 1..m
            BY <1>1, <1>10, <2>2
      <4> QED BY <1>5, <1>10, <4>1
    <3>2. j - m < k - m
          BY <1>1, <1>10
    <3> QED BY <1>8, <3>1, <3>2
  <2>3. CASE j \in 1..m /\ k > m
    <3>1. r[j] = p[j] /\ k - m \in 1..n /\ r[k] = q[k - m]
          BY <1>1, <1>3, <1>5, <2>3
    <3>2. p[j] \in A /\ q[k - m] \in B
          BY <1>6, <1>7, <2>3, <3>1
    <3> QED BY <3>1, <3>2
  <2> QED BY <1>1, <1>5, <2>1, <2>2, <2>3
<1> QED BY <1>2, <1>9, <1>10 DEF Lists, r

\* One number more.
LEMMA ListsOne ==
    ASSUME NEW x \in Nat
    PROVE  Lists(<<x>>, {x})
BY DEF Lists

\* Every set of numbers up to n has a list.
LEMMA ListsExists ==
    ASSUME NEW n \in Nat, NEW S \in SUBSET (1..n)
    PROVE  \E p : Lists(p, S)
<1> DEFINE N == {m \in Nat : \A A \in SUBSET (1..m) : \E p : Lists(p, A)}
<1>1. 0 \in N
  <2> SUFFICES ASSUME NEW A \in SUBSET (1..0) PROVE \E p : Lists(p, A)
      OBVIOUS
  <2>1. A = {}
        OBVIOUS
  <2> QED BY <2>1, ListsEmpty
<1>2. ASSUME NEW m \in Nat, m \in N PROVE m + 1 \in N
  <2> SUFFICES ASSUME NEW A \in SUBSET (1..(m + 1)) PROVE \E p : Lists(p, A)
      OBVIOUS
  <2> DEFINE B == A \ {m + 1}
  <2>1. B \in SUBSET (1..m)
        OBVIOUS
  <2>2. PICK p : Lists(p, B)
        BY <1>2, <2>1
  <2>3. CASE m + 1 \notin A
    <3>1. A = B
          BY <2>3
    <3> QED BY <2>2, <3>1
  <2>4. CASE m + 1 \in A
    <3>1. A = B \cup {m + 1} /\ m + 1 \in Nat /\ \A a \in B : \A b \in {m + 1} : a < b
          BY <2>1, <2>4
    <3> HIDE DEF B
    <3>2. Lists(<<m + 1>>, {m + 1})
          BY <3>1, ListsOne
    <3>3. Lists(p \o <<m + 1>>, B \cup {m + 1})
          BY <2>2, <3>1, <3>2, ListsConcat
    <3> QED BY <3>1, <3>3
  <2> QED BY <2>3, <2>4
<1> HIDE DEF N
<1>3. n \in N
      BY <1>1, <1>2, SetInduction
<1> QED BY <1>3 DEF N

\* Ascending lists the set.
LEMMA AscendingLists ==
    ASSUME NEW n \in Nat, NEW S \in SUBSET (1..n)
    PROVE  Lists(Ascending(S), S)
<1>1. PICK p : Lists(p, S)
      BY ListsExists
<1>2. Ascending(S) = p
      BY <1>1, ListsIs
<1> QED BY <1>1, <1>2

\* The list of an interval.
LEMMA ListsInterval ==
    ASSUME NEW n \in Nat
    PROVE  Lists([k \in 1..n |-> k], 1..n)
<1> DEFINE p == [k \in 1..n |-> k]
<1>1. p \in Seq(Nat) /\ Len(p) = n /\ \A k \in 1..n : p[k] = k
      OBVIOUS
<1> HIDE DEF p
<1>2. Lists(p, 1..n)
      BY <1>1 DEF Lists
<1> QED BY <1>2 DEF p

\* What Picked picks, given the list.
LEMMA PickedIs ==
    ASSUME NEW s, NEW at, NEW p, Lists(p, at)
    PROVE  Picked(s, at) = [k \in 1..Len(p) |-> s[p[k]]]
<1>1. Cardinality(at) = Len(p) /\ Ascending(at) = p
      BY ListsIs
<1> QED BY <1>1 DEF Picked

\* The first elements of a function on numbers.
LEMMA SeqUpTo ==
    ASSUME NEW U, NEW n \in Nat, NEW f, \A k \in 1..n : f[k] \in U
    PROVE  /\ [k \in 1..n |-> f[k]] \in Seq(U) /\ Len([k \in 1..n |-> f[k]]) = n
           /\ DOMAIN [k \in 1..n |-> f[k]] = 1..n
OBVIOUS

\* What is picked is of the elements' type.
LEMMA PickedType ==
    ASSUME NEW U, NEW s \in Seq(U), NEW n \in Nat, n = Len(s), NEW at \in SUBSET (1..n)
    PROVE  Picked(s, at) \in Seq(U) /\ Len(Picked(s, at)) = Cardinality(at)
<1> DEFINE p == Ascending(at)
<1>2. Lists(p, at)
      BY AscendingLists
<1> HIDE DEF p
<1>3. Cardinality(at) = Len(p) /\ Picked(s, at) = [k \in 1..Len(p) |-> s[p[k]]]
      BY <1>2, ListsIs, PickedIs
<1>4. p \in Seq(Nat) /\ Len(p) \in Nat /\ \A k \in 1..Len(p) : p[k] \in at
      BY <1>2 DEF Lists
<1>5. \A k \in 1..Len(p) : s[p[k]] \in U
      BY <1>4
<1> QED BY <1>3, <1>4, <1>5

\* Everything picked.
LEMMA PickedAll ==
    ASSUME NEW U, NEW s \in Seq(U)
    PROVE  Picked(s, 1..Len(s)) = s
<1> DEFINE n == Len(s)
           p == [k \in 1..n |-> k]
<1>1. n \in Nat /\ s = [k \in 1..n |-> s[k]]
      OBVIOUS
<1>2. Lists(p, 1..n) /\ Len(p) = n /\ \A k \in 1..n : p[k] = k
      BY <1>1, ListsInterval
<1> HIDE DEF p
<1>3. Picked(s, 1..n) = [k \in 1..n |-> s[p[k]]]
      BY <1>2, PickedIs
<1> QED BY <1>1, <1>2, <1>3

\* Lower places are picked before higher ones.
LEMMA PickedConcat ==
    ASSUME NEW U, NEW s \in Seq(U), NEW n \in Nat, n = Len(s),
           NEW A \in SUBSET (1..n), NEW B \in SUBSET (1..n), \A a \in A : \A b \in B : a < b
    PROVE  Picked(s, A \cup B) = Picked(s, A) \o Picked(s, B)
<1> DEFINE p == Ascending(A)
           q == Ascending(B)
           l == Picked(s, A \cup B)
           a == Picked(s, A)
           b == Picked(s, B)
           r == a \o b
           pq == p \o q
<1>2. Lists(p, A) /\ Lists(q, B)
      BY AscendingLists
<1> HIDE DEF p, q
<1>3. Lists(pq, A \cup B)
      BY <1>2, ListsConcat
<1>4. p \in Seq(Nat) /\ q \in Seq(Nat)
      BY <1>2 DEF Lists
<1>5. a = [k \in 1..Len(p) |-> s[p[k]]] /\ b = [k \in 1..Len(q) |-> s[q[k]]]
      BY <1>2, PickedIs
<1> HIDE DEF pq
<1>6. l = [k \in 1..Len(pq) |-> s[pq[k]]]
      BY <1>3, PickedIs
<1>7. a \in Seq(U) /\ b \in Seq(U) /\ l \in Seq(U)
  <2>1. A \cup B \in SUBSET (1..n)
        OBVIOUS
  <2> QED BY <2>1, PickedType
<1> HIDE DEF l, a, b
<1>8. /\ Len(a) = Len(p) /\ Len(b) = Len(q) /\ Len(l) = Len(p) + Len(q)
      /\ Len(p) \in Nat /\ Len(q) \in Nat
      BY <1>4, <1>5, <1>6 DEF pq
<1>9. r \in Seq(U) /\ Len(r) = Len(l)
      BY <1>7, <1>8
<1>10. ASSUME NEW k \in 1..Len(l) PROVE l[k] = r[k]
  <2>1. l[k] = s[(p \o q)[k]] /\ Len(p) \in Nat /\ Len(q) \in Nat /\ k \in 1..(Len(p) + Len(q))
        BY <1>4, <1>6, <1>8 DEF pq
  <2>2. CASE k <= Len(p)
    <3>1. (p \o q)[k] = p[k] /\ k \in 1..Len(p) /\ r[k] = a[k]
          BY <1>4, <1>7, <1>8, <2>1, <2>2
    <3> QED BY <1>5, <2>1, <3>1
  <2>3. CASE k > Len(p)
    <3>1. (p \o q)[k] = q[k - Len(p)] /\ k - Len(p) \in 1..Len(q) /\ r[k] = b[k - Len(p)]
          BY <1>4, <1>7, <1>8, <2>1, <2>3
    <3> QED BY <1>5, <2>1, <3>1
  <2> QED BY <1>8, <2>1, <2>2, <2>3
<1> HIDE DEF r
<1>11. l = r
      BY <1>7, <1>9, <1>10, SeqEqual
<1> QED BY <1>11 DEF l, r, a, b

\* What is picked depends on those places only.
LEMMA PickedSame ==
    ASSUME NEW n \in Nat, NEW s, NEW t, NEW at, at \subseteq 1..n, \A i \in at : s[i] = t[i]
    PROVE  Picked(s, at) = Picked(t, at)
<1> DEFINE p == Ascending(at)
<1>2. Lists(p, at)
      BY AscendingLists
<1> HIDE DEF p
<1>3. /\ Picked(s, at) = [k \in 1..Len(p) |-> s[p[k]]]
      /\ Picked(t, at) = [k \in 1..Len(p) |-> t[p[k]]]
      BY <1>2, PickedIs
<1>4. \A k \in 1..Len(p) : p[k] \in at
      BY <1>2 DEF Lists
<1> QED BY <1>3, <1>4

\* One place picked.
LEMMA PickedOne ==
    ASSUME NEW s, NEW n \in Nat
    PROVE  Picked(s, {n}) = <<s[n]>>
<1>1. Lists(<<n>>, {n}) /\ Len(<<n>>) = 1
      BY ListsOne
<1>2. Picked(s, {n}) = [k \in 1..Len(<<n>>) |-> s[<<n>>[k]]]
      BY <1>1, PickedIs
<1> QED BY <1>1, <1>2

----------------------------------------------------------------------------
(* More on sequences put together.                                         *)

\* Empty sequences add nothing.
LEMMA FlattenPicked ==
    ASSUME NEW T, NEW s \in Seq(Seq(T))
    PROVE  FlattenSeq(Picked(s, {i \in 1..Len(s) : s[i] # <<>>})) = FlattenSeq(s)
<1> DEFINE U == Seq(T)
           K(u) == {i \in 1..Len(u) : u[i] # <<>>}
           P == {u \in Seq(U) : FlattenSeq(Picked(u, K(u))) = FlattenSeq(u)}
<1>1. <<>> \in P
  <2>1. K(<<>>) = {} /\ <<>> \in Seq(U)
        OBVIOUS
  <2>2. Picked(<<>>, {}) = <<>>
    <3>1. Lists(<<>>, {}) /\ Len(<<>>) = 0
          BY ListsEmpty
    <3>2. Picked(<<>>, {}) = [k \in 1..Len(<<>>) |-> <<>>[<<>>[k]]]
          BY <3>1, PickedIs
    <3> QED BY <3>1, <3>2
  <2> HIDE DEF K, U
  <2> QED BY <2>1, <2>2
<1>2. ASSUME NEW u \in Seq(U), NEW x \in U, u \in P PROVE Append(u, x) \in P
  <2> DEFINE t == Append(u, x)
             n == Len(u)
             m == n + 1
  <2>1. n \in Nat /\ m \in Nat /\ t \in Seq(U) /\ Len(t) = m /\ t[m] = x /\ \A i \in 1..n : t[i] = u[i]
        OBVIOUS
  <2>2. K(u) \in SUBSET (1..n) /\ K(u) \in SUBSET (1..m) /\ m = Len(t) /\ n = Len(u)
        BY <2>1
  <2>3. FlattenSeq(t) = FlattenSeq(u) \o x
        BY FlattenAppend
  <2>4. Picked(t, K(u)) = Picked(u, K(u)) /\ Picked(u, K(u)) \in Seq(U)
    <3>1. \A i \in K(u) : t[i] = u[i]
          BY <2>1, <2>2
    <3> HIDE DEF K, t, n, m
    <3>2. Picked(t, K(u)) = Picked(u, K(u))
          BY ONLY <2>1, <2>2, <3>1, PickedSame
    <3>3. Picked(u, K(u)) \in Seq(U)
          BY <2>2, PickedType
    <3> QED BY <3>2, <3>3
  <2>5. FlattenSeq(Picked(u, K(u))) = FlattenSeq(u)
        BY <1>2
  <2>6. CASE x = <<>>
    <3>1. K(t) = K(u)
          BY <2>1, <2>6
    <3>2. FlattenSeq(u) \o <<>> = FlattenSeq(u)
          BY FlattenType, ConcatEmptySeq
    <3> HIDE DEF K, t, n
    <3> QED BY <2>1, <2>3, <2>4, <2>5, <2>6, <3>1, <3>2 DEF t
  <2>7. CASE x # <<>>
    <3>1. K(t) = K(u) \cup {m} /\ (\A a \in K(u) : \A b \in {m} : a < b) /\ {m} \in SUBSET (1..m)
          BY <2>1, <2>7
    <3> HIDE DEF K, t, m
    <3>2. Picked(t, K(t)) = Picked(t, K(u)) \o Picked(t, {m})
      <4>1. t \in Seq(U) /\ m \in Nat /\ m = Len(t) /\ K(u) \in SUBSET (1..m) /\ {m} \in SUBSET (1..m)
            BY <2>1, <2>2, <3>1
      <4>2. \A a \in K(u) : \A b \in {m} : a < b
            BY <3>1
      <4>3. Picked(t, K(u) \cup {m}) = Picked(t, K(u)) \o Picked(t, {m})
            BY ONLY <4>1, <4>2, PickedConcat
      <4> QED BY <3>1, <4>3
    <3>3. Picked(t, {m}) = <<x>>
          BY <2>1, PickedOne
    <3> DEFINE v == Picked(u, K(u))
    <3>6. v \in Seq(U) /\ FlattenSeq(v) = FlattenSeq(u) /\ Picked(t, K(t)) = v \o <<x>>
          BY <2>4, <2>5, <3>2, <3>3
    <3> HIDE DEF v
    <3>4. v \o <<x>> = Append(v, x)
          BY <3>6, AppendIsConcat
    <3>5. FlattenSeq(Append(v, x)) = FlattenSeq(v) \o x
          BY <3>6, FlattenAppend
    <3>7. FlattenSeq(Picked(t, K(t))) = FlattenSeq(t)
          BY ONLY <2>3, <3>6, <3>4, <3>5
    <3> QED BY <2>1, <3>7 DEF t
  <2> QED BY <2>6, <2>7
<1> HIDE DEF P
<1>3. Seq(U) \subseteq P
      BY <1>1, <1>2, SeqInduction
<1>4. s \in P
      BY <1>3
<1> QED BY <1>4 DEF P

\* A function over the elements of a sequence.
Over(g, s) == [k \in 1..Len(s) |-> g[s[k]]]

\* It does not matter whether it is before or after they are put together.
LEMMA FlattenOver ==
    ASSUME NEW T, NEW U, NEW g \in [T -> U], NEW s \in Seq(Seq(T))
    PROVE  FlattenSeq([i \in 1..Len(s) |-> Over(g, s[i])]) = Over(g, FlattenSeq(s))
<1> DEFINE V == Seq(T)
           M(u) == [i \in 1..Len(u) |-> Over(g, u[i])]
           P == {u \in Seq(V) : FlattenSeq(M(u)) = Over(g, FlattenSeq(u))}
<1>1. \A x \in V : Over(g, x) \in Seq(U) /\ Len(Over(g, x)) = Len(x)
      BY DEF Over
<1>2. \A u \in Seq(V) : M(u) \in Seq(Seq(U))
  <2> SUFFICES ASSUME NEW u \in Seq(V) PROVE M(u) \in Seq(Seq(U))
      OBVIOUS
  <2>1. Len(u) \in Nat /\ \A i \in 1..Len(u) : Over(g, u[i]) \in Seq(U)
        BY <1>1
  <2> QED BY <2>1
<1>3. <<>> \in P
  <2>1. M(<<>>) = <<>> /\ <<>> \in Seq(V) /\ Over(g, <<>>) = <<>>
        BY DEF Over
  <2> HIDE DEF M, V
  <2> QED BY <2>1, FlattenEmpty
<1>4. ASSUME NEW u \in Seq(V), NEW x \in V, u \in P PROVE Append(u, x) \in P
  <2> DEFINE t == Append(u, x)
             f == FlattenSeq(u)
  <2>1. t \in Seq(V) /\ Len(u) \in Nat /\ Len(t) = Len(u) + 1
        OBVIOUS
  <2>2. M(t) = Append(M(u), Over(g, x))
    <3>1. M(u) \in Seq(Seq(U)) /\ Over(g, x) \in Seq(U) /\ Len(M(u)) = Len(u)
          BY <1>1, <1>2, <2>1
    <3>2. Append(M(u), Over(g, x)) \in Seq(Seq(U)) /\ Len(Append(M(u), Over(g, x))) = Len(u) + 1
          BY <3>1
    <3>3. M(t) \in Seq(Seq(U)) /\ Len(M(t)) = Len(u) + 1
      <4>1. M(t) \in Seq(Seq(U))
            BY <1>2, <2>1
      <4>2. M(t) = [i \in 1..(Len(u) + 1) |-> Over(g, t[i])]
            BY <2>1
      <4> HIDE DEF M
      <4> QED BY <2>1, <4>1, <4>2
    <3>4. ASSUME NEW i \in 1..(Len(u) + 1) PROVE M(t)[i] = Append(M(u), Over(g, x))[i]
      <4>1. CASE i = Len(u) + 1
        <5>1. t[i] = x
              BY <4>1
        <5>2. M(t)[i] = Over(g, t[i])
              BY <2>1
        <5>3. Append(M(u), Over(g, x))[i] = Over(g, x)
              BY <3>1, <4>1
        <5> QED BY <5>1, <5>2, <5>3
      <4>2. CASE i \in 1..Len(u)
        <5>1. t[i] = u[i]
              BY <4>2
        <5>2. M(t)[i] = Over(g, t[i]) /\ M(u)[i] = Over(g, u[i])
              BY <2>1, <4>2
        <5>3. Append(M(u), Over(g, x))[i] = M(u)[i]
              BY <3>1, <4>2
        <5> QED BY <5>1, <5>2, <5>3
      <4> QED BY <2>1, <4>1, <4>2
    <3> DEFINE a == M(t)
               b == Append(M(u), Over(g, x))
    <3>5. a \in Seq(Seq(U)) /\ b \in Seq(Seq(U)) /\ Len(a) = Len(b) /\ \A i \in 1..Len(a) : a[i] = b[i]
          BY <3>2, <3>3, <3>4
    <3> HIDE DEF a, b
    <3>6. a = b
          BY <3>5, SeqEqual
    <3> QED BY <3>6 DEF a, b
  <2>3. FlattenSeq(Append(M(u), Over(g, x))) = FlattenSeq(M(u)) \o Over(g, x)
    <3>1. M(u) \in Seq(Seq(U)) /\ Over(g, x) \in Seq(U)
          BY <1>1, <1>2
    <3> HIDE DEF M
    <3> QED BY <3>1, FlattenAppend
  <2>4. f \in V
        BY FlattenType
  <2>5. FlattenSeq(t) = f \o x
        BY FlattenAppend
  <2> HIDE DEF f
  <2>6. Over(g, f \o x) = Over(g, f) \o Over(g, x)
    <3>1. f \o x \in V /\ Len(f \o x) = Len(f) + Len(x) /\ Len(f) \in Nat /\ Len(x) \in Nat
          BY <2>4
    <3>2. Over(g, f \o x) \in Seq(U) /\ Len(Over(g, f \o x)) = Len(f) + Len(x)
          BY <1>1, <3>1
    <3>3. /\ Over(g, f) \in Seq(U) /\ Over(g, x) \in Seq(U)
          /\ Len(Over(g, f)) = Len(f) /\ Len(Over(g, x)) = Len(x)
          BY <1>1, <2>4
    <3>4. ASSUME NEW i \in 1..(Len(f) + Len(x))
          PROVE  Over(g, f \o x)[i] = (Over(g, f) \o Over(g, x))[i]
      <4>1. Over(g, f \o x)[i] = g[(f \o x)[i]]
            BY <3>1 DEF Over
      <4>2. CASE i <= Len(f)
        <5>1. (f \o x)[i] = f[i]
              BY <2>4, <4>2
        <5>2. Over(g, f)[i] = g[f[i]]
              BY <3>1, <4>2 DEF Over
        <5>3. (Over(g, f) \o Over(g, x))[i] = Over(g, f)[i]
              BY <3>3, <3>1, <4>2
        <5> QED BY <4>1, <5>1, <5>2, <5>3
      <4>3. CASE i > Len(f)
        <5>1. (f \o x)[i] = x[i - Len(f)]
              BY <2>4, <4>3
        <5>2. Over(g, x)[i - Len(f)] = g[x[i - Len(f)]]
              BY <3>1, <4>3 DEF Over
        <5>3. (Over(g, f) \o Over(g, x))[i] = Over(g, x)[i - Len(f)]
              BY <3>3, <3>1, <4>3
        <5> QED BY <4>1, <5>1, <5>2, <5>3
      <4>4. i <= Len(f) \/ i > Len(f)
            BY <3>1
      <4> QED BY <4>2, <4>3, <4>4
    <3> DEFINE a == Over(g, f \o x)
               b == Over(g, f) \o Over(g, x)
    <3>5. a \in Seq(U) /\ b \in Seq(U) /\ Len(a) = Len(b) /\ \A i \in 1..Len(a) : a[i] = b[i]
          BY <3>2, <3>3, <3>4
    <3> HIDE DEF a, b
    <3>6. a = b
          BY <3>5, SeqEqual
    <3> QED BY <3>6 DEF a, b
  <2>7. FlattenSeq(M(u)) = Over(g, f)
        BY <1>4 DEF f
  <2>8. FlattenSeq(M(t)) = Over(g, FlattenSeq(t))
        BY ONLY <2>2, <2>3, <2>5, <2>6, <2>7
  <2> HIDE DEF M
  <2> QED BY <2>1, <2>8
<1> HIDE DEF P
<1>5. Seq(V) \subseteq P
      BY <1>3, <1>4, SeqInduction
<1>6. s \in P
      BY <1>5
<1> QED BY <1>6 DEF P

\* The first sequences put together, for every number of them.
Flat(s) == [j \in 0..Len(s) |-> FlattenSeq([k \in 1..j |-> s[k]])]

\* One step to the next.
LEMMA FlatStep ==
    ASSUME NEW T, NEW s \in Seq(Seq(T)), NEW n \in Nat, n = Len(s)
    PROVE  /\ Flat(s)[0] = <<>> /\ Flat(s)[n] = FlattenSeq(s)
           /\ \A j \in 0..n : Flat(s)[j] \in Seq(T)
           /\ \A j \in 1..n : Flat(s)[j] = Flat(s)[j - 1] \o s[j]
<1> DEFINE c == [j \in 0..n |-> [k \in 1..j |-> s[k]]]
<1>0. n \in Nat
      OBVIOUS
<1>1. s = [k \in 1..n |-> s[k]] /\ \A k \in 1..n : s[k] \in Seq(T)
      OBVIOUS
<1>2. \A j \in 0..n : c[j] = [k \in 1..j |-> s[k]]
      OBVIOUS
<1>3. \A j \in 0..n : Flat(s)[j] = FlattenSeq(c[j])
      BY <1>2 DEF Flat
<1> HIDE DEF c
<1>4. c[n] = s /\ c[0] = <<>>
  <2>1. c[n] = [k \in 1..n |-> s[k]] /\ c[0] = [k \in 1..0 |-> s[k]]
    <3>1. 0 \in 0..n /\ n \in 0..n
          BY <1>0
    <3>2. c[n] = [k \in 1..n |-> s[k]]
          BY ONLY <1>2, <3>1
    <3>3. c[0] = [k \in 1..0 |-> s[k]]
          BY ONLY <1>2, <3>1
    <3> QED BY <3>2, <3>3
  <2>2. [k \in 1..0 |-> s[k]] = <<>>
        OBVIOUS
  <2> QED BY <1>1, <2>1, <2>2
<1>5. ASSUME NEW j \in 0..n PROVE c[j] \in Seq(Seq(T)) /\ Len(c[j]) = j
  <2>1. \A k \in 1..j : s[k] \in Seq(T)
        BY <1>1
  <2>2. c[j] = [k \in 1..j |-> s[k]] /\ j \in Nat
    <3>1. c[j] = [k \in 1..j |-> s[k]]
          BY ONLY <1>2, j \in 0..n
    <3>2. j \in Nat
          BY ONLY <1>0, j \in 0..n
    <3> QED BY <3>1, <3>2
  <2>3. [k \in 1..j |-> s[k]] \in Seq(Seq(T)) /\ Len([k \in 1..j |-> s[k]]) = j
        BY ONLY <2>1, <2>2, SeqUpTo
  <2> QED BY <2>2, <2>3
<1>6. ASSUME NEW i \in 1..n PROVE c[i] = Append(c[i - 1], s[i])
  <2> DEFINE u == c[i - 1]
             a == c[i]
             b == Append(u, s[i])
  <2>1. i - 1 \in 0..n /\ i \in 0..n /\ i \in Nat
        OBVIOUS
  <2>2. u \in Seq(Seq(T)) /\ Len(u) = i - 1 /\ a \in Seq(Seq(T)) /\ Len(a) = i
        BY <1>5, <2>1
  <2>3. (\A k \in 1..(i - 1) : u[k] = s[k]) /\ (\A k \in 1..i : a[k] = s[k])
    <3>1. u = [k \in 1..(i - 1) |-> s[k]] /\ a = [k \in 1..i |-> s[k]]
          BY ONLY <1>0, <1>2, <2>1
    <3> QED BY ONLY <2>1, <3>1
  <2> HIDE DEF u, a
  <2>4. s[i] \in Seq(T)
        BY <1>1
  <2>5. b \in Seq(Seq(T)) /\ Len(b) = i /\ b[i] = s[i] /\ \A k \in 1..(i - 1) : b[k] = u[k]
        BY <2>1, <2>2, <2>4
  <2> HIDE DEF b
  <2>6. ASSUME NEW k \in 1..i PROVE a[k] = b[k]
    <3>1. k = i \/ k \in 1..(i - 1)
          BY <2>1
    <3> QED BY <2>3, <2>5, <3>1
  <2>7. a = b
        BY <2>2, <2>5, <2>6, SeqEqual
  <2> QED BY <2>7 DEF a, b, u
<1>7. ASSUME NEW j \in 1..n PROVE Flat(s)[j] = Flat(s)[j - 1] \o s[j]
  <2>1. j - 1 \in 0..n /\ j \in 0..n
        OBVIOUS
  <2>2. c[j - 1] \in Seq(Seq(T)) /\ s[j] \in Seq(T)
        BY <1>1, <1>5, <2>1
  <2>3. FlattenSeq(Append(c[j - 1], s[j])) = FlattenSeq(c[j - 1]) \o s[j]
        BY <2>2, FlattenAppend
  <2> QED BY <1>3, <1>6, <2>1, <2>3
<1>8. ASSUME NEW j \in 0..n PROVE Flat(s)[j] \in Seq(T)
      BY <1>3, <1>5, FlattenType
<1>9. Flat(s)[0] = <<>> /\ Flat(s)[n] = FlattenSeq(s)
  <2>1. 0 \in 0..n /\ n \in 0..n
        OBVIOUS
  <2> QED BY <1>3, <1>4, <2>1, FlattenEmpty
<1> QED BY <1>7, <1>8, <1>9

\* The pieces between cuts, put together again.
LEMMA FlattenCuts ==
    ASSUME NEW T, NEW s \in Seq(T), NEW m \in Nat, NEW cut \in [0..m -> Nat],
           \A k \in 0..m : cut[k] <= Len(s),
           \A k \in 1..m : cut[k - 1] <= cut[k]
    PROVE  /\ [k \in 1..m |-> SubSeq(s, cut[k - 1] + 1, cut[k])] \in Seq(Seq(T))
           /\ cut[0] <= cut[m]
           /\ FlattenSeq([k \in 1..m |-> SubSeq(s, cut[k - 1] + 1, cut[k])])
              = SubSeq(s, cut[0] + 1, cut[m])
<1> DEFINE D == [k \in 1..m |-> SubSeq(s, cut[k - 1] + 1, cut[k])]
           f == Flat(D)
           Q(j) == j <= m => cut[0] <= cut[j] /\ f[j] = SubSeq(s, cut[0] + 1, cut[j])
           N == {j \in Nat : Q(j)}
<1>1. ASSUME NEW j \in 1..m
      PROVE  /\ D[j] \in Seq(T) /\ D[j] = SubSeq(s, cut[j - 1] + 1, cut[j])
             /\ cut[j - 1] \in Nat /\ cut[j] \in Nat /\ cut[j - 1] <= cut[j] /\ cut[j] <= Len(s)
  <2>1. cut[j - 1] \in Nat /\ cut[j] \in Nat /\ cut[j - 1] <= cut[j] /\ cut[j] <= Len(s)
        OBVIOUS
  <2>2. \A k \in (cut[j - 1] + 1)..cut[j] : s[k] \in T
        BY <2>1
  <2>3. SubSeq(s, cut[j - 1] + 1, cut[j]) \in Seq(T)
        BY <2>1, <2>2, SubSeqProperties
  <2>4. D[j] = SubSeq(s, cut[j - 1] + 1, cut[j])
        OBVIOUS
  <2> HIDE DEF D
  <2> QED BY <2>1, <2>3, <2>4
<1>2. D = [k \in 1..m |-> D[k]]
      OBVIOUS
<1> HIDE DEF D
<1>3. D \in Seq(Seq(T)) /\ Len(D) = m
  <2>1. \A k \in 1..m : D[k] \in Seq(T)
        BY <1>1
  <2>2. [k \in 1..m |-> D[k]] \in Seq(Seq(T)) /\ Len([k \in 1..m |-> D[k]]) = m
        BY ONLY <2>1, m \in Nat, SeqUpTo
  <2> QED BY <1>2, <2>2
<1>4. f[0] = <<>> /\ f[m] = FlattenSeq(D) /\ \A j \in 1..m : f[j] = f[j - 1] \o D[j]
      BY <1>3, FlatStep
<1> HIDE DEF f
<1>5. 0 \in N
  <2>1. cut[0] \in Nat
        OBVIOUS
  <2>2. SubSeq(s, cut[0] + 1, cut[0]) = <<>>
        BY <2>1, SubSeqEmpty
  <2>3. Q(0)
        BY <1>4, <2>1, <2>2
  <2> HIDE DEF Q
  <2> QED BY <2>3
<1>6. ASSUME NEW j \in Nat, j \in N PROVE j + 1 \in N
  <2> DEFINE i == j + 1
  <2>1. i \in Nat
        OBVIOUS
  <2> SUFFICES ASSUME i <= m PROVE Q(i)
      BY <2>1
  <2>2. i \in 1..m /\ i - 1 = j /\ j \in 0..m /\ j <= m
        OBVIOUS
  <2> HIDE DEF i
  <2>3. cut[0] <= cut[j] /\ f[j] = SubSeq(s, cut[0] + 1, cut[j])
        BY <1>6, <2>2
  <2>4. /\ f[i] = f[j] \o D[i] /\ D[i] = SubSeq(s, cut[j] + 1, cut[i])
        /\ cut[j] <= cut[i] /\ cut[i] <= Len(s) /\ cut[j] \in Nat /\ cut[i] \in Nat /\ cut[0] \in Nat
    <3>1. f[i] = f[j] \o D[i]
          BY <1>4, <2>2
    <3>2. cut[0] \in Nat
          OBVIOUS
    <3> QED BY <1>1, <2>2, <3>1, <3>2
  <2>5. SubSeq(s, cut[0] + 1, cut[j]) \o SubSeq(s, cut[j] + 1, cut[i]) = SubSeq(s, cut[0] + 1, cut[i])
    <3> DEFINE a == cut[0]
               b == cut[j]
               d == cut[i]
    <3>1. a \in Nat /\ b \in Nat /\ d \in Nat /\ a <= b /\ b <= d /\ d <= Len(s) /\ Len(s) \in Nat
          BY <2>3, <2>4
    <3> HIDE DEF a, b, d
    <3>2. a + 1 \in 1..(Len(s) + 1) /\ b \in (a + 1) - 1 .. Len(s) /\ d \in b..Len(s)
          BY <3>1
    <3>3. SubSeq(s, a + 1, b) \o SubSeq(s, b + 1, d) = SubSeq(s, a + 1, d)
          BY <3>2, ConcatAdjacentSubSeq
    <3> QED BY <3>3 DEF a, b, d
  <2>6. cut[0] <= cut[i]
        BY <2>3, <2>4
  <2> QED BY <2>3, <2>4, <2>5, <2>6
<1>7. m \in N
  <2> HIDE DEF N
  <2> QED BY <1>5, <1>6, SetInduction
<1>8. cut[0] <= cut[m] /\ FlattenSeq(D) = SubSeq(s, cut[0] + 1, cut[m])
  <2>1. m <= m
        OBVIOUS
  <2> QED BY <1>4, <1>7, <2>1
<1> QED BY <1>3, <1>8 DEF D

----------------------------------------------------------------------------
(* Rows and batches.                                                       *)

\* The rows of the table's schema, and the batches of them.
Row == [DOMAIN Types -> Value]
BatchSet ==
    {b \in [DOMAIN Types -> [type : DataTypes, held : Seq(Value), off : Nat, len : Nat]] : IsBatch(b)}

\* A batch that is one is in the set.
LEMMA BatchIn ==
    ASSUME NEW b
    PROVE  IsBatch(b) <=> b \in BatchSet
BY DEF BatchSet, IsBatch

\* The first column exists.
LEMMA FirstColumn == 1 \in DOMAIN Types /\ DOMAIN Types = 1..Len(Types) /\ Len(Types) \in Nat \ {0}
BY ArrowAssumption

\* What each column of a batch holds, and its rows.
LEMMA ColumnRowsType ==
    ASSUME NEW b \in BatchSet, NEW c \in DOMAIN Types
    PROVE  /\ NumRows(b) \in Nat /\ DOMAIN b = DOMAIN Types
           /\ Rows(b[c]) \in Seq(Value) /\ Len(Rows(b[c])) = NumRows(b)
           /\ \A r \in 1..NumRows(b) : Rows(b[c])[r] = b[c].held[b[c].off + r]
           /\ b[c].len = NumRows(b) /\ b[c].off \in Nat /\ b[c].held \in Seq(Value)
           /\ b[c].off + b[c].len <= Len(b[c].held) /\ b[c].type = Types[c]
<1> DEFINE a == b[c]
           n == NumRows(b)
<1>1. /\ a \in [type : DataTypes, held : Seq(Value), off : Nat, len : Nat]
      /\ a.type = Types[c] /\ a.len = n /\ a.off + a.len <= Len(a.held) /\ DOMAIN b = DOMAIN Types
      BY DEF BatchSet, IsBatch
<1>2. a.held \in Seq(Value) /\ a.off \in Nat /\ a.len \in Nat /\ Len(a.held) \in Nat
      BY <1>1
<1> HIDE DEF a, n
<1>3. \A i \in (a.off + 1)..(a.off + a.len) : a.held[i] \in Value
      BY <1>1, <1>2
<1>4. /\ Rows(a) \in Seq(Value) /\ Len(Rows(a)) = a.len
      /\ \A r \in 1..a.len : Rows(a)[r] = a.held[a.off + r]
  <2> DEFINE h == a.held
             i == a.off + 1
             j == a.off + a.len
  <2>1. i \in Int /\ j \in Int /\ \A k \in i..j : h[k] \in Value
        BY <1>2, <1>3
  <2>2. j - i + 1 = a.len /\ (i > j => a.len = 0) /\ \A r \in 1..a.len : i + r - 1 = a.off + r
        BY <1>2
  <2> HIDE DEF h, i, j
  <2>3. /\ SubSeq(h, i, j) \in Seq(Value) /\ Len(SubSeq(h, i, j)) = IF i <= j THEN j - i + 1 ELSE 0
        /\ \A k \in 1..(j - i + 1) : SubSeq(h, i, j)[k] = h[i + k - 1]
        BY <2>1, SubSeqProperties
  <2>4. Rows(a) = SubSeq(h, i, j)
        BY DEF Rows, h, i, j
  <2> QED BY <1>2, <2>1, <2>2, <2>3, <2>4 DEF h
<1> QED BY <1>1, <1>2, <1>4 DEF a, n

\* The rows of a batch, as a sequence.
LEMMA TuplesType ==
    ASSUME NEW b \in BatchSet
    PROVE  /\ NumRows(b) \in Nat
           /\ Tuples(b) \in Seq(Row) /\ Len(Tuples(b)) = NumRows(b)
           /\ \A r \in 1..NumRows(b) : \A c \in DOMAIN Types : Tuples(b)[r][c] = Rows(b[c])[r]
<1> DEFINE n == NumRows(b)
           t == Tuples(b)
<1>1. n \in Nat /\ DOMAIN b = DOMAIN Types
      BY FirstColumn, ColumnRowsType
<1>2. t = [r \in 1..n |-> [c \in DOMAIN Types |-> Rows(b[c])[r]]]
      BY <1>1 DEF Tuples
<1> HIDE DEF n, t
<1>3. \A r \in 1..n : \A c \in DOMAIN Types : Rows(b[c])[r] \in Value
  <2> SUFFICES ASSUME NEW r \in 1..n, NEW c \in DOMAIN Types PROVE Rows(b[c])[r] \in Value
      OBVIOUS
  <2>1. Rows(b[c]) \in Seq(Value) /\ Len(Rows(b[c])) = n
        BY ColumnRowsType DEF n
  <2> QED BY <2>1
<1>4. \A r \in 1..n : [c \in DOMAIN Types |-> Rows(b[c])[r]] \in Row
      BY <1>3 DEF Row
<1>5. t \in Seq(Row) /\ Len(t) = n /\ \A r \in 1..n : \A c \in DOMAIN Types : t[r][c] = Rows(b[c])[r]
  <2>1. \A r \in 1..n : t[r] = [c \in DOMAIN Types |-> Rows(b[c])[r]]
        BY <1>2
  <2>2. \A r \in 1..n : t[r] \in Row
        BY <1>4, <2>1
  <2>3. t = [r \in 1..n |-> t[r]]
        BY <1>2
  <2>4. t \in Seq(Row) /\ Len(t) = n
    <3>1. [r \in 1..n |-> t[r]] \in Seq(Row) /\ Len([r \in 1..n |-> t[r]]) = n
          BY ONLY <1>1, <2>2, SeqUpTo
    <3> QED BY <2>3, <3>1
  <2>5. ASSUME NEW r \in 1..n, NEW c \in DOMAIN Types PROVE t[r][c] = Rows(b[c])[r]
        BY <2>1
  <2> QED BY <2>4, <2>5
<1> QED BY <1>1, <1>5 DEF n, t

\* No row is the mark of a deleted one.
LEMMA RowNotEmpty ==
    ASSUME NEW t \in Row
    PROVE  t # <<>>
<1>1. 1 \in DOMAIN t
      BY FirstColumn DEF Row
<1> QED BY <1>1

----------------------------------------------------------------------------
(* filter_record_batch.                                                    *)

\* It keeps the rows named, in order.
LEMMA FilterKeeps ==
    ASSUME NEW b \in BatchSet, NEW n \in Nat, n = NumRows(b),
           NEW kept \in SUBSET (1..n)
    PROVE  /\ FilterBatch(b, kept) \in BatchSet
           /\ NumRows(FilterBatch(b, kept)) = Cardinality(kept)
           /\ Tuples(FilterBatch(b, kept)) = Picked(Tuples(b), kept)
<1> DEFINE f == FilterBatch(b, kept)
           m == Cardinality(kept)
           p == Ascending(kept)
           Col(c) == Picked(Rows(b[c]), kept)
<1>1. Lists(p, kept)
      BY AscendingLists
<1>2. m = Len(p) /\ m \in Nat /\ \A k \in 1..m : p[k] \in 1..n
  <2>1. m = Len(p)
        BY <1>1, ListsIs
  <2> HIDE DEF p, m
  <2>2. p \in Seq(Nat) /\ \A k \in 1..Len(p) : p[k] \in kept
        BY <1>1 DEF Lists
  <2> QED BY <2>1, <2>2
<1>3. DOMAIN b = DOMAIN Types
      BY FirstColumn, ColumnRowsType
<1>4. f = [c \in DOMAIN Types |-> Array(b[c].type, Col(c))]
      BY <1>3 DEF FilterBatch
<1> HIDE DEF f, m, p
<1>5. ASSUME NEW c \in DOMAIN Types
      PROVE  Col(c) \in Seq(Value) /\ Len(Col(c)) = m
             /\ \A k \in 1..m : Col(c)[k] = Rows(b[c])[p[k]]
  <2>1. Rows(b[c]) \in Seq(Value) /\ n = Len(Rows(b[c]))
        BY ColumnRowsType
  <2>2. Col(c) \in Seq(Value) /\ Len(Col(c)) = Cardinality(kept)
        BY <2>1, PickedType
  <2>3. Col(c) = [k \in 1..Len(p) |-> Rows(b[c])[p[k]]]
        BY <1>1, PickedIs
  <2> HIDE DEF Col
  <2> QED BY <1>2, <2>2, <2>3 DEF m
<1> HIDE DEF Col
<1>6. ASSUME NEW c \in DOMAIN Types
      PROVE  /\ f[c] \in [type : DataTypes, held : Seq(Value), off : Nat, len : Nat]
             /\ f[c].type = Types[c] /\ f[c].len = m /\ f[c].off = 0 /\ f[c].held = Col(c)
  <2>1. b[c].type = Types[c] /\ Types[c] \in DataTypes
        BY ColumnRowsType, ArrowAssumption
  <2>2. f[c] = [type |-> Types[c], held |-> Col(c), off |-> 0, len |-> m]
        BY <1>4, <1>5, <2>1 DEF Array
  <2> QED BY <1>2, <1>5, <2>1, <2>2
<1>7. NumRows(f) = m
      BY <1>6, FirstColumn DEF NumRows
<1>8. f \in BatchSet
  <2>1. f \in [DOMAIN Types -> [type : DataTypes, held : Seq(Value), off : Nat, len : Nat]]
        BY <1>4, <1>6
  <2>2. \A c \in DOMAIN Types : f[c].type = Types[c] /\ f[c].len = NumRows(f) /\ f[c].off + f[c].len <= Len(f[c].held)
        BY <1>2, <1>5, <1>6, <1>7
  <2> QED BY <2>1, <2>2 DEF BatchSet, IsBatch
<1>9. Tuples(f) = Picked(Tuples(b), kept)
  <2> DEFINE l == Tuples(f)
             t == Tuples(b)
             r == Picked(t, kept)
  <2>1. l \in Seq(Row) /\ Len(l) = m
        /\ \A k \in 1..m : \A c \in DOMAIN Types : l[k][c] = Rows(f[c])[k]
        BY <1>7, <1>8, TuplesType
  <2>2. t \in Seq(Row) /\ Len(t) = n /\ \A k \in 1..n : \A c \in DOMAIN Types : t[k][c] = Rows(b[c])[k]
        BY TuplesType
  <2>3. r = [k \in 1..Len(p) |-> t[p[k]]]
        BY <1>1, PickedIs
  <2>4. r \in Seq(Row) /\ Len(r) = m
        BY <2>2, PickedType DEF m
  <2> HIDE DEF l, t, r
  <2>5. ASSUME NEW k \in 1..m PROVE l[k] = r[k]
    <3>1. l[k] \in Row /\ r[k] \in Row /\ r[k] = t[p[k]]
          BY <1>2, <2>1, <2>3, <2>4
    <3>2. ASSUME NEW c \in DOMAIN Types PROVE l[k][c] = r[k][c]
      <4>1. Rows(f[c])[k] = f[c].held[f[c].off + k]
            BY <1>7, <1>8, ColumnRowsType
      <4>2. Rows(f[c])[k] = Col(c)[k]
            BY <1>2, <1>6, <4>1
      <4>3. Col(c)[k] = Rows(b[c])[p[k]] /\ t[p[k]][c] = Rows(b[c])[p[k]] /\ l[k][c] = Rows(f[c])[k]
            BY <1>2, <1>5, <2>1, <2>2
      <4> QED BY <3>1, <4>2, <4>3
    <3> QED BY <3>1, <3>2 DEF Row
  <2>6. l = r
        BY <2>1, <2>4, <2>5, SeqEqual
  <2> QED BY <2>6 DEF l, r, t
<1> QED BY <1>7, <1>8, <1>9 DEF f, m

----------------------------------------------------------------------------
(* Numbers that grow.                                                      *)

\* What grows at each step grows from any place to any later one.
LEMMA Monotone ==
    ASSUME NEW n \in Nat, NEW e \in [0..n -> Nat], \A i \in 1..n : e[i - 1] <= e[i],
           NEW i \in 0..n, NEW j \in 0..n, i <= j
    PROVE  e[i] <= e[j]
<1> DEFINE Q(k) == (i <= k /\ k <= n) => e[i] <= e[k]
           N == {k \in Nat : Q(k)}
<1>1. 0 \in N
      OBVIOUS
<1>2. ASSUME NEW k \in Nat, k \in N PROVE k + 1 \in N
  <2> DEFINE l == k + 1
  <2>1. l \in Nat /\ l - 1 = k
        OBVIOUS
  <2> HIDE DEF l
  <2>2. ASSUME i <= l, l <= n PROVE e[i] <= e[l]
    <3>1. CASE i = l
          BY <3>1
    <3>2. CASE i # l
      <4>1. i <= k /\ k <= n /\ l \in 1..n /\ k \in 0..n /\ l \in 0..n
            BY <2>1, <2>2, <3>2
      <4>2. e[i] <= e[k]
            BY <1>2, <4>1
      <4>3. e[l - 1] <= e[l]
            BY <4>1
      <4>4. e[i] \in Nat /\ e[k] \in Nat /\ e[l] \in Nat /\ e[k] <= e[l]
            BY <2>1, <4>1, <4>3
      <4> QED BY <4>2, <4>4
    <3> QED BY <3>1, <3>2
  <2>3. Q(l)
        BY <2>2
  <2> HIDE DEF Q
  <2> QED BY <2>1, <2>3 DEF l
<1> HIDE DEF N
<1>3. \A k \in Nat : k \in N
      BY <1>1, <1>2, SetInduction
<1> QED BY <1>3 DEF N

\* A number between the first and the last is between two neighbours.
LEMMA Between ==
    ASSUME NEW n \in Nat, NEW e \in [0..n -> Nat], NEW x \in Nat, e[0] <= x, x < e[n]
    PROVE  \E i \in 1..n : e[i - 1] <= x /\ x < e[i]
<1> DEFINE S == {i \in 0..n : x < e[i]}
<1>1. n \in S /\ S \in SUBSET Nat
      OBVIOUS
<1>2. PICK i \in S : \A j \in S : i <= j
      BY <1>1, Least
<1>3. i \in 0..n /\ x < e[i] /\ i # 0
      BY <1>2
<1>4. i - 1 \in 0..n /\ i - 1 \notin S
      BY <1>2, <1>3
<1>5. e[i - 1] <= x
      BY <1>4
<1> QED BY <1>3, <1>5

----------------------------------------------------------------------------
(* A memtable.                                                             *)

ChunkSet == [base : Nat, batch : BatchSet]
MemSet == [chunks : Seq(ChunkSet), tombstones : SUBSET Nat, nextSeqno : Nat, rows : Nat]

\* The first number after each chunk, and the first of all.
Ends(m, from) ==
    [i \in 0..Len(m.chunks) |->
        IF i = 0 THEN from ELSE m.chunks[i].base + NumRows(m.chunks[i].batch)]

\* The chunks cover the numbers from `from` on without a gap.
MemWell(m, from) ==
    /\ m \in MemSet /\ from \in Nat \ {0}
    /\ \A i \in 1..Len(m.chunks) :
        m.chunks[i].base = Ends(m, from)[i - 1] /\ NumRows(m.chunks[i].batch) > 0
    /\ m.nextSeqno = Ends(m, from)[Len(m.chunks)]
    /\ m.tombstones \subseteq from..(m.nextSeqno - 1)
    /\ m.rows = m.nextSeqno - from

\* What that says of each chunk.
LEMMA EndsFacts ==
    ASSUME NEW m, NEW from, MemWell(m, from), NEW n, NEW e, n = Len(m.chunks), e = Ends(m, from)
    PROVE  /\ n \in Nat /\ e \in [0..n -> Nat] /\ e[0] = from /\ e[n] = m.nextSeqno
           /\ from \in Nat \ {0}
           /\ \A i \in 1..n :
                /\ m.chunks[i].base = e[i - 1] /\ m.chunks[i].batch \in BatchSet
                /\ NumRows(m.chunks[i].batch) = e[i] - e[i - 1]
                /\ NumRows(m.chunks[i].batch) \in Nat
                /\ e[i - 1] < e[i]
           /\ \A i \in 0..n : from <= e[i] /\ e[i] <= m.nextSeqno
<1>1. m \in MemSet /\ from \in Nat \ {0} /\ m.nextSeqno = e[n]
      BY DEF MemWell
<1>2. m.chunks \in Seq(ChunkSet) /\ n \in Nat
      BY <1>1 DEF MemSet
<1>3. ASSUME NEW i \in 1..n
      PROVE  /\ m.chunks[i].base \in Nat /\ m.chunks[i].batch \in BatchSet
             /\ NumRows(m.chunks[i].batch) \in Nat
             /\ e[i] = m.chunks[i].base + NumRows(m.chunks[i].batch)
             /\ m.chunks[i].base = e[i - 1] /\ NumRows(m.chunks[i].batch) > 0
  <2>1. m.chunks[i] \in ChunkSet
        BY <1>2
  <2>2. m.chunks[i].base \in Nat /\ m.chunks[i].batch \in BatchSet
        BY <2>1 DEF ChunkSet
  <2>3. NumRows(m.chunks[i].batch) \in Nat
        BY <2>2, TuplesType
  <2>4. e[i] = m.chunks[i].base + NumRows(m.chunks[i].batch)
        BY <1>2 DEF Ends
  <2> QED BY <2>2, <2>3, <2>4 DEF MemWell
<1>4. e[0] = from
      BY <1>2 DEF Ends
<1>5. e \in [0..n -> Nat]
  <2>1. \A i \in 0..n : e[i] \in Nat
    <3> SUFFICES ASSUME NEW i \in 0..n PROVE e[i] \in Nat
        OBVIOUS
    <3>1. CASE i = 0
          BY <1>1, <1>4, <3>1
    <3>2. CASE i \in 1..n
      <4>1. /\ m.chunks[i].base \in Nat /\ NumRows(m.chunks[i].batch) \in Nat
            /\ e[i] = m.chunks[i].base + NumRows(m.chunks[i].batch)
            BY <1>3, <3>2
      <4> QED BY <4>1
    <3> QED BY <1>2, <3>1, <3>2
  <2>2. e = [i \in 0..n |-> e[i]]
        BY DEF Ends
  <2> QED BY <2>1, <2>2
<1>6. ASSUME NEW i \in 1..n
      PROVE  NumRows(m.chunks[i].batch) = e[i] - e[i - 1] /\ e[i - 1] < e[i]
      BY <1>3
<1>7. ASSUME NEW i \in 0..n PROVE from <= e[i] /\ e[i] <= m.nextSeqno
  <2>1. \A k \in 1..n : e[k - 1] <= e[k]
    <3> SUFFICES ASSUME NEW k \in 1..n PROVE e[k - 1] <= e[k]
        OBVIOUS
    <3>1. e[k - 1] < e[k] /\ e[k - 1] \in Nat /\ e[k] \in Nat
          BY <1>5, <1>6
    <3> QED BY <3>1
  <2>2. 0 \in 0..n /\ n \in 0..n /\ 0 <= i /\ i <= n
        BY <1>2
  <2>3. e[0] <= e[i]
        BY ONLY <1>2, <1>5, <2>1, <2>2, i \in 0..n, Monotone
  <2>4. e[i] <= e[n]
        BY ONLY <1>2, <1>5, <2>1, <2>2, i \in 0..n, Monotone
  <2> QED BY <1>1, <1>4, <2>3, <2>4
<1> QED BY <1>1, <1>2, <1>3, <1>4, <1>5, <1>6, <1>7

\* A memtable holds the numbers of its rows, deleted or not.
LEMMA HoldsIs ==
    ASSUME NEW m, NEW from, MemWell(m, from), NEW s \in Nat
    PROVE  Holds(m, s) <=> s \in from..(m.nextSeqno - 1)
<1> DEFINE n == Len(m.chunks)
           e == Ends(m, from)
<1>1. /\ n \in Nat /\ e \in [0..n -> Nat] /\ e[0] = from /\ e[n] = m.nextSeqno
      /\ from \in Nat \ {0}
      BY EndsFacts
<1>2. \A i \in 1..n :
        /\ m.chunks[i].base = e[i - 1] /\ m.chunks[i].batch \in BatchSet
        /\ NumRows(m.chunks[i].batch) = e[i] - e[i - 1]
        /\ NumRows(m.chunks[i].batch) \in Nat
        /\ e[i - 1] < e[i]
      BY EndsFacts
<1>3. \A i \in 0..n : from <= e[i] /\ e[i] <= m.nextSeqno
      BY EndsFacts
<1>4. DOMAIN m.chunks = 1..n
      BY DEF MemWell, MemSet
<1> HIDE DEF n, e
<1>5. ASSUME NEW i \in 1..n
      PROVE  s \in Seqnos(m.chunks[i]) <=> e[i - 1] <= s /\ s < e[i]
  <2>1. m.chunks[i].base = e[i - 1] /\ NumRows(m.chunks[i].batch) = e[i] - e[i - 1]
        BY <1>2
  <2>2. e[i - 1] \in Nat /\ e[i] \in Nat
        BY <1>1
  <2>3. Seqnos(m.chunks[i]) = e[i - 1] .. (e[i - 1] + (e[i] - e[i - 1]) - 1)
        BY <2>1 DEF Seqnos
  <2> QED BY <2>2, <2>3
<1>6. ASSUME NEW i \in 1..n, s \in Seqnos(m.chunks[i]) PROVE s \in from..(m.nextSeqno - 1)
  <2>1. e[i - 1] <= s /\ s < e[i]
        BY <1>5, <1>6
  <2>2. i - 1 \in 0..n /\ i \in 0..n
        BY <1>1
  <2>3. e[i - 1] \in Nat /\ e[i] \in Nat /\ m.nextSeqno \in Nat /\ from <= e[i - 1] /\ e[i] <= m.nextSeqno
        BY <1>1, <1>3, <2>2
  <2> QED BY <1>1, <2>1, <2>3
<1>7. ASSUME s \in from..(m.nextSeqno - 1) PROVE \E i \in 1..n : s \in Seqnos(m.chunks[i])
  <2>1. e[0] <= s /\ s < e[n]
        BY <1>1, <1>7
  <2>2. PICK i \in 1..n : e[i - 1] <= s /\ s < e[i]
        BY <1>1, <2>1, Between
  <2> QED BY <1>5, <2>2
<1> QED BY <1>4, <1>6, <1>7 DEF Holds

\* The numbers of a chunk's rows that are left.
LEMMA KeptLists ==
    ASSUME NEW m, NEW chunk \in ChunkSet, chunk.base > 0
    PROVE  /\ Lists(KeptSeqnos(m, chunk), Seqnos(chunk) \ m.tombstones)
           /\ Lists(Ascending(KeptRows(m, chunk)), KeptRows(m, chunk))
           /\ KeptRows(m, chunk) \in SUBSET (1..NumRows(chunk.batch))
           /\ Len(KeptSeqnos(m, chunk)) = Cardinality(KeptRows(m, chunk))
           /\ Cardinality(KeptRows(m, chunk)) = Len(Ascending(KeptRows(m, chunk)))
           /\ \A k \in 1..Cardinality(KeptRows(m, chunk)) :
                KeptSeqnos(m, chunk)[k] = chunk.base + Ascending(KeptRows(m, chunk))[k] - 1
<1> DEFINE K == KeptRows(m, chunk)
           p == Ascending(K)
           n == NumRows(chunk.batch)
           base == chunk.base
           l == Len(p)
           q == KeptSeqnos(m, chunk)
<1>1. base \in Nat \ {0} /\ n \in Nat
  <2>1. chunk.base \in Nat /\ chunk.batch \in BatchSet
        BY DEF ChunkSet
  <2> QED BY <2>1, TuplesType
<1>2. K = {r \in 1..n : base + r - 1 \notin m.tombstones}
      BY DEF KeptRows
<1> HIDE DEF K, n
<1>3. K \in SUBSET (1..n)
      BY <1>2
<1>4. Lists(p, K)
      BY <1>1, <1>3, AscendingLists
<1> HIDE DEF p
<1>5. Cardinality(K) = l
      BY <1>4, ListsIs
<1>6. p \in Seq(Nat) /\ l \in Nat
      BY <1>4 DEF Lists
<1>7. \A x : x \in K <=> \E k \in 1..l : p[k] = x
      BY <1>4 DEF Lists
<1>8. \A j, k \in 1..l : j < k => p[j] < p[k]
      BY <1>4 DEF Lists
<1> HIDE DEF l, base
<1>9. q = [k \in 1..l |-> base + p[k] - 1]
      BY <1>5 DEF KeptSeqnos, K, p, base
<1> HIDE DEF q
<1>10. \A k \in 1..l : p[k] \in 1..n /\ p[k] \in K /\ q[k] = base + p[k] - 1
      BY <1>3, <1>7, <1>9
<1>11. q \in Seq(Nat) /\ Len(q) = l
  <2>1. \A k \in 1..l : q[k] \in Nat
        BY <1>1, <1>10
  <2>2. q = [k \in 1..l |-> q[k]]
        BY <1>9
  <2>3. [k \in 1..l |-> q[k]] \in Seq(Nat) /\ Len([k \in 1..l |-> q[k]]) = l
        BY ONLY <1>6, <2>1, SeqUpTo
  <2> QED BY <2>2, <2>3
<1>12. ASSUME NEW x PROVE x \in Seqnos(chunk) \ m.tombstones <=> \E k \in 1..l : q[k] = x
  <2>1. Seqnos(chunk) = base..(base + n - 1)
        BY DEF Seqnos, base, n
  <2>2. ASSUME x \in Seqnos(chunk) \ m.tombstones PROVE \E k \in 1..l : q[k] = x
    <3> DEFINE r == x - base + 1
    <3>1. x \in base..(base + n - 1) /\ x \in Int
          BY <1>1, <2>1, <2>2
    <3>2. r \in 1..n /\ base + r - 1 = x
          BY <1>1, <3>1
    <3> HIDE DEF r
    <3>3. r \in K
          BY <1>2, <2>2, <3>2
    <3>4. PICK k \in 1..l : p[k] = r
          BY <1>7, <3>3
    <3> QED BY <1>10, <3>2, <3>4
  <2>3. ASSUME NEW k \in 1..l, q[k] = x PROVE x \in Seqnos(chunk) \ m.tombstones
    <3>1. p[k] \in 1..n /\ p[k] \in K /\ x = base + p[k] - 1
          BY <1>10, <2>3
    <3>2. x \in base..(base + n - 1)
          BY <1>1, <3>1
    <3>3. x \notin m.tombstones
          BY <1>2, <3>1
    <3> QED BY <2>1, <3>2, <3>3
  <2> QED BY <2>2, <2>3
<1>13. ASSUME NEW j \in 1..l, NEW k \in 1..l, j < k PROVE q[j] < q[k]
  <2>1. p[j] < p[k] /\ p[j] \in 1..n /\ p[k] \in 1..n
        BY <1>8, <1>10, <1>13
  <2> QED BY <1>1, <1>10, <2>1
<1>14. Lists(q, Seqnos(chunk) \ m.tombstones)
      BY <1>11, <1>12, <1>13 DEF Lists
<1>15. K \in SUBSET (1..NumRows(chunk.batch))
      BY <1>3 DEF n
<1> QED BY <1>4, <1>5, <1>10, <1>11, <1>14, <1>15 DEF K, p, q, l, base

\* The live numbers are those of the memtable's rows that are not deleted.
LEMMA LiveLists ==
    ASSUME NEW m, NEW from, MemWell(m, from)
    PROVE  /\ [i \in 1..Len(m.chunks) |-> KeptSeqnos(m, m.chunks[i])] \in Seq(Seq(Nat))
           /\ LiveSeqnos(m) = FlattenSeq([i \in 1..Len(m.chunks) |-> KeptSeqnos(m, m.chunks[i])])
           /\ Lists(LiveSeqnos(m), (from..(m.nextSeqno - 1)) \ m.tombstones)
<1> DEFINE n == Len(m.chunks)
           e == Ends(m, from)
           D == [i \in 1..n |-> KeptSeqnos(m, m.chunks[i])]
           f == Flat(D)
           A == [i \in 0..n |-> (from..(e[i] - 1)) \ m.tombstones]
           Q(j) == j <= n => Lists(f[j], A[j])
           N == {j \in Nat : Q(j)}
<1>1. /\ n \in Nat /\ e \in [0..n -> Nat] /\ e[0] = from /\ e[n] = m.nextSeqno
      /\ from \in Nat \ {0}
      BY EndsFacts
<1>2. \A i \in 1..n :
        /\ m.chunks[i].base = e[i - 1] /\ m.chunks[i].batch \in BatchSet
        /\ NumRows(m.chunks[i].batch) = e[i] - e[i - 1]
        /\ NumRows(m.chunks[i].batch) \in Nat
        /\ e[i - 1] < e[i]
      BY EndsFacts
<1>3. \A i \in 0..n : from <= e[i] /\ e[i] <= m.nextSeqno
      BY EndsFacts
<1>4. m.chunks \in Seq(ChunkSet) /\ DOMAIN m.chunks = 1..n
      BY DEF MemWell, MemSet
<1>5. LiveSeqnos(m) = FlattenSeq(D)
      BY <1>4 DEF LiveSeqnos
<1>6. \A i \in 1..n : D[i] = KeptSeqnos(m, m.chunks[i])
      OBVIOUS
<1>7. D = [i \in 1..n |-> D[i]]
      OBVIOUS
<1> HIDE DEF n, e, D
<1>8. ASSUME NEW i \in 1..n
      PROVE  Lists(D[i], (e[i - 1]..(e[i] - 1)) \ m.tombstones)
  <2>1. m.chunks[i] \in ChunkSet
        BY <1>4 DEF n
  <2>2. m.chunks[i].base = e[i - 1] /\ NumRows(m.chunks[i].batch) = e[i] - e[i - 1]
        BY <1>2
  <2>3. e[i - 1] \in Nat /\ e[i] \in Nat /\ e[i - 1] > 0
    <3>1. i - 1 \in 0..n /\ i \in 0..n
          BY <1>1
    <3>2. e[i - 1] \in Nat /\ e[i] \in Nat /\ from <= e[i - 1]
          BY <1>1, <1>3, <3>1
    <3> QED BY <1>1, <3>2
  <2>4. m.chunks[i].base > 0
        BY <2>2, <2>3
  <2>5. Lists(KeptSeqnos(m, m.chunks[i]), Seqnos(m.chunks[i]) \ m.tombstones)
        BY <2>1, <2>4, KeptLists
  <2>6. Seqnos(m.chunks[i]) = e[i - 1] .. (e[i] - 1)
    <3>1. Seqnos(m.chunks[i]) = e[i - 1] .. (e[i - 1] + (e[i] - e[i - 1]) - 1)
          BY <2>2 DEF Seqnos
    <3>2. e[i - 1] + (e[i] - e[i - 1]) - 1 = e[i] - 1
          BY <2>3
    <3> QED BY <3>1, <3>2
  <2> QED BY <1>6, <2>5, <2>6
<1>9. D \in Seq(Seq(Nat)) /\ Len(D) = n
  <2>1. \A i \in 1..n : D[i] \in Seq(Nat)
        BY <1>8 DEF Lists
  <2>2. [i \in 1..n |-> D[i]] \in Seq(Seq(Nat)) /\ Len([i \in 1..n |-> D[i]]) = n
        BY ONLY <1>1, <2>1, SeqUpTo
  <2> QED BY <1>7, <2>2
<1>10. f[0] = <<>> /\ f[n] = FlattenSeq(D) /\ \A j \in 1..n : f[j] = f[j - 1] \o D[j]
      BY <1>1, <1>9, FlatStep
<1> HIDE DEF f
<1>11. \A i \in 0..n : A[i] = (from..(e[i] - 1)) \ m.tombstones
      OBVIOUS
<1> HIDE DEF A
<1>12. 0 \in N
  <2>1. A[0] = {}
    <3>1. 0 \in 0..n /\ from \in Nat /\ e[0] = from
          BY <1>1
    <3>2. A[0] = (from..(from - 1)) \ m.tombstones
          BY <1>11, <3>1
    <3>3. from..(from - 1) = {}
          BY <3>1
    <3> QED BY <3>2, <3>3
  <2>2. Q(0)
        BY <1>10, <2>1, ListsEmpty
  <2> HIDE DEF Q
  <2> QED BY <2>2
<1>13. ASSUME NEW j \in Nat, j \in N PROVE j + 1 \in N
  <2> DEFINE i == j + 1
  <2>1. i \in Nat
        OBVIOUS
  <2> SUFFICES ASSUME i <= n PROVE Q(i)
      BY <2>1
  <2>2. i \in 1..n /\ i - 1 = j /\ j \in 0..n /\ j <= n /\ i \in 0..n
        BY <1>1
  <2> HIDE DEF i
  <2> DEFINE B == (e[j]..(e[i] - 1)) \ m.tombstones
  <2>3. Lists(f[j], A[j])
        BY <1>13, <2>2
  <2>4. Lists(D[i], B)
        BY <1>8, <2>2
  <2>5. e[j] \in Nat /\ e[i] \in Nat /\ e[j] < e[i] /\ from <= e[j] /\ from \in Nat
        BY <1>1, <1>2, <1>3, <2>2
  <2>6. A[j] = (from..(e[j] - 1)) \ m.tombstones /\ A[i] = (from..(e[i] - 1)) \ m.tombstones
        BY <1>11, <2>2
  <2>7. A[i] = A[j] \cup B
    <3>1. from..(e[i] - 1) = (from..(e[j] - 1)) \cup (e[j]..(e[i] - 1))
          BY <2>5
    <3> QED BY <2>6, <3>1
  <2>8. \A a \in A[j] : \A b \in B : a < b
    <3>1. \A a \in from..(e[j] - 1) : \A b \in e[j]..(e[i] - 1) : a < b
          BY <2>5
    <3> QED BY <2>6, <3>1
  <2> HIDE DEF B
  <2>9. Lists(f[j] \o D[i], A[j] \cup B)
        BY <2>3, <2>4, <2>8, ListsConcat
  <2>10. f[i] = f[j] \o D[i]
        BY <1>10, <2>2
  <2> QED BY <2>7, <2>9, <2>10
<1>14. n \in N
  <2> HIDE DEF N
  <2> QED BY <1>1, <1>12, <1>13, SetInduction
<1>15. Lists(FlattenSeq(D), (from..(m.nextSeqno - 1)) \ m.tombstones)
  <2>1. n <= n /\ n \in 0..n
        BY <1>1
  <2>2. Lists(f[n], A[n])
        BY <1>14, <2>1
  <2> QED BY <1>1, <1>10, <1>11, <2>1, <2>2
<1>16. [i \in 1..n |-> KeptSeqnos(m, m.chunks[i])] = D
      BY DEF D
<1> QED BY <1>5, <1>9, <1>15, <1>16 DEF n

\* live_rows counts them.
LEMMA LiveCounted ==
    ASSUME NEW m, NEW from, MemWell(m, from)
    PROVE  LiveCount(m) = Len(LiveSeqnos(m)) /\ LiveCount(m) \in Nat
<1> DEFINE I == from..(m.nextSeqno - 1)
           X == m.tombstones
           A == I \ X
<1>1. Lists(LiveSeqnos(m), A)
      BY LiveLists
<1>2. Cardinality(A) = Len(LiveSeqnos(m)) /\ IsFiniteSet(A)
      BY <1>1, ListsIs
<1>3. /\ m.nextSeqno \in Nat /\ from \in Nat \ {0} /\ m.rows = m.nextSeqno - from
      /\ X \subseteq I /\ m.rows \in Nat
      BY DEF MemWell, MemSet
<1>4. IsFiniteSet(I) /\ Cardinality(I) = m.rows
  <2> DEFINE hi == m.nextSeqno - 1
  <2>1. from \in Int /\ hi \in Int /\ (from > hi => m.rows = 0) /\ m.rows = hi - from + 1
        BY <1>3
  <2> HIDE DEF hi
  <2>2. IsFiniteSet(from..hi) /\ Cardinality(from..hi) = IF from > hi THEN 0 ELSE hi - from + 1
        BY <2>1, FS_Interval
  <2> QED BY <2>1, <2>2 DEF hi
<1> HIDE DEF I, X
<1>5. X \in SUBSET I /\ A \cup X = I /\ A \cap X = {}
      BY <1>3
<1>6. IsFiniteSet(X)
      BY <1>4, <1>5, FS_Subset
<1> HIDE DEF A
<1>7. Cardinality(A \cup X) = Cardinality(A) + Cardinality(X) - Cardinality(A \cap X)
      BY <1>2, <1>6, FS_Union
<1>8. Cardinality(A) \in Nat /\ Cardinality(X) \in Nat /\ Cardinality({}) = 0
      BY <1>2, <1>6, FS_CardinalityType, FS_EmptySet
<1>9. m.rows = Cardinality(A) + Cardinality(X)
  <2>1. Cardinality(I) = Cardinality(A) + Cardinality(X) - Cardinality({})
        BY <1>5, <1>7
  <2> QED BY <1>4, <1>8, <2>1
<1>10. LiveCount(m) = Cardinality(A)
      BY <1>8, <1>9 DEF LiveCount, X
<1> QED BY <1>2, <1>8, <1>10

\* The history agrees with the memtable: the rows that are left are its rows,
\* those deleted are marked.
Agrees(m, from, tr) ==
    /\ tr \in Seq(Row \cup {<<>>}) /\ Len(tr) = m.nextSeqno - 1
    /\ \A i \in 1..Len(m.chunks) : \A r \in KeptRows(m, m.chunks[i]) :
        tr[m.chunks[i].base + r - 1] = Tuples(m.chunks[i].batch)[r]
    /\ \A s \in m.tombstones : tr[s] = <<>>

\* What Batches leaves of a chunk.
Left(m, c) ==
    IF Cardinality(KeptRows(m, c)) = NumRows(c.batch) THEN c.batch
    ELSE FilterBatch(c.batch, KeptRows(m, c))

\* It is the rows whose numbers are left.
LEMMA LeftKeeps ==
    ASSUME NEW m, NEW c \in ChunkSet, c.base > 0, NEW U, NEW tr \in Seq(U),
           \A r \in KeptRows(m, c) : tr[c.base + r - 1] = Tuples(c.batch)[r]
    PROVE  /\ Left(m, c) \in BatchSet
           /\ Tuples(Left(m, c)) = Over(tr, KeptSeqnos(m, c))
           /\ (Tuples(Left(m, c)) = <<>>) <=> (KeptRows(m, c) = {})
<1> DEFINE K == KeptRows(m, c)
           b == c.batch
           n == NumRows(b)
           p == Ascending(K)
           q == KeptSeqnos(m, c)
           t == Tuples(b)
<1>1. b \in BatchSet /\ n \in Nat /\ t \in Seq(Row) /\ Len(t) = n
  <2>1. b \in BatchSet
        BY DEF ChunkSet
  <2> QED BY <2>1, TuplesType
<1>2. Lists(p, K) /\ K \in SUBSET (1..n) /\ Len(q) = Cardinality(K) /\ Cardinality(K) = Len(p)
      BY KeptLists
<1>3. \A k \in 1..Cardinality(K) : q[k] = c.base + p[k] - 1
      BY KeptLists
<1>4. \A r \in K : tr[c.base + r - 1] = t[r]
      OBVIOUS
<1>5. Left(m, c) = IF Cardinality(K) = n THEN b ELSE FilterBatch(b, K)
      BY DEF Left
<1> HIDE DEF K, b, n, p, q, t
<1>6. Left(m, c) \in BatchSet /\ Tuples(Left(m, c)) = Picked(t, K)
  <2>1. CASE Cardinality(K) = n
    <3>1. IsFiniteSet(1..n) /\ Cardinality(1..n) = n
          BY <1>1, FS_Interval
    <3>2. K = 1..n
          BY <1>2, <2>1, <3>1, FS_Subset
    <3>3. Picked(t, 1..Len(t)) = t
          BY <1>1, PickedAll
    <3> QED BY <1>1, <1>5, <2>1, <3>2, <3>3 DEF t
  <2>2. CASE Cardinality(K) # n
    <3>1. FilterBatch(b, K) \in BatchSet /\ Tuples(FilterBatch(b, K)) = Picked(Tuples(b), K)
          BY <1>1, <1>2, FilterKeeps DEF n
    <3> QED BY <1>5, <2>2, <3>1 DEF t
  <2> QED BY <2>1, <2>2
<1>7. Picked(t, K) = [k \in 1..Len(p) |-> t[p[k]]]
      BY <1>2, PickedIs
<1>8. \A k \in 1..Len(p) : tr[q[k]] = t[p[k]]
  <2> SUFFICES ASSUME NEW k \in 1..Len(p) PROVE tr[q[k]] = t[p[k]]
      OBVIOUS
  <2>1. p[k] \in K /\ q[k] = c.base + p[k] - 1
        BY <1>2, <1>3 DEF Lists
  <2> QED BY <1>4, <2>1
<1>9. Over(tr, q) = [k \in 1..Len(p) |-> tr[q[k]]]
      BY <1>2 DEF Over
<1>10. Picked(t, K) = Over(tr, q)
      BY <1>7, <1>8, <1>9
<1>11. (Picked(t, K) = <<>>) <=> (K = {})
  <2>1. Picked(t, K) \in Seq(Row) /\ Len(Picked(t, K)) = Cardinality(K)
        BY <1>1, <1>2, PickedType
  <2>2. IsFiniteSet(K) /\ (Cardinality(K) = 0 <=> K = {})
        BY <1>2, ListsIs, FS_EmptySet
  <2> QED BY <2>1, <2>2
<1> QED BY <1>6, <1>10, <1>11 DEF K, q

\* The batches of a memtable are the rows that its live numbers name.
LEMMA BatchesNamed ==
    ASSUME NEW m, NEW from, NEW tr, MemWell(m, from), Agrees(m, from, tr)
    PROVE  /\ Batches(m) \in Seq(BatchSet)
           /\ AllTuples(Batches(m)) = Over(tr, LiveSeqnos(m))
<1> DEFINE n == Len(m.chunks)
           U == Row \cup {<<>>}
           L == [i \in 1..n |-> Left(m, m.chunks[i])]
           K == {i \in 1..n : KeptRows(m, m.chunks[i]) # {}}
           D == [i \in 1..n |-> KeptSeqnos(m, m.chunks[i])]
           t == [i \in 1..n |-> Tuples(L[i])]
           p == Ascending(K)
           B == Batches(m)
<1>1. n \in Nat /\ m.chunks \in Seq(ChunkSet) /\ DOMAIN m.chunks = 1..n
      BY DEF MemWell, MemSet
<1>2. \A i \in 1..n : m.chunks[i].base > 0
  <2> SUFFICES ASSUME NEW i \in 1..n PROVE m.chunks[i].base > 0
      OBVIOUS
  <2> DEFINE e == Ends(m, from)
  <2>1. m.chunks[i].base = e[i - 1] /\ \A k \in 0..n : from <= e[k]
        BY EndsFacts
  <2>2. e \in [0..n -> Nat] /\ from \in Nat \ {0}
        BY EndsFacts
  <2>3. i - 1 \in 0..n
        BY <1>1
  <2> HIDE DEF e, n
  <2>4. e[i - 1] \in Nat /\ from <= e[i - 1]
        BY <2>1, <2>2, <2>3
  <2> QED BY <2>1, <2>2, <2>4
<1>3. tr \in Seq(U)
      BY DEF Agrees
<1>4. Batches(m) = Picked(L, K)
      BY <1>1 DEF Batches, Left
<1>5. D \in Seq(Seq(Nat)) /\ LiveSeqnos(m) = FlattenSeq(D)
      BY LiveLists
<1>6. \A i \in 1..n : L[i] = Left(m, m.chunks[i]) /\ t[i] = Tuples(L[i]) /\ D[i] = KeptSeqnos(m, m.chunks[i])
      OBVIOUS
<1>7. L = [i \in 1..n |-> L[i]] /\ t = [i \in 1..n |-> t[i]] /\ D = [i \in 1..n |-> D[i]]
      OBVIOUS
<1> HIDE DEF L, D, t
<1>8. ASSUME NEW i \in 1..n
      PROVE  /\ L[i] \in BatchSet /\ t[i] = Over(tr, D[i]) /\ t[i] \in Seq(Row)
             /\ (t[i] = <<>>) <=> (KeptRows(m, m.chunks[i]) = {})
  <2>1. m.chunks[i] \in ChunkSet /\ m.chunks[i].base > 0
        BY <1>1, <1>2
  <2>2. \A r \in KeptRows(m, m.chunks[i]) :
            tr[m.chunks[i].base + r - 1] = Tuples(m.chunks[i].batch)[r]
        BY DEF Agrees
  <2>3. /\ Left(m, m.chunks[i]) \in BatchSet
        /\ Tuples(Left(m, m.chunks[i])) = Over(tr, KeptSeqnos(m, m.chunks[i]))
        /\ (Tuples(Left(m, m.chunks[i])) = <<>>) <=> (KeptRows(m, m.chunks[i]) = {})
        BY <1>3, <2>1, <2>2, LeftKeeps
  <2>4. Tuples(Left(m, m.chunks[i])) \in Seq(Row)
        BY <2>3, TuplesType
  <2> QED BY <1>6, <2>3, <2>4
<1> HIDE DEF n
<1>9. L \in Seq(BatchSet) /\ Len(L) = n /\ t \in Seq(Seq(Row)) /\ Len(t) = n
  <2>1. (\A i \in 1..n : L[i] \in BatchSet) /\ (\A i \in 1..n : t[i] \in Seq(Row))
        BY <1>8
  <2>2. [i \in 1..n |-> L[i]] \in Seq(BatchSet) /\ Len([i \in 1..n |-> L[i]]) = n
        BY ONLY <1>1, <2>1, SeqUpTo
  <2>3. [i \in 1..n |-> t[i]] \in Seq(Seq(Row)) /\ Len([i \in 1..n |-> t[i]]) = n
        BY ONLY <1>1, <2>1, SeqUpTo
  <2> QED BY <1>7, <2>2, <2>3
<1>10. K \in SUBSET (1..n) /\ K = {i \in 1..Len(t) : t[i] # <<>>}
      BY <1>8, <1>9
<1> HIDE DEF K, p
<1>11. Lists(p, K)
      BY <1>1, <1>10, AscendingLists DEF p
<1>12. B \in Seq(BatchSet)
      BY <1>1, <1>4, <1>9, <1>10, PickedType
<1>13. AllTuples(B) = FlattenSeq(Picked(t, K))
  <2>1. B = [k \in 1..Len(p) |-> L[p[k]]] /\ Picked(t, K) = [k \in 1..Len(p) |-> t[p[k]]]
        BY <1>4, <1>11, PickedIs
  <2>2. \A k \in 1..Len(p) : p[k] \in 1..n
        BY <1>10, <1>11 DEF Lists
  <2>3. \A k \in 1..Len(p) : t[p[k]] = Tuples(L[p[k]])
        BY <1>6, <2>2
  <2> HIDE DEF B
  <2>4. [b \in DOMAIN B |-> Tuples(B[b])] = [k \in 1..Len(p) |-> t[p[k]]]
        BY <2>1, <2>3
  <2> QED BY <2>1, <2>4 DEF AllTuples
<1>14. FlattenSeq(Picked(t, K)) = FlattenSeq(t)
      BY <1>9, <1>10, FlattenPicked
<1>15. FlattenSeq(t) = Over(tr, FlattenSeq(D))
  <2> DEFINE S == 1..Len(tr)
  <2>1. tr \in [S -> U]
        BY <1>3
  <2>2. Len(tr) = m.nextSeqno - 1 /\ m.nextSeqno \in Nat /\ from \in Nat \ {0}
        BY DEF Agrees, MemWell, MemSet
  <2>3. ASSUME NEW i \in 1..n PROVE D[i] \in Seq(S)
    <3>1. m.chunks[i] \in ChunkSet /\ m.chunks[i].base > 0
          BY <1>1, <1>2
    <3>2. Lists(D[i], Seqnos(m.chunks[i]) \ m.tombstones)
          BY <1>6, <3>1, KeptLists
    <3>3. D[i] \in Seq(Nat)
          BY <3>2 DEF Lists
    <3>4. ASSUME NEW k \in 1..Len(D[i]) PROVE D[i][k] \in S
      <4>1. D[i][k] \in Seqnos(m.chunks[i]) /\ D[i][k] \in Nat
            BY <3>2, <3>3 DEF Lists
      <4>2. Holds(m, D[i][k])
            BY <1>1, <4>1 DEF Holds
      <4>3. D[i][k] \in from..(m.nextSeqno - 1)
            BY <4>1, <4>2, HoldsIs
      <4> QED BY <2>2, <4>3
    <3>5. D[i] = [k \in 1..Len(D[i]) |-> D[i][k]] /\ Len(D[i]) \in Nat
          BY <3>3
    <3> QED BY <3>4, <3>5
  <2>4. D \in Seq(Seq(S)) /\ Len(D) = n
    <3>1. [i \in 1..n |-> D[i]] \in Seq(Seq(S)) /\ Len([i \in 1..n |-> D[i]]) = n
          BY ONLY <1>1, <2>3, SeqUpTo
    <3> QED BY <1>7, <3>1
  <2>5. t = [i \in 1..Len(D) |-> Over(tr, D[i])]
        BY <1>7, <1>8, <2>4
  <2> HIDE DEF S, U
  <2> QED BY <2>1, <2>4, <2>5, FlattenOver
<1> QED BY <1>5, <1>12, <1>13, <1>14, <1>15

\* An empty memtable.
LEMMA EmptyWell ==
    ASSUME NEW from \in Nat \ {0}, NEW m, m.chunks = <<>>, m.tombstones = {},
           m.nextSeqno = from, m.rows = 0, m \in MemSet
    PROVE  MemWell(m, from)
<1>1. Len(m.chunks) = 0 /\ Ends(m, from)[0] = from
      BY DEF Ends
<1> QED BY <1>1 DEF MemWell

\* With any history of that length.
LEMMA EmptyAgrees ==
    ASSUME NEW from, NEW m, m.chunks = <<>>, m.tombstones = {},
           NEW tr \in Seq(Row \cup {<<>>}), Len(tr) = m.nextSeqno - 1
    PROVE  Agrees(m, from, tr)
<1>1. Len(m.chunks) = 0
      OBVIOUS
<1> QED BY <1>1 DEF Agrees

\* insert_at keeps the numbers without a gap.
LEMMA InsertWell ==
    ASSUME NEW m, NEW from, MemWell(m, from), NEW b \in BatchSet
    PROVE  /\ MemWell(MemInsertAt(m, m.nextSeqno, b), from)
           /\ MemInsertAt(m, m.nextSeqno, b).nextSeqno = m.nextSeqno + NumRows(b)
<1> DEFINE w == MemInsertAt(m, m.nextSeqno, b)
           x == [base |-> m.nextSeqno, batch |-> b]
           n == Len(m.chunks)
           e == Ends(m, from)
           f == Ends(w, from)
           l == NumRows(b)
           s == m.nextSeqno
<1>1. l \in Nat
      BY TuplesType
<1>2. m \in MemSet /\ from \in Nat \ {0} /\ m.chunks \in Seq(ChunkSet) /\ n \in Nat /\ s \in Nat
      /\ m.rows \in Nat /\ m.rows = s - from /\ m.tombstones \subseteq from..(s - 1)
      /\ m.tombstones \in SUBSET Nat
      BY DEF MemWell, MemSet
<1>3. CASE l = 0
  <2>1. w = m
        BY <1>3 DEF MemInsertAt
  <2> QED BY <1>2, <1>3, <2>1
<1>4. CASE l # 0
  <2>1. Max({s, s + l}) = s + l
        BY <1>1, <1>2, MaxOfTwo
  <2>2. w = [m EXCEPT !.chunks = Append(@, x), !.rows = @ + l, !.nextSeqno = Max({@, s + l})]
        BY <1>4 DEF MemInsertAt
  <2>3. /\ w.chunks = Append(m.chunks, x) /\ w.rows = m.rows + l /\ w.nextSeqno = s + l
        /\ w.tombstones = m.tombstones
        /\ w = [chunks |-> w.chunks, tombstones |-> w.tombstones, nextSeqno |-> w.nextSeqno, rows |-> w.rows]
        BY <1>2, <2>1, <2>2 DEF MemSet
  <2>4. x \in ChunkSet /\ w.chunks \in Seq(ChunkSet) /\ Len(w.chunks) = n + 1
        /\ w.chunks[n + 1] = x /\ \A i \in 1..n : w.chunks[i] = m.chunks[i]
    <3>1. x \in ChunkSet
          BY <1>2 DEF ChunkSet
    <3> HIDE DEF x
    <3> QED BY <1>2, <2>3, <3>1
  <2>5. w \in MemSet
    <3> HIDE DEF w, x
    <3>1. w.rows \in Nat /\ w.nextSeqno \in Nat /\ w.tombstones \in SUBSET Nat /\ w.chunks \in Seq(ChunkSet)
          BY <1>1, <1>2, <2>3, <2>4
    <3> QED BY <2>3, <3>1 DEF MemSet
  <2>6. n + 1 \in Nat /\ n + 1 # 0 /\ x.base = s /\ x.batch = b
        BY <1>2
  <2> HIDE DEF w, x
  <2>7. \A i \in 0..n : f[i] = e[i]
    <3> SUFFICES ASSUME NEW i \in 0..n PROVE f[i] = e[i]
        OBVIOUS
    <3>1. CASE i = 0
          BY <1>2, <2>4, <3>1 DEF Ends
    <3>2. CASE i \in 1..n
      <4>1. /\ i # 0 /\ i \in 0..Len(m.chunks) /\ i \in 0..Len(w.chunks)
            /\ w.chunks[i] = m.chunks[i]
            BY <1>2, <2>4, <3>2
      <4>2. e[i] = m.chunks[i].base + NumRows(m.chunks[i].batch)
            BY <4>1 DEF Ends
      <4>3. f[i] = w.chunks[i].base + NumRows(w.chunks[i].batch)
            BY <4>1 DEF Ends
      <4> QED BY <4>1, <4>2, <4>3
    <3> QED BY <1>2, <3>1, <3>2
  <2>8. f[n + 1] = s + l
        BY <1>2, <2>4, <2>6 DEF Ends
  <2>9. ASSUME NEW i \in 1..(n + 1)
        PROVE  w.chunks[i].base = f[i - 1] /\ NumRows(w.chunks[i].batch) > 0
    <3>1. CASE i = n + 1
      <4>1. n \in 0..n /\ i - 1 = n
            BY <1>2, <3>1
      <4>2. f[i - 1] = s
            BY <2>7, <4>1 DEF MemWell
      <4> QED BY <1>1, <1>4, <2>4, <2>6, <3>1, <4>2
    <3>2. CASE i \in 1..n
      <4>1. i - 1 \in 0..n
            BY <1>2, <3>2
      <4>2. m.chunks[i].base = e[i - 1] /\ NumRows(m.chunks[i].batch) > 0
            BY <3>2 DEF MemWell
      <4> QED BY <2>4, <2>7, <3>2, <4>1, <4>2
    <3> QED BY <1>2, <3>1, <3>2
  <2>10. w.tombstones \subseteq from..(w.nextSeqno - 1) /\ w.rows = w.nextSeqno - from
        BY <1>1, <1>2, <2>3
  <2>11. MemWell(w, from)
        BY <1>2, <2>3, <2>4, <2>5, <2>8, <2>9, <2>10 DEF MemWell
  <2> QED BY <2>3, <2>11 DEF w
<1> QED BY <1>3, <1>4

\* And its rows are the history's.
LEMMA InsertAgrees ==
    ASSUME NEW m, NEW from, MemWell(m, from), NEW b \in BatchSet, NEW tr, Agrees(m, from, tr)
    PROVE  Agrees(MemInsertAt(m, m.nextSeqno, b), from, tr \o Tuples(b))
<1> DEFINE w == MemInsertAt(m, m.nextSeqno, b)
           U == Row \cup {<<>>}
           x == [base |-> m.nextSeqno, batch |-> b]
           n == Len(m.chunks)
           l == NumRows(b)
           s == m.nextSeqno
           t == Tuples(b)
           tw == tr \o t
<1>1. l \in Nat /\ t \in Seq(Row) /\ Len(t) = l
      BY TuplesType
<1>2. t \in Seq(U)
      BY <1>1, SeqMonotonic
<1>3. m \in MemSet /\ m.chunks \in Seq(ChunkSet) /\ n \in Nat /\ s \in Nat /\ from \in Nat \ {0}
      /\ m.tombstones \subseteq from..(s - 1)
      BY DEF MemWell, MemSet
<1>4. tr \in Seq(U) /\ Len(tr) = s - 1 /\ s - 1 \in Nat
      BY <1>3 DEF Agrees
<1> HIDE DEF U, t
<1>5. tw \in Seq(U) /\ Len(tw) = s + l - 1
      /\ (\A k \in 1..(s - 1) : tw[k] = tr[k]) /\ (\A r \in 1..l : tw[s + r - 1] = t[r])
  <2>1. tw \in Seq(U) /\ Len(tw) = s + l - 1
        BY <1>1, <1>2, <1>3, <1>4
  <2>2. \A k \in 1..(s - 1) : tw[k] = tr[k]
        BY <1>2, <1>4
  <2>3. ASSUME NEW r \in 1..l PROVE tw[s + r - 1] = t[r]
    <3>1. s + r - 1 \in 1..(Len(tr) + Len(t)) /\ s + r - 1 > Len(tr) /\ (s + r - 1) - Len(tr) = r
      <4> HIDE DEF s, l
      <4> QED BY <1>1, <1>3, <1>4
    <3> QED BY <1>2, <1>4, <3>1
  <2> QED BY <2>1, <2>2, <2>3
<1> HIDE DEF tw
<1>6. \A y \in m.tombstones : tw[y] = <<>>
  <2> SUFFICES ASSUME NEW y \in m.tombstones PROVE tw[y] = <<>>
      OBVIOUS
  <2>1. y \in 1..(s - 1) /\ tr[y] = <<>>
        BY <1>3 DEF Agrees
  <2> QED BY <1>5, <2>1
<1>7. ASSUME NEW i \in 1..n, NEW r \in KeptRows(m, m.chunks[i])
      PROVE  tw[m.chunks[i].base + r - 1] = Tuples(m.chunks[i].batch)[r]
  <2> DEFINE c == m.chunks[i]
             y == c.base + r - 1
  <2>1. c \in ChunkSet /\ r \in 1..NumRows(c.batch) /\ tr[y] = Tuples(c.batch)[r]
        BY <1>3 DEF Agrees, KeptRows
  <2>2. c.base \in Nat /\ c.batch \in BatchSet
        BY <2>1 DEF ChunkSet
  <2>3. NumRows(c.batch) \in Nat /\ r \in Nat
        BY <2>1, <2>2, TuplesType
  <2>4. i \in DOMAIN m.chunks /\ c.base > 0
    <3> DEFINE e == Ends(m, from)
    <3>1. c.base = e[i - 1] /\ \A k \in 0..n : from <= e[k]
          BY EndsFacts
    <3>2. i - 1 \in 0..n
          BY <1>3
    <3> HIDE DEF e
    <3>3. from <= c.base
          BY <3>1, <3>2
    <3> QED BY <1>3, <2>2, <3>3
  <2> HIDE DEF c
  <2>5. y \in Nat /\ y \in Seqnos(c)
        BY <2>1, <2>2, <2>3, <2>4 DEF Seqnos
  <2>6. Holds(m, y)
        BY <2>4, <2>5 DEF Holds, c
  <2>7. y \in from..(s - 1)
        BY <2>5, <2>6, HoldsIs
  <2>8. y \in 1..(s - 1)
        BY <1>3, <2>7
  <2> QED BY <1>5, <2>1, <2>8 DEF c
<1>8. CASE l = 0
  <2>1. w = m
        BY <1>8 DEF MemInsertAt
  <2>2. s + l - 1 = s - 1
        BY <1>3, <1>8
  <2>3. Agrees(m, from, tw)
        BY <1>5, <1>6, <1>7, <2>2 DEF Agrees, U
  <2> QED BY <2>1, <2>3 DEF tw, t
<1>9. CASE l # 0
  <2>1. Max({s, s + l}) = s + l
        BY <1>1, <1>3, MaxOfTwo
  <2>2. w = [m EXCEPT !.chunks = Append(@, x), !.rows = @ + l, !.nextSeqno = Max({@, s + l})]
        BY <1>9 DEF MemInsertAt
  <2>3. w.chunks = Append(m.chunks, x) /\ w.nextSeqno = s + l /\ w.tombstones = m.tombstones
        BY <1>3, <2>1, <2>2 DEF MemSet
  <2>4. Len(w.chunks) = n + 1 /\ w.chunks[n + 1] = x /\ \A i \in 1..n : w.chunks[i] = m.chunks[i]
    <3>1. x \in ChunkSet
          BY <1>3 DEF ChunkSet
    <3> HIDE DEF x, w
    <3> QED BY <1>3, <2>3, <3>1
  <2>5. x.base = s /\ x.batch = b
        OBVIOUS
  <2> HIDE DEF w, x
  <2>6. ASSUME NEW i \in 1..(n + 1), NEW r \in KeptRows(w, w.chunks[i])
        PROVE  tw[w.chunks[i].base + r - 1] = Tuples(w.chunks[i].batch)[r]
    <3>1. CASE i = n + 1
      <4>1. r \in 1..l
            BY <2>4, <2>5, <2>6, <3>1 DEF KeptRows
      <4> QED BY <1>5, <2>4, <2>5, <3>1, <4>1 DEF t
    <3>2. CASE i \in 1..n
      <4>1. r \in KeptRows(m, m.chunks[i])
            BY <2>3, <2>4, <2>6, <3>2 DEF KeptRows
      <4> QED BY <1>7, <2>4, <3>2, <4>1
    <3> QED BY <1>3, <3>1, <3>2
  <2>8. Len(tw) = w.nextSeqno - 1 /\ tw \in Seq(Row \cup {<<>>})
    <3>1. Len(tw) = w.nextSeqno - 1
      <4> HIDE DEF s, l
      <4> QED BY <1>1, <1>3, <1>5, <2>3
    <3>2. tw \in Seq(Row \cup {<<>>})
          BY <1>5 DEF U
    <3> QED BY <3>1, <3>2
  <2>9. \A y \in w.tombstones : tw[y] = <<>>
        BY <1>6, <2>3
  <2>10. \A i \in 1..Len(w.chunks) : \A r \in KeptRows(w, w.chunks[i]) :
            tw[w.chunks[i].base + r - 1] = Tuples(w.chunks[i].batch)[r]
        BY <2>4, <2>6
  <2>7. Agrees(w, from, tw)
        BY <2>8, <2>9, <2>10 DEF Agrees
  <2> QED BY <2>7 DEF w, tw, t
<1> QED BY <1>8, <1>9

\* The history after a delete.
Without(tr, seqnos, from) ==
    [s \in DOMAIN tr |-> IF s \in seqnos /\ s >= from THEN <<>> ELSE tr[s]]

\* delete marks the rows the memtable holds, and no others.
LEMMA DeleteWell ==
    ASSUME NEW m, NEW from, MemWell(m, from), NEW seqnos \in SUBSET Nat
    PROVE  MemWell(MemDelete(m, seqnos), from)
<1> DEFINE w == MemDelete(m, seqnos)
           X == {s \in seqnos : Holds(m, s)}
<1>1. m \in MemSet
      BY DEF MemWell
<1>2. /\ w.chunks = m.chunks /\ w.nextSeqno = m.nextSeqno /\ w.rows = m.rows
      /\ w.tombstones = m.tombstones \cup X
      /\ w = [chunks |-> w.chunks, tombstones |-> w.tombstones, nextSeqno |-> w.nextSeqno, rows |-> w.rows]
  <2>1. w = [m EXCEPT !.tombstones = @ \cup X]
        BY DEF MemDelete
  <2> HIDE DEF w, X
  <2> QED BY <1>1, <2>1 DEF MemSet
<1>3. X \subseteq from..(m.nextSeqno - 1) /\ X \in SUBSET Nat
      BY HoldsIs
<1> HIDE DEF w, X
<1>4. w \in MemSet
  <2>1. m.chunks \in Seq(ChunkSet) /\ m.tombstones \in SUBSET Nat /\ m.nextSeqno \in Nat /\ m.rows \in Nat
        BY <1>1 DEF MemSet
  <2>2. w.chunks \in Seq(ChunkSet) /\ w.tombstones \in SUBSET Nat /\ w.nextSeqno \in Nat /\ w.rows \in Nat
        BY <1>2, <1>3, <2>1
  <2> QED BY <1>2, <2>2 DEF MemSet
<1>5. Ends(w, from) = Ends(m, from)
      BY <1>2 DEF Ends
<1>6. MemWell(w, from)
      BY <1>2, <1>3, <1>4, <1>5 DEF MemWell
<1> QED BY <1>6 DEF w

\* And the history agrees.
LEMMA DeleteAgrees ==
    ASSUME NEW m, NEW from, MemWell(m, from), NEW seqnos \in SUBSET Nat,
           NEW tr, Agrees(m, from, tr)
    PROVE  Agrees(MemDelete(m, seqnos), from, Without(tr, seqnos, from))
<1> DEFINE w == MemDelete(m, seqnos)
           X == {s \in seqnos : Holds(m, s)}
           U == Row \cup {<<>>}
           tw == Without(tr, seqnos, from)
           l == Len(tr)
<1>1. m \in MemSet /\ m.nextSeqno \in Nat /\ from \in Nat \ {0} /\ m.tombstones \subseteq from..(m.nextSeqno - 1)
      /\ m.chunks \in Seq(ChunkSet)
      BY DEF MemWell, MemSet
<1>2. w.chunks = m.chunks /\ w.nextSeqno = m.nextSeqno /\ w.tombstones = m.tombstones \cup X
      BY <1>1 DEF MemSet, MemDelete
<1>3. \A s \in Nat : Holds(m, s) <=> s \in from..(m.nextSeqno - 1)
      BY HoldsIs
<1>4. tr \in Seq(U) /\ l = m.nextSeqno - 1 /\ l \in Nat /\ <<>> \in U
      BY DEF Agrees
<1>5. \A s \in 1..l : tw[s] = IF s \in seqnos /\ s >= from THEN <<>> ELSE tr[s]
      BY <1>4 DEF Without
<1>6. tw \in Seq(U) /\ Len(tw) = l
  <2>1. tw = [s \in 1..l |-> tw[s]]
        BY <1>4 DEF Without
  <2> HIDE DEF tw, U
  <2>2. \A s \in 1..l : tr[s] \in U
        BY <1>4
  <2>3. \A s \in 1..l : tw[s] \in U
        BY <1>4, <1>5, <2>2
  <2>4. [s \in 1..l |-> tw[s]] \in Seq(U) /\ Len([s \in 1..l |-> tw[s]]) = l
        BY ONLY <1>4, <2>3, SeqUpTo
  <2> QED BY <2>1, <2>4
<1> HIDE DEF w, tw, X
<1>7. ASSUME NEW s \in w.tombstones PROVE tw[s] = <<>>
  <2>1. CASE s \in m.tombstones
    <3>1. tr[s] = <<>> /\ s \in 1..l
          BY <1>1, <1>4, <2>1 DEF Agrees
    <3> QED BY <1>5, <3>1
  <2>2. CASE s \in X
    <3>1. s \in seqnos /\ s \in Nat /\ s \in from..(m.nextSeqno - 1)
          BY <1>3, <2>2 DEF X
    <3>2. s \in 1..l /\ s >= from
          BY <1>1, <1>4, <3>1
    <3> QED BY <1>5, <3>1, <3>2
  <2> QED BY <1>2, <2>1, <2>2
<1>8. ASSUME NEW i \in 1..Len(w.chunks), NEW r \in KeptRows(w, w.chunks[i])
      PROVE  tw[w.chunks[i].base + r - 1] = Tuples(w.chunks[i].batch)[r]
  <2> DEFINE c == m.chunks[i]
             y == c.base + r - 1
  <2>1. i \in 1..Len(m.chunks) /\ c = w.chunks[i] /\ i \in DOMAIN m.chunks
        BY <1>1, <1>2
  <2>2. y \notin w.tombstones /\ r \in 1..NumRows(c.batch)
        BY <1>8, <2>1 DEF KeptRows
  <2>3. r \in KeptRows(m, c)
        BY <1>2, <2>2 DEF KeptRows
  <2>4. tr[y] = Tuples(c.batch)[r]
        BY <2>1, <2>3 DEF Agrees
  <2>5. c \in ChunkSet
        BY <1>1, <2>1
  <2>6. c.base \in Nat /\ c.batch \in BatchSet
        BY <2>5 DEF ChunkSet
  <2>7. NumRows(c.batch) \in Nat
        BY <2>6, TuplesType
  <2>8. c.base > 0
    <3> DEFINE e == Ends(m, from)
               n == Len(m.chunks)
    <3>1. c.base = e[i - 1] /\ \A k \in 0..n : from <= e[k]
          BY <2>1, EndsFacts
    <3>2. i - 1 \in 0..n /\ n \in Nat
          BY <1>1, <2>1
    <3> HIDE DEF e
    <3>3. from <= c.base
          BY <3>1, <3>2
    <3> QED BY <1>1, <2>6, <3>3
  <2>9. y \in Nat /\ y \in Seqnos(c)
        BY <2>2, <2>6, <2>7, <2>8 DEF Seqnos
  <2>10. Holds(m, y)
        BY <2>1, <2>9 DEF Holds
  <2>11. y \in from..(m.nextSeqno - 1)
        BY <1>3, <2>9, <2>10
  <2>12. y \in 1..l
        BY <1>1, <1>4, <2>11
  <2>13. y \notin seqnos
        BY <1>2, <2>2, <2>10 DEF X
  <2> QED BY <1>5, <2>1, <2>4, <2>12, <2>13
<1>9. Agrees(w, from, tw)
      BY <1>2, <1>4, <1>6, <1>7, <1>8 DEF Agrees
<1> QED BY <1>9 DEF w, tw

\* The rows a scan of the memtable shows are those of the history not deleted.
LEMMA LivePicked ==
    ASSUME NEW m, NEW from, NEW tr, MemWell(m, from), Agrees(m, from, tr)
    PROVE  AllTuples(Batches(m)) = Picked(tr, {s \in 1..Len(tr) : s >= from /\ tr[s] # <<>>})
<1> DEFINE S == {s \in 1..Len(tr) : s >= from /\ tr[s] # <<>>}
           q == LiveSeqnos(m)
<1>1. m.nextSeqno \in Nat /\ from \in Nat \ {0} /\ m.chunks \in Seq(ChunkSet)
      /\ m.tombstones \subseteq from..(m.nextSeqno - 1)
      BY DEF MemWell, MemSet
<1>2. Len(tr) = m.nextSeqno - 1
      BY DEF Agrees
<1>3. S = (from..(m.nextSeqno - 1)) \ m.tombstones
  <2>1. ASSUME NEW s \in S PROVE s \in (from..(m.nextSeqno - 1)) \ m.tombstones
    <3>1. s \in from..(m.nextSeqno - 1) /\ tr[s] # <<>>
          BY <1>1, <1>2
    <3> QED BY <3>1 DEF Agrees
  <2>2. ASSUME NEW s \in (from..(m.nextSeqno - 1)) \ m.tombstones PROVE s \in S
    <3>1. s \in Nat /\ s \in 1..Len(tr) /\ s >= from
          BY <1>1, <1>2
    <3>2. Holds(m, s)
          BY <3>1, HoldsIs
    <3>3. PICK i \in 1..Len(m.chunks) : s \in Seqnos(m.chunks[i])
          BY <1>1, <3>2 DEF Holds
    <3> DEFINE c == m.chunks[i]
               r == s - c.base + 1
    <3>4. c \in ChunkSet
          BY <1>1
    <3>5. c.base \in Nat /\ c.batch \in BatchSet
          BY <3>4 DEF ChunkSet
    <3>6. NumRows(c.batch) \in Nat /\ Tuples(c.batch) \in Seq(Row) /\ Len(Tuples(c.batch)) = NumRows(c.batch)
          BY <3>5, TuplesType
    <3>7. r \in 1..NumRows(c.batch) /\ c.base + r - 1 = s
      <4>1. s \in Seqnos(c)
            BY <3>3
      <4> HIDE DEF c
      <4> QED BY <3>1, <3>5, <3>6, <4>1 DEF Seqnos
    <3> HIDE DEF c, r
    <3>8. r \in KeptRows(m, c)
          BY <2>2, <3>7 DEF KeptRows
    <3>9. tr[s] = Tuples(c.batch)[r]
          BY <3>7, <3>8 DEF Agrees, c
    <3>10. tr[s] \in Row
          BY <3>6, <3>7, <3>9
    <3> QED BY <3>1, <3>10, RowNotEmpty
  <2> QED BY <2>1, <2>2
<1>4. Lists(q, S)
      BY <1>3, LiveLists
<1>5. AllTuples(Batches(m)) = Over(tr, q)
      BY BatchesNamed
<1> HIDE DEF S, q
<1>6. Picked(tr, S) = [k \in 1..Len(q) |-> tr[q[k]]]
      BY <1>4, PickedIs
<1>7. AllTuples(Batches(m)) = Picked(tr, S)
      BY <1>5, <1>6 DEF Over
<1> QED BY <1>7 DEF S

----------------------------------------------------------------------------
(* Arithmetic of equal pieces.                                             *)

\* One piece more.
LEMMA TimesStep ==
    ASSUME NEW k \in Int, NEW m \in Int
    PROVE  k * m = (k - 1) * m + m /\ k * m \in Int
OBVIOUS

\* A product of naturals, and that it grows with its factor.
LEMMA TimesType ==
    ASSUME NEW k \in Nat, NEW m \in Nat
    PROVE  k * m \in Nat
OBVIOUS

\* A product grows with its factor.
LEMMA TimesGrows ==
    ASSUME NEW j \in Nat, NEW k \in Nat, NEW m \in Nat, j <= k
    PROVE  j * m <= k * m
OBVIOUS

\* Division with remainder.
LEMMA DivBounds ==
    ASSUME NEW a \in Nat, NEW m \in Nat \ {0}
    PROVE  /\ a \div m \in Nat /\ (a \div m) * m <= a /\ a < (a \div m) * m + m
OBVIOUS

\* So many pieces of at most m make up n.
LEMMA CeilDivBounds ==
    ASSUME NEW n \in Nat, NEW m \in Nat \ {0}
    PROVE  /\ CeilDiv(n, m) \in Nat /\ n <= CeilDiv(n, m) * m /\ CeilDiv(n, m) * m < n + m
           /\ (n > 0 => CeilDiv(n, m) > 0)
<1> DEFINE a == n + m - 1
           q == a \div m
<1>1. a \in Nat /\ CeilDiv(n, m) = q
      BY DEF CeilDiv
<1>2. q \in Nat /\ q * m <= a /\ a < q * m + m
      BY <1>1, DivBounds
<1>3. q * m \in Nat
      BY <1>2, TimesType
<1> HIDE DEF q
<1>4. n <= q * m /\ q * m < n + m
      BY <1>1, <1>2, <1>3
<1>5. n > 0 => q > 0
      BY <1>2, <1>4
<1> QED BY <1>1, <1>2, <1>4, <1>5

----------------------------------------------------------------------------
(* Functions over sequences.                                               *)

\* The type and the length of what is looked up.
LEMMA OverType ==
    ASSUME NEW T, NEW U, NEW g \in [T -> U], NEW s \in Seq(T), NEW n \in Nat, n = Len(s)
    PROVE  Over(g, s) \in Seq(U) /\ Len(Over(g, s)) = n /\ \A k \in 1..n : Over(g, s)[k] = g[s[k]]
BY DEF Over

\* The type and the length of two sequences joined.
LEMMA ConcatLen ==
    ASSUME NEW T, NEW s \in Seq(T), NEW t \in Seq(T)
    PROVE  s \o t \in Seq(T) /\ Len(s \o t) = Len(s) + Len(t)
OBVIOUS

\* Looking up one more.
LEMMA OverAppend ==
    ASSUME NEW T, NEW g, NEW s \in Seq(T), NEW x \in T
    PROVE  Over(g, Append(s, x)) = Append(Over(g, s), g[x])
<1> DEFINE U == {g[y] : y \in T}
           w == Append(s, x)
           a == Over(g, w)
           o == Over(g, s)
           b == Append(o, g[x])
           n == Len(s)
<1>1. Append(s, x) \in Seq(T) /\ Len(Append(s, x)) = n + 1 /\ n \in Nat /\ g[x] \in U /\ n + 1 \in Nat
      OBVIOUS
<1> HIDE DEF n, w
<1>2. a \in Seq(U) /\ Len(a) = n + 1 /\ \A k \in 1..(n + 1) : a[k] = g[w[k]]
  <2>1. a = [k \in 1..(n + 1) |-> g[w[k]]]
        BY <1>1 DEF Over, w
  <2>2. \A k \in 1..(n + 1) : g[w[k]] \in U
        BY <1>1 DEF w
  <2> HIDE DEF a
  <2> QED BY <1>1, <2>1, <2>2
<1>3. o \in Seq(U) /\ Len(o) = n /\ \A k \in 1..n : o[k] = g[s[k]]
  <2>1. o = [k \in 1..n |-> g[s[k]]]
        BY <1>1 DEF Over, n
  <2>2. \A k \in 1..n : g[s[k]] \in U
        BY <1>1 DEF n
  <2> HIDE DEF o
  <2> QED BY <1>1, <2>1, <2>2
<1> HIDE DEF a, o
<1>4. b \in Seq(U) /\ Len(b) = n + 1 /\ b[n + 1] = g[x] /\ \A k \in 1..n : b[k] = o[k]
      BY <1>1, <1>3
<1> HIDE DEF b
<1>5. ASSUME NEW k \in 1..(n + 1) PROVE a[k] = b[k]
  <2>1. CASE k = n + 1
    <3>1. w[k] = x
          BY <1>1, <2>1 DEF n, w
    <3> QED BY <1>1, <1>2, <1>4, <2>1, <3>1
  <2>2. CASE k \in 1..n
    <3>1. w[k] = s[k]
          BY <2>2 DEF n, w
    <3> QED BY <1>2, <1>3, <1>4, <2>2, <3>1
  <2> QED BY <1>1, <2>1, <2>2
<1>6. a = b
      BY <1>2, <1>4, <1>5, SeqEqual
<1> QED BY <1>6 DEF a, b, o, w

\* Looking up two sequences joined.
LEMMA OverConcat ==
    ASSUME NEW T, NEW g, NEW s \in Seq(T), NEW t \in Seq(T)
    PROVE  Over(g, s \o t) = Over(g, s) \o Over(g, t)
<1> DEFINE U == {g[y] : y \in T}
           w == s \o t
           a == Over(g, w)
           u == Over(g, s)
           v == Over(g, t)
           b == u \o v
           m == Len(s)
           n == Len(t)
<1>1. s \o t \in Seq(T) /\ Len(s \o t) = m + n /\ m \in Nat /\ n \in Nat /\ m + n \in Nat
      OBVIOUS
<1> HIDE DEF m, n, w
<1>2. a \in Seq(U) /\ Len(a) = m + n /\ \A k \in 1..(m + n) : a[k] = g[w[k]]
  <2>1. a = [k \in 1..(m + n) |-> g[w[k]]]
        BY <1>1 DEF Over, w
  <2>2. \A k \in 1..(m + n) : g[w[k]] \in U
        BY <1>1 DEF w
  <2> HIDE DEF a
  <2> QED BY <1>1, <2>1, <2>2
<1>3. u \in Seq(U) /\ Len(u) = m /\ \A k \in 1..m : u[k] = g[s[k]]
  <2>1. u = [k \in 1..(m) |-> g[s[k]]]
        BY <1>1 DEF Over, m
  <2>2. \A k \in 1..(m) : g[s[k]] \in U
        BY <1>1 DEF m
  <2> HIDE DEF u
  <2> QED BY <1>1, <2>1, <2>2
<1>4. v \in Seq(U) /\ Len(v) = n /\ \A k \in 1..n : v[k] = g[t[k]]
  <2>1. v = [k \in 1..(n) |-> g[t[k]]]
        BY <1>1 DEF Over, n
  <2>2. \A k \in 1..(n) : g[t[k]] \in U
        BY <1>1 DEF n
  <2> HIDE DEF v
  <2> QED BY <1>1, <2>1, <2>2
<1> HIDE DEF a, u, v
<1>5. b \in Seq(U) /\ Len(b) = m + n
      BY <1>3, <1>4, ConcatLen
<1>6. ASSUME NEW k \in 1..(m + n) PROVE a[k] = b[k]
  <2>1. CASE k <= m
    <3>1. w[k] = s[k] /\ k \in 1..m /\ b[k] = u[k]
          BY <1>1, <1>3, <1>4, <2>1 DEF m, n, w
    <3> QED BY <1>2, <1>3, <3>1
  <2>2. CASE k > m
    <3>1. w[k] = t[k - m] /\ k - m \in 1..n /\ b[k] = v[k - m]
          BY <1>1, <1>3, <1>4, <2>2 DEF m, n, w
    <3> QED BY <1>2, <1>4, <3>1
  <2>3. k <= m \/ k > m
        BY <1>1
  <2> QED BY <2>1, <2>2, <2>3
<1> HIDE DEF b
<1>7. a = b
      BY <1>2, <1>5, <1>6, SeqEqual
<1> QED BY <1>7 DEF a, b, u, v, w

----------------------------------------------------------------------------
(* The rows of several batches, and of several groups of batches.          *)

\* Tuples and AllTuples as functions.
TuplesFn == [b \in BatchSet |-> Tuples(b)]
AllFn == [s \in Seq(BatchSet) |-> AllTuples(s)]
GroupRows(groups) == FlattenSeq(Over(AllFn, groups))

\* The rows of a batch as a function of the batch.
LEMMA TuplesFnType == TuplesFn \in [BatchSet -> Seq(Row)] /\ \A b \in BatchSet : TuplesFn[b] = Tuples(b)
BY TuplesType DEF TuplesFn

\* The rows of several batches are those of each, joined, and total_rows
\* counts them.
LEMMA AllTuplesIs ==
    ASSUME NEW s \in Seq(BatchSet)
    PROVE  /\ AllTuples(s) = FlattenSeq(Over(TuplesFn, s))
           /\ Over(TuplesFn, s) \in Seq(Seq(Row))
           /\ AllTuples(s) \in Seq(Row) /\ TotalRows(s) \in Nat /\ TotalRows(s) = Len(AllTuples(s))
<1>1. DOMAIN s = 1..Len(s) /\ Len(s) \in Nat /\ \A i \in 1..Len(s) : s[i] \in BatchSet
      OBVIOUS
<1>2. [b \in DOMAIN s |-> Tuples(s[b])] = Over(TuplesFn, s)
      BY <1>1, TuplesFnType DEF Over
<1>3. Over(TuplesFn, s) \in Seq(Seq(Row))
      BY TuplesFnType, OverType
<1>4. AllTuples(s) = FlattenSeq(Over(TuplesFn, s))
      BY <1>2 DEF AllTuples
<1>5. AllTuples(s) \in Seq(Row)
      BY <1>3, <1>4, FlattenType
<1> QED BY <1>3, <1>4, <1>5 DEF TotalRows

\* No batch, no row.
LEMMA AllTuplesEmpty == AllTuples(<<>>) = <<>> /\ TotalRows(<<>>) = 0
<1>1. <<>> \in Seq(BatchSet) /\ Over(TuplesFn, <<>>) = <<>>
      BY DEF Over
<1>2. AllTuples(<<>>) = <<>>
      BY <1>1, AllTuplesIs, FlattenEmpty
<1> QED BY <1>2 DEF TotalRows

\* The rows of one more batch come last.
LEMMA AllTuplesAppend ==
    ASSUME NEW s \in Seq(BatchSet), NEW b \in BatchSet
    PROVE  /\ AllTuples(Append(s, b)) = AllTuples(s) \o Tuples(b)
           /\ TotalRows(Append(s, b)) = TotalRows(s) + NumRows(b)
<1>1. Append(s, b) \in Seq(BatchSet)
      OBVIOUS
<1>2. Over(TuplesFn, Append(s, b)) = Append(Over(TuplesFn, s), TuplesFn[b])
      BY TuplesFnType, OverAppend
<1>3. Over(TuplesFn, s) \in Seq(Seq(Row)) /\ AllTuples(s) = FlattenSeq(Over(TuplesFn, s))
      /\ AllTuples(s) \in Seq(Row)
      BY AllTuplesIs
<1>4. TuplesFn[b] = Tuples(b) /\ Tuples(b) \in Seq(Row) /\ Len(Tuples(b)) = NumRows(b)
      BY TuplesFnType, TuplesType
<1>5. FlattenSeq(Append(Over(TuplesFn, s), Tuples(b))) = FlattenSeq(Over(TuplesFn, s)) \o Tuples(b)
      BY <1>3, <1>4, FlattenAppend
<1>6. AllTuples(Append(s, b)) = FlattenSeq(Over(TuplesFn, Append(s, b)))
      BY <1>1, AllTuplesIs
<1>7. AllTuples(Append(s, b)) = AllTuples(s) \o Tuples(b)
      BY <1>2, <1>3, <1>4, <1>5, <1>6
<1>8. Len(AllTuples(s) \o Tuples(b)) = Len(AllTuples(s)) + Len(Tuples(b))
      BY <1>3, <1>4, ConcatLen
<1> QED BY <1>4, <1>7, <1>8 DEF TotalRows

\* The rows of a single batch.
LEMMA AllTuplesOne ==
    ASSUME NEW b \in BatchSet
    PROVE  AllTuples(<<b>>) = Tuples(b) /\ TotalRows(<<b>>) = NumRows(b) /\ <<b>> \in Seq(BatchSet)
<1>1. <<>> \in Seq(BatchSet) /\ <<b>> = Append(<<>>, b) /\ <<b>> \in Seq(BatchSet)
      OBVIOUS
<1>2. AllTuples(<<b>>) = <<>> \o Tuples(b)
      BY <1>1, AllTuplesAppend, AllTuplesEmpty
<1>3. Tuples(b) \in Seq(Row) /\ Len(Tuples(b)) = NumRows(b)
      BY TuplesType
<1>4. <<>> \o Tuples(b) = Tuples(b)
      BY <1>3, ConcatEmptySeq
<1> QED BY <1>1, <1>2, <1>3, <1>4 DEF TotalRows

\* The rows of a group as a function of the group.
LEMMA AllFnType == AllFn \in [Seq(BatchSet) -> Seq(Row)] /\ \A s \in Seq(BatchSet) : AllFn[s] = AllTuples(s)
BY AllTuplesIs DEF AllFn

\* The type of the rows of several groups.
LEMMA GroupRowsType ==
    ASSUME NEW gs \in Seq(Seq(BatchSet))
    PROVE  Over(AllFn, gs) \in Seq(Seq(Row)) /\ GroupRows(gs) \in Seq(Row)
<1>1. Over(AllFn, gs) \in Seq(Seq(Row))
      BY AllFnType, OverType
<1> QED BY <1>1, FlattenType DEF GroupRows

\* No group, no row.
LEMMA GroupRowsEmpty == GroupRows(<<>>) = <<>>
<1>1. Over(AllFn, <<>>) = <<>>
      BY DEF Over
<1> QED BY <1>1, FlattenEmpty DEF GroupRows

\* The rows of one more group come last.
LEMMA GroupRowsAppend ==
    ASSUME NEW gs \in Seq(Seq(BatchSet)), NEW g \in Seq(BatchSet)
    PROVE  GroupRows(Append(gs, g)) = GroupRows(gs) \o AllTuples(g)
<1>1. Over(AllFn, Append(gs, g)) = Append(Over(AllFn, gs), AllFn[g])
      BY AllFnType, OverAppend
<1>2. Over(AllFn, gs) \in Seq(Seq(Row)) /\ AllFn[g] = AllTuples(g) /\ AllTuples(g) \in Seq(Row)
      BY AllFnType, AllTuplesIs, GroupRowsType
<1>3. FlattenSeq(Append(Over(AllFn, gs), AllTuples(g))) = FlattenSeq(Over(AllFn, gs)) \o AllTuples(g)
      BY <1>2, FlattenAppend
<1> QED BY <1>1, <1>2, <1>3 DEF GroupRows

\* The rows of two lists of groups joined.
LEMMA GroupRowsConcat ==
    ASSUME NEW gs \in Seq(Seq(BatchSet)), NEW hs \in Seq(Seq(BatchSet))
    PROVE  GroupRows(gs \o hs) = GroupRows(gs) \o GroupRows(hs)
<1>1. Over(AllFn, gs \o hs) = Over(AllFn, gs) \o Over(AllFn, hs)
  <2> HIDE DEF AllFn
  <2>1. AllFn \in [Seq(BatchSet) -> Seq(Row)]
        BY AllFnType
  <2> DEFINE T == Seq(BatchSet)
             U == Seq(Row)
  <2>2. AllFn \in [T -> U] /\ gs \in Seq(T) /\ hs \in Seq(T)
        BY <2>1
  <2> HIDE DEF T, U
  <2> QED BY <2>2, OverConcat
<1>2. Over(AllFn, gs) \in Seq(Seq(Row)) /\ Over(AllFn, hs) \in Seq(Seq(Row))
      BY GroupRowsType
<1>3. FlattenSeq(Over(AllFn, gs) \o Over(AllFn, hs)) = FlattenSeq(Over(AllFn, gs)) \o FlattenSeq(Over(AllFn, hs))
      BY <1>2, FlattenConcat
<1> QED BY <1>1, <1>3 DEF GroupRows

----------------------------------------------------------------------------
(* Slices of a batch.                                                      *)

\* RecordBatch::slice holds the rows of its range.
LEMMA SliceIs ==
    ASSUME NEW b \in BatchSet, NEW start \in Nat, NEW len \in Nat, start + len <= NumRows(b)
    PROVE  /\ SliceBatch(b, start, len) \in BatchSet /\ NumRows(SliceBatch(b, start, len)) = len
           /\ Tuples(SliceBatch(b, start, len)) = SubSeq(Tuples(b), start + 1, start + len)
<1> DEFINE f == SliceBatch(b, start, len)
           n == NumRows(b)
<1>1. n \in Nat /\ DOMAIN b = DOMAIN Types
      BY FirstColumn, ColumnRowsType
<1>2. f = [c \in DOMAIN Types |-> [b[c] EXCEPT !.off = @ + start, !.len = len]]
      BY <1>1 DEF SliceBatch, Slice
<1> HIDE DEF f
<1>3. ASSUME NEW c \in DOMAIN Types
      PROVE  /\ f[c] \in [type : DataTypes, held : Seq(Value), off : Nat, len : Nat]
             /\ f[c].type = Types[c] /\ f[c].len = len /\ f[c].off = b[c].off + start
             /\ f[c].held = b[c].held /\ f[c].off + f[c].len <= Len(f[c].held)
  <2>1. b[c] \in [type : DataTypes, held : Seq(Value), off : Nat, len : Nat]
        BY DEF BatchSet
  <2>2. /\ b[c].len = n /\ b[c].off \in Nat /\ b[c].held \in Seq(Value)
        /\ b[c].off + b[c].len <= Len(b[c].held) /\ b[c].type = Types[c]
        BY ColumnRowsType
  <2>3. f[c] = [b[c] EXCEPT !.off = @ + start, !.len = len]
        BY <1>2
  <2> HIDE DEF n
  <2> DEFINE z == b[c]
             y == f[c]
  <2>4. /\ f[c] \in [type : DataTypes, held : Seq(Value), off : Nat, len : Nat]
        /\ f[c].type = b[c].type /\ f[c].len = len /\ f[c].off = b[c].off + start
        /\ f[c].held = b[c].held
    <3>1. y = [z EXCEPT !.off = @ + start, !.len = len]
          BY <2>3
    <3>2. z \in [type : DataTypes, held : Seq(Value), off : Nat, len : Nat]
          BY <2>1
    <3> HIDE DEF z, y
    <3>3. y = [type |-> z.type, held |-> z.held, off |-> z.off + start, len |-> len]
          BY ONLY <3>1, <3>2
    <3>4. z.off + start \in Nat /\ z.type \in DataTypes /\ z.held \in Seq(Value)
          BY ONLY <3>2, start \in Nat
    <3>5. y \in [type : DataTypes, held : Seq(Value), off : Nat, len : Nat]
          BY ONLY <3>3, <3>4, len \in Nat
    <3>6. y.type = z.type /\ y.len = len /\ y.off = z.off + start /\ y.held = z.held
          BY ONLY <3>3
    <3> QED BY <3>5, <3>6 DEF y, z
  <2>5. b[c].off + start + len <= Len(b[c].held)
        BY <1>1, <2>2 DEF n
  <2> QED BY <2>2, <2>4, <2>5
<1>4. NumRows(f) = len
      BY <1>3, FirstColumn DEF NumRows
<1>5. f \in BatchSet
  <2>1. f \in [DOMAIN Types -> [type : DataTypes, held : Seq(Value), off : Nat, len : Nat]]
        BY <1>2, <1>3
  <2>2. \A c \in DOMAIN Types : f[c].type = Types[c] /\ f[c].len = NumRows(f) /\ f[c].off + f[c].len <= Len(f[c].held)
        BY <1>3, <1>4
  <2> QED BY <2>1, <2>2 DEF BatchSet, IsBatch
<1>6. Tuples(f) = SubSeq(Tuples(b), start + 1, start + len)
  <2> DEFINE l == Tuples(f)
             t == Tuples(b)
             i == start + 1
             j == start + len
             r == SubSeq(t, i, j)
  <2>1. l \in Seq(Row) /\ Len(l) = len
        /\ \A k \in 1..len : \A c \in DOMAIN Types : l[k][c] = Rows(f[c])[k]
        BY <1>4, <1>5, TuplesType
  <2>2. t \in Seq(Row) /\ Len(t) = n /\ \A k \in 1..n : \A c \in DOMAIN Types : t[k][c] = Rows(b[c])[k]
        BY TuplesType
  <2> HIDE DEF l, t
  <2>3. r \in Seq(Row) /\ Len(r) = len /\ \A k \in 1..len : r[k] = t[start + k]
    <3>1. i \in Int /\ j \in Int /\ \A k \in i..j : t[k] \in Row
          BY <1>1, <2>2
    <3>2. j - i + 1 = len /\ (i > j => len = 0) /\ \A k \in 1..len : i + k - 1 = start + k
          OBVIOUS
    <3> HIDE DEF i, j
    <3>3. /\ r \in Seq(Row) /\ Len(r) = IF i <= j THEN j - i + 1 ELSE 0
          /\ \A k \in 1..(j - i + 1) : r[k] = t[i + k - 1]
          BY <3>1, SubSeqProperties
    <3> HIDE DEF r
    <3>4. Len(r) = len
          BY <3>1, <3>2, <3>3
    <3>5. ASSUME NEW k \in 1..len PROVE r[k] = t[start + k]
          BY <3>1, <3>2, <3>3
    <3> QED BY <3>3, <3>4, <3>5
  <2> HIDE DEF r
  <2>4. ASSUME NEW k \in 1..len PROVE l[k] = r[k]
    <3>1. l[k] \in Row /\ r[k] \in Row /\ r[k] = t[start + k] /\ start + k \in 1..n
          BY <1>1, <2>1, <2>3
    <3>2. ASSUME NEW c \in DOMAIN Types PROVE l[k][c] = r[k][c]
      <4>1. Rows(f[c])[k] = f[c].held[f[c].off + k]
            BY <1>4, <1>5, ColumnRowsType
      <4>2. Rows(b[c])[start + k] = b[c].held[b[c].off + (start + k)] /\ b[c].off \in Nat
            BY <3>1, ColumnRowsType
      <4>3. f[c].off + k = b[c].off + (start + k)
            BY <1>3, <4>2
      <4> QED BY <1>3, <2>1, <2>2, <3>1, <4>1, <4>2, <4>3
    <3> QED BY <3>1, <3>2 DEF Row
  <2>5. l = r
        BY <2>1, <2>3, <2>4, SeqEqual
  <2> QED BY <2>5 DEF l, r, t
<1> QED BY <1>4, <1>5, <1>6 DEF f

----------------------------------------------------------------------------
(* Splitting batches into groups.                                          *)

\* A sequence is what it starts with and the rest.
LEMMA SubSeqSplit ==
    ASSUME NEW T, NEW s \in Seq(T), NEW n \in Nat, n = Len(s), NEW cut \in Nat, cut <= n
    PROVE  /\ SubSeq(s, 1, cut) \in Seq(T) /\ SubSeq(s, cut + 1, n) \in Seq(T)
           /\ SubSeq(s, 1, cut) \o SubSeq(s, cut + 1, n) = s
           /\ SubSeq(s, 1, n) = s /\ SubSeq(s, 1, 0) = <<>>
<1> DEFINE a == SubSeq(s, 1, cut)
           j == cut + 1
           b == SubSeq(s, j, n)
           r == a \o b
<1>0. j \in Int /\ j <= n + 1 /\ n - j + 1 = n - cut
      OBVIOUS
<1>1. a \in Seq(T) /\ Len(a) = cut /\ \A k \in 1..cut : a[k] = s[k]
  <2>1. \A k \in 1..cut : s[k] \in T
        OBVIOUS
  <2> QED BY <2>1, SubSeqProperties
<1>2. b \in Seq(T) /\ Len(b) = n - cut /\ \A k \in 1..(n - cut) : b[k] = s[cut + k]
  <2>1. \A k \in j..n : s[k] \in T
        BY <1>0
  <2>2. /\ b \in Seq(T) /\ Len(b) = IF j <= n THEN n - j + 1 ELSE 0
        /\ \A k \in 1..(n - j + 1) : b[k] = s[j + k - 1]
        BY <1>0, <2>1, SubSeqProperties
  <2> HIDE DEF b
  <2>3. Len(b) = n - cut
        BY <1>0, <2>2
  <2>4. ASSUME NEW k \in 1..(n - cut) PROVE b[k] = s[cut + k]
    <3>1. j + k - 1 = cut + k
          OBVIOUS
    <3> QED BY <1>0, <2>2, <3>1
  <2> QED BY <2>2, <2>3, <2>4
<1> HIDE DEF a, b
<1>3. r \in Seq(T) /\ Len(r) = n
  <2>1. r \in Seq(T) /\ Len(r) = Len(a) + Len(b)
        BY <1>1, <1>2, ConcatLen
  <2> QED BY <1>1, <1>2, <2>1
<1>4. ASSUME NEW k \in 1..n PROVE r[k] = s[k]
  <2>1. CASE k <= cut
        BY <1>1, <1>2, <2>1
  <2>2. CASE k > cut
    <3>1. r[k] = b[k - cut] /\ k - cut \in 1..(n - cut)
          BY <1>1, <1>2, <2>2
    <3>2. cut + (k - cut) = k
          OBVIOUS
    <3> QED BY <1>2, <3>1, <3>2
  <2>3. k <= cut \/ k > cut
        OBVIOUS
  <2> QED BY <2>1, <2>2, <2>3
<1> HIDE DEF r
<1>5. r = s
      BY <1>3, <1>4, SeqEqual
<1>6. SubSeq(s, 1, n) = s /\ SubSeq(s, 1, 0) = <<>>
      OBVIOUS
<1> QED BY <1>1, <1>2, <1>5, <1>6 DEF a, b, r, j

\* The pieces cut off a batch that is too long: each full, together its first
\* rows, with a rest of at least one row and no more than fits.
LEMMA HeadsAre ==
    ASSUME NEW b \in BatchSet, NEW max \in Nat \ {0}
    PROVE  /\ Heads(b, max) \in Seq(Seq(BatchSet)) /\ Len(Heads(b, max)) \in Nat
           /\ Len(Heads(b, max)) * max \in Nat
           /\ Len(Heads(b, max)) * max <= NumRows(b)
           /\ NumRows(b) <= Len(Heads(b, max)) * max + max
           /\ Len(Heads(b, max)) > 0 => NumRows(b) > max
           /\ NumRows(b) > 0 => Len(Heads(b, max)) * max < NumRows(b)
           /\ GroupRows(Heads(b, max)) = SubSeq(Tuples(b), 1, Len(Heads(b, max)) * max)
           /\ \A i \in 1..Len(Heads(b, max)) : TotalRows(Heads(b, max)[i]) = max
<1> DEFINE rows == NumRows(b)
           n == IF rows > max THEN (rows - 1) \div max ELSE 0
           h == Heads(b, max)
           t == Tuples(b)
           cut == [k \in 0..n |-> k * max]
<1>1. rows \in Nat /\ t \in Seq(Row) /\ Len(t) = rows
      BY FirstColumn, ColumnRowsType, TuplesType
<1>2. h = [i \in 1..n |-> <<SliceBatch(b, (i - 1) * max, max)>>]
      BY DEF Heads
<1> HIDE DEF rows, t, h
<1>3. /\ n \in Nat /\ n * max \in Nat /\ n * max <= rows /\ rows <= n * max + max
      /\ (n > 0 => rows > max) /\ (rows > 0 => n * max < rows)
  <2>1. CASE rows > max
    <3>1. rows - 1 \in Nat /\ n = (rows - 1) \div max
          BY <1>1, <2>1
    <3>2. n \in Nat /\ n * max <= rows - 1 /\ rows - 1 < n * max + max
          BY <3>1, DivBounds
    <3>3. n * max \in Nat
          BY <3>2, TimesType
    <3> HIDE DEF n
    <3> QED BY <1>1, <2>1, <3>2, <3>3
  <2>2. CASE ~(rows > max)
    <3>1. n = 0
          BY <2>2
    <3>2. n * max = 0
          BY <3>1
    <3> QED BY <1>1, <2>2, <3>1, <3>2
  <2> QED BY <2>1, <2>2
<1> HIDE DEF n
<1>4. ASSUME NEW i \in 1..n
      PROVE  /\ i - 1 \in 0..n /\ i \in 0..n /\ (i - 1) * max \in Nat /\ i * max \in Nat
             /\ (i - 1) * max + max = i * max /\ i * max <= n * max
  <2>1. i - 1 \in Nat /\ i \in Nat /\ i <= n
        BY <1>3
  <2>2. (i - 1) * max \in Nat /\ i * max \in Nat
        BY <2>1, TimesType
  <2>3. i * max <= n * max
        BY <1>3, <2>1, TimesGrows
  <2>4. i * max = (i - 1) * max + max
        BY <2>1, TimesStep
  <2> QED BY <1>3, <2>1, <2>2, <2>3, <2>4
<1>5. ASSUME NEW i \in 1..n
      PROVE  /\ h[i] \in Seq(BatchSet) /\ TotalRows(h[i]) = max
             /\ AllTuples(h[i]) = SubSeq(t, cut[i - 1] + 1, cut[i])
  <2> DEFINE at == (i - 1) * max
             s == SliceBatch(b, at, max)
  <2>1. at \in Nat /\ at + max = i * max /\ i * max <= n * max /\ i - 1 \in 0..n /\ i \in 0..n /\ i * max \in Nat
        BY <1>4
  <2>2. cut[i - 1] = at /\ cut[i] = at + max
        BY <2>1
  <2> HIDE DEF at, cut
  <2>3. at + max <= NumRows(b)
        BY <1>1, <1>3, <2>1 DEF rows
  <2>4. s \in BatchSet /\ NumRows(s) = max /\ Tuples(s) = SubSeq(t, at + 1, at + max)
        BY <2>1, <2>3, SliceIs DEF t
  <2>5. h[i] = <<s>>
        BY <1>2 DEF at
  <2> HIDE DEF s
  <2> QED BY <2>2, <2>4, <2>5, AllTuplesOne
<1>6. h \in Seq(Seq(BatchSet)) /\ Len(h) = n /\ DOMAIN h = 1..n
  <2>1. h = [i \in 1..n |-> h[i]]
        BY <1>2
  <2>2. \A i \in 1..n : h[i] \in Seq(BatchSet)
        BY <1>5
  <2> QED BY ONLY <1>3, <2>1, <2>2, SeqUpTo
<1>7. GroupRows(h) = SubSeq(t, 1, n * max)
  <2> DEFINE p == [k \in 1..n |-> SubSeq(t, cut[k - 1] + 1, cut[k])]
  <2>1. Over(AllFn, h) = p
    <3>1. Over(AllFn, h) = [k \in 1..n |-> AllFn[h[k]]]
          BY <1>6 DEF Over
    <3>2. \A k \in 1..n : AllFn[h[k]] = SubSeq(t, cut[k - 1] + 1, cut[k])
          BY <1>5, AllFnType
    <3> QED BY <3>1, <3>2
  <2>2. cut \in [0..n -> Nat] /\ cut[0] = 0 /\ cut[n] = n * max
    <3>1. \A k \in 0..n : k * max \in Nat
          BY <1>3, TimesType
    <3>2. 0 * max = 0 /\ 0 \in 0..n /\ n \in 0..n
          BY <1>3
    <3> QED BY <3>1, <3>2
  <2>3. \A k \in 0..n : cut[k] <= Len(t)
    <3> SUFFICES ASSUME NEW k \in 0..n PROVE cut[k] <= Len(t)
        OBVIOUS
    <3>1. k * max <= n * max /\ k * max \in Nat
          BY <1>3, TimesGrows, TimesType
    <3> QED BY <1>1, <1>3, <3>1
  <2>4. \A k \in 1..n : cut[k - 1] <= cut[k]
    <3> SUFFICES ASSUME NEW k \in 1..n PROVE cut[k - 1] <= cut[k]
        OBVIOUS
    <3> QED BY <1>4
  <2> HIDE DEF cut
  <2>5. FlattenSeq(p) = SubSeq(t, cut[0] + 1, cut[n])
        BY <1>1, <1>3, <2>2, <2>3, <2>4, FlattenCuts
  <2> QED BY <2>1, <2>2, <2>5 DEF GroupRows
<1>8. \A i \in 1..Len(h) : TotalRows(h[i]) = max
      BY <1>5, <1>6
<1> QED BY <1>3, <1>6, <1>7, <1>8 DEF h, t, rows

\* What the loop leaves of a batch.
LEMMA RestIs ==
    ASSUME NEW b \in BatchSet, NEW cut \in Nat, cut <= NumRows(b)
    PROVE  /\ Rest(b, cut) \in BatchSet /\ NumRows(Rest(b, cut)) = NumRows(b) - cut
           /\ SubSeq(Tuples(b), 1, cut) \o Tuples(Rest(b, cut)) = Tuples(b)
           /\ cut = 0 => Rest(b, cut) = b
<1> DEFINE n == NumRows(b)
           t == Tuples(b)
<1>1. n \in Nat /\ t \in Seq(Row) /\ n = Len(t)
      BY FirstColumn, ColumnRowsType, TuplesType
<1>2. CASE cut = 0
  <2>1. Rest(b, cut) = b
        BY <1>2 DEF Rest
  <2>2. SubSeq(t, 1, cut) = <<>> /\ <<>> \o t = t
        BY <1>1, <1>2
  <2> QED BY <1>1, <1>2, <2>1, <2>2
<1>3. CASE cut # 0
  <2> DEFINE len == n - cut
  <2>1. Rest(b, cut) = SliceBatch(b, cut, len)
        BY <1>3 DEF Rest
  <2>2. len \in Nat /\ cut + len <= NumRows(b) /\ cut + len = n
        BY <1>1
  <2> HIDE DEF len
  <2>3. SliceBatch(b, cut, len) \in BatchSet /\ NumRows(SliceBatch(b, cut, len)) = len
        /\ Tuples(SliceBatch(b, cut, len)) = SubSeq(t, cut + 1, n)
        BY <2>2, SliceIs
  <2> HIDE DEF n, t
  <2>4. cut <= n
        BY DEF n
  <2>5. SubSeq(t, 1, cut) \o SubSeq(t, cut + 1, n) = t
        BY <1>1, <2>4, SubSeqSplit
  <2> QED BY <1>3, <2>1, <2>3, <2>5 DEF n, t, len
<1> QED BY <1>2, <1>3

\* The groups closed so far and the open one: every group has a row and none
\* more than fit.
OpenSet == [groups : Seq(Seq(BatchSet)), current : Seq(BatchSet), rows : Nat]
Fits(groups, max) == \A i \in 1..Len(groups) : TotalRows(groups[i]) \in 1..max
OpenInv(o, max) ==
    /\ o \in OpenSet /\ o.rows = TotalRows(o.current) /\ o.rows <= max
    /\ o.current # <<>> => o.rows > 0
    /\ Fits(o.groups, max)
OpenRows(o) == GroupRows(o.groups) \o AllTuples(o.current)

\* Joining sequences is associative.
LEMMA ConcatAssoc ==
    ASSUME NEW T, NEW s \in Seq(T), NEW t \in Seq(T), NEW u \in Seq(T)
    PROVE  (s \o t) \o u = s \o (t \o u)
BY ConcatAssociative

\* The type and the length of a sequence with one more.
LEMMA AppendType ==
    ASSUME NEW T, NEW s \in Seq(T), NEW x \in T
    PROVE  Append(s, x) \in Seq(T) /\ Append(s, x) # <<>> /\ Len(Append(s, x)) = Len(s) + 1
<1>1. Append(s, x) \in Seq(T) /\ Len(Append(s, x)) = Len(s) + 1 /\ Len(s) \in Nat
      OBVIOUS
<1>2. Append(s, x) # <<>>
  <2>1. Len(s) + 1 # 0 /\ Len(<<>>) = 0
        BY <1>1
  <2> QED BY <1>1, <2>1
<1> QED BY <1>1, <1>2

\* The state of the loop with more closed groups, field by field.
LEMMA OpenExcept ==
    ASSUME NEW p \in OpenSet, NEW h
    PROVE  [p EXCEPT !.groups = @ \o h]
           = [groups |-> p.groups \o h, current |-> p.current, rows |-> p.rows]
<1> DEFINE x == p.groups \o h
<1>1. [p EXCEPT !.groups = @ \o h] = [p EXCEPT !.groups = x]
      OBVIOUS
<1> HIDE DEF x
<1>2. [p EXCEPT !.groups = x] = [groups |-> x, current |-> p.current, rows |-> p.rows]
      BY DEF OpenSet
<1> QED BY <1>1, <1>2 DEF x

\* The types of the fields of the loop's state.
LEMMA OpenTypes ==
    ASSUME NEW o, o \in OpenSet
    PROVE  /\ o.groups \in Seq(Seq(BatchSet)) /\ o.current \in Seq(BatchSet) /\ o.rows \in Nat
           /\ GroupRows(o.groups) \in Seq(Row) /\ AllTuples(o.current) \in Seq(Row)
           /\ OpenRows(o) \in Seq(Row)
<1>1. o.groups \in Seq(Seq(BatchSet)) /\ o.current \in Seq(BatchSet) /\ o.rows \in Nat
      BY DEF OpenSet
<1>2. GroupRows(o.groups) \in Seq(Row) /\ AllTuples(o.current) \in Seq(Row)
      BY <1>1, GroupRowsType, AllTuplesIs
<1>3. OpenRows(o) \in Seq(Row)
      BY <1>2, ConcatLen DEF OpenRows
<1> QED BY <1>1, <1>2, <1>3

\* One group more that fits.
LEMMA FitsAppend ==
    ASSUME NEW gs \in Seq(Seq(BatchSet)), NEW g \in Seq(BatchSet), NEW max \in Nat,
           Fits(gs, max), TotalRows(g) \in 1..max
    PROVE  Fits(Append(gs, g), max)
<1> DEFINE n == Len(gs)
           w == Append(gs, g)
<1>1. n \in Nat /\ Len(w) = n + 1 /\ w[n + 1] = g /\ \A i \in 1..n : w[i] = gs[i]
      OBVIOUS
<1> SUFFICES ASSUME NEW i \in 1..(n + 1) PROVE TotalRows(w[i]) \in 1..max
    BY <1>1 DEF Fits
<1> HIDE DEF w
<1>2. i = n + 1 \/ i \in 1..n
      BY <1>1
<1>3. \A k \in 1..n : TotalRows(gs[k]) \in 1..max
      BY DEF Fits
<1> QED BY <1>1, <1>2, <1>3

\* Closing the open group changes no row.
LEMMA CloseKeeps ==
    ASSUME NEW max \in Nat \ {0}, NEW o, OpenInv(o, max), o.rows > 0
    PROVE  /\ OpenInv(Close(o), max) /\ OpenRows(Close(o)) = OpenRows(o)
           /\ Close(o).rows = 0 /\ Close(o).current = <<>>
<1> DEFINE c == Close(o)
<1>1. c = [groups |-> Append(o.groups, o.current), current |-> <<>>, rows |-> 0]
      BY DEF Close
<1>2. o \in OpenSet
      BY DEF OpenInv
<1>3. /\ o.groups \in Seq(Seq(BatchSet)) /\ o.current \in Seq(BatchSet) /\ o.rows \in Nat
      /\ GroupRows(o.groups) \in Seq(Row) /\ AllTuples(o.current) \in Seq(Row)
      /\ OpenRows(o) \in Seq(Row)
      BY <1>2, OpenTypes
<1>4. c.groups = Append(o.groups, o.current) /\ c.current = <<>> /\ c.rows = 0
      BY <1>1
<1>5. Append(o.groups, o.current) \in Seq(Seq(BatchSet)) /\ <<>> \in Seq(BatchSet)
  <2> DEFINE G == Seq(BatchSet)
             gs == o.groups
             g == o.current
  <2>1. gs \in Seq(G) /\ g \in G
        BY <1>3
  <2> HIDE DEF G, gs, g
  <2>2. Append(gs, g) \in Seq(G)
        BY <2>1
  <2>3. <<>> \in Seq(BatchSet)
        OBVIOUS
  <2> QED BY <2>2, <2>3 DEF G, gs, g
<1>6. c \in OpenSet
      BY <1>1, <1>5 DEF OpenSet
<1>7. Fits(c.groups, max)
  <2>1. TotalRows(o.current) \in 1..max /\ Fits(o.groups, max)
        BY <1>3 DEF OpenInv
  <2> QED BY <1>3, <1>4, <2>1, FitsAppend
<1> HIDE DEF c
<1>8. OpenInv(c, max)
      BY <1>4, <1>6, <1>7, AllTuplesEmpty DEF OpenInv
<1>9. OpenRows(c) = OpenRows(o)
  <2>1. GroupRows(c.groups) = OpenRows(o)
        BY <1>3, <1>4, GroupRowsAppend DEF OpenRows
  <2>2. OpenRows(c) = OpenRows(o) \o <<>>
        BY <1>4, <2>1, AllTuplesEmpty DEF OpenRows
  <2>3. OpenRows(o) \o <<>> = OpenRows(o)
        BY <1>3, ConcatEmptySeq
  <2> QED BY <2>2, <2>3
<1> QED BY <1>4, <1>8, <1>9 DEF c

\* Before a batch is added the open group has room for it, or is empty.
LEMMA OpenedKeeps ==
    ASSUME NEW max \in Nat \ {0}, NEW o, OpenInv(o, max), NEW n \in Nat
    PROVE  /\ OpenInv(Opened(o, n, max), max) /\ OpenRows(Opened(o, n, max)) = OpenRows(o)
           /\ \/ Opened(o, n, max).rows = 0 /\ Opened(o, n, max).current = <<>>
              \/ Opened(o, n, max).rows + n <= max
<1>1. o.rows \in Nat
      BY OpenTypes DEF OpenInv
<1>2. CASE Overfills(o, n, max)
  <2>1. o.rows > 0
        BY <1>2 DEF Overfills
  <2>2. Opened(o, n, max) = Close(o)
        BY <1>2 DEF Opened
  <2> QED BY <2>1, <2>2, CloseKeeps
<1>3. CASE ~Overfills(o, n, max)
  <2>1. Opened(o, n, max) = o
        BY <1>3 DEF Opened
  <2>2. ~(o.rows > 0) \/ ~(n > max - o.rows)
        BY <1>3 DEF Overfills
  <2>3. CASE ~(o.rows > 0)
    <3>1. o.rows = 0
          BY <1>1, <2>3
    <3>2. o.current = <<>>
          BY <3>1 DEF OpenInv
    <3> QED BY <2>1, <3>1, <3>2
  <2>4. CASE ~(n > max - o.rows)
    <3>1. o.rows + n <= max
          BY <1>1, <2>4
    <3> QED BY <2>1, <3>1
  <2> QED BY <2>2, <2>3, <2>4
<1> QED BY <1>2, <1>3

\* Groups of exactly max rows after groups that fit.
LEMMA FitsConcat ==
    ASSUME NEW gs \in Seq(Seq(BatchSet)), NEW hs \in Seq(Seq(BatchSet)), NEW max \in Nat \ {0},
           Fits(gs, max), \A i \in 1..Len(hs) : TotalRows(hs[i]) = max
    PROVE  Fits(gs \o hs, max)
<1> DEFINE m == Len(gs)
           n == Len(hs)
           w == gs \o hs
<1>1. m \in Nat /\ n \in Nat /\ Len(w) = m + n
      OBVIOUS
<1>2. \A i \in 1..m : w[i] = gs[i]
      OBVIOUS
<1>3. \A i \in (m + 1)..(m + n) : w[i] = hs[i - m] /\ i - m \in 1..n
      BY <1>1
<1>4. \A k \in 1..m : TotalRows(gs[k]) \in 1..max
      BY DEF Fits
<1> HIDE DEF w, m, n
<1> SUFFICES ASSUME NEW i \in 1..(m + n) PROVE TotalRows(w[i]) \in 1..max
    BY <1>1 DEF Fits, w
<1>5. CASE i \in 1..m
      BY <1>2, <1>4, <1>5
<1>6. CASE i \in (m + 1)..(m + n)
  <2>1. TotalRows(hs[i - m]) = max
        BY <1>3, <1>6 DEF n
  <2> QED BY <1>3, <1>6, <2>1
<1>7. i \in 1..m \/ i \in (m + 1)..(m + n)
      BY <1>1
<1> QED BY <1>5, <1>6, <1>7

\* A batch and the pieces cut off it.
LEMMA AddBatchKeeps ==
    ASSUME NEW max \in Nat \ {0}, NEW o, OpenInv(o, max), NEW b \in BatchSet
    PROVE  /\ OpenInv(AddBatch(o, b, max), max)
           /\ OpenRows(AddBatch(o, b, max)) = OpenRows(o) \o Tuples(b)
<1> DEFINE n == NumRows(b)
           t == Tuples(b)
           p == Opened(o, n, max)
           h == Heads(b, max)
           cut == Len(h) * max
           r == Rest(b, cut)
           q == [p EXCEPT !.groups = @ \o h]
           s == Added(q, r)
           gs == p.groups
           cur == p.current
<1>1. n \in Nat /\ t \in Seq(Row) /\ Len(t) = n
      BY FirstColumn, ColumnRowsType, TuplesType
<1>2. /\ OpenInv(p, max) /\ OpenRows(p) = OpenRows(o)
      /\ \/ p.rows = 0 /\ cur = <<>>
         \/ p.rows + n <= max
      BY <1>1, OpenedKeeps
<1>3. /\ h \in Seq(Seq(BatchSet)) /\ Len(h) \in Nat /\ cut \in Nat /\ cut <= n /\ n <= cut + max
      /\ (Len(h) > 0 => n > max) /\ (n > 0 => cut < n)
      /\ GroupRows(h) = SubSeq(t, 1, cut) /\ \A i \in 1..Len(h) : TotalRows(h[i]) = max
      BY HeadsAre
<1>4. AddBatch(o, b, max) = CloseFull(s, max)
      BY DEF AddBatch, AddPieces
<1>5. ((Len(h) = 0 => cut = 0) /\ h = <<>>) \/ Len(h) > 0
  <2>1. Len(h) = 0 => cut = 0
        OBVIOUS
  <2>2. Len(h) = 0 => h = <<>>
        BY <1>3
  <2> QED BY <1>3, <2>1, <2>2
<1> HIDE DEF n, t, p, h, cut
<1>6. r \in BatchSet /\ NumRows(r) = n - cut /\ SubSeq(t, 1, cut) \o Tuples(r) = t /\ (cut = 0 => r = b)
      BY <1>3, RestIs DEF n, t
<1> HIDE DEF r
<1>7. p \in OpenSet /\ p.rows = TotalRows(cur) /\ p.rows <= max /\ (cur # <<>> => p.rows > 0) /\ Fits(gs, max)
      BY <1>2 DEF OpenInv
<1>8. /\ gs \in Seq(Seq(BatchSet)) /\ cur \in Seq(BatchSet) /\ p.rows \in Nat
      /\ GroupRows(gs) \in Seq(Row) /\ AllTuples(cur) \in Seq(Row) /\ OpenRows(p) \in Seq(Row)
      BY <1>7, OpenTypes
<1>9. q \in OpenSet /\ q.groups = gs \o h /\ q.current = cur /\ q.rows = p.rows
  <2>1. q = [groups |-> gs \o h, current |-> cur, rows |-> p.rows]
        BY <1>7, OpenExcept
  <2>2. gs \o h \in Seq(Seq(BatchSet))
        BY <1>3, <1>8, ConcatLen
  <2> HIDE DEF q, gs, cur
  <2> QED BY <1>8, <2>1, <2>2 DEF OpenSet
<1>10. Fits(q.groups, max)
       BY <1>3, <1>7, <1>8, <1>9, FitsConcat
<1>11. Tuples(r) \in Seq(Row)
       BY <1>6, TuplesType
<1>12. OpenRows(q) \o Tuples(r) = OpenRows(p) \o t
  <2>1. CASE Len(h) > 0
    <3>1. cur = <<>>
          BY <1>1, <1>2, <1>3, <1>8, <2>1
    <3>2. OpenRows(p) = GroupRows(gs) /\ OpenRows(q) = GroupRows(gs \o h)
      <4>1. OpenRows(p) = GroupRows(gs) \o <<>> /\ OpenRows(q) = GroupRows(gs \o h) \o <<>>
            BY <1>9, <3>1, AllTuplesEmpty DEF OpenRows
      <4>2. GroupRows(gs \o h) \in Seq(Row)
            BY <1>3, <1>8, ConcatLen, GroupRowsType
      <4> QED BY <1>8, <4>1, <4>2, ConcatEmptySeq
    <3>3. GroupRows(gs \o h) = GroupRows(gs) \o GroupRows(h)
          BY <1>3, <1>8, GroupRowsConcat
    <3>4. GroupRows(h) \in Seq(Row)
          BY <1>3, GroupRowsType
    <3>5. (GroupRows(gs) \o GroupRows(h)) \o Tuples(r) = GroupRows(gs) \o (GroupRows(h) \o Tuples(r))
      <4>1. GroupRows(gs) \in Seq(Row) /\ GroupRows(h) \in Seq(Row) /\ Tuples(r) \in Seq(Row)
            BY <1>8, <1>11, <3>4
      <4> QED BY ONLY <4>1, ConcatAssoc
    <3> QED BY <1>3, <1>6, <3>2, <3>3, <3>5
  <2>2. CASE h = <<>> /\ cut = 0
    <3>1. r = b /\ Tuples(r) = t
          BY <1>6, <2>2 DEF t
    <3>2. gs \o h = gs
          BY <1>8, <2>2, ConcatEmptySeq
    <3> QED BY <1>9, <3>1, <3>2 DEF OpenRows
  <2> QED BY <1>3, <1>5, <2>1, <2>2 DEF cut
<1>13. /\ OpenInv(s, max) /\ OpenRows(s) = OpenRows(p) \o t
  <2>1. CASE NumRows(r) = 0
    <3>1. s = q
          BY <2>1 DEF Added
    <3>2. Tuples(r) = <<>>
      <4>1. Len(Tuples(r)) = 0
            BY <1>6, <2>1, TuplesType
      <4> QED BY <1>11, <4>1
    <3>3. OpenRows(q) \o <<>> = OpenRows(q)
      <4>1. OpenRows(q) \in Seq(Row)
            BY <1>9, OpenTypes
      <4> QED BY <4>1, ConcatEmptySeq
    <3>4. OpenInv(q, max)
          BY <1>7, <1>9, <1>10 DEF OpenInv
    <3> QED BY <1>12, <3>1, <3>2, <3>3, <3>4
  <2>2. CASE NumRows(r) # 0
    <3> HIDE DEF q
    <3>1. s = [q EXCEPT !.current = Append(@, r), !.rows = @ + NumRows(r)]
          BY <2>2 DEF Added
    <3>2. s = [groups |-> q.groups, current |-> Append(q.current, r), rows |-> q.rows + NumRows(r)]
          BY <1>9, <3>1 DEF OpenSet
    <3> HIDE DEF s
    <3>3. NumRows(r) \in Nat /\ NumRows(r) > 0
          BY <1>1, <1>3, <1>6, <2>2
    <3>4. q.groups \in Seq(Seq(BatchSet)) /\ q.current \in Seq(BatchSet) /\ q.rows \in Nat
          /\ AllTuples(q.current) \in Seq(Row) /\ GroupRows(q.groups) \in Seq(Row)
          BY <1>9, OpenTypes
    <3>5. Append(q.current, r) \in Seq(BatchSet) /\ Append(q.current, r) # <<>>
          BY <1>6, <3>4, AppendType
    <3>6. q.rows + NumRows(r) \in Nat
          BY <3>3, <3>4
    <3>7. s \in OpenSet /\ s.groups = q.groups /\ s.current = Append(q.current, r) /\ s.rows = q.rows + NumRows(r)
          BY <3>2, <3>4, <3>5, <3>6 DEF OpenSet
    <3>8. s.rows = TotalRows(s.current)
      <4>1. TotalRows(Append(q.current, r)) = TotalRows(q.current) + NumRows(r)
            BY <1>6, <3>4, AllTuplesAppend
      <4> QED BY <1>7, <1>9, <3>7, <4>1
    <3>9. s.rows > 0
          BY <3>3, <3>4, <3>7
    <3>10. s.rows <= max
      <4>1. p.rows + n <= max => p.rows + (n - cut) <= max
            BY <1>1, <1>3, <1>8
      <4>2. p.rows = 0 => p.rows + (n - cut) <= max
            BY <1>1, <1>3, <1>8
      <4> QED BY <1>2, <1>6, <1>9, <3>7, <4>1, <4>2
    <3>11. OpenInv(s, max)
           BY <1>10, <3>7, <3>8, <3>9, <3>10 DEF OpenInv
    <3>12. OpenRows(s) = OpenRows(q) \o Tuples(r)
      <4>1. AllTuples(s.current) = AllTuples(q.current) \o Tuples(r)
            BY <1>6, <3>4, <3>7, AllTuplesAppend
      <4>2. GroupRows(q.groups) \o (AllTuples(q.current) \o Tuples(r))
            = (GroupRows(q.groups) \o AllTuples(q.current)) \o Tuples(r)
        <5>1. GroupRows(q.groups) \in Seq(Row) /\ AllTuples(q.current) \in Seq(Row) /\ Tuples(r) \in Seq(Row)
              BY <1>11, <3>4
        <5> QED BY ONLY <5>1, ConcatAssoc
      <4> QED BY <3>7, <4>1, <4>2 DEF OpenRows
    <3> QED BY <1>12, <3>11, <3>12
  <2> QED BY <2>1, <2>2
<1> HIDE DEF s
<1>14. /\ OpenInv(CloseFull(s, max), max) /\ OpenRows(CloseFull(s, max)) = OpenRows(s)
  <2>1. s.rows \in Nat
        BY <1>13, OpenTypes DEF OpenInv
  <2>2. CASE s.rows >= max
    <3>1. s.rows > 0
          BY <2>1, <2>2
    <3> QED BY <1>13, <2>2, <3>1, CloseKeeps DEF CloseFull
  <2>3. CASE ~(s.rows >= max)
        BY <1>13, <2>3 DEF CloseFull
  <2> QED BY <2>2, <2>3
<1> QED BY <1>2, <1>4, <1>13, <1>14 DEF t

----------------------------------------------------------------------------
(* The loop over the batches.                                              *)

\* f is the state of split_row_groups after each batch.
Adds(f, batches, max, n) ==
    f = [i \in 0..n |-> IF i = 0 THEN [groups |-> <<>>, current |-> <<>>, rows |-> 0] ELSE AddBatch(f[i - 1], batches[i], max)]

\* There is such a function.
LEMMA AddsExists ==
    ASSUME NEW batches, NEW max, NEW n \in Nat
    PROVE  \E f : Adds(f, batches, max, n)
<1> DEFINE Up(k) == \E f : Adds(f, batches, max, k)
           N == {k \in Nat : Up(k)}
<1>1. 0 \in N
  <2>1. Up(0)
    <3> DEFINE f == [i \in 0..0 |-> [groups |-> <<>>, current |-> <<>>, rows |-> 0]]
    <3>1. f = [i \in 0..0 |-> IF i = 0 THEN [groups |-> <<>>, current |-> <<>>, rows |-> 0] ELSE AddBatch(f[i - 1], batches[i], max)]
          OBVIOUS
    <3> HIDE DEF f
    <3>2. Adds(f, batches, max, 0)
          BY <3>1 DEF Adds
    <3> QED BY <3>2
  <2> QED BY <2>1
<1>2. ASSUME NEW k \in Nat, k \in N PROVE k + 1 \in N
  <2>1. PICK f : Adds(f, batches, max, k)
        BY <1>2
  <2>2. f = [i \in 0..k |-> IF i = 0 THEN [groups |-> <<>>, current |-> <<>>, rows |-> 0] ELSE AddBatch(f[i - 1], batches[i], max)]
        BY <2>1 DEF Adds
  <2> DEFINE m == k + 1
             g == [i \in 0..m |-> IF i = m THEN AddBatch(f[i - 1], batches[i], max) ELSE f[i]]
  <2>3. ASSUME NEW i \in 0..m PROVE g[i] = IF i = 0 THEN [groups |-> <<>>, current |-> <<>>, rows |-> 0] ELSE AddBatch(g[i - 1], batches[i], max)
    <3>1. CASE i = m
      <4>1. i # 0 /\ i - 1 \in 0..m /\ i - 1 # m
            BY <3>1
      <4>2. g[i - 1] = f[i - 1]
            BY <4>1
      <4> QED BY <3>1, <4>1, <4>2
    <3>2. CASE i # m
      <4>1. i \in 0..k /\ g[i] = f[i]
            BY <3>2
      <4>2. i # 0 => i - 1 \in 0..m /\ i - 1 # m /\ g[i - 1] = f[i - 1]
            BY <3>2
      <4>3. f[i] = IF i = 0 THEN [groups |-> <<>>, current |-> <<>>, rows |-> 0] ELSE AddBatch(f[i - 1], batches[i], max)
            BY <2>2, <4>1
      <4> HIDE DEF g, m
      <4> QED BY <4>1, <4>2, <4>3
    <3> QED BY <3>1, <3>2
  <2>4. g = [i \in 0..m |-> IF i = 0 THEN [groups |-> <<>>, current |-> <<>>, rows |-> 0] ELSE AddBatch(g[i - 1], batches[i], max)]
        BY <2>3
  <2> HIDE DEF g
  <2>5. Up(m)
    <3>1. Adds(g, batches, max, m)
          BY <2>4 DEF Adds
    <3> QED BY <3>1
  <2>6. m \in Nat
        OBVIOUS
  <2> HIDE DEF Up
  <2> QED BY <2>5, <2>6
<1> HIDE DEF N
<1>3. n \in N
      BY <1>1, <1>2, SetInduction
<1> QED BY <1>3 DEF N

\* Its first value, and one value from the one before.
LEMMA AddsStep ==
    ASSUME NEW batches, NEW max, NEW n \in Nat, NEW f, Adds(f, batches, max, n)
    PROVE  /\ f[0] = [groups |-> <<>>, current |-> <<>>, rows |-> 0]
           /\ \A i \in 1..n : f[i] = AddBatch(f[i - 1], batches[i], max)
<1>1. f = [i \in 0..n |-> IF i = 0 THEN [groups |-> <<>>, current |-> <<>>, rows |-> 0] ELSE AddBatch(f[i - 1], batches[i], max)]
      BY DEF Adds
<1>2. f[0] = [groups |-> <<>>, current |-> <<>>, rows |-> 0]
  <2>1. 0 \in 0..n
        OBVIOUS
  <2> QED BY <1>1, <2>1
<1>3. ASSUME NEW i \in 1..n PROVE f[i] = AddBatch(f[i - 1], batches[i], max)
  <2>1. i \in 0..n /\ i # 0
        OBVIOUS
  <2> QED BY <1>1, <2>1
<1> QED BY <1>2, <1>3

\* split_row_groups' loop is the recursive function over the batches.
LEMMA AddAllIs ==
    ASSUME NEW batches, NEW max, NEW n \in Nat, n = Len(batches)
    PROVE  \E f : Adds(f, batches, max, n) /\ AddAll(batches, max) = f[n]
<1>1. \E f : Adds(f, batches, max, n)
      BY AddsExists
<1>2. PICK f : f = CHOOSE g : g = [i \in 0..n |-> IF i = 0 THEN [groups |-> <<>>, current |-> <<>>, rows |-> 0]
                                                   ELSE AddBatch(g[i - 1], batches[i], max)]
      OBVIOUS
<1>3. Adds(f, batches, max, n)
      BY <1>1, <1>2 DEF Adds
<1>4. AddAll(batches, max) = f[n]
      BY <1>2 DEF AddAll
<1> QED BY <1>3, <1>4

\* After the loop no row is lost and every group fits.
LEMMA AddAllKeeps ==
    ASSUME NEW batches \in Seq(BatchSet), NEW max \in Nat \ {0}
    PROVE  OpenInv(AddAll(batches, max), max) /\ OpenRows(AddAll(batches, max)) = AllTuples(batches)
<1> DEFINE n == Len(batches)
           Start(k) == [i \in 1..k |-> batches[i]]
<1>1. n \in Nat
      OBVIOUS
<1>2. PICK f : Adds(f, batches, max, n) /\ AddAll(batches, max) = f[n]
      BY <1>1, AddAllIs
<1>3. /\ f[0] = [groups |-> <<>>, current |-> <<>>, rows |-> 0]
      /\ \A i \in 1..n : f[i] = AddBatch(f[i - 1], batches[i], max)
      BY <1>1, <1>2, AddsStep
<1> DEFINE so == [k \in 0..n |-> [i \in 1..k |-> batches[i]]]
           Q(k) == k <= n => OpenInv(f[k], max) /\ OpenRows(f[k]) = AllTuples(so[k])
           N == {k \in Nat : Q(k)}
<1>4. \A k \in 0..n : so[k] \in Seq(BatchSet) /\ so[k] = [i \in 1..k |-> batches[i]]
      BY <1>1
<1>5. so[0] = <<>> /\ so[n] = batches
  <2>1. 0 \in 0..n /\ n \in 0..n
        BY <1>1
  <2>2. so[0] = [i \in 1..0 |-> batches[i]] /\ so[n] = [i \in 1..n |-> batches[i]]
        BY <2>1
  <2>3. [i \in 1..n |-> batches[i]] = batches
        OBVIOUS
  <2> QED BY <2>2, <2>3
<1>6. \A k \in 1..n : so[k] = Append(so[k - 1], batches[k])
  <2> SUFFICES ASSUME NEW k \in 1..n PROVE so[k] = Append(so[k - 1], batches[k])
      OBVIOUS
  <2> DEFINE p == so[k - 1]
             q == so[k]
             x == batches[k]
  <2>1. k - 1 \in 0..n /\ k \in 0..n /\ x \in BatchSet
        BY <1>1
  <2>2. p = [i \in 1..(k - 1) |-> batches[i]] /\ p \in Seq(BatchSet) /\ q = [i \in 1..k |-> batches[i]] /\ q \in Seq(BatchSet)
        BY <1>4, <2>1
  <2> HIDE DEF p, q, x, so
  <2>3. Len(p) = k - 1 /\ Len(q) = k
        BY <2>1, <2>2
  <2> DEFINE a == Append(p, x)
  <2>4. a \in Seq(BatchSet) /\ Len(a) = k
        BY <2>1, <2>2, <2>3, AppendType
  <2>5. ASSUME NEW i \in 1..k PROVE a[i] = q[i]
    <3>1. CASE i = k
      <4>1. a[k] = x
            BY <2>1, <2>2, <2>3
      <4> QED BY <2>2, <3>1, <4>1 DEF x
    <3>2. CASE i \in 1..(k - 1)
      <4>1. a[i] = p[i]
            BY <2>1, <2>2, <2>3, <3>2
      <4> QED BY <2>2, <3>2, <4>1
    <3>3. i = k \/ i \in 1..(k - 1)
          OBVIOUS
    <3> QED BY <3>1, <3>2, <3>3
  <2> HIDE DEF a
  <2>6. a = q
        BY <2>2, <2>3, <2>4, <2>5, SeqEqual
  <2> QED BY <2>6 DEF a, q, p, x
<1> HIDE DEF so
<1>7. 0 \in N
  <2> DEFINE o == [groups |-> <<>>, current |-> <<>>, rows |-> 0]
  <2>1. o \in OpenSet /\ o.groups = <<>> /\ o.current = <<>> /\ o.rows = 0
        BY DEF OpenSet
  <2> HIDE DEF o
  <2>2. Fits(o.groups, max)
        BY <2>1 DEF Fits
  <2>3. OpenInv(o, max)
        BY <2>1, <2>2, AllTuplesEmpty DEF OpenInv
  <2>4. OpenRows(o) = <<>>
        BY <2>1, AllTuplesEmpty, GroupRowsEmpty DEF OpenRows
  <2>5. f[0] = o
        BY <1>3 DEF o
  <2>6. Q(0)
        BY <1>5, <2>3, <2>4, <2>5, AllTuplesEmpty
  <2> HIDE DEF Q
  <2> QED BY <2>6
<1>8. ASSUME NEW k \in Nat, k \in N PROVE k + 1 \in N
  <2> DEFINE j == k + 1
  <2>1. j \in Nat
        OBVIOUS
  <2>2. ASSUME j <= n PROVE OpenInv(f[j], max) /\ OpenRows(f[j]) = AllTuples(so[j])
    <3>1. k <= n /\ j \in 1..n /\ j - 1 = k /\ k \in 0..n /\ j \in 0..n
          BY <1>1, <2>2
    <3>2. OpenInv(f[k], max) /\ OpenRows(f[k]) = AllTuples(so[k])
          BY <1>8, <3>1
    <3>3. f[j] = AddBatch(f[k], batches[j], max) /\ so[j] = Append(so[k], batches[j])
          BY <1>3, <1>6, <3>1
    <3>4. batches[j] \in BatchSet /\ so[k] \in Seq(BatchSet)
      <4>1. batches[j] \in BatchSet
            BY <3>1
      <4>2. so[k] \in Seq(BatchSet)
            BY <1>4, <3>1
      <4> QED BY <4>1, <4>2
    <3> HIDE DEF j
    <3> DEFINE y == f[k]
               b == batches[j]
    <3>5. OpenInv(f[j], max) /\ OpenRows(f[j]) = OpenRows(f[k]) \o Tuples(batches[j])
      <4>1. OpenInv(y, max) /\ b \in BatchSet /\ f[j] = AddBatch(y, b, max)
            BY <3>2, <3>3, <3>4
      <4> HIDE DEF y, b
      <4>2. OpenInv(AddBatch(y, b, max), max) /\ OpenRows(AddBatch(y, b, max)) = OpenRows(y) \o Tuples(b)
            BY <4>1, AddBatchKeeps
      <4> QED BY <4>1, <4>2 DEF y, b
    <3>6. AllTuples(so[j]) = AllTuples(so[k]) \o Tuples(batches[j])
          BY <3>3, <3>4, AllTuplesAppend
    <3> QED BY <3>2, <3>5, <3>6
  <2>3. Q(j)
        BY <2>2
  <2> HIDE DEF Q
  <2> QED BY <2>1, <2>3
<1> HIDE DEF N
<1>9. n \in N
      BY <1>1, <1>7, <1>8, SetInduction
<1>10. Q(n)
       BY <1>9 DEF N
<1> QED BY <1>1, <1>2, <1>5, <1>10

\* Splitting neither loses, repeats nor moves a row, no group is empty and,
\* with a limit, none is larger.
LEMMA SplitKeeps ==
    ASSUME NEW batches \in Seq(BatchSet), NEW max \in Nat, TotalRows(batches) > 0
    PROVE  /\ SplitRowGroups(batches, max) \in Seq(Seq(BatchSet))
           /\ GroupRows(SplitRowGroups(batches, max)) = AllTuples(batches)
           /\ \A i \in 1..Len(SplitRowGroups(batches, max)) :
                /\ TotalRows(SplitRowGroups(batches, max)[i]) > 0
                /\ max # 0 => TotalRows(SplitRowGroups(batches, max)[i]) <= max
<1> DEFINE r == SplitRowGroups(batches, max)
<1>1. batches # <<>>
      BY AllTuplesEmpty
<1>2. AllTuples(batches) \in Seq(Row) /\ TotalRows(batches) \in Nat
      BY AllTuplesIs
<1>3. CASE max = 0
  <2>1. r = <<batches>>
        BY <1>1, <1>3 DEF SplitRowGroups
  <2>2. r \in Seq(Seq(BatchSet)) /\ Len(r) = 1 /\ r[1] = batches /\ r = Append(<<>>, batches)
        BY <2>1
  <2>3. GroupRows(r) = GroupRows(<<>>) \o AllTuples(batches)
    <3>1. <<>> \in Seq(Seq(BatchSet))
          OBVIOUS
    <3> QED BY <2>2, <3>1, GroupRowsAppend
  <2>4. <<>> \o AllTuples(batches) = AllTuples(batches)
        BY <1>2, ConcatEmptySeq
  <2>5. \A i \in 1..Len(r) : r[i] = batches
        BY <2>2
  <2> HIDE DEF r
  <2> QED BY <1>3, <2>2, <2>3, <2>4, <2>5, GroupRowsEmpty DEF r
<1>4. CASE max # 0
  <2> DEFINE o == AddAll(batches, max)
  <2>1. r = Finish(o) /\ max \in Nat \ {0}
        BY <1>1, <1>4 DEF SplitRowGroups
  <2>2. OpenInv(o, max) /\ OpenRows(o) = AllTuples(batches)
        BY <2>1, AddAllKeeps
  <2> HIDE DEF o, r
  <2>3. o \in OpenSet /\ o.rows = TotalRows(o.current) /\ o.rows <= max /\ (o.current # <<>> => o.rows > 0) /\ Fits(o.groups, max)
        BY <2>2 DEF OpenInv
  <2>4. o.groups \in Seq(Seq(BatchSet)) /\ o.current \in Seq(BatchSet) /\ o.rows \in Nat /\ GroupRows(o.groups) \in Seq(Row)
        BY <2>3, OpenTypes
  <2>5. r \in Seq(Seq(BatchSet)) /\ GroupRows(r) = AllTuples(batches) /\ Fits(r, max)
    <3>1. CASE o.current = <<>>
      <4>1. r = o.groups
            BY <2>1, <3>1 DEF Finish
      <4>2. GroupRows(r) \o <<>> = AllTuples(batches)
            BY <2>2, <3>1, <4>1, AllTuplesEmpty DEF OpenRows
      <4>3. GroupRows(r) \o <<>> = GroupRows(r)
            BY <2>4, <4>1, ConcatEmptySeq
      <4> QED BY <2>3, <2>4, <4>1, <4>2, <4>3
    <3>2. CASE o.current # <<>>
      <4>1. r = Append(o.groups, o.current)
            BY <2>1, <3>2 DEF Finish
      <4>2. TotalRows(o.current) \in 1..max
            BY <2>3, <2>4, <3>2
      <4>3. Fits(r, max)
            BY <2>1, <2>3, <2>4, <4>1, <4>2, FitsAppend
      <4>4. r \in Seq(Seq(BatchSet))
        <5>1. o.groups \in Seq(Seq(BatchSet)) /\ o.current \in Seq(BatchSet)
              BY <2>4
        <5> QED BY ONLY <4>1, <5>1, AppendType
      <4>5. GroupRows(r) = OpenRows(o)
            BY <2>4, <4>1, GroupRowsAppend DEF OpenRows
      <4> QED BY <2>2, <4>3, <4>4, <4>5
    <3> QED BY <3>1, <3>2
  <2>6. \A i \in 1..Len(r) : TotalRows(r[i]) > 0 /\ TotalRows(r[i]) <= max
        BY <2>5 DEF Fits
  <2> QED BY <2>5, <2>6 DEF r
<1> QED BY <1>3, <1>4

----------------------------------------------------------------------------
(* Rows in another order: the same bag.                                    *)

Places(s, x) == {i \in 1..Len(s) : s[i] = x}
Count(s, x) == Cardinality(Places(s, x))
SameRows(s, t) == \A x : Count(s, x) = Count(t, x)

\* How often a row occurs is a natural number.
LEMMA CountType ==
    ASSUME NEW U, NEW s \in Seq(U), NEW x
    PROVE  /\ IsFiniteSet(Places(s, x)) /\ Count(s, x) \in Nat
           /\ (Count(s, x) = 0) <=> (Places(s, x) = {})
<1>1. Len(s) \in Nat
      OBVIOUS
<1>2. IsFiniteSet(1..Len(s))
      BY <1>1, FS_Interval
<1>3. Places(s, x) \in SUBSET (1..Len(s))
      BY DEF Places
<1>4. IsFiniteSet(Places(s, x))
      BY <1>2, <1>3, FS_Subset
<1> QED BY <1>4, FS_CardinalityType, FS_EmptySet DEF Count

\* The counts are the bag.
LEMMA BagOf ==
    ASSUME NEW U, NEW s \in Seq(U), NEW t \in Seq(U), SameRows(s, t)
    PROVE  ToBag(s) = ToBag(t)
<1>1. DOMAIN s = 1..Len(s) /\ DOMAIN t = 1..Len(t)
      OBVIOUS
<1>2. ToBag(s) = [x \in Range(s) |-> Count(s, x)] /\ ToBag(t) = [x \in Range(t) |-> Count(t, x)]
      BY <1>1 DEF ToBag, Count, Places
<1>3. \A x : x \in Range(s) <=> Places(s, x) # {}
      BY <1>1 DEF Range, Places
<1>4. \A x : x \in Range(t) <=> Places(t, x) # {}
      BY <1>1 DEF Range, Places
<1>5. \A x : Places(s, x) # {} <=> Places(t, x) # {}
      BY CountType DEF SameRows
<1>6. Range(s) = Range(t)
      BY <1>3, <1>4, <1>5
<1> QED BY <1>2, <1>6 DEF SameRows

\* The count of two sequences together.
LEMMA CountConcat ==
    ASSUME NEW U, NEW s \in Seq(U), NEW t \in Seq(U), NEW x
    PROVE  Count(s \o t, x) = Count(s, x) + Count(t, x)
<1> DEFINE w == s \o t
           m == Len(s)
           n == Len(t)
           A == Places(s, x)
           B == Places(t, x)
           C == {i \in (m + 1)..(m + n) : w[i] = x}
           f == [i \in B |-> i + m]
<1>1. m \in Nat /\ n \in Nat /\ Len(w) = m + n
      OBVIOUS
<1>2. \A i \in 1..m : w[i] = s[i]
      OBVIOUS
<1>3. \A i \in 1..n : i + m \in (m + 1)..(m + n) /\ w[i + m] = t[i]
  <2> TAKE i \in 1..n
  <2>1. i + m \in (m + 1)..(m + n) /\ (i + m) - m = i
        BY <1>1
  <2>2. w[i + m] = t[(i + m) - m]
        BY <1>1, <2>1
  <2> QED BY <2>1, <2>2
<1>4. Places(w, x) = A \cup C /\ A \cap C = {}
  <2> HIDE DEF w
  <2>1. ASSUME NEW i PROVE i \in Places(w, x) <=> i \in A \/ i \in C
    <3> HIDE DEF m, n
    <3>1. i \in 1..(m + n) <=> i \in 1..m \/ i \in (m + 1)..(m + n)
          BY <1>1
    <3>2. i \in Places(w, x) <=> i \in 1..(m + n) /\ w[i] = x
          BY <1>1 DEF Places
    <3>3. i \in A <=> i \in 1..m /\ s[i] = x
          BY DEF Places, m
    <3> QED BY <1>2, <3>1, <3>2, <3>3
  <2>2. A \cap C = {}
    <3>1. A \subseteq 1..m
          BY DEF Places
    <3> HIDE DEF m, n, A
    <3> QED BY <1>1, <3>1
  <2> QED BY <2>1, <2>2
<1>5. IsFiniteSet(A) /\ IsFiniteSet(B) /\ Cardinality(A) \in Nat /\ Cardinality(B) \in Nat
      BY CountType DEF Count
<1>6. IsFiniteSet(C) /\ Cardinality(C) = Cardinality(B)
  <2>1. f \in [B -> C]
    <3>1. B \subseteq 1..n /\ \A i \in B : t[i] = x
          BY DEF Places
    <3> HIDE DEF B, w, m, n
    <3> QED BY <1>3, <3>1
  <2>2. B \subseteq Nat /\ B \subseteq 1..n
        BY <1>1 DEF Places
  <2>3. \A i, j \in B : f[i] = f[j] => i = j
    <3> HIDE DEF B, m
    <3> QED BY <1>1, <2>2
  <2>4. ASSUME NEW k \in C PROVE \E i \in B : f[i] = k
    <3>1. k - m \in 1..n /\ (k - m) + m = k /\ w[k] = x
          BY <1>1
    <3>2. t[k - m] = x
          BY <1>3, <3>1
    <3>3. k - m \in B
          BY <3>1, <3>2 DEF Places
    <3>4. f[k - m] = k
          BY <3>1, <3>3
    <3> QED BY <3>3, <3>4
  <2> HIDE DEF B, C, f
  <2>5. ExistsBijection(B, C)
        BY <2>1, <2>3, <2>4 DEF ExistsBijection, Bijection, Injection, Surjection, IsInjective
  <2> QED BY <1>5, <2>5, FS_Bijection
<1> HIDE DEF w, A, B, C
<1>7. Cardinality(A \cup C) = Cardinality(A) + Cardinality(C) - Cardinality(A \cap C)
      BY <1>5, <1>6, FS_Union
<1>8. Cardinality(A \cap C) = 0
      BY <1>4, FS_EmptySet
<1>9. Cardinality(A \cup C) = Cardinality(A) + Cardinality(B)
      BY <1>5, <1>6, <1>7, <1>8
<1> QED BY <1>4, <1>9 DEF Count, w, A, B

\* The same rows joined with the same rows.
LEMMA SameRowsConcat ==
    ASSUME NEW U, NEW s \in Seq(U), NEW t \in Seq(U), NEW u \in Seq(U), NEW v \in Seq(U),
           SameRows(s, t), SameRows(u, v)
    PROVE  SameRows(s \o u, t \o v)
BY CountConcat DEF SameRows

\* A permutation of the rows.
LEMMA SameRowsOver ==
    ASSUME NEW U, NEW s \in Seq(U), NEW n \in Nat, n = Len(s), NEW p \in Injection(1..n, 1..n)
    PROVE  SameRows(s, Over(s, p)) /\ Over(s, p) \in Seq(U) /\ Len(Over(s, p)) = n /\ p \in Seq(1..n)
           /\ Len(p) = n
<1> DEFINE o == Over(s, p)
<1>1. p \in [1..n -> 1..n] /\ \A i, j \in 1..n : p[i] = p[j] => i = j
      BY DEF Injection, IsInjective
<1>2. IsFiniteSet(1..n)
      BY FS_Interval
<1>3. p \in Surjection(1..n, 1..n)
      BY <1>2, FS_Injection
<1>4. \A k \in 1..n : \E i \in 1..n : p[i] = k
      BY <1>3 DEF Surjection
<1>5. p \in Seq(1..n) /\ Len(p) = n
      BY <1>1
<1>6. o = [k \in 1..n |-> s[p[k]]]
      BY <1>5 DEF Over
<1>7. \A k \in 1..n : s[p[k]] \in U
      BY <1>1
<1>8. o \in Seq(U) /\ Len(o) = n /\ \A k \in 1..n : o[k] = s[p[k]]
  <2> HIDE DEF o
  <2> QED BY <1>6, <1>7
<1> HIDE DEF o
<1>9. ASSUME NEW x PROVE Count(s, x) = Count(o, x)
  <2> DEFINE A == Places(o, x)
             B == Places(s, x)
             f == [i \in A |-> p[i]]
  <2>1. A \subseteq 1..n /\ B \subseteq 1..n /\ (\A i \in A : o[i] = x)
        /\ (\A k \in 1..n : k \in B <=> s[k] = x) /\ (\A k \in 1..n : k \in A <=> o[k] = x)
        BY <1>8 DEF Places
  <2> HIDE DEF A, B
  <2>2. f \in [A -> B]
        BY <1>1, <1>8, <2>1
  <2>3. \A i, j \in A : f[i] = f[j] => i = j
        BY <1>1, <2>1
  <2>4. ASSUME NEW k \in B PROVE \E i \in A : f[i] = k
    <3>1. PICK i \in 1..n : p[i] = k
          BY <1>4, <2>1
    <3>2. i \in A
          BY <1>8, <2>1, <3>1
    <3> QED BY <3>1, <3>2
  <2> HIDE DEF f
  <2>5. ExistsBijection(A, B)
        BY <2>2, <2>3, <2>4 DEF ExistsBijection, Bijection, Injection, Surjection, IsInjective
  <2>6. IsFiniteSet(A)
        BY <1>8, CountType DEF A
  <2>7. Cardinality(B) = Cardinality(A)
        BY <2>5, <2>6, FS_Bijection
  <2> QED BY <2>7 DEF Count, A, B
<1> QED BY <1>5, <1>8, <1>9 DEF SameRows, o

----------------------------------------------------------------------------
(* Clustering.                                                             *)

\* A fresh array holds the values given.
LEMMA ArrayIs ==
    ASSUME NEW v \in Seq(Value), NEW type, NEW n \in Nat, n = Len(v)
    PROVE  /\ Array(type, v) = [type |-> type, held |-> v, off |-> 0, len |-> n]
           /\ Array(type, v).type = type /\ Array(type, v).held = v
           /\ Array(type, v).off = 0 /\ Array(type, v).len = n
           /\ Rows(Array(type, v)) = v
<1> DEFINE a == Array(type, v)
<1>1. a = [type |-> type, held |-> v, off |-> 0, len |-> n]
      BY DEF Array
<1>2. a.type = type /\ a.held = v /\ a.off = 0 /\ a.len = n
      BY <1>1
<1>3. Rows(a) = SubSeq(v, 1, n)
      BY <1>2 DEF Rows
<1>4. SubSeq(v, 1, n) = v
      OBVIOUS
<1> QED BY <1>1, <1>2, <1>3, <1>4

\* The batch of the rows picked.
LEMMA GatherIs ==
    ASSUME NEW rows \in Seq(Row), NEW n \in Nat, n = Len(rows),
           NEW picks \in Seq(1..n), NEW m \in Nat, m = Len(picks)
    PROVE  /\ Gather(rows, picks) \in Seq(BatchSet) /\ TotalRows(Gather(rows, picks)) = m
           /\ AllTuples(Gather(rows, picks)) = Over(rows, picks)
<1> DEFINE val == [c \in DOMAIN Types |-> [i \in 1..m |-> rows[picks[i]][c]]]
           b == [c \in DOMAIN Types |-> Array(Types[c], val[c])]
           o == Over(rows, picks)
<1>1. DOMAIN picks = 1..m /\ \A i \in 1..m : picks[i] \in 1..n /\ rows[picks[i]] \in Row
      OBVIOUS
<1>2. Gather(rows, picks) = <<b>>
      BY <1>1 DEF Gather
<1>3. o = [i \in 1..m |-> rows[picks[i]]]
      BY DEF Over
<1>4. o \in Seq(Row) /\ Len(o) = m /\ \A i \in 1..m : o[i] = rows[picks[i]]
  <2> HIDE DEF o
  <2> QED BY <1>1, <1>3
<1>5. ASSUME NEW c \in DOMAIN Types
      PROVE  val[c] \in Seq(Value) /\ Len(val[c]) = m /\ \A i \in 1..m : val[c][i] = rows[picks[i]][c]
  <2>1. \A i \in 1..m : rows[picks[i]][c] \in Value
        BY <1>1 DEF Row
  <2>2. val[c] = [i \in 1..m |-> rows[picks[i]][c]]
        OBVIOUS
  <2> HIDE DEF val
  <2> QED BY <2>1, <2>2
<1> HIDE DEF val
<1>6. ASSUME NEW c \in DOMAIN Types
      PROVE  /\ b[c] = [type |-> Types[c], held |-> val[c], off |-> 0, len |-> m]
             /\ b[c].type = Types[c] /\ b[c].held = val[c] /\ b[c].off = 0 /\ b[c].len = m
             /\ Rows(b[c]) = val[c]
  <2>1. b[c] = Array(Types[c], val[c])
        OBVIOUS
  <2> HIDE DEF b
  <2>2. val[c] \in Seq(Value) /\ m = Len(val[c])
        BY <1>5
  <2> DEFINE x == val[c]
  <2> HIDE DEF x
  <2>3. x \in Seq(Value) /\ m = Len(x) /\ b[c] = Array(Types[c], x)
        BY <2>1, <2>2 DEF x
  <2> QED BY <2>3, ArrayIs DEF x
<1>7. NumRows(b) = m
      BY <1>6, FirstColumn DEF NumRows
<1>8. b \in BatchSet
  <2>1. ASSUME NEW c \in DOMAIN Types
        PROVE  b[c] \in [type : DataTypes, held : Seq(Value), off : Nat, len : Nat]
    <3>1. Types[c] \in DataTypes
          BY ArrowAssumption
    <3>2. b[c] = [type |-> Types[c], held |-> val[c], off |-> 0, len |-> m] /\ val[c] \in Seq(Value)
          BY <1>5, <1>6
    <3> HIDE DEF b
    <3> QED BY ONLY <3>1, <3>2, m \in Nat
  <2>2. b \in [DOMAIN Types -> [type : DataTypes, held : Seq(Value), off : Nat, len : Nat]]
        BY <2>1
  <2>3. \A c \in DOMAIN Types : b[c].type = Types[c] /\ b[c].len = NumRows(b) /\ b[c].off + b[c].len <= Len(b[c].held)
    <3> TAKE c \in DOMAIN Types
    <3>1. b[c].type = Types[c] /\ b[c].held = val[c] /\ b[c].off = 0 /\ b[c].len = m /\ Len(val[c]) = m
          BY <1>5, <1>6
    <3>2. 0 + m <= m
          OBVIOUS
    <3> HIDE DEF b
    <3> QED BY <1>7, <3>1, <3>2
  <2> HIDE DEF b
  <2> QED BY <2>2, <2>3 DEF BatchSet, IsBatch
<1>9. Tuples(b) = o
  <2> DEFINE t == Tuples(b)
  <2>1. t \in Seq(Row) /\ Len(t) = m /\ \A k \in 1..m : \A c \in DOMAIN Types : t[k][c] = Rows(b[c])[k]
        BY <1>7, <1>8, TuplesType
  <2> HIDE DEF t, b, o
  <2>2. ASSUME NEW k \in 1..m PROVE t[k] = o[k]
    <3>1. t[k] \in Row /\ o[k] \in Row
          BY <1>4, <2>1
    <3>2. \A c \in DOMAIN Types : t[k][c] = o[k][c]
      <4> TAKE c \in DOMAIN Types
      <4>1. t[k][c] = Rows(b[c])[k] /\ Rows(b[c]) = val[c] /\ val[c][k] = rows[picks[k]][c]
            BY <1>5, <1>6, <2>1
      <4>2. o[k] = rows[picks[k]]
            BY <1>4
      <4> QED BY <4>1, <4>2
    <3> QED BY <3>1, <3>2 DEF Row
  <2>3. t = o
        BY <1>4, <2>1, <2>2, SeqEqual
  <2> QED BY <2>3 DEF t
<1> HIDE DEF b, o
<1> QED BY <1>2, <1>7, <1>8, <1>9, AllTuplesOne DEF o

\* The chunks of an order hold its rows, in that order, and fit.
Chunked(G, rows, order, per, n) ==
    /\ G \in Seq(Seq(BatchSet)) /\ GroupRows(G) = Over(rows, order)
    /\ \A g \in 1..Len(G) :
         /\ TotalRows(G[g]) \in 1..per /\ (g - 1) * per \in Nat
         /\ (g - 1) * per + TotalRows(G[g]) <= n
         /\ g < Len(G) => TotalRows(G[g]) = per /\ g * per = (g - 1) * per + per
         /\ AllTuples(G[g]) \in Seq(Row)
         /\ \A x \in 1..TotalRows(G[g]) : AllTuples(G[g])[x] = rows[order[(g - 1) * per + x]]

\* cluster's chunks hold the rows in the order given, per rows each but for
\* the last.
LEMMA ChunksAre ==
    ASSUME NEW rows \in Seq(Row), NEW n \in Nat \ {0}, n = Len(rows),
           NEW order \in Seq(1..n), n = Len(order), NEW per \in Nat \ {0}
    PROVE  Chunked(Chunks(rows, order, per), rows, order, per, n)
<1> DEFINE G == Chunks(rows, order, per)
           m == CeilDiv(n, per)
           cut == [k \in 0..m |-> IF k * per <= n THEN k * per ELSE n]
           picks == [k \in 1..m |-> SubSeq(order, cut[k - 1] + 1, cut[k])]
<1>1. m \in Nat /\ n <= m * per /\ m * per < n + per /\ m > 0 /\ m * per \in Nat
  <2>1. m \in Nat /\ n <= m * per /\ m * per < n + per /\ (n > 0 => m > 0)
        BY CeilDivBounds
  <2> HIDE DEF m
  <2>2. m * per \in Nat
        BY <2>1, TimesType
  <2> QED BY <2>1, <2>2
<1>2. G = [g \in 1..m |-> Gather(rows, SubSeq(order, (g - 1) * per + 1, Min({g * per, n})))]
      BY DEF Chunks
<1> HIDE DEF G, m
<1>3. \A k \in 0..m : k * per \in Nat /\ k * per <= m * per
      BY <1>1, TimesType, TimesGrows
<1>4. cut \in [0..m -> Nat] /\ \A k \in 0..m : cut[k] = (IF k * per <= n THEN k * per ELSE n) /\ cut[k] <= n
      BY <1>3
<1>5. ASSUME NEW g \in 1..m
      PROVE  /\ g - 1 \in 0..m /\ g \in 0..m /\ (g - 1) * per \in Nat /\ g * per \in Nat
             /\ g * per = (g - 1) * per + per /\ (g - 1) * per < n /\ cut[g - 1] = (g - 1) * per
             /\ cut[g] = Min({g * per, n}) /\ cut[g - 1] < cut[g] /\ cut[g] <= cut[g - 1] + per
             /\ g < m => cut[g] = g * per
  <2>1. g - 1 \in 0..m /\ g \in 0..m /\ g \in Int
        BY <1>1
  <2>2. (g - 1) * per \in Nat /\ g * per \in Nat /\ g * per <= m * per
        BY <1>3, <2>1
  <2>3. g * per = (g - 1) * per + per
        BY <2>1, TimesStep
  <2>4. (g - 1) * per < n
    <3> DEFINE u == (g - 1) * per
               w == g * per
               z == m * per
    <3>1. u \in Nat /\ w = u + per /\ w <= z /\ z < n + per /\ z \in Nat
          BY <1>1, <2>2, <2>3
    <3> HIDE DEF u, w, z
    <3>2. u < n
          BY <3>1
    <3> QED BY <3>2 DEF u
  <2>5. cut[g - 1] = (g - 1) * per /\ cut[g] = (IF g * per <= n THEN g * per ELSE n)
        BY <1>4, <2>1, <2>2, <2>4
  <2>6. cut[g] = Min({g * per, n})
    <3> DEFINE w == g * per
    <3>1. w \in Int /\ n \in Int /\ cut[g] = IF w <= n THEN w ELSE n
          BY <2>2, <2>5
    <3> HIDE DEF w
    <3>2. Min({w, n}) = IF w <= n THEN w ELSE n
          BY <3>1, MinOfTwo
    <3> QED BY <3>1, <3>2 DEF w
  <2>7. cut[g - 1] < cut[g] /\ cut[g] <= cut[g - 1] + per
        BY <2>2, <2>3, <2>4, <2>5
  <2>8. g < m => cut[g] = g * per
    <3> SUFFICES ASSUME g < m PROVE g * per <= n
        BY <2>5
    <3>1. g + 1 \in 0..m /\ g + 1 \in Int
          BY <1>1
    <3>2. (g + 1) * per \in Nat /\ (g + 1) * per <= m * per
          BY <1>3, <3>1
    <3>3. (g + 1) * per = ((g + 1) - 1) * per + per
          BY <3>1, TimesStep
    <3>4. (g + 1) - 1 = g
          OBVIOUS
    <3> QED BY <1>1, <2>2, <3>2, <3>3, <3>4
  <2> QED BY <2>1, <2>2, <2>3, <2>4, <2>5, <2>6, <2>7, <2>8
<1> HIDE DEF cut
<1>6. ASSUME NEW g \in 1..m
      PROVE  LET p == picks[g]
                 l == cut[g] - cut[g - 1] IN
             /\ p \in Seq(1..n) /\ l \in Nat /\ Len(p) = l /\ G[g] = Gather(rows, p)
             /\ \A x \in 1..l : p[x] = order[cut[g - 1] + x]
  <2> DEFINE p == picks[g]
             i == cut[g - 1] + 1
             j == cut[g]
             l == cut[g] - cut[g - 1]
  <2>1. /\ cut[g - 1] \in Nat /\ cut[g] \in Nat /\ cut[g] <= n /\ cut[g - 1] < cut[g]
        /\ cut[g - 1] = (g - 1) * per /\ cut[g] = Min({g * per, n})
        BY <1>4, <1>5
  <2>2. p = SubSeq(order, i, j) /\ G[g] = Gather(rows, p)
        BY <1>2, <2>1
  <2>3. i \in Int /\ j \in Int /\ i <= j /\ j - i + 1 = l /\ l \in Nat /\ i..j \subseteq 1..n
    <3> DEFINE u == cut[g - 1]
               w == cut[g]
    <3>1. u \in Nat /\ w \in Nat /\ w <= n /\ u < w
          BY <2>1
    <3> HIDE DEF u, w
    <3>2. u + 1 \in Int /\ w \in Int /\ u + 1 <= w /\ w - (u + 1) + 1 = w - u /\ w - u \in Nat
          BY <3>1
    <3>3. (u + 1)..w \subseteq 1..n
          BY <3>1
    <3> QED BY <3>2, <3>3 DEF u, w
  <2>4. \A x \in i..j : order[x] \in 1..n
    <3> HIDE DEF i, j
    <3>1. \A x \in 1..n : order[x] \in 1..n
          OBVIOUS
    <3> QED BY <2>3, <3>1
  <2>5. \A x \in 1..l : i + x - 1 = cut[g - 1] + x
        BY <2>1
  <2> HIDE DEF p, i, j, l
  <2>6. p \in Seq(1..n) /\ Len(p) = l /\ \A x \in 1..l : p[x] = order[i + x - 1]
        BY <2>2, <2>3, <2>4, SubSeqProperties
  <2> QED BY <2>2, <2>3, <2>5, <2>6 DEF p, l
<1> HIDE DEF picks
<1>7. ASSUME NEW g \in 1..m
      PROVE  /\ G[g] \in Seq(BatchSet) /\ TotalRows(G[g]) = cut[g] - cut[g - 1]
             /\ AllTuples(G[g]) = Over(rows, picks[g])
  <2> DEFINE p == picks[g]
             l == cut[g] - cut[g - 1]
  <2>1. p \in Seq(1..n) /\ l \in Nat /\ Len(p) = l /\ G[g] = Gather(rows, p)
        BY <1>6
  <2> HIDE DEF p, l
  <2>2. Gather(rows, p) \in Seq(BatchSet) /\ TotalRows(Gather(rows, p)) = l
        /\ AllTuples(Gather(rows, p)) = Over(rows, p)
        BY <2>1, GatherIs
  <2> QED BY <2>1, <2>2 DEF p, l
<1>8. G \in Seq(Seq(BatchSet)) /\ Len(G) = m
  <2>1. G = [g \in 1..m |-> G[g]]
        BY <1>2
  <2>2. \A g \in 1..m : G[g] \in Seq(BatchSet)
        BY <1>7
  <2>3. m \in Nat
        BY <1>1
  <2>4. [g \in 1..m |-> G[g]] \in Seq(Seq(BatchSet)) /\ Len([g \in 1..m |-> G[g]]) = m
        BY ONLY <2>2, <2>3, SeqUpTo
  <2> QED BY ONLY <2>1, <2>4
<1>9. GroupRows(G) = Over(rows, order)
  <2>1. Over(AllFn, G) = [g \in 1..m |-> Over(rows, picks[g])]
    <3>1. Over(AllFn, G) = [g \in 1..m |-> AllFn[G[g]]]
          BY <1>8 DEF Over
    <3>2. \A g \in 1..m : AllFn[G[g]] = Over(rows, picks[g])
          BY <1>7, AllFnType
    <3> QED BY <3>1, <3>2
  <2>2. picks \in Seq(Seq(1..n)) /\ Len(picks) = m
    <3>1. picks = [k \in 1..m |-> picks[k]]
          BY DEF picks
    <3>2. \A k \in 1..m : picks[k] \in Seq(1..n)
          BY <1>6
    <3> QED BY ONLY <1>1, <3>1, <3>2, SeqUpTo
  <2>3. FlattenSeq(picks) = order
    <3>1. \A k \in 0..m : cut[k] <= Len(order)
          BY <1>4
    <3>2. \A k \in 1..m : cut[k - 1] <= cut[k]
      <4> TAKE k \in 1..m
      <4>1. cut[k - 1] < cut[k] /\ cut[k - 1] \in Nat /\ cut[k] \in Nat
            BY <1>4, <1>5
      <4> QED BY <4>1
    <3>3. FlattenSeq(picks) = SubSeq(order, cut[0] + 1, cut[m])
      <4>1. cut \in [0..m -> Nat]
            BY <1>4
      <4> QED BY <1>1, <3>1, <3>2, <4>1, FlattenCuts DEF picks
    <3>4. cut[0] = 0 /\ cut[m] = n
      <4>1. 0 \in 0..m /\ m \in 0..m /\ 0 * per = 0
            BY <1>1
      <4> QED BY <1>1, <1>4, <4>1
    <3>5. SubSeq(order, 1, n) = order
          OBVIOUS
    <3> QED BY <3>3, <3>4, <3>5
  <2>4. rows \in [1..n -> Row]
        BY ONLY rows \in Seq(Row), n = Len(rows)
  <2>5. FlattenSeq([i \in 1..Len(picks) |-> Over(rows, picks[i])]) = Over(rows, FlattenSeq(picks))
        BY ONLY <2>2, <2>4, FlattenOver
  <2> QED BY <2>1, <2>2, <2>3, <2>5 DEF GroupRows
<1>10. ASSUME NEW g \in 1..m
       PROVE  /\ TotalRows(G[g]) \in 1..per /\ (g - 1) * per \in Nat
              /\ (g - 1) * per + TotalRows(G[g]) <= n
              /\ g < m => TotalRows(G[g]) = per /\ g * per = (g - 1) * per + per
              /\ AllTuples(G[g]) \in Seq(Row)
              /\ \A x \in 1..TotalRows(G[g]) : AllTuples(G[g])[x] = rows[order[(g - 1) * per + x]]
  <2> DEFINE l == cut[g] - cut[g - 1]
             p == picks[g]
             at == (g - 1) * per
  <2>1. /\ cut[g - 1] \in Nat /\ cut[g] \in Nat /\ cut[g] <= n /\ cut[g - 1] = at /\ at \in Nat
        /\ cut[g - 1] < cut[g] /\ cut[g] <= cut[g - 1] + per /\ g * per = at + per
        /\ g < m => cut[g] = g * per
        BY <1>4, <1>5
  <2>2. TotalRows(G[g]) = l /\ AllTuples(G[g]) = Over(rows, p) /\ G[g] \in Seq(BatchSet)
        BY <1>7
  <2>3. p \in Seq(1..n) /\ l \in Nat /\ Len(p) = l /\ \A x \in 1..l : p[x] = order[at + x]
        BY <1>6, <2>1
  <2>4. l \in 1..per /\ at + l <= n /\ (g < m => l = per)
    <3> DEFINE u == cut[g - 1]
               w == cut[g]
               v == g * per
    <3>1. u \in Nat /\ w \in Nat /\ w <= n /\ u < w /\ w <= u + per /\ u = at /\ v = at + per /\ (g < m => w = v)
          BY <2>1
    <3> HIDE DEF u, w, v, at
    <3>2. w - u \in 1..per /\ at + (w - u) <= n
          BY <3>1
    <3>3. g < m => w - u = per
          BY <3>1
    <3> QED BY <3>2, <3>3 DEF u, w
  <2> HIDE DEF l, p, at
  <2>5. \A x \in 1..l : Over(rows, p)[x] = rows[order[at + x]]
        BY <2>3 DEF Over
  <2>6. AllTuples(G[g]) \in Seq(Row)
        BY <2>2, AllTuplesIs
  <2> QED BY <2>1, <2>2, <2>4, <2>5, <2>6 DEF at
<1> QED BY <1>8, <1>9, <1>10 DEF Chunked, G

----------------------------------------------------------------------------
(* The order of the keys.                                                  *)

\* A key is a row of bits.
LEMMA KeyType ==
    ASSUME NEW row \in Row, NEW columns \in Seq(Nat), Resolves(columns), columns # <<>>,
           NEW last, last = DIM_BITS * Len(columns) - 1
    PROVE  /\ Key(row, columns) \in [0..last -> {0, 1}] /\ last \in Int
<1> DEFINE L == Len(columns)
           B == DIM_BITS - 1
<1>1. L \in Nat \ {0} /\ DIM_BITS \in Nat \ {0} /\ B \in Int
      BY RowGroupsAssumption
<1>2. \A i \in 1..L : columns[i] \in DOMAIN Types
      BY DEF Resolves, ToSet
<1>3. \A v \in Value : DimensionBits(v) \in [0..B -> {0, 1}]
  <2> TAKE v \in Value
  <2>1. CASE v = Null
        BY <2>1 DEF DimensionBits
  <2>2. CASE v # Null
    <3>1. v \in Numbers /\ DimensionBits(v) = Bits(v)
          BY <2>2 DEF Value, DimensionBits
    <3> QED BY <3>1, RowGroupsAssumption
  <2> QED BY <2>1, <2>2
<1>4. last \in Int
  <2>1. DIM_BITS * L \in Int
        BY <1>1
  <2> QED BY <2>1
<1>5. Key(row, columns) = [p \in 0..last |-> KeyBit(row, columns, p)]
      BY DEF Key
<1>6. ASSUME NEW p \in 0..last PROVE KeyBit(row, columns, p) \in {0, 1}
  <2> DEFINE d == p \div L
             m == (p % L) + 1
  <2> HIDE DEF L, B
  <2>1. p \in Nat
        BY <1>4
  <2>2. m \in 1..L
        BY <1>1, <2>1
  <2>3. d \in Nat /\ d * L <= p
        BY <1>1, <2>1, DivBounds
  <2>4. d \in 0..B
    <3> SUFFICES ASSUME d >= DIM_BITS PROVE FALSE
        BY <1>1, <2>3 DEF B
    <3> HIDE DEF d
    <3>1. DIM_BITS * L <= d * L
          BY <1>1, <2>3, TimesGrows
    <3> DEFINE x == DIM_BITS * L
               y == d * L
    <3>2. x \in Int /\ y \in Int /\ x <= y /\ y <= p /\ p <= x - 1
      <4>1. x \in Int /\ y \in Int
            BY <1>1, <2>3
      <4>2. p <= x - 1
            BY <1>4 DEF L
      <4> QED BY <2>3, <3>1, <4>1, <4>2
    <3> HIDE DEF x, y
    <3> QED BY <2>1, <3>2
  <2>5. row[columns[m]] \in Value
        BY <1>2, <2>2 DEF Row
  <2>6. DimensionBits(row[columns[m]]) \in [0..B -> {0, 1}]
        BY <1>3, <2>5
  <2>7. KeyBit(row, columns, p) = DimensionBits(row[columns[m]])[d]
        BY DEF KeyBit, L
  <2> HIDE DEF d, m
  <2> QED BY <2>4, <2>6, <2>7
<1> QED BY <1>4, <1>5, <1>6

\* The order of keys is transitive.
LEMMA KeyLeqTransitive ==
    ASSUME NEW last \in Int, NEW k \in [0..last -> {0, 1}], NEW l \in [0..last -> {0, 1}],
           NEW m \in [0..last -> {0, 1}], KeyLeq(k, l), KeyLeq(l, m)
    PROVE  KeyLeq(k, m)
<1>1. CASE k = l
      BY <1>1
<1>2. CASE l = m
      BY <1>2
<1>3. CASE k # l /\ l # m
  <2>1. PICK p \in 0..last : k[p] < l[p] /\ \A q \in 0..(p - 1) : k[q] = l[q]
        BY <1>3 DEF KeyLeq
  <2>2. PICK r \in 0..last : l[r] < m[r] /\ \A q \in 0..(r - 1) : l[q] = m[q]
        BY <1>3 DEF KeyLeq
  <2>3. \A q \in 0..last : k[q] \in Int /\ l[q] \in Int /\ m[q] \in Int
        OBVIOUS
  <2>4. CASE p < r
    <3>1. l[p] = m[p] /\ \A q \in 0..(p - 1) : l[q] = m[q]
          BY <2>2, <2>4
    <3> QED BY <2>1, <2>3, <3>1 DEF KeyLeq
  <2>5. CASE p = r
    <3>1. k[p] < m[p]
          BY <2>1, <2>2, <2>3, <2>5
    <3> QED BY <2>1, <2>2, <2>5, <3>1 DEF KeyLeq
  <2>6. CASE r < p
    <3>1. k[r] = l[r] /\ \A q \in 0..(r - 1) : k[q] = l[q]
          BY <2>1, <2>6
    <3> QED BY <2>2, <2>3, <3>1 DEF KeyLeq
  <2>7. p < r \/ p = r \/ r < p
        OBVIOUS
  <2> QED BY <2>4, <2>5, <2>6, <2>7
<1> QED BY <1>1, <1>2, <1>3

\* A sorted order is a permutation, and any earlier key is at most any later.
LEMMA SortedIs ==
    ASSUME NEW rows \in Seq(Row), NEW n \in Nat, n = Len(rows), NEW columns \in Seq(Nat),
           Resolves(columns), columns # <<>>, NEW order \in SortedOrders(rows, columns)
    PROVE  /\ order \in Injection(1..n, 1..n) /\ order \in Seq(1..n) /\ Len(order) = n
           /\ \A i, j \in 1..n : i <= j => KeyLeq(Key(rows[order[i]], columns), Key(rows[order[j]], columns))
<1>1. DOMAIN rows = 1..n
      OBVIOUS
<1>2. Cardinality(1..n) = n
  <2>1. Cardinality(1..n) = IF 1 > n THEN 0 ELSE n - 1 + 1
        BY ONLY FS_Interval, 1 \in Int, n \in Int
  <2> QED BY <2>1
<1>3. order \in [1..n -> 1..n] /\ \A i, j \in 1..n : i # j => order[i] # order[j]
      BY <1>1, <1>2 DEF SortedOrders, SetToSeqs
<1>4. order \in Injection(1..n, 1..n)
      BY <1>3 DEF Injection, IsInjective
<1>5. order \in Seq(1..n) /\ Len(order) = n
      BY <1>3
<1> DEFINE key == [i \in 1..n |-> Key(rows[order[i]], columns)]
           last == DIM_BITS * Len(columns) - 1
<1>6. ASSUME NEW i \in 1..n PROVE key[i] \in [0..last -> {0, 1}] /\ last \in Int
  <2>1. rows[order[i]] \in Row
        BY <1>3
  <2> HIDE DEF last
  <2> QED BY <2>1, KeyType DEF last
<1>7. \A i \in 1..(n - 1) : KeyLeq(key[i], key[i + 1])
  <2> TAKE i \in 1..(n - 1)
  <2>1. KeyLeq(Key(rows[order[i]], columns), Key(rows[order[i + 1]], columns))
        BY <1>5 DEF SortedOrders
  <2>2. i \in 1..n /\ i + 1 \in 1..n
        OBVIOUS
  <2> QED BY <2>1, <2>2
<1> HIDE DEF key, last
<1>8. ASSUME NEW i \in 1..n, NEW j \in 1..n, i <= j PROVE KeyLeq(key[i], key[j])
  <2>3. j - i \in Nat /\ i + (j - i) = j
        BY ONLY i \in 1..n, j \in 1..n, i <= j, n \in Nat
  <2> DEFINE Q(d) == i + d <= n => KeyLeq(key[i], key[i + d])
             N == {d \in Nat : Q(d)}
  <2>1. 0 \in N
    <3>1. Q(0)
      <4>1. i + 0 = i
            OBVIOUS
      <4> QED BY <4>1 DEF KeyLeq
    <3> HIDE DEF Q
    <3> QED BY <3>1
  <2>2. ASSUME NEW d \in Nat, d \in N PROVE d + 1 \in N
    <3>1. ASSUME i + (d + 1) <= n PROVE KeyLeq(key[i], key[i + (d + 1)])
      <4> DEFINE e == i + d
                 f == i + (d + 1)
      <4>1. e \in 1..n /\ f \in 1..n /\ e \in 1..(n - 1) /\ f = e + 1
            BY <3>1
      <4>2. KeyLeq(key[i], key[e])
            BY <2>2, <4>1
      <4> HIDE DEF e, f
      <4>3. KeyLeq(key[e], key[f])
            BY <1>7, <4>1
      <4>4. /\ key[i] \in [0..last -> {0, 1}] /\ key[e] \in [0..last -> {0, 1}]
            /\ key[f] \in [0..last -> {0, 1}] /\ last \in Int
            BY <1>6, <4>1
      <4>5. KeyLeq(key[i], key[f])
            BY <4>2, <4>3, <4>4, KeyLeqTransitive
      <4> QED BY <4>5 DEF f
    <3>2. Q(d + 1) /\ d + 1 \in Nat
          BY <3>1
    <3> HIDE DEF Q
    <3> QED BY <3>2
  <2> HIDE DEF N
  <2>4. j - i \in N
        BY <2>1, <2>2, <2>3, SetInduction
  <2>5. Q(j - i)
        BY <2>4 DEF N
  <2> QED BY <2>3, <2>5
<1>9. \A i \in 1..n : key[i] = Key(rows[order[i]], columns)
      BY DEF key
<1> QED BY <1>4, <1>5, <1>8, <1>9

----------------------------------------------------------------------------
(* Both ways of cutting.                                                   *)

\* No key of a group is above one of the next.
Stepped(G, columns) ==
    \A g \in 1..(Len(G) - 1) :
        \A x \in DOMAIN AllTuples(G[g]) : \A y \in DOMAIN AllTuples(G[g + 1]) :
            KeyLeq(Key(AllTuples(G[g])[x], columns), Key(AllTuples(G[g + 1])[y], columns))

CutWell(G, batches, limit, columns) ==
    /\ G \in Seq(Seq(BatchSet)) /\ SameRows(AllTuples(batches), GroupRows(G))
    /\ \A g \in 1..Len(G) : TotalRows(G[g]) > 0 /\ (limit # 0 => TotalRows(G[g]) <= limit)
    /\ columns = <<>> => GroupRows(G) = AllTuples(batches)
    /\ columns # <<>> => Stepped(G, columns)

\* Cutting rows into groups loses, repeats and mixes no row; the groups are not
\* empty, fit the limit, and a z-order's are slices of the key order.
LEMMA CutKeeps ==
    ASSUME NEW batches \in Seq(BatchSet), TotalRows(batches) > 0, NEW limit \in Nat,
           NEW columns \in Seq(Nat), Resolves(columns), NEW order \in Orders(batches, columns)
    PROVE  CutWell(CutRows(batches, limit, columns, order), batches, limit, columns)
<1> DEFINE G == CutRows(batches, limit, columns, order)
           rows == AllTuples(batches)
           n == Len(rows)
<1>1. rows \in Seq(Row) /\ n \in Nat \ {0} /\ TotalRows(batches) = n
      BY AllTuplesIs
<1>2. CASE columns = <<>>
  <2>1. G = SplitRowGroups(batches, limit)
        BY <1>2 DEF CutRows
  <2>2. /\ G \in Seq(Seq(BatchSet)) /\ GroupRows(G) = rows
        /\ \A g \in 1..Len(G) : TotalRows(G[g]) > 0 /\ (limit # 0 => TotalRows(G[g]) <= limit)
        BY <2>1, SplitKeeps
  <2>3. SameRows(rows, GroupRows(G))
        BY <2>2 DEF SameRows
  <2> QED BY <1>2, <2>2, <2>3 DEF CutWell
<1>3. CASE columns # <<>>
  <2> DEFINE per == IF limit = 0 THEN n ELSE limit
  <2>1. G = Chunks(rows, order, per) /\ order \in SortedOrders(rows, columns)
        BY <1>1, <1>3 DEF CutRows, Cluster, Orders
  <2>2. per \in Nat \ {0}
        BY <1>1
  <2> HIDE DEF G, rows, n
  <2>3. n = Len(rows)
        BY DEF n
  <2>4. /\ order \in Injection(1..n, 1..n) /\ order \in Seq(1..n) /\ Len(order) = n
        /\ \A i, j \in 1..n : i <= j => KeyLeq(Key(rows[order[i]], columns), Key(rows[order[j]], columns))
        BY <1>1, <1>3, <2>1, <2>3, SortedIs
  <2> HIDE DEF per
  <2>5. /\ G \in Seq(Seq(BatchSet)) /\ GroupRows(G) = Over(rows, order)
        /\ \A g \in 1..Len(G) :
                /\ TotalRows(G[g]) \in 1..per /\ (g - 1) * per \in Nat
                /\ (g - 1) * per + TotalRows(G[g]) <= n
                /\ g < Len(G) => TotalRows(G[g]) = per /\ g * per = (g - 1) * per + per
                /\ AllTuples(G[g]) \in Seq(Row)
                /\ \A x \in 1..TotalRows(G[g]) : AllTuples(G[g])[x] = rows[order[(g - 1) * per + x]]
    <3>1. rows \in Seq(Row) /\ n \in Nat \ {0} /\ n = Len(rows) /\ order \in Seq(1..n) /\ n = Len(order)
          /\ per \in Nat \ {0} /\ G = Chunks(rows, order, per)
          BY <1>1, <2>1, <2>2, <2>3, <2>4
    <3>2. Chunked(G, rows, order, per, n)
          BY <3>1, ChunksAre
    <3> QED BY <3>2 DEF Chunked
  <2>6. SameRows(rows, GroupRows(G))
        BY <1>1, <2>3, <2>4, <2>5, SameRowsOver
  <2>7. \A g \in 1..Len(G) : TotalRows(G[g]) > 0 /\ (limit # 0 => TotalRows(G[g]) <= limit)
        BY <2>5 DEF per
  <2>8. Stepped(G, columns)
    <3> DEFINE l == Len(G)
    <3>0. l \in Nat
          BY <2>5
    <3> SUFFICES ASSUME NEW g \in 1..(l - 1),
                        NEW x \in DOMAIN AllTuples(G[g]), NEW y \in DOMAIN AllTuples(G[g + 1])
                 PROVE  KeyLeq(Key(AllTuples(G[g])[x], columns), Key(AllTuples(G[g + 1])[y], columns))
        BY DEF Stepped
    <3> DEFINE h == g + 1
               s == AllTuples(G[g])
               t == AllTuples(G[h])
               a == (g - 1) * per
               b == (h - 1) * per
    <3>1. g \in 1..l /\ h \in 1..l /\ g < l /\ h - 1 = g
          BY <3>0
    <3>2. /\ TotalRows(G[g]) = per /\ a \in Nat /\ a + per <= n /\ g * per = a + per /\ s \in Seq(Row)
          /\ \A z \in 1..TotalRows(G[g]) : s[z] = rows[order[a + z]]
      <4>1. /\ a \in Nat /\ a + TotalRows(G[g]) <= n /\ s \in Seq(Row)
            /\ \A z \in 1..TotalRows(G[g]) : s[z] = rows[order[a + z]]
            BY <2>5, <3>1
      <4>2. TotalRows(G[g]) = per /\ g * per = a + per
            BY <2>5, <3>1
      <4> HIDE DEF a, s
      <4> QED BY <4>1, <4>2
    <3>3. /\ TotalRows(G[h]) \in Nat /\ b \in Nat /\ b + TotalRows(G[h]) <= n /\ t \in Seq(Row)
          /\ \A z \in 1..TotalRows(G[h]) : t[z] = rows[order[b + z]]
      <4> HIDE DEF h
      <4>1. /\ TotalRows(G[h]) \in 1..per /\ b \in Nat /\ b + TotalRows(G[h]) <= n /\ t \in Seq(Row)
            /\ \A z \in 1..TotalRows(G[h]) : t[z] = rows[order[b + z]]
            BY <2>5, <3>1
      <4> HIDE DEF b, t
      <4> QED BY <2>2, <4>1
    <3>4. b = a + per
          BY <3>1, <3>2
    <3>5. Len(s) = per /\ Len(t) = TotalRows(G[h])
          BY <3>2 DEF TotalRows
    <3>6. x \in 1..per /\ y \in 1..TotalRows(G[h])
      <4>1. DOMAIN s = 1..Len(s) /\ DOMAIN t = 1..Len(t)
            BY <3>2, <3>3
      <4>2. x \in DOMAIN s /\ y \in DOMAIN t
            OBVIOUS
      <4> HIDE DEF s, t
      <4> QED BY <3>5, <4>1, <4>2
    <3> HIDE DEF a, b, s, t, h
    <3>7. a + x \in 1..n /\ b + y \in 1..n /\ a + x <= b + y
      <4> DEFINE u == TotalRows(G[h])
      <4>1. a \in Nat /\ b \in Nat /\ b = a + per /\ a + per <= n /\ b + u <= n /\ u \in Nat /\ x \in 1..per /\ y \in 1..u
            BY <3>2, <3>3, <3>4, <3>6
      <4> HIDE DEF u
      <4>2. a + x \in 1..n
            BY <1>1, <2>2, <4>1
      <4>3. b + y \in 1..n
            BY <1>1, <4>1
      <4>4. a + x <= b + y
            BY <2>2, <4>1
      <4> QED BY <4>2, <4>3, <4>4
    <3>8. s[x] = rows[order[a + x]] /\ t[y] = rows[order[b + y]]
          BY <3>2, <3>3, <3>6
    <3>9. KeyLeq(Key(rows[order[a + x]], columns), Key(rows[order[b + y]], columns))
          BY <2>4, <3>7
    <3> QED BY <3>8, <3>9 DEF s, t, h
  <2> QED BY <1>3, <2>5, <2>6, <2>7, <2>8 DEF rows, G, CutWell
<1> QED BY <1>2, <1>3

----------------------------------------------------------------------------
(* Sums.                                                                   *)

\* f is the sums of the first elements of s.
Sums(f, s, n) ==
    f = [i \in 0..n |-> IF i = 0 THEN 0 ELSE f[i - 1] + s[i]]

\* There is such a function.
LEMMA SumsExists ==
    ASSUME NEW s, NEW n \in Nat
    PROVE  \E f : Sums(f, s, n)
<1> DEFINE Up(k) == \E f : Sums(f, s, k)
           N == {k \in Nat : Up(k)}
<1>1. 0 \in N
  <2>1. Up(0)
    <3> DEFINE f == [i \in 0..0 |-> 0]
    <3>1. f = [i \in 0..0 |-> IF i = 0 THEN 0 ELSE f[i - 1] + s[i]]
          OBVIOUS
    <3> HIDE DEF f
    <3>2. Sums(f, s, 0)
          BY <3>1 DEF Sums
    <3> QED BY <3>2
  <2> QED BY <2>1
<1>2. ASSUME NEW k \in Nat, k \in N PROVE k + 1 \in N
  <2>1. PICK f : Sums(f, s, k)
        BY <1>2
  <2>2. f = [i \in 0..k |-> IF i = 0 THEN 0 ELSE f[i - 1] + s[i]]
        BY <2>1 DEF Sums
  <2> DEFINE m == k + 1
             g == [i \in 0..m |-> IF i = m THEN f[i - 1] + s[i] ELSE f[i]]
  <2>3. ASSUME NEW i \in 0..m PROVE g[i] = IF i = 0 THEN 0 ELSE g[i - 1] + s[i]
    <3>1. CASE i = m
      <4>1. i # 0 /\ i - 1 \in 0..m /\ i - 1 # m
            BY <3>1
      <4>2. g[i - 1] = f[i - 1]
            BY <4>1
      <4> QED BY <3>1, <4>1, <4>2
    <3>2. CASE i # m
      <4>1. i \in 0..k /\ g[i] = f[i]
            BY <3>2
      <4>2. i # 0 => i - 1 \in 0..m /\ i - 1 # m /\ g[i - 1] = f[i - 1]
            BY <3>2
      <4>3. f[i] = IF i = 0 THEN 0 ELSE f[i - 1] + s[i]
            BY <2>2, <4>1
      <4> HIDE DEF g, m
      <4> QED BY <4>1, <4>2, <4>3
    <3> QED BY <3>1, <3>2
  <2>4. g = [i \in 0..m |-> IF i = 0 THEN 0 ELSE g[i - 1] + s[i]]
        BY <2>3
  <2> HIDE DEF g
  <2>5. Up(m)
    <3>1. Sums(g, s, m)
          BY <2>4 DEF Sums
    <3> QED BY <3>1
  <2>6. m \in Nat
        OBVIOUS
  <2> HIDE DEF Up
  <2> QED BY <2>5, <2>6
<1> HIDE DEF N
<1>3. n \in N
      BY <1>1, <1>2, SetInduction
<1> QED BY <1>3 DEF N

\* Its first value, and one value from the one before.
LEMMA SumsStep ==
    ASSUME NEW s, NEW n \in Nat, NEW f, Sums(f, s, n)
    PROVE  /\ f[0] = 0
           /\ \A i \in 1..n : f[i] = f[i - 1] + s[i]
<1>1. f = [i \in 0..n |-> IF i = 0 THEN 0 ELSE f[i - 1] + s[i]]
      BY DEF Sums
<1>2. f[0] = 0
  <2>1. 0 \in 0..n
        OBVIOUS
  <2> QED BY <1>1, <2>1
<1>3. ASSUME NEW i \in 1..n PROVE f[i] = f[i - 1] + s[i]
  <2>1. i \in 0..n /\ i # 0
        OBVIOUS
  <2> QED BY <1>1, <2>1
<1> QED BY <1>2, <1>3

\* A sum is the last value of the recursive function.
LEMMA SumOfIs ==
    ASSUME NEW s, NEW n \in Nat, n = Len(s)
    PROVE  \E f : Sums(f, s, n) /\ SumOf(s) = f[n]
<1>1. \E f : Sums(f, s, n)
      BY SumsExists
<1>2. PICK f : f = CHOOSE g : g = [i \in 0..n |-> IF i = 0 THEN 0 ELSE g[i - 1] + s[i]]
      OBVIOUS
<1>3. Sums(f, s, n)
      BY <1>1, <1>2 DEF Sums
<1>4. SumOf(s) = f[n]
      BY <1>2 DEF SumOf
<1> QED BY <1>3, <1>4

\* Sums of naturals are naturals.
LEMMA SumOfType ==
    ASSUME NEW s \in Seq(Nat)
    PROVE  SumOf(s) \in Nat
<1> DEFINE n == Len(s)
<1>1. n \in Nat
      OBVIOUS
<1>2. PICK f : Sums(f, s, n) /\ SumOf(s) = f[n]
      BY <1>1, SumOfIs
<1>3. f[0] = 0 /\ \A i \in 1..n : f[i] = f[i - 1] + s[i]
      BY <1>1, <1>2, SumsStep
<1> DEFINE Q(k) == k <= n => f[k] \in Nat
           N == {k \in Nat : Q(k)}
<1>4. 0 \in N
      BY <1>3
<1>5. ASSUME NEW k \in Nat, k \in N PROVE k + 1 \in N
  <2>1. ASSUME k + 1 <= n PROVE f[k + 1] \in Nat
    <3>1. k + 1 \in 1..n /\ (k + 1) - 1 = k /\ k <= n
          BY <1>1, <2>1
    <3>2. f[k] \in Nat /\ f[k + 1] = f[k] + s[k + 1] /\ s[k + 1] \in Nat
          BY <1>3, <1>5, <3>1
    <3> QED BY <3>2
  <2>2. Q(k + 1) /\ k + 1 \in Nat
        BY <2>1
  <2> HIDE DEF Q
  <2> QED BY <2>2
<1> HIDE DEF N
<1>6. n \in N
      BY <1>1, <1>4, <1>5, SetInduction
<1> QED BY <1>1, <1>2, <1>6 DEF N

----------------------------------------------------------------------------
(* The size of a row group.                                                *)

\* row_group_size_for is a natural number, 0 for no limit.
LEMMA SizeType ==
    ASSUME NEW o, o.rowGroupRows \in Nat, o.minRowGroupRows \in Nat, NEW total \in Nat
    PROVE  RowGroupSizeFor(o, total) \in Nat
<1> DEFINE n == CeilDiv(total, TARGET_ROW_GROUPS)
           a == o.minRowGroupRows
           b == o.rowGroupRows
           x == Min({a, b})
           low == Max({1, x})
           y == Min({n, b})
<1>1. n \in Nat
      BY RowGroupsAssumption, CeilDivBounds
<1>2. a \in Nat /\ b \in Nat
      OBVIOUS
<1> HIDE DEF n, a, b
<1>3. x \in Nat
      BY <1>2, MinOfTwo
<1> HIDE DEF x
<1>4. low \in Nat
      BY <1>3, MaxOfTwo
<1>5. y \in Nat
      BY <1>1, <1>2, MinOfTwo
<1> HIDE DEF low, y
<1>6. Max({low, y}) \in Nat
      BY <1>4, <1>5, MaxOfTwo
<1>7. RowGroupSizeFor(o, total) = IF b = 0 THEN 0 ELSE Max({low, y})
      BY DEF RowGroupSizeFor, Clamp, low, y, x, n, a, b
<1> QED BY <1>6, <1>7

----------------------------------------------------------------------------
(* Reading: a result is right or an error.                                 *)

Reads(result, rows) == result = Corrupt \/ result = Ok(rows)

\* The two kinds of results of a read.
LEMMA Results ==
    /\ Corrupt.ok = FALSE /\ Corrupt.cells = <<>>
    /\ \A x : Ok(x).ok = TRUE /\ Ok(x).cells = x /\ Ok(x) # Corrupt
<1>1. Corrupt.ok = FALSE /\ Corrupt.cells = <<>>
      BY DEF Corrupt
<1>2. \A x : Ok(x).ok = TRUE /\ Ok(x).cells = x
      BY DEF Ok
<1> QED BY <1>1, <1>2

\* A stored buffer is where its spec says, as it was stored.
Backed(spec, codec, bytes) ==
    \E i \in DOMAIN bytes :
        /\ bytes[i].off = spec.off /\ bytes[i].len = spec.len
        /\ Verified(bytes[i], spec) /\ Unpacks(bytes[i], spec, codec)

\* What loads is what the checksum was taken of.
LEMMA LoadIs ==
    ASSUME NEW spec, NEW codec, NEW bytes
    PROVE  /\ Reads(Load(spec, codec, bytes), spec.checksum.cells)
           /\ Backed(spec, codec, bytes) => Load(spec, codec, bytes) = Ok(spec.checksum.cells)
<1> DEFINE P == {p \in Fetch(bytes, spec) : Verified(p, spec) /\ Unpacks(p, spec, codec)}
<1>1. Load(spec, codec, bytes) = FirstOk(P)
      BY DEF Load
<1>2. \A p \in P : p.cells = spec.checksum.cells
  <2> TAKE p \in P
  <2>1. [cells |-> p.cells, packed |-> p.packed] = spec.checksum
        BY DEF Verified
  <2>2. [cells |-> p.cells, packed |-> p.packed].cells = p.cells
        OBVIOUS
  <2> QED BY <2>1, <2>2
<1>3. Backed(spec, codec, bytes) => P # {}
  <2> SUFFICES ASSUME Backed(spec, codec, bytes) PROVE P # {}
      OBVIOUS
  <2>1. PICK i \in DOMAIN bytes : /\ bytes[i].off = spec.off /\ bytes[i].len = spec.len
                                  /\ Verified(bytes[i], spec) /\ Unpacks(bytes[i], spec, codec)
        BY DEF Backed
  <2>2. bytes[i] \in Fetch(bytes, spec)
        BY <2>1 DEF Fetch
  <2> QED BY <2>1, <2>2
<1> HIDE DEF P
<1>4. CASE P = {}
      BY <1>1, <1>3, <1>4 DEF FirstOk, Reads
<1>5. CASE P # {}
  <2>1. FirstOk(P) = Ok((CHOOSE p \in P : TRUE).cells)
        BY <1>5 DEF FirstOk
  <2>2. (CHOOSE p \in P : TRUE) \in P
        BY <1>5
  <2>3. FirstOk(P) = Ok(spec.checksum.cells)
        BY <1>2, <2>1, <2>2
  <2> QED BY <1>1, <2>3 DEF Reads
<1> QED BY <1>4, <1>5

----------------------------------------------------------------------------
(* What the buffers of a column say: nulls and data.                       *)

Cell == Nat \cup {Null}

SaysNulls(V, cells, v) ==
    /\ V = {} => \A i \in 1..Len(v) : v[i] # Null
    /\ V # {} => /\ Min(V) \in V /\ Len(cells[Min(V)]) = Len(v)
                 /\ \A i \in 1..Len(v) : cells[Min(V)][i] = (v[i] # Null)
SaysData(D, cells, offset, v) ==
    /\ Max(D) \in D /\ Len(cells[Max(D)]) \in Nat /\ offset + Len(v) <= Len(cells[Max(D)])
    /\ \A i \in 1..Len(v) : v[i] # Null => cells[Max(D)][offset + i] = v[i]
Says(V, D, cells, len, offset, v) ==
    /\ v \in Seq(Cell) /\ len = Len(v) /\ offset \in Nat
    /\ SaysNulls(V, cells, v) /\ SaysData(D, cells, offset, v)

CellsOf(chunk) == [i \in DOMAIN chunk.buffers |-> chunk.buffers[i].checksum.cells]
ChunkPlain(chunk, v) ==
    Says(BuffersOf(chunk, "validity"), BuffersOf(chunk, "data"), CellsOf(chunk), chunk.len, chunk.offset, v)

BackedAll(chunk, bytes, D) ==
    \A i \in DOMAIN chunk.buffers :
        chunk.buffers[i].off \in D \/ Backed(chunk.buffers[i], chunk.codec, bytes)
Clear(chunk, D) == \A i \in DOMAIN chunk.buffers : chunk.buffers[i].off \notin D

\* A chunk's own buffers.
LEMMA RebuildIs ==
    ASSUME NEW chunk, NEW bytes, NEW v, ChunkPlain(chunk, v)
    PROVE  /\ Reads(Rebuild(chunk, bytes), v)
           /\ \A D : BackedAll(chunk, bytes, D) /\ Clear(chunk, D) => Rebuild(chunk, bytes) = Ok(v)
<1> DEFINE V == BuffersOf(chunk, "validity")
           D == BuffersOf(chunk, "data")
           cells == CellsOf(chunk)
           n == Len(v)
           offset == chunk.offset
           nulls == DecodeNulls(chunk, V, bytes)
           data == LoadData(chunk, D, bytes)
           fine == \A i \in DOMAIN chunk.buffers : Backed(chunk.buffers[i], chunk.codec, bytes)
<1>1. v \in Seq(Cell) /\ chunk.len = n /\ n \in Nat /\ offset \in Nat /\ SaysNulls(V, cells, v) /\ SaysData(D, cells, offset, v)
      BY DEF ChunkPlain, Says
<1>2. Rebuild(chunk, bytes) = BuildArray(n, offset, nulls, data)
      BY <1>1 DEF Rebuild
<1>3. V \subseteq DOMAIN chunk.buffers /\ D \subseteq DOMAIN chunk.buffers
      /\ \A i \in DOMAIN chunk.buffers : cells[i] = chunk.buffers[i].checksum.cells
      BY DEF BuffersOf, CellsOf
<1> HIDE DEF V, D, cells, offset, n
<1>4. /\ \/ nulls = Corrupt
         \/ nulls.ok = TRUE /\ Len(nulls.cells) = n /\ \A i \in 1..n : nulls.cells[i] = (v[i] # Null)
      /\ fine => nulls # Corrupt
  <2>1. CASE V = {}
    <3> DEFINE all == [i \in 1..n |-> TRUE]
    <3>1. nulls = Ok(all)
          BY <1>1, <2>1 DEF DecodeNulls
    <3>2. Len(all) = n /\ \A i \in 1..n : all[i] = TRUE
          BY <1>1
    <3>3. \A i \in 1..n : v[i] # Null
          BY <1>1, <2>1 DEF SaysNulls, n
    <3> HIDE DEF all, nulls
    <3> QED BY <3>1, <3>2, <3>3, Results
  <2>2. CASE V # {}
    <3> DEFINE s == chunk.buffers[Min(V)]
    <3>1. nulls = Load(s, chunk.codec, bytes)
          BY <2>2 DEF DecodeNulls
    <3>2. Min(V) \in V /\ Len(cells[Min(V)]) = n /\ \A i \in 1..n : cells[Min(V)][i] = (v[i] # Null)
          BY <1>1, <2>2 DEF SaysNulls, n
    <3>3. cells[Min(V)] = s.checksum.cells /\ (fine => Backed(s, chunk.codec, bytes))
          BY <1>3, <3>2
    <3> HIDE DEF s, nulls, fine
    <3>4. Reads(nulls, cells[Min(V)]) /\ (fine => nulls = Ok(cells[Min(V)]))
          BY <3>1, <3>3, LoadIs
    <3>5. nulls = Ok(cells[Min(V)]) => nulls.ok = TRUE /\ nulls.cells = cells[Min(V)] /\ nulls # Corrupt
          BY Results
    <3> QED BY <3>2, <3>4, <3>5 DEF Reads
  <2> QED BY <2>1, <2>2
<1>5. /\ \/ data = Corrupt
         \/ /\ data.ok = TRUE /\ Len(data.cells) \in Nat /\ offset + n <= Len(data.cells)
            /\ \A i \in 1..n : v[i] # Null => data.cells[offset + i] = v[i]
      /\ fine => data # Corrupt
  <2> DEFINE s == chunk.buffers[Max(D)]
  <2>1. /\ Max(D) \in D /\ Len(cells[Max(D)]) \in Nat /\ offset + n <= Len(cells[Max(D)])
        /\ \A i \in 1..n : v[i] # Null => cells[Max(D)][offset + i] = v[i]
        BY <1>1 DEF SaysData, n
  <2>2. cells[Max(D)] = s.checksum.cells
        BY <1>3, <2>1
  <2>3. data = Corrupt \/ data = Load(s, chunk.codec, bytes)
        BY DEF LoadData
  <2>4. fine => data = Load(s, chunk.codec, bytes) /\ Backed(s, chunk.codec, bytes)
    <3> SUFFICES ASSUME fine PROVE data = Load(s, chunk.codec, bytes) /\ Backed(s, chunk.codec, bytes)
        OBVIOUS
    <3>1. \A i \in D : Backed(chunk.buffers[i], chunk.codec, bytes)
          BY <1>3
    <3>2. \A i \in D : Load(chunk.buffers[i], chunk.codec, bytes).ok
      <4> TAKE i \in D
      <4>1. Load(chunk.buffers[i], chunk.codec, bytes) = Ok(chunk.buffers[i].checksum.cells)
            BY <3>1, LoadIs
      <4> QED BY <4>1, Results
    <3> QED BY <2>1, <3>1, <3>2 DEF LoadData
  <2> HIDE DEF s, data, fine
  <2>5. data = Corrupt \/ data = Ok(cells[Max(D)])
        BY <2>2, <2>3, LoadIs DEF Reads
  <2>6. fine => data = Ok(cells[Max(D)])
        BY <2>2, <2>4, LoadIs
  <2>7. data = Ok(cells[Max(D)]) => data.ok = TRUE /\ data.cells = cells[Max(D)] /\ data # Corrupt
        BY Results
  <2> QED BY <2>1, <2>5, <2>6, <2>7
<1> HIDE DEF nulls, data
<1>6. ASSUME nulls = Corrupt \/ data = Corrupt PROVE Rebuild(chunk, bytes) = Corrupt
      BY <1>2, <1>6, Results DEF BuildArray
<1>7. ASSUME nulls # Corrupt, data # Corrupt PROVE Rebuild(chunk, bytes) = Ok(v)
  <2>1. nulls.ok = TRUE /\ Len(nulls.cells) = n /\ \A i \in 1..n : nulls.cells[i] = (v[i] # Null)
        BY <1>4, <1>7
  <2>2. /\ data.ok = TRUE /\ Len(data.cells) \in Nat /\ offset + n <= Len(data.cells)
        /\ \A i \in 1..n : v[i] # Null => data.cells[offset + i] = v[i]
        BY <1>5, <1>7
  <2> DEFINE w == [i \in 1..n |-> IF nulls.cells[i] THEN data.cells[offset + i] ELSE Null]
  <2>3. Rebuild(chunk, bytes) = Ok(w)
    <3>1. ~(Len(nulls.cells) < n) /\ ~(Len(data.cells) < offset + n)
          BY <1>1, <2>1, <2>2
    <3> QED BY <1>2, <2>1, <2>2, <3>1 DEF BuildArray
  <2>4. ASSUME NEW i \in 1..n PROVE w[i] = v[i]
    <3>1. CASE v[i] = Null
      <4>1. nulls.cells[i] = FALSE
            BY <2>1, <3>1
      <4> QED BY <3>1, <4>1
    <3>2. CASE v[i] # Null
      <4>1. nulls.cells[i] = TRUE
            BY <2>1, <3>2
      <4> QED BY <2>2, <3>2, <4>1
    <3> QED BY <3>1, <3>2
  <2>5. v = [i \in 1..n |-> v[i]]
        BY <1>1 DEF n
  <2>6. w = v
        BY <2>4, <2>5
  <2> QED BY <2>3, <2>6
<1>8. ASSUME NEW E, BackedAll(chunk, bytes, E), Clear(chunk, E) PROVE fine
      BY <1>8 DEF BackedAll, Clear
<1> QED BY <1>4, <1>5, <1>6, <1>7, <1>8 DEF Reads

----------------------------------------------------------------------------
(* Dictionaries and runs.                                                  *)

\* The number of the run row i is in.
RunAt(ends, i) ==
    IF {k \in 1..Len(ends) : ends[k] >= i} # {} THEN Min({k \in 1..Len(ends) : ends[k] >= i}) ELSE 0

LooksUp(keys, d, rows) ==
    /\ rows \in Seq(Cell) /\ Len(keys) = Len(rows)
    /\ \A i \in 1..Len(rows) : rows[i] = IF keys[i] = Null THEN Null ELSE d[keys[i]]
Expands(ends, vals, rows) ==
    rows \in Seq(Cell) /\ \A i \in 1..Len(rows) : rows[i] = vals[RunAt(ends, i)]

Means(chunk, rows) ==
    \/ chunk.encoding = "plain" /\ ChunkPlain(chunk, rows)
    \/ /\ chunk.encoding = "dictionary" /\ 1 \in DOMAIN chunk.children
       /\ \E keys, d : ChunkPlain(chunk, keys) /\ ChunkPlain(chunk.children[1], d) /\ LooksUp(keys, d, rows)
    \/ /\ chunk.encoding = "runs" /\ 1 \in DOMAIN chunk.children /\ 2 \in DOMAIN chunk.children
       /\ chunk.len = Len(rows)
       /\ \E ends, vals : /\ ChunkPlain(chunk.children[1], ends) /\ ChunkPlain(chunk.children[2], vals)
                          /\ Expands(ends, vals, rows)

KidsBacked(chunk, bytes, D) ==
    /\ BackedAll(chunk, bytes, D)
    /\ \A k \in DOMAIN chunk.children : BackedAll(chunk.children[k], bytes, D)

\* A chunk is as long as the rows it stands for.
LEMMA MeansLen ==
    ASSUME NEW chunk, NEW rows, Means(chunk, rows)
    PROVE  rows \in Seq(Cell) /\ chunk.len = Len(rows)
<1>1. CASE chunk.encoding = "plain" /\ ChunkPlain(chunk, rows)
      BY <1>1 DEF ChunkPlain, Says
<1>2. CASE \E keys, d : ChunkPlain(chunk, keys) /\ ChunkPlain(chunk.children[1], d) /\ LooksUp(keys, d, rows)
      BY <1>2 DEF ChunkPlain, Says, LooksUp
<1>3. CASE chunk.len = Len(rows) /\ \E ends, vals : Expands(ends, vals, rows)
      BY <1>3 DEF Expands
<1> QED BY <1>1, <1>2, <1>3 DEF Means

\* Without a damaged buffer among them, all of a chunk's buffers are there.
LEMMA ClearOf ==
    ASSUME NEW chunk, NEW D, Extents(chunk) \cap D = {}
    PROVE  Clear(chunk, D) /\ \A k \in DOMAIN chunk.children : Clear(chunk.children[k], D)
<1>1. ASSUME NEW i \in DOMAIN chunk.buffers PROVE chunk.buffers[i].off \in Extents(chunk)
  <2>1. chunk.buffers[i] \in ToSet(chunk.buffers)
        BY DEF ToSet
  <2> QED BY <2>1 DEF Extents
<1>2. ASSUME NEW k \in DOMAIN chunk.children, NEW i \in DOMAIN chunk.children[k].buffers
      PROVE  chunk.children[k].buffers[i].off \in Extents(chunk)
  <2> DEFINE kid == chunk.children[k]
  <2>1. kid \in ToSet(chunk.children) /\ kid.buffers[i] \in ToSet(kid.buffers)
        BY DEF ToSet
  <2> HIDE DEF kid
  <2>2. kid.buffers[i] \in UNION {ToSet(x.buffers) : x \in ToSet(chunk.children)}
        BY <2>1
  <2>3. kid.buffers[i].off \in Extents(chunk)
        BY <2>2 DEF Extents
  <2> QED BY <2>3 DEF kid
<1> QED BY <1>1, <1>2 DEF Clear

\* A chunk reads as the rows it means, or is in error.
LEMMA RebuildAsIs ==
    ASSUME NEW chunk, NEW bytes, NEW rows, Means(chunk, rows)
    PROVE  /\ Reads(RebuildAs(chunk, bytes), rows)
           /\ \A D : KidsBacked(chunk, bytes, D) /\ Extents(chunk) \cap D = {} => RebuildAs(chunk, bytes) = Ok(rows)
<1> DEFINE Good(D) == KidsBacked(chunk, bytes, D) /\ Extents(chunk) \cap D = {}
           r == RebuildAs(chunk, bytes)
           own == Rebuild(chunk, bytes)
           one == Rebuild(chunk.children[1], bytes)
           two == Rebuild(chunk.children[2], bytes)
<1>1. \A D : Good(D) => /\ BackedAll(chunk, bytes, D) /\ Clear(chunk, D)
                        /\ \A k \in DOMAIN chunk.children : BackedAll(chunk.children[k], bytes, D) /\ Clear(chunk.children[k], D)
      BY ClearOf DEF KidsBacked
<1> HIDE DEF Good
<1>2. CASE chunk.encoding = "plain" /\ ChunkPlain(chunk, rows)
  <2>1. r = own
        BY <1>2 DEF RebuildAs
  <2>2. Reads(own, rows) /\ \A D : BackedAll(chunk, bytes, D) /\ Clear(chunk, D) => own = Ok(rows)
        BY <1>2, RebuildIs
  <2> HIDE DEF r, own
  <2> QED BY <1>1, <2>1, <2>2 DEF r, Good
<1>3. CASE /\ chunk.encoding = "dictionary" /\ 1 \in DOMAIN chunk.children
           /\ \E keys, d : ChunkPlain(chunk, keys) /\ ChunkPlain(chunk.children[1], d) /\ LooksUp(keys, d, rows)
  <2>1. PICK keys, d : ChunkPlain(chunk, keys) /\ ChunkPlain(chunk.children[1], d) /\ LooksUp(keys, d, rows)
        BY <1>3
  <2>2. r = Looked(own, one)
        BY <1>3 DEF RebuildAs
  <2>3. Reads(own, keys) /\ \A D : BackedAll(chunk, bytes, D) /\ Clear(chunk, D) => own = Ok(keys)
        BY <2>1, RebuildIs
  <2>4. Reads(one, d) /\ \A D : BackedAll(chunk.children[1], bytes, D) /\ Clear(chunk.children[1], D) => one = Ok(d)
        BY <2>1, RebuildIs
  <2>5. keys \in Seq(Cell) /\ rows \in Seq(Cell) /\ Len(keys) = Len(rows)
        BY <2>1 DEF ChunkPlain, Says, LooksUp
  <2>6. ASSUME own = Ok(keys), one = Ok(d) PROVE r = Ok(rows)
    <3> DEFINE w == [i \in DOMAIN keys |-> IF keys[i] = Null THEN Null ELSE d[keys[i]]]
    <3>1. r = Ok(w)
          BY <2>2, <2>6, Results DEF Looked
    <3>2. DOMAIN keys = 1..Len(rows) /\ rows = [i \in 1..Len(rows) |-> rows[i]]
          BY <2>5
    <3>3. w = rows
          BY <2>1, <3>2 DEF LooksUp
    <3> QED BY <3>1, <3>3
  <2>7. ASSUME own = Corrupt \/ one = Corrupt PROVE r = Corrupt
        BY <2>2, <2>7, Results DEF Looked
  <2> HIDE DEF r, own, one
  <2>8. \A D : Good(D) => own = Ok(keys) /\ one = Ok(d)
        BY <1>1, <1>3, <2>3, <2>4
  <2> QED BY <2>3, <2>4, <2>6, <2>7, <2>8 DEF Reads, r, Good
<1>4. CASE /\ chunk.encoding = "runs" /\ 1 \in DOMAIN chunk.children /\ 2 \in DOMAIN chunk.children
           /\ chunk.len = Len(rows)
           /\ \E ends, vals : /\ ChunkPlain(chunk.children[1], ends) /\ ChunkPlain(chunk.children[2], vals)
                              /\ Expands(ends, vals, rows)
  <2>1. PICK ends, vals : /\ ChunkPlain(chunk.children[1], ends) /\ ChunkPlain(chunk.children[2], vals)
                          /\ Expands(ends, vals, rows)
        BY <1>4
  <2>2. r = Expanded(Len(rows), one, two)
        BY <1>4 DEF RebuildAs
  <2>3. Reads(one, ends) /\ \A D : BackedAll(chunk.children[1], bytes, D) /\ Clear(chunk.children[1], D) => one = Ok(ends)
        BY <2>1, RebuildIs
  <2>4. Reads(two, vals) /\ \A D : BackedAll(chunk.children[2], bytes, D) /\ Clear(chunk.children[2], D) => two = Ok(vals)
        BY <2>1, RebuildIs
  <2>5. rows \in Seq(Cell)
        BY <2>1 DEF Expands
  <2>6. ASSUME one = Ok(ends), two = Ok(vals) PROVE r = Ok(rows)
    <3> DEFINE w == [i \in 1..Len(rows) |-> vals[RunAt(ends, i)]]
    <3>1. r = Ok(w)
      <4>1. one.ok = TRUE /\ two.ok = TRUE /\ one.cells = ends /\ two.cells = vals
            BY <2>6, Results
      <4> HIDE DEF one, two
      <4> QED BY <2>2, <4>1 DEF Expanded, RunAt, SelectInSeq
    <3>2. rows = [i \in 1..Len(rows) |-> rows[i]]
          BY <2>5
    <3>3. w = rows
          BY <2>1, <3>2 DEF Expands
    <3> QED BY <3>1, <3>3
  <2>7. ASSUME one = Corrupt \/ two = Corrupt PROVE r = Corrupt
    <3>1. ~(one.ok /\ two.ok)
          BY <2>7, Results
    <3> HIDE DEF one, two
    <3> QED BY <2>2, <3>1 DEF Expanded
  <2> HIDE DEF r, one, two
  <2>8. \A D : Good(D) => one = Ok(ends) /\ two = Ok(vals)
        BY <1>1, <1>4, <2>3, <2>4
  <2> QED BY <2>3, <2>4, <2>6, <2>7, <2>8 DEF Reads, r, Good
<1> QED BY <1>2, <1>3, <1>4 DEF Means

\* A result of a chunk is right or an error, and right unless it is damaged.
UncutRight(result, chunk, bytes, rows) ==
    /\ Reads(result, rows)
    /\ \A D : KidsBacked(chunk, bytes, D) /\ Extents(chunk) \cap D = {} => result = Ok(rows)

\* A range of it.
LEMMA DecodeUncutIs ==
    ASSUME NEW chunk, NEW bytes, NEW rows, Means(chunk, rows), NEW start \in Nat, NEW len \in Nat,
           start + len <= Len(rows)
    PROVE  UncutRight(DecodeUncut(chunk, bytes, start, len), chunk, bytes, SubSeq(rows, start + 1, start + len))
<1> DEFINE q == RebuildAs(chunk, bytes)
           r == DecodeUncut(chunk, bytes, start, len)
           s == SubSeq(rows, start + 1, start + len)
<1>1. rows \in Seq(Cell) /\ chunk.len = Len(rows) /\ Len(rows) \in Nat
      BY MeansLen
<1>2. r = Sliced(q, start, len)
  <2>1. ~(start + len > chunk.len)
        BY <1>1
  <2> QED BY <2>1 DEF DecodeUncut
<1>3. /\ Reads(q, rows)
      /\ \A D : KidsBacked(chunk, bytes, D) /\ Extents(chunk) \cap D = {} => q = Ok(rows)
      BY RebuildAsIs
<1> HIDE DEF q, r
<1>4. q = Corrupt => r = Corrupt
      BY <1>2, Results DEF Sliced
<1>5. q = Ok(rows) => r = Ok(s)
      BY <1>2, Results DEF Sliced
<1> HIDE DEF s
<1>6. UncutRight(r, chunk, bytes, s)
      BY <1>3, <1>4, <1>5 DEF Reads, UncutRight
<1> QED BY <1>6 DEF r, s

----------------------------------------------------------------------------
(* Blocks.                                                                 *)

\* A part of a sequence, by its elements.
LEMMA SubSeqIs ==
    ASSUME NEW T, NEW s \in Seq(T), NEW n \in Nat, n = Len(s), NEW i \in Nat, NEW j \in Nat, i <= j, j <= n
    PROVE  /\ SubSeq(s, i + 1, j) \in Seq(T) /\ Len(SubSeq(s, i + 1, j)) = j - i
           /\ \A k \in 1..(j - i) : SubSeq(s, i + 1, j)[k] = s[i + k]
<1> DEFINE a == i + 1
           r == SubSeq(s, a, j)
<1>1. a \in Int /\ j \in Int /\ j - a + 1 = j - i /\ (a > j => j - i = 0) /\ \A k \in 1..(j - i) : a + k - 1 = i + k
      OBVIOUS
<1>2. \A k \in a..j : s[k] \in T
  <2>1. \A k \in 1..n : s[k] \in T
        OBVIOUS
  <2>2. a..j \subseteq 1..n
        OBVIOUS
  <2> HIDE DEF a
  <2> QED BY <2>1, <2>2
<1> HIDE DEF a
<1>3. /\ r \in Seq(T) /\ Len(r) = IF a <= j THEN j - a + 1 ELSE 0
      /\ \A k \in 1..(j - a + 1) : r[k] = s[a + k - 1]
      BY <1>1, <1>2, SubSeqProperties
<1> HIDE DEF r
<1>4. Len(r) = j - i
      BY <1>1, <1>3
<1>5. \A k \in 1..(j - i) : r[k] = s[i + k]
      BY <1>1, <1>3
<1> QED BY <1>3, <1>4, <1>5 DEF r, a

\* A part of a part.
LEMMA SubSubSeq ==
    ASSUME NEW T, NEW s \in Seq(T), NEW n \in Nat, n = Len(s),
           NEW at \in Nat, NEW lo \in Nat, NEW hi \in Nat, NEW top \in Nat,
           at <= lo, lo <= hi, hi <= top, top <= n, NEW a \in Nat, NEW b \in Nat, a = lo - at, b = hi - at
    PROVE  SubSeq(SubSeq(s, at + 1, top), a + 1, b) = SubSeq(s, lo + 1, hi)
<1> DEFINE p == SubSeq(s, at + 1, top)
           m == top - at
           l == SubSeq(p, a + 1, b)
           r == SubSeq(s, lo + 1, hi)
           c == hi - lo
<1>1. m \in Nat /\ at <= top /\ lo <= n /\ hi <= n /\ a <= b /\ b <= m /\ c \in Nat /\ b - a = c
      OBVIOUS
<1>2. p \in Seq(T) /\ Len(p) = m /\ \A k \in 1..m : p[k] = s[at + k]
      BY <1>1, SubSeqIs
<1>3. r \in Seq(T) /\ Len(r) = c /\ \A k \in 1..c : r[k] = s[lo + k]
      BY <1>1, SubSeqIs
<1> HIDE DEF p, m, r, c
<1>4. l \in Seq(T) /\ Len(l) = c /\ \A k \in 1..c : l[k] = p[a + k]
  <2>1. m = Len(p) /\ p \in Seq(T)
        BY <1>2
  <2>2. /\ l \in Seq(T) /\ Len(l) = b - a
        /\ \A k \in 1..(b - a) : l[k] = p[a + k]
        BY <1>1, <2>1, SubSeqIs
  <2> QED BY <1>1, <2>2
<1> HIDE DEF l
<1>5. ASSUME NEW k \in 1..c PROVE l[k] = r[k]
  <2>1. a + k \in 1..m /\ at + (a + k) = lo + k
        BY <1>1
  <2>2. p[a + k] = s[at + (a + k)]
        BY <1>2, <2>1
  <2> QED BY <1>3, <1>4, <2>1, <2>2
<1>6. l = r
      BY <1>1, <1>3, <1>4, <1>5, SeqEqual
<1> QED BY <1>6 DEF l, r, p

\* The rows a range takes from one block.
LEMMA DecodeBlockIs ==
    ASSUME NEW block, NEW bytes, NEW rows \in Seq(Cell), NEW n \in Nat, n = Len(rows),
           NEW at \in Nat, NEW top \in Nat, at <= top, top <= n, Means(block, SubSeq(rows, at + 1, top)),
           NEW start \in Nat, NEW end \in Nat, NEW lo \in Nat, NEW hi \in Nat,
           lo = (IF start >= at THEN start ELSE at), hi = (IF end <= top THEN end ELSE top), lo <= hi
    PROVE  UncutRight(DecodeBlock(block, bytes, at, start, end), block, bytes, SubSeq(rows, lo + 1, hi))
<1> DEFINE p == SubSeq(rows, at + 1, top)
           a == lo - at
           b == hi - at
           len == hi - lo
<1>1. a \in Nat /\ b \in Nat /\ len \in Nat /\ a + len = b /\ a + len <= top - at
      OBVIOUS
<1>2. p \in Seq(Cell) /\ Len(p) = top - at
      BY SubSeqIs
<1>3. at <= lo /\ hi <= top
      OBVIOUS
<1>4. block.len = top - at
      BY <1>2, MeansLen
<1>5. Max({start, at}) = lo /\ Min({end, at + block.len}) = hi
  <2>1. Max({start, at}) = lo
        BY MaxOfTwo
  <2>2. at + block.len = top
        BY <1>4
  <2>3. Min({end, top}) = hi
        BY MinOfTwo
  <2> QED BY <2>1, <2>2, <2>3
<1>6. DecodeBlock(block, bytes, at, start, end) = DecodeUncut(block, bytes, a, len)
      BY <1>5 DEF DecodeBlock
<1>7. SubSeq(p, a + 1, a + len) = SubSeq(rows, lo + 1, hi)
  <2> HIDE DEF len
  <2>1. a = lo - at /\ b = hi - at
        OBVIOUS
  <2> HIDE DEF a, b
  <2> QED BY <1>1, <1>3, <2>1, SubSubSeq
<1>8. Means(block, p) /\ a + len <= Len(p)
      BY <1>1, <1>2
<1> HIDE DEF p, a, len
<1>9. UncutRight(DecodeUncut(block, bytes, a, len), block, bytes, SubSeq(p, a + 1, a + len))
      BY <1>1, <1>8, DecodeUncutIs
<1> QED BY <1>6, <1>7, <1>9

\* The rows of block k end where the next block starts, or the column ends.
BlockEnd(k, size, n) == IF k * size <= n THEN k * size ELSE n
BlockMeans(chunk, rows) ==
    /\ rows \in Seq(Cell) /\ chunk.len = Len(rows)
    /\ chunk.blockRows \in Nat \ {0} /\ DOMAIN chunk.blocks = 1..Len(chunk.blocks)
    /\ Len(chunk.blocks) = CeilDiv(Len(rows), chunk.blockRows)
    /\ \A k \in 1..Len(chunk.blocks) :
        Means(chunk.blocks[k], SubSeq(rows, (k - 1) * chunk.blockRows + 1,
                                      BlockEnd(k, chunk.blockRows, Len(rows))))
ColumnMeans(chunk, rows) ==
    /\ chunk.blocks = <<>> => Means(chunk, rows)
    /\ chunk.blocks # <<>> => BlockMeans(chunk, rows)
ColumnBacked(chunk, bytes, D) ==
    /\ chunk.blocks = <<>> => KidsBacked(chunk, bytes, D)
    /\ \A k \in DOMAIN chunk.blocks : KidsBacked(chunk.blocks[k], bytes, D)

\* A result for a range is right or an error, and right unless the range needs
\* a damaged buffer.
RangeRight(result, chunk, bytes, start, len, rows) ==
    /\ Reads(result, rows)
    /\ \A D : ColumnBacked(chunk, bytes, D) /\ Needed(chunk, [start |-> start, len |-> len]) \cap D = {}
              => result = Ok(rows)

\* decode_blocks: the blocks a range lies in, cut to the range and joined,
\* are the range of the column.
LEMMA DecodeBlocksIs ==
    ASSUME NEW chunk, NEW bytes, NEW rows, BlockMeans(chunk, rows), chunk.blocks # <<>>,
           NEW start \in Nat, NEW len \in Nat, start + len <= Len(rows)
    PROVE  RangeRight(DecodeBlocks(chunk, bytes, start, len), chunk, bytes, start, len,
                      SubSeq(rows, start + 1, start + len))
<1> DEFINE n == Len(rows)
           size == chunk.blockRows
           count == Len(chunk.blocks)
           end == start + len
           first == start \div size
           last == LastBlock(chunk, start, len)
           m == last - first + 1
           r == DecodeBlocks(chunk, bytes, start, len)
<1>1. rows \in Seq(Cell) /\ n \in Nat /\ size \in Nat \ {0} /\ count = CeilDiv(n, size)
      /\ DOMAIN chunk.blocks = 1..count /\ end \in Nat /\ end <= n
      BY DEF BlockMeans
<1>2. \A k \in 1..count : Means(chunk.blocks[k], SubSeq(rows, (k - 1) * size + 1, BlockEnd(k, size, n)))
      BY DEF BlockMeans
<1>3. CASE len = 0
  <2>1. r = Ok(<<>>)
        BY <1>3 DEF DecodeBlocks
  <2>2. SubSeq(rows, start + 1, start + len) = <<>>
        BY <1>3, SubSeqEmpty
  <2> HIDE DEF r
  <2>3. RangeRight(r, chunk, bytes, start, len, <<>>)
        BY <2>1 DEF Reads, RangeRight
  <2> QED BY <2>2, <2>3 DEF r
<1>4. CASE len # 0
  <2> HIDE DEF n, size, count
  <2>1. first \in Nat /\ first * size <= start /\ start < first * size + size
        BY <1>1, DivBounds
  <2>2. last = (end - 1) \div size /\ end - 1 \in Nat
        BY <1>4 DEF LastBlock, size
  <2>3. last \in Nat /\ last * size <= end - 1 /\ end - 1 < last * size + size
        BY <1>1, <2>2, DivBounds
  <2> HIDE DEF first, last, end
  <2>4. count \in Nat /\ n <= count * size /\ count * size \in Nat
    <3>1. count \in Nat /\ n <= count * size
          BY <1>1, CeilDivBounds
    <3> QED BY <1>1, <3>1, TimesType
  <2>5. first * size \in Nat /\ last * size \in Nat
        BY <1>1, <2>1, <2>3, TimesType
  <2>6. last < count
    <3> SUFFICES ASSUME count <= last PROVE FALSE
        BY <2>3, <2>4
    <3>1. count * size <= last * size
          BY <1>1, <2>3, <2>4, TimesGrows
    <3> DEFINE x == count * size
               y == last * size
    <3>2. x \in Nat /\ y \in Nat /\ x <= y /\ y <= end - 1 /\ n <= x /\ end <= n /\ end \in Nat /\ n \in Nat
          BY <1>1, <2>3, <2>4, <2>5, <3>1
    <3> HIDE DEF x, y
    <3> QED BY <3>2
  <2>7. first <= last
    <3> SUFFICES ASSUME last + 1 <= first PROVE FALSE
        BY <2>1, <2>3
    <3>1. last + 1 \in Nat /\ (last + 1) * size <= first * size
          BY <1>1, <2>1, <2>3, TimesGrows
    <3>2. (last + 1) * size = ((last + 1) - 1) * size + size
          BY <1>1, <3>1, TimesStep
    <3>3. (last + 1) - 1 = last
          BY <2>3
    <3> DEFINE x == (last + 1) * size
               y == last * size
               z == first * size
    <3>4. x = y + size /\ x <= z /\ z <= start /\ end - 1 < y + size /\ y \in Nat /\ z \in Nat
          BY <2>1, <2>3, <2>5, <3>1, <3>2, <3>3
    <3>5. start <= end - 1 /\ end \in Nat
          BY <1>1, <1>4 DEF end
    <3> HIDE DEF x, y, z
    <3> QED BY <1>1, <3>4, <3>5
  <2>8. m \in Nat /\ m > 0 /\ first + m = last + 1
        BY <2>1, <2>3, <2>7
  <2> DEFINE at == [k \in 0..m |-> (first + k) * size]
             cut == [k \in 0..m |-> IF at[k] < start THEN start ELSE IF at[k] > end THEN end ELSE at[k]]
             part == [k \in 1..m |-> DecodeBlock(chunk.blocks[first + k], bytes, (first + k - 1) * size, start, end)]
             want == [k \in 1..m |-> SubSeq(rows, cut[k - 1] + 1, cut[k])]
  <2> HIDE DEF m
  <2>9. r = Joined(part)
    <3>1. ~(last >= Len(chunk.blocks))
          BY <2>3, <2>4, <2>6 DEF count
    <3>2. r = DecodeBlockRun(chunk, bytes, first, last, start, end)
          BY <1>4 DEF DecodeBlocks, first, last, end, size
    <3>3. r = Joined([k \in 1..m |-> DecodeBlock(chunk.blocks[first + k], bytes, (first + k - 1) * size, start, end)])
          BY <3>1, <3>2 DEF DecodeBlockRun, m, size
    <3> QED BY <3>3
  <2>10. \A k \in 0..m : at[k] \in Nat /\ at[k] = (first + k) * size
         BY <1>1, <2>1, <2>8, TimesType
  <2>11. \A k \in 1..m : at[k] = at[k - 1] + size
    <3> TAKE k \in 1..m
    <3>1. k \in 0..m /\ k - 1 \in 0..m /\ first + k \in Int /\ (first + k) - 1 = first + (k - 1)
          BY <2>1, <2>8
    <3>2. (first + k) * size = ((first + k) - 1) * size + size
          BY <1>1, <3>1, TimesStep
    <3> QED BY <2>10, <3>1, <3>2
  <2>12. at[0] <= start /\ at[m] >= end /\ \A k \in 1..m : at[k] > start /\ at[k - 1] < end
    <3>1. 0 \in 0..m /\ m \in 0..m /\ first + 0 = first
          BY <2>1, <2>8
    <3>2. at[0] = first * size /\ at[m] = (last + 1) * size
          BY <2>8, <2>10, <3>1
    <3>3. (last + 1) * size = last * size + size
      <4>1. last + 1 \in Int /\ (last + 1) - 1 = last
            BY <2>3
      <4>2. (last + 1) * size = ((last + 1) - 1) * size + size
            BY <1>1, <4>1, TimesStep
      <4> QED BY <4>1, <4>2
    <3>4. at[m] >= end
      <4> DEFINE y == last * size
      <4>1. y \in Nat /\ at[m] = y + size /\ end - 1 < y + size
            BY <2>3, <2>5, <3>2, <3>3
      <4> HIDE DEF y, at
      <4> QED BY <1>1, <4>1
    <3>5. ASSUME NEW k \in 1..m PROVE at[k] > start
      <4>1. first + 1 \in Nat /\ first + k \in Nat /\ first + 1 <= first + k /\ k \in 0..m
            BY <2>1, <2>8
      <4>2. (first + 1) * size <= (first + k) * size
            BY <1>1, <4>1, TimesGrows
      <4>3. (first + 1) * size = ((first + 1) - 1) * size + size /\ (first + 1) - 1 = first
            BY <1>1, <2>1, <4>1, TimesStep
      <4> DEFINE x == first * size
                 y == (first + 1) * size
                 z == (first + k) * size
      <4>4. x \in Nat /\ y = x + size /\ y <= z /\ start < x + size /\ at[k] = z /\ at[k] \in Nat
            BY <2>1, <2>5, <2>10, <4>1, <4>2, <4>3
      <4> HIDE DEF x, y, z, at
      <4> QED BY <1>1, <4>4
    <3>6. ASSUME NEW k \in 1..m PROVE at[k - 1] < end
      <4>1. k - 1 \in 0..m /\ first + (k - 1) \in Nat /\ first + (k - 1) <= last
            BY <2>1, <2>3, <2>8
      <4>2. (first + (k - 1)) * size <= last * size
            BY <1>1, <2>3, <4>1, TimesGrows
      <4>3. at[k - 1] \in Nat /\ at[k - 1] <= last * size
            BY <2>10, <4>1, <4>2
      <4> DEFINE y == last * size
      <4>4. y \in Nat /\ at[k - 1] <= y /\ y <= end - 1
            BY <2>3, <2>5, <4>3
      <4> HIDE DEF y, at
      <4> QED BY <1>1, <4>3, <4>4
    <3> QED BY <2>1, <3>2, <3>4, <3>5, <3>6
  <2> HIDE DEF at
  <2>13. \A k \in 0..m : cut[k] = IF at[k] < start THEN start ELSE IF at[k] > end THEN end ELSE at[k]
         OBVIOUS
  <2>14. start <= end
         BY DEF end
  <2>15. cut \in [0..m -> Nat] /\ \A k \in 0..m : start <= cut[k] /\ cut[k] <= end
    <3>1. ASSUME NEW k \in 0..m PROVE cut[k] \in Nat /\ start <= cut[k] /\ cut[k] <= end
      <4>1. at[k] \in Nat
            BY <2>10
      <4> QED BY <1>1, <2>13, <2>14, <4>1
    <3> QED BY <3>1
  <2> HIDE DEF cut
  <2>16. cut[0] = start /\ cut[m] = end
    <3>1. 0 \in 0..m /\ m \in 0..m /\ at[0] \in Nat /\ at[m] \in Nat
          BY <2>8, <2>10
    <3>2. cut[0] = IF at[0] < start THEN start ELSE IF at[0] > end THEN end ELSE at[0]
          BY <2>13, <3>1
    <3>3. cut[m] = IF at[m] < start THEN start ELSE IF at[m] > end THEN end ELSE at[m]
          BY <2>13, <3>1
    <3>4. cut[0] = start
          BY <1>1, <2>12, <2>14, <3>1, <3>2
    <3>5. cut[m] = end
          BY <1>1, <2>12, <2>14, <3>1, <3>3
    <3> QED BY <3>4, <3>5
  <2>17. ASSUME NEW k \in 1..m
         PROVE  /\ cut[k - 1] <= cut[k]
                /\ first + k \in 1..count
                /\ at[k - 1] < end /\ at[k] > start
                /\ ((first + k) - 1) * size = at[k - 1] /\ (first + k) * size = at[k]
                /\ UncutRight(part[k], chunk.blocks[first + k], bytes, want[k])
    <3> DEFINE a == at[k - 1]
               j == first + k
               top == BlockEnd(j, size, n)
               lo == cut[k - 1]
               hi == cut[k]
               block == chunk.blocks[j]
    <3>1. /\ k \in 0..m /\ k - 1 \in 0..m /\ first + (k - 1) = j - 1 /\ j \in 1..count /\ j \in Nat
          BY <2>1, <2>3, <2>4, <2>6, <2>8
    <3>2. a \in Nat /\ a = (j - 1) * size /\ at[k] = j * size /\ at[k] = a + size /\ a < end /\ at[k] > start /\ at[k] \in Nat
      <4>1. at[k - 1] \in Nat /\ at[k - 1] = (first + (k - 1)) * size /\ at[k] \in Nat /\ at[k] = (first + k) * size
            BY <2>10, <3>1
      <4>2. at[k] = at[k - 1] + size /\ at[k] > start /\ at[k - 1] < end
            BY <2>11, <2>12
      <4> QED BY <3>1, <4>1, <4>2
    <3>3. lo \in Nat /\ hi \in Nat /\ lo = (IF a < start THEN start ELSE IF a > end THEN end ELSE a)
          /\ hi = (IF at[k] < start THEN start ELSE IF at[k] > end THEN end ELSE at[k])
          BY <2>13, <2>15, <3>1
    <3>4. top = IF at[k] <= n THEN at[k] ELSE n
          BY <3>2 DEF BlockEnd
    <3>5. Means(block, SubSeq(rows, a + 1, top))
          BY <1>2, <3>1, <3>2
    <3> HIDE DEF a, j, top, lo, hi, block
    <3>6. top \in Nat /\ a <= top /\ top <= n
          BY <1>1, <3>2, <3>4
    <3>7. lo = (IF start >= a THEN start ELSE a) /\ hi = (IF end <= top THEN end ELSE top) /\ lo <= hi
          BY <1>1, <2>14, <3>2, <3>3, <3>4, <3>6
    <3>8. n = Len(rows)
          BY DEF n
    <3>9. UncutRight(DecodeBlock(block, bytes, a, start, end), block, bytes, SubSeq(rows, lo + 1, hi))
          BY <1>1, <3>2, <3>3, <3>5, <3>6, <3>7, <3>8, DecodeBlockIs
    <3>10. part[k] = DecodeBlock(block, bytes, a, start, end) /\ want[k] = SubSeq(rows, lo + 1, hi)
      <4>1. part[k] = DecodeBlock(chunk.blocks[j], bytes, ((first + k) - 1) * size, start, end)
        <5>1. part[k] = DecodeBlock(chunk.blocks[first + k], bytes, ((first + k) - 1) * size, start, end)
              BY <1>1, <2>1, <2>8
        <5> HIDE DEF part
        <5> QED BY <5>1 DEF j
      <4>2. (first + k) - 1 = j - 1
            BY DEF j
      <4> QED BY <3>2, <4>1, <4>2 DEF block, lo, hi
    <3> HIDE DEF part, want
    <3> QED BY <3>1, <3>2, <3>7, <3>9, <3>10 DEF j, block, lo, hi, a
  <2>18. FlattenSeq(want) = SubSeq(rows, start + 1, end)
    <3>1. \A k \in 0..m : cut[k] <= Len(rows)
      <4> TAKE k \in 0..m
      <4>1. cut[k] \in Nat /\ cut[k] <= end
            BY <2>15
      <4> QED BY <1>1, <4>1 DEF n
    <3>2. \A k \in 1..m : cut[k - 1] <= cut[k]
          BY <2>17
    <3>3. FlattenSeq(want) = SubSeq(rows, cut[0] + 1, cut[m])
          BY <1>1, <2>8, <2>15, <3>1, <3>2, FlattenCuts
    <3> QED BY <2>16, <3>3
  <2>19. DOMAIN part = 1..m /\ DOMAIN want = 1..m
         OBVIOUS
  <2>20. want = [k \in 1..m |-> want[k]]
         OBVIOUS
  <2> HIDE DEF part, want
  <2>21. (\A k \in 1..m : part[k] = Ok(want[k])) => r = Ok(SubSeq(rows, start + 1, end))
    <3> SUFFICES ASSUME \A k \in 1..m : part[k] = Ok(want[k]) PROVE r = Ok(SubSeq(rows, start + 1, end))
        OBVIOUS
    <3>1. \A k \in 1..m : part[k].ok = TRUE /\ part[k].cells = want[k]
          BY Results
    <3>2. Joined(part) = Ok(FlattenSeq([k \in 1..m |-> part[k].cells]))
          BY <2>19, <3>1 DEF Joined
    <3>3. [k \in 1..m |-> part[k].cells] = want
          BY <2>20, <3>1
    <3> QED BY <2>9, <2>18, <3>2, <3>3
  <2>22. (\E k \in 1..m : part[k] = Corrupt) => r = Corrupt
         BY <2>9, <2>19, Results DEF Joined
  <2>23. Reads(r, SubSeq(rows, start + 1, end))
    <3>1. \A k \in 1..m : part[k] = Corrupt \/ part[k] = Ok(want[k])
          BY <2>17 DEF UncutRight, Reads
    <3> QED BY <2>21, <2>22, <3>1 DEF Reads
  <2>24. ASSUME NEW D, ColumnBacked(chunk, bytes, D), Needed(chunk, [start |-> start, len |-> len]) \cap D = {}
         PROVE  r = Ok(SubSeq(rows, start + 1, end))
    <3> SUFFICES ASSUME NEW k \in 1..m PROVE part[k] = Ok(want[k])
        BY <2>21
    <3> DEFINE j == first + k
               q == [start |-> start, len |-> len]
    <3>1. j \in 1..count /\ (j - 1) * size < end /\ j * size > start
      <4>1. j \in 1..count /\ (j - 1) * size = at[k - 1] /\ j * size = at[k] /\ at[k - 1] < end /\ at[k] > start
            BY <2>17
      <4> QED BY <4>1
    <3>2. q.start = start /\ q.len = len
          OBVIOUS
    <3> HIDE DEF q, j
    <3>3. Extents(chunk.blocks[j]) \subseteq Needed(chunk, q)
      <4>1. j \in DOMAIN chunk.blocks
            BY <1>1, <3>1
      <4>2. (j - 1) * chunk.blockRows < q.start + q.len /\ j * chunk.blockRows > q.start
            BY <3>1, <3>2 DEF end, size
      <4> QED BY <4>1, <4>2 DEF Needed
    <3>4. Extents(chunk.blocks[j]) \cap D = {}
          BY <2>24, <3>3 DEF q
    <3>5. KidsBacked(chunk.blocks[j], bytes, D)
          BY <1>1, <2>24, <3>1 DEF ColumnBacked
    <3>6. UncutRight(part[k], chunk.blocks[j], bytes, want[k])
          BY <2>17 DEF j
    <3> QED BY <3>4, <3>5, <3>6 DEF UncutRight
  <2> HIDE DEF r
  <2>25. RangeRight(r, chunk, bytes, start, len, SubSeq(rows, start + 1, end))
         BY <2>23, <2>24 DEF RangeRight
  <2> QED BY <2>25 DEF end, r
<1> QED BY <1>3, <1>4

\* Any range of a column reads as the rows the column means, or as an error
\* where it needs a damaged buffer.
LEMMA DecodeColumnIs ==
    ASSUME NEW chunk, NEW bytes, NEW rows, ColumnMeans(chunk, rows),
           NEW start \in Nat, NEW len \in Nat, start + len <= Len(rows)
    PROVE  RangeRight(DecodeColumnRows(chunk, bytes, start, len), chunk, bytes, start, len,
                      SubSeq(rows, start + 1, start + len))
<1> DEFINE r == DecodeColumnRows(chunk, bytes, start, len)
<1>1. CASE chunk.blocks = <<>>
  <2>1. Means(chunk, rows)
        BY <1>1 DEF ColumnMeans
  <2>2. chunk.len = Len(rows) /\ Len(rows) \in Nat
        BY <2>1, MeansLen
  <2>3. r = DecodeUncut(chunk, bytes, start, len)
    <3>1. ~(start + len > chunk.len)
          BY <2>2
    <3> QED BY <1>1, <3>1 DEF DecodeColumnRows
  <2>4. \A D : ColumnBacked(chunk, bytes, D) /\ Needed(chunk, [start |-> start, len |-> len]) \cap D = {}
               => KidsBacked(chunk, bytes, D) /\ Extents(chunk) \cap D = {}
        BY <1>1 DEF ColumnBacked, Needed
  <2> DEFINE s == SubSeq(rows, start + 1, start + len)
  <2>5. UncutRight(DecodeUncut(chunk, bytes, start, len), chunk, bytes, s)
        BY <2>1, DecodeUncutIs
  <2> HIDE DEF s, r
  <2>6. UncutRight(r, chunk, bytes, s)
        BY <2>3, <2>5
  <2>7. RangeRight(r, chunk, bytes, start, len, s)
        BY <2>4, <2>6 DEF UncutRight, RangeRight
  <2> QED BY <2>7 DEF s, r
<1>2. CASE chunk.blocks # <<>>
  <2>1. BlockMeans(chunk, rows)
        BY <1>2 DEF ColumnMeans
  <2>2. chunk.len = Len(rows) /\ Len(rows) \in Nat
        BY <2>1 DEF BlockMeans
  <2>3. r = DecodeBlocks(chunk, bytes, start, len)
    <3>1. ~(start + len > chunk.len)
          BY <2>2
    <3> QED BY <1>2, <3>1 DEF DecodeColumnRows
  <2> QED BY <1>2, <2>1, <2>3, DecodeBlocksIs
<1> QED BY <1>1, <1>2

----------------------------------------------------------------------------
(* Encoding a column: the buffers say its rows.                            *)

\* The greatest number of a set.
LEMMA MaxIs ==
    ASSUME NEW S \in SUBSET Nat, NEW n \in S, \A x \in S : x <= n
    PROVE  Max(S) = n
<1> DEFINE P(x) == x \in S /\ \A y \in S : x >= y
<1>1. P(n)
      OBVIOUS
<1>2. \A x : P(x) => x = n
      OBVIOUS
<1>3. Max(S) = CHOOSE x : P(x)
      BY DEF Max
<1> HIDE DEF P
<1> QED BY <1>1, <1>2, <1>3

\* The least one.
LEMMA MinFound ==
    ASSUME NEW S \in SUBSET Nat, NEW n \in S, \A x \in S : n <= x
    PROVE  Min(S) = n
<1> DEFINE P(x) == x \in S /\ \A y \in S : x <= y
<1>1. P(n)
      OBVIOUS
<1>2. \A x : P(x) => x = n
      OBVIOUS
<1>3. Min(S) = CHOOSE x : P(x)
      BY DEF Min
<1> HIDE DEF P
<1> QED BY <1>1, <1>2, <1>3

ArraySet == [type : DataTypes \cup {"index"}, held : Seq(Cell), off : Nat, len : Nat]
IsArray(a) == a \in ArraySet /\ a.off + a.len <= Len(a.held)

\* The rows of an array, one by one.
LEMMA RowsOf ==
    ASSUME NEW a, IsArray(a)
    PROVE  /\ Rows(a) \in Seq(Cell) /\ Len(Rows(a)) = a.len
           /\ \A i \in 1..a.len : Rows(a)[i] = a.held[a.off + i]
<1> DEFINE s == a.held
           i == a.off
           j == i + a.len
           n == Len(s)
<1>1. s \in Seq(Cell) /\ i \in Nat /\ j \in Nat /\ n \in Nat /\ i <= j /\ j <= n /\ a.len \in Nat /\ j - i = a.len
      BY DEF IsArray, ArraySet
<1>2. Rows(a) = SubSeq(s, i + 1, j)
      BY DEF Rows
<1>3. n = Len(s)
      OBVIOUS
<1> HIDE DEF s, i, j, n
<1>4. /\ SubSeq(s, i + 1, j) \in Seq(Cell) /\ Len(SubSeq(s, i + 1, j)) = j - i
      /\ \A k \in 1..(j - i) : SubSeq(s, i + 1, j)[k] = s[i + k]
      BY <1>1, <1>3, SubSeqIs
<1>5. \A k \in 1..a.len : SubSeq(s, i + 1, j)[k] = s[i + k]
      BY <1>1, <1>4
<1> QED BY <1>1, <1>2, <1>4, <1>5 DEF s, i

\* A fresh array holds its rows and nothing else.
LEMMA FreshArray ==
    ASSUME NEW type \in DataTypes \cup {"index"}, NEW v \in Seq(Cell)
    PROVE  /\ IsArray(Array(type, v)) /\ Rows(Array(type, v)) = v
           /\ Array(type, v).type = type /\ Array(type, v).len = Len(v)
<1> DEFINE a == Array(type, v)
           n == Len(v)
<1>1. n \in Nat
      OBVIOUS
<1>2. a = [type |-> type, held |-> v, off |-> 0, len |-> n]
      BY DEF Array
<1>3. a.type = type /\ a.held = v /\ a.off = 0 /\ a.len = n /\ a \in ArraySet
      BY <1>1, <1>2 DEF ArraySet
<1> HIDE DEF a
<1>4. IsArray(a)
      BY <1>1, <1>3 DEF IsArray
<1>5. Rows(a) = SubSeq(v, 1, n)
      BY <1>1, <1>3 DEF Rows
<1>6. SubSeq(v, 1, n) = v
  <2> HIDE DEF n
  <2>1. n = Len(v) /\ n <= n
        BY <1>1 DEF n
  <2> QED BY <1>1, <2>1, SubSeqSplit
<1> QED BY <1>3, <1>4, <1>5, <1>6 DEF a

\* compact keeps the rows.
LEMMA CompactedIs ==
    ASSUME NEW a, IsArray(a)
    PROVE  IsArray(Compacted(a)) /\ Rows(Compacted(a)) = Rows(a)
<1>1. a.type \in DataTypes \cup {"index"}
      BY DEF IsArray, ArraySet
<1>2. Rows(a) \in Seq(Cell)
      BY RowsOf
<1>3. CASE CarriesOnlyItsOwnRows(a) \/ a.type = "odd"
      BY <1>3 DEF Compacted
<1>4. CASE ~(CarriesOnlyItsOwnRows(a) \/ a.type = "odd")
  <2>1. Compacted(a) = Array(a.type, Rows(a))
        BY <1>4 DEF Compacted
  <2> QED BY <1>1, <1>2, <2>1, FreshArray
<1> QED BY <1>3, <1>4

\* Buffers as the encoder and the page bounds make them.
Cells == Seq(BOOLEAN) \cup Seq(Nat) \cup Seq(SUBSET Cell)
BufferSet(roles) == [role : roles, cells : Cells, size : Nat]
OwnRoles == {"validity", "data"}
PlainCells(e) == [i \in DOMAIN e.buffers |-> e.buffers[i].cells]
IsPlain(e, v) ==
    /\ e.encoding = "plain" /\ e.children = <<>> /\ e.buffers \in Seq(BufferSet(OwnRoles))
    /\ Says(BuffersOf(e, "validity"), BuffersOf(e, "data"), PlainCells(e), e.len, e.offset, v)

\* Division rounded up stays a natural number.
LEMMA DivUpType ==
    ASSUME NEW a \in Nat, NEW b \in Nat \ {0}
    PROVE  DivUp(a, b) \in Nat
BY CeilDivBounds DEF DivUp, CeilDiv

\* The data buffers of an array: the last one holds a number per held row.
DataWell(ds, cells) ==
    /\ ds \in Seq(BufferSet({"data"})) /\ Len(ds) \in {1, 2} /\ ds[Len(ds)].cells = cells
\* The last data buffer of an array holds its slots.
LEMMA DataIs ==
    ASSUME NEW type, NEW cells \in Seq(Nat)
    PROVE  DataWell(DataBuffers(type, cells), cells)
<1> DEFINE n == Len(cells)
           B == BufferSet({"data"})
<1>1. n \in Nat
      OBVIOUS
<1>2. CASE type = "text"
  <2> DEFINE offs == [i \in 1..(n + 1) |-> SumOf(SubSeq(cells, 1, i - 1))]
             o == Buffer("data", offs, 4 * (n + 1))
             d == Buffer("data", cells, SumOf(cells))
  <2>1. offs \in Seq(Nat)
    <3>1. ASSUME NEW i \in 1..(n + 1) PROVE SumOf(SubSeq(cells, 1, i - 1)) \in Nat
      <4>1. i - 1 \in Nat /\ i - 1 <= n
            BY <1>1
      <4>2. SubSeq(cells, 1, i - 1) \in Seq(Nat)
        <5> DEFINE j == i - 1
        <5> HIDE DEF j, n
        <5>1. j \in Nat /\ j <= n /\ n = Len(cells)
              BY <4>1 DEF j, n
        <5>2. SubSeq(cells, 1, j) \in Seq(Nat)
              BY <1>1, <5>1, SubSeqSplit
        <5> QED BY <5>2 DEF j
      <4> QED BY <4>2, SumOfType
    <3> HIDE DEF n
    <3>2. offs \in [1..(n + 1) -> Nat]
          BY <3>1
    <3>3. n + 1 \in Nat
          BY <1>1
    <3> DEFINE m == n + 1
    <3>4. m \in Nat /\ offs \in [1..m -> Nat]
          BY <3>2, <3>3
    <3> HIDE DEF offs, m
    <3> QED BY ONLY <3>4
  <2>2. SumOf(cells) \in Nat
        BY SumOfType
  <2>3. 4 * (n + 1) \in Nat
        BY <1>1
  <2> HIDE DEF offs, n
  <2>4. o \in B /\ d \in B /\ d.cells = cells
        BY <2>1, <2>2, <2>3 DEF Buffer, BufferSet, Cells
  <2>5. DataBuffers(type, cells) = <<o, d>>
        BY <1>2 DEF DataBuffers, n, offs
  <2> HIDE DEF o, d, B
  <2>6. <<o, d>> \in Seq(B) /\ Len(<<o, d>>) = 2 /\ <<o, d>>[2] = d
        BY <2>4
  <2> QED BY <2>4, <2>5, <2>6 DEF DataWell, B
<1>3. CASE type # "text"
  <2> DEFINE d == Buffer("data", cells, Width(type) * n)
  <2>1. Width(type) * n \in Nat
        BY <1>1 DEF Width
  <2> HIDE DEF n
  <2>2. d \in B /\ d.cells = cells
        BY <2>1 DEF Buffer, BufferSet, Cells
  <2>3. DataBuffers(type, cells) = <<d>>
        BY <1>3 DEF DataBuffers, n
  <2> HIDE DEF d, B
  <2>4. <<d>> \in Seq(B) /\ Len(<<d>>) = 1 /\ <<d>>[1] = d
        BY <2>2
  <2> QED BY <2>2, <2>3, <2>4 DEF DataWell, B
<1> QED BY <1>2, <1>3

\* Null bitmap first, data after it.
OwnBuffers(e, vs, ds, k, m) ==
    /\ e.buffers \in Seq(BufferSet(OwnRoles)) /\ DOMAIN e.buffers = 1..(k + m)
    /\ BuffersOf(e, "validity") = 1..k /\ BuffersOf(e, "data") = (k + 1)..(k + m)
    /\ \A i \in 1..k : e.buffers[i] = vs[i]
    /\ \A i \in 1..m : e.buffers[k + i] = ds[i]
\* Where in an array's buffers its null bitmap and its data are.
LEMMA ValidityThenData ==
    ASSUME NEW vs \in Seq(BufferSet({"validity"})), NEW ds \in Seq(BufferSet({"data"})),
           NEW k \in Nat, NEW m \in Nat, k = Len(vs), m = Len(ds), NEW e, e.buffers = vs \o ds
    PROVE  OwnBuffers(e, vs, ds, k, m)
<1> DEFINE A == BufferSet({"validity"})
           B == BufferSet({"data"})
           C == BufferSet(OwnRoles)
           bs == e.buffers
<1>1. A \subseteq C /\ B \subseteq C
      BY DEF BufferSet, OwnRoles
<1>2. (\A b \in A : b.role = "validity") /\ (\A b \in B : b.role = "data")
      BY DEF BufferSet
<1> HIDE DEF A, B, C
<1>3. vs \in Seq(C) /\ ds \in Seq(C) /\ vs \in Seq(A) /\ ds \in Seq(B)
      BY <1>1 DEF A, B
<1>4. bs \in Seq(C) /\ Len(bs) = k + m /\ DOMAIN bs = 1..(k + m)
  <2>1. bs = vs \o ds
        OBVIOUS
  <2> QED BY <1>3, <2>1
<1>5. ASSUME NEW i \in 1..k PROVE bs[i] = vs[i] /\ bs[i].role = "validity"
  <2>1. bs[i] = vs[i] /\ vs[i] \in A
        BY <1>3
  <2> QED BY <1>2, <2>1
<1>6. ASSUME NEW i \in 1..m PROVE bs[k + i] = ds[i] /\ bs[k + i].role = "data"
  <2>1. bs[k + i] = ds[i] /\ ds[i] \in B
        BY <1>3
  <2> QED BY <1>2, <2>1
<1>7. ASSUME NEW i \in (k + 1)..(k + m) PROVE bs[i].role = "data"
  <2>1. i - k \in 1..m /\ k + (i - k) = i
        OBVIOUS
  <2> QED BY <1>6, <2>1
<1>8. \A i \in 1..(k + m) : i \in 1..k \/ i \in (k + 1)..(k + m)
      OBVIOUS
<1>9. 1..k \subseteq 1..(k + m) /\ (k + 1)..(k + m) \subseteq 1..(k + m)
      OBVIOUS
<1>10. BuffersOf(e, "validity") = {i \in 1..(k + m) : bs[i].role = "validity"}
       /\ BuffersOf(e, "data") = {i \in 1..(k + m) : bs[i].role = "data"}
      BY <1>4 DEF BuffersOf
<1> HIDE DEF bs
<1>11. {i \in 1..(k + m) : bs[i].role = "validity"} = 1..k
      BY <1>5, <1>7, <1>8, <1>9
<1>12. {i \in 1..(k + m) : bs[i].role = "data"} = (k + 1)..(k + m)
      BY <1>5, <1>7, <1>8, <1>9
<1> QED BY <1>4, <1>5, <1>6, <1>10, <1>11, <1>12 DEF bs, C, OwnBuffers

\* The null bitmap of an array, if it has nulls.
ValidityWell(vs, v) ==
    \/ vs = <<>> /\ \A i \in 1..Len(v) : v[i] # Null
    \/ \E b \in BufferSet({"validity"}) :
          /\ vs = <<b>> /\ Len(b.cells) = Len(v) /\ \A i \in 1..Len(v) : b.cells[i] = (v[i] # Null)
\* The null bitmap says which of the array's own rows are null.
LEMMA ValidityIs ==
    ASSUME NEW a, IsArray(a)
    PROVE  ValidityWell(Validity(a, ValidityBits(a)), Rows(a))
<1> DEFINE v == Rows(a)
           n == a.len
           bits == ValidityBits(a)
           b == Buffer("validity", bits, DivUp(n, 8))
<1>1. v \in Seq(Cell) /\ Len(v) = n /\ \A i \in 1..n : v[i] = a.held[a.off + i]
      BY RowsOf
<1>2. n \in Nat
      BY DEF IsArray, ArraySet
<1> HIDE DEF v
<1>3. CASE \A i \in 1..n : a.held[a.off + i] # Null
      BY <1>1, <1>3 DEF Validity, ValidityWell, v
<1>4. CASE ~ \A i \in 1..n : a.held[a.off + i] # Null
  <2>1. Validity(a, bits) = <<b>>
        BY <1>4 DEF Validity
  <2>2. bits = [i \in 1..n |-> a.held[a.off + i] # Null]
        BY DEF ValidityBits
  <2>3. bits = [i \in 1..n |-> (v[i] # Null)]
        BY <1>1, <2>2
  <2> HIDE DEF bits
  <2>4. bits \in Seq(BOOLEAN) /\ Len(bits) = n /\ \A i \in 1..n : bits[i] = (v[i] # Null)
    <3>1. bits \in [1..n -> BOOLEAN]
          BY <2>3, Zenon
    <3>2. \A i \in 1..n : bits[i] = (v[i] # Null)
          BY <2>3, Zenon
    <3> QED BY <1>2, <3>1, <3>2
  <2>5. b \in BufferSet({"validity"}) /\ b.cells = bits
    <3>1. DivUp(n, 8) \in Nat
          BY <1>2, DivUpType
    <3> QED BY <2>4, <3>1 DEF Buffer, BufferSet, Cells
  <2> HIDE DEF b
  <2> QED BY <1>1, <2>1, <2>4, <2>5 DEF ValidityWell, v, bits
<1> QED BY <1>3, <1>4

\* The buffers of an array say its rows.
LEMMA EncodedIs ==
    ASSUME NEW a, IsArray(a)
    PROVE  IsPlain(EncodedAs(a), Rows(a))
<1> DEFINE v == Rows(a)
           n == a.len
           cells == [i \in DOMAIN a.held |-> Slot(a.held[i])]
           vs == Validity(a, ValidityBits(a))
           ds == DataBuffers(a.type, cells)
           e == EncodedAs(a)
           k == Len(vs)
           m == Len(ds)
           V == BuffersOf(e, "validity")
           D == BuffersOf(e, "data")
           all == PlainCells(e)
<1>1. v \in Seq(Cell) /\ Len(v) = n /\ \A i \in 1..n : v[i] = a.held[a.off + i]
      BY RowsOf
<1>2. n \in Nat /\ a.off \in Nat /\ a.held \in Seq(Cell) /\ a.off + n <= Len(a.held)
      BY DEF IsArray, ArraySet
<1>3. cells \in Seq(Nat) /\ Len(cells) = Len(a.held) /\ \A i \in 1..n : v[i] # Null => cells[a.off + i] = v[i]
  <2>1. DOMAIN a.held = 1..Len(a.held) /\ Len(a.held) \in Nat
        BY <1>2
  <2>2. ASSUME NEW i \in 1..Len(a.held) PROVE Slot(a.held[i]) \in Nat
    <3>1. a.held[i] \in Cell
          BY <1>2
    <3> QED BY <3>1 DEF Cell, Slot
  <2>3. cells \in Seq(Nat) /\ Len(cells) = Len(a.held)
        BY <2>1, <2>2
  <2>4. ASSUME NEW i \in 1..n, v[i] # Null PROVE cells[a.off + i] = v[i]
    <3>1. a.off + i \in 1..Len(a.held)
          BY <1>2, <2>1
    <3>2. v[i] = a.held[a.off + i]
          BY <1>1
    <3>3. cells[a.off + i] = Slot(a.held[a.off + i])
          BY <2>1, <3>1
    <3> QED BY <2>4, <3>2, <3>3 DEF Slot
  <2> QED BY <2>3, <2>4
<1>4. /\ e.encoding = "plain" /\ e.len = n /\ e.offset = a.off /\ e.children = <<>>
      /\ e.buffers = vs \o ds
      BY DEF EncodedAs
<1>5. ValidityWell(vs, v)
      BY ValidityIs
<1> HIDE DEF cells
<1>6. DataWell(ds, cells)
      BY <1>3, DataIs
<1> HIDE DEF e, vs, ds, v, n
<1>7. vs \in Seq(BufferSet({"validity"})) /\ k \in Nat /\ (k = 0 \/ k = 1)
  <2> DEFINE B == BufferSet({"validity"})
  <2>1. CASE vs = <<>>
        BY <2>1
  <2>2. CASE \E b \in B : vs = <<b>>
    <3> HIDE DEF B
    <3>1. vs \in Seq(B) /\ k = 1
          BY <2>2
    <3> QED BY <3>1 DEF B
  <2> QED BY <1>5, <2>1, <2>2 DEF ValidityWell
<1>8. ds \in Seq(BufferSet({"data"})) /\ m \in {1, 2} /\ ds[m].cells = cells /\ m \in Nat
      BY <1>6 DEF DataWell
<1>9. k = Len(vs) /\ m = Len(ds)
      OBVIOUS
<1> HIDE DEF k, m
<1>10. /\ e.buffers \in Seq(BufferSet(OwnRoles)) /\ DOMAIN e.buffers = 1..(k + m)
       /\ V = 1..k /\ D = (k + 1)..(k + m)
       /\ \A i \in 1..k : e.buffers[i] = vs[i]
       /\ \A i \in 1..m : e.buffers[k + i] = ds[i]
  <2>1. OwnBuffers(e, vs, ds, k, m)
        BY <1>4, <1>7, <1>8, <1>9, ValidityThenData
  <2> QED BY <2>1 DEF OwnBuffers
<1>11. all = [i \in 1..(k + m) |-> e.buffers[i].cells]
      BY <1>10 DEF PlainCells
<1> HIDE DEF V, D, all
<1>12. SaysNulls(V, all, v)
  <2>1. CASE vs = <<>> /\ \A i \in 1..Len(v) : v[i] # Null
    <3>1. V = {}
          BY <1>9, <1>10, <2>1
    <3> QED BY <2>1, <3>1 DEF SaysNulls
  <2>2. CASE \E b \in BufferSet({"validity"}) :
          /\ vs = <<b>> /\ Len(b.cells) = Len(v) /\ \A i \in 1..Len(v) : b.cells[i] = (v[i] # Null)
    <3>1. PICK b : /\ vs = <<b>> /\ Len(b.cells) = Len(v) /\ \A i \in 1..Len(v) : b.cells[i] = (v[i] # Null)
          BY <2>2
    <3>2. k = 1 /\ vs[1] = b
          BY <1>9, <3>1
    <3>3. V = {1} /\ 1 \in 1..(k + m) /\ 1 \in 1..k
          BY <1>8, <1>10, <3>2
    <3>4. Min(V) = 1
          BY <3>3, MinFound
    <3>5. all[1] = b.cells
          BY <1>10, <1>11, <3>2, <3>3
    <3> QED BY <3>1, <3>3, <3>4, <3>5 DEF SaysNulls
  <2> QED BY <1>5, <2>1, <2>2 DEF ValidityWell
<1>13. SaysData(D, all, a.off, v)
  <2>1. k + m \in D /\ D \in SUBSET Nat /\ (\A x \in D : x <= k + m) /\ k + m \in 1..(k + m) /\ m \in 1..m
        BY <1>7, <1>8, <1>10
  <2>2. Max(D) = k + m
        BY <2>1, MaxIs
  <2>3. all[k + m] = cells
        BY <1>8, <1>10, <1>11, <2>1
  <2>4. Len(cells) \in Nat /\ a.off + Len(v) <= Len(cells)
        BY <1>1, <1>2, <1>3
  <2>5. \A i \in 1..Len(v) : v[i] # Null => cells[a.off + i] = v[i]
        BY <1>1, <1>3
  <2> QED BY <2>1, <2>2, <2>3, <2>4, <2>5 DEF SaysData
<1>14. Says(V, D, all, e.len, e.offset, v)
      BY <1>1, <1>2, <1>4, <1>12, <1>13 DEF Says
<1>15. IsPlain(e, v)
      BY <1>4, <1>10, <1>14 DEF IsPlain, V, D, all
<1> QED BY <1>15 DEF e, v

\* The buffers of a plain column say its rows, whatever it was sliced from.
LEMMA EncodePlainIs ==
    ASSUME NEW a, IsArray(a)
    PROVE  IsPlain(EncodePlain(a), Rows(a))
<1>1. IsArray(Compacted(a)) /\ Rows(Compacted(a)) = Rows(a)
      BY CompactedIs
<1>2. IsPlain(EncodedAs(Compacted(a)), Rows(Compacted(a)))
      BY <1>1, EncodedIs
<1> QED BY <1>1, <1>2 DEF EncodePlain

----------------------------------------------------------------------------
(* Dictionaries, runs, and the encoding chosen.                            *)

\* Every value that is not null is among the distinct ones.
DistinctWell(d, rows) ==
    /\ d \in Seq(Cell)
    /\ \A i \in 1..Len(rows) : rows[i] # Null => \E k \in 1..Len(d) : d[k] = rows[i]
\* The distinct values hold every value of the column.
LEMMA DistinctIs ==
    ASSUME NEW rows \in Seq(Cell)
    PROVE  DistinctWell(Distinct(rows), rows)
<1> DEFINE n == Len(rows)
           F == {i \in DOMAIN rows : rows[i] # Null /\ \A j \in 1..(i - 1) : rows[j] # rows[i]}
           p == Ascending(F)
           d == Distinct(rows)
<1>1. n \in Nat /\ DOMAIN rows = 1..n /\ F \in SUBSET (1..n)
      OBVIOUS
<1>2. Lists(p, F)
  <2> HIDE DEF n, F
  <2> QED BY <1>1, AscendingLists
<1>3. d = Picked(rows, F)
      BY DEF Distinct
<1>4. d = [k \in 1..Len(p) |-> rows[p[k]]]
  <2> HIDE DEF F, p, d
  <2> QED BY <1>2, <1>3, PickedIs
<1>5. p \in Seq(Nat) /\ \A x : x \in F <=> \E k \in 1..Len(p) : p[k] = x
      BY <1>2 DEF Lists
<1> HIDE DEF p, d
<1>6. d \in Seq(Cell) /\ Len(d) = Len(p)
  <2>1. \A k \in 1..Len(p) : rows[p[k]] \in Cell
    <3> TAKE k \in 1..Len(p)
    <3>1. p[k] \in F
          BY <1>5
    <3>2. p[k] \in 1..n
          BY <1>1, <3>1
    <3> QED BY <3>2
  <2> QED BY <1>4, <1>5, <2>1
<1>7. ASSUME NEW i \in 1..n, rows[i] # Null PROVE \E k \in 1..Len(d) : d[k] = rows[i]
  <2> DEFINE S == {j \in 1..n : rows[j] = rows[i]}
  <2>1. S \in SUBSET Nat /\ S # {}
        OBVIOUS
  <2> HIDE DEF S
  <2>2. PICK x \in S : \A y \in S : x <= y
        BY <2>1, Least
  <2>3. x \in 1..n /\ rows[x] = rows[i]
        BY <2>2 DEF S
  <2>4. x \in F
    <3>1. ASSUME NEW j \in 1..(x - 1), rows[j] = rows[x] PROVE FALSE
      <4>1. j \in 1..n /\ rows[j] = rows[i] /\ j < x
            BY <1>1, <2>3, <3>1
      <4>2. j \in S
            BY <4>1 DEF S
      <4>3. x <= j
            BY <2>2, <4>2
      <4> QED BY <2>3, <4>1, <4>3
    <3> QED BY <1>1, <1>7, <2>3, <3>1
  <2> HIDE DEF F
  <2>5. PICK k \in 1..Len(p) : p[k] = x
        BY <1>5, <2>4
  <2>6. d[k] = rows[i] /\ k \in 1..Len(d)
        BY <1>4, <1>6, <2>3, <2>5
  <2> QED BY <2>6
<1> QED BY <1>6, <1>7 DEF DistinctWell, d

\* Looking a value's number up gives the value back.
LEMMA KeysAre ==
    ASSUME NEW rows \in Seq(Cell), NEW d, DistinctWell(d, rows)
    PROVE  Keys(rows, d) \in Seq(Cell) /\ LooksUp(Keys(rows, d), d, rows)
<1> DEFINE n == Len(rows)
           keys == Keys(rows, d)
<1>1. n \in Nat /\ DOMAIN rows = 1..n /\ d \in Seq(Cell) /\ DOMAIN d = 1..Len(d) /\ Len(d) \in Nat
      BY DEF DistinctWell
<1>2. keys = [i \in 1..n |-> IF rows[i] = Null THEN Null ELSE CHOOSE k \in 1..Len(d) : d[k] = rows[i]]
      BY <1>1 DEF Keys
<1>3. ASSUME NEW i \in 1..n, rows[i] # Null PROVE keys[i] \in 1..Len(d) /\ d[keys[i]] = rows[i] /\ keys[i] # Null
  <2>1. \E k \in 1..Len(d) : d[k] = rows[i]
        BY <1>3 DEF DistinctWell
  <2>2. keys[i] = CHOOSE k \in 1..Len(d) : d[k] = rows[i]
        BY <1>2, <1>3
  <2> HIDE DEF keys
  <2>3. keys[i] \in 1..Len(d) /\ d[keys[i]] = rows[i]
        BY <2>1, <2>2
  <2> QED BY <2>3, ArrowAssumption
<1>4. ASSUME NEW i \in 1..n, rows[i] = Null PROVE keys[i] = Null
      BY <1>2, <1>4
<1>5. DOMAIN keys = 1..n /\ keys = [i \in 1..n |-> keys[i]]
      BY <1>2
<1> HIDE DEF keys
<1>6. \A i \in 1..n : keys[i] \in Cell
      BY <1>1, <1>3, <1>4 DEF Cell
<1>7. keys \in Seq(Cell) /\ Len(keys) = n
      BY <1>1, <1>5, <1>6
<1>8. \A i \in 1..n : rows[i] = IF keys[i] = Null THEN Null ELSE d[keys[i]]
      BY <1>3, <1>4
<1> QED BY <1>7, <1>8 DEF LooksUp, keys

\* A row has the value of the run it is in.
RunsWell(ends, rows) ==
    /\ ends \in Seq(Nat) /\ (\A k \in 1..Len(ends) : ends[k] \in 1..Len(rows))
    /\ Expands(ends, [i \in DOMAIN ends |-> rows[ends[i]]], rows)
\* The run ends grow, end with the last row, and a run holds one value.
LEMMA RunsAre ==
    ASSUME NEW rows \in Seq(Cell)
    PROVE  RunsWell(RunEnds(rows), rows)
<1> DEFINE n == Len(rows)
           E == {i \in DOMAIN rows : i = Len(rows) \/ rows[i] # rows[i + 1]}
           ends == RunEnds(rows)
           m == Len(ends)
           vals == [i \in DOMAIN ends |-> rows[ends[i]]]
<1>1. n \in Nat /\ DOMAIN rows = 1..n /\ E \in SUBSET (1..n) /\ (n > 0 => n \in E)
      OBVIOUS
<1>2. \A i \in 1..n : i # n /\ i \notin E => rows[i] = rows[i + 1]
      BY <1>1
<1>3. Lists(ends, E)
  <2>1. ends = Ascending(E)
        BY DEF RunEnds
  <2> HIDE DEF n, E, ends
  <2> QED BY <1>1, <2>1, AscendingLists
<1> HIDE DEF E, ends
<1>4. /\ ends \in Seq(Nat) /\ m \in Nat /\ DOMAIN ends = 1..m
      /\ \A x : x \in E <=> \E k \in 1..m : ends[k] = x
      /\ \A j, k \in 1..m : j < k => ends[j] < ends[k]
      BY <1>3 DEF Lists
<1>5. \A k \in 1..m : ends[k] \in 1..n
      BY <1>1, <1>4
<1>6. ASSUME NEW i \in 1..n PROVE rows[i] = vals[RunAt(ends, i)]
  <2> DEFINE K == {k \in 1..m : ends[k] >= i}
             q == Min(K)
             x == ends[q]
  <2>1. K # {} /\ K \in SUBSET Nat
    <3>1. PICK k \in 1..m : ends[k] = n
          BY <1>1, <1>4
    <3> QED BY <1>1, <3>1
  <2>2. RunAt(ends, i) = q
        BY <2>1 DEF RunAt
  <2> HIDE DEF K
  <2>3. q \in K /\ \A k \in K : q <= k
        BY <2>1, MinIs
  <2> HIDE DEF q
  <2>4. q \in 1..m /\ x >= i /\ x \in 1..n
        BY <1>5, <2>3 DEF K
  <2>5. vals[q] = x \/ vals[q] = rows[x]
        BY <1>4, <2>4
  <2>6. vals[q] = rows[x]
        BY <1>4, <2>4
  <2> HIDE DEF x, vals
  <2>7. \A e \in E : ~(i <= e /\ e < x)
    <3> SUFFICES ASSUME NEW e \in E, i <= e, e < x PROVE FALSE
        OBVIOUS
    <3>1. PICK k \in 1..m : ends[k] = e
          BY <1>4
    <3>2. k \in K
          BY <3>1 DEF K
    <3>3. q <= k /\ (q = k \/ q < k)
          BY <2>3, <2>4, <3>2
    <3>4. e \in 1..n
          BY <1>1
    <3>5. x <= e
          BY <1>4, <1>5, <2>4, <3>1, <3>3 DEF x
    <3> QED BY <2>4, <3>4, <3>5
  <2> DEFINE Q(j) == i + j <= x => rows[i + j] = rows[i]
             N == {j \in Nat : Q(j)}
  <2>8. 0 \in N
        BY <1>1
  <2>9. ASSUME NEW j \in Nat, j \in N PROVE j + 1 \in N
    <3>1. ASSUME i + (j + 1) <= x PROVE rows[i + (j + 1)] = rows[i]
      <4>1. i + j <= x /\ i + j \in 1..n /\ i + j # n /\ i <= i + j /\ i + j < x /\ (i + j) + 1 = i + (j + 1)
        <5>1. n \in Nat /\ x \in 1..n /\ i \in 1..n /\ j \in Nat /\ i + (j + 1) <= x
              BY <1>1, <2>4, <3>1
        <5> HIDE DEF n, N, Q
        <5> QED BY ONLY <5>1
      <4>2. rows[i + j] = rows[i]
            BY <2>9, <4>1
      <4>3. i + j \notin E
            BY <2>7, <4>1
      <4>4. rows[i + j] = rows[(i + j) + 1]
            BY <1>2, <4>1, <4>3
      <4> QED BY <4>1, <4>2, <4>4
    <3>2. Q(j + 1) /\ j + 1 \in Nat
          BY <3>1
    <3> HIDE DEF Q
    <3> QED BY <3>2
  <2> HIDE DEF N
  <2>10. Nat \subseteq N
        BY <2>8, <2>9, SetInduction
  <2>11. x - i \in Nat /\ i + (x - i) = x /\ x <= x
        BY <1>1, <2>4
  <2>12. rows[x] = rows[i]
    <3> DEFINE j == x - i
    <3>1. j \in N
          BY <2>10, <2>11
    <3>2. Q(j)
          BY <3>1 DEF N
    <3> QED BY <2>11, <3>2
  <2> QED BY <2>2, <2>6, <2>12
<1> HIDE DEF vals
<1>7. Expands(ends, vals, rows)
      BY <1>6 DEF Expands
<1> QED BY <1>4, <1>5, <1>7 DEF RunsWell, vals, ends

\* What an encoded column says.
OwnSays(e, v) ==
    /\ e.buffers \in Seq(BufferSet(OwnRoles))
    /\ Says(BuffersOf(e, "validity"), BuffersOf(e, "data"), PlainCells(e), e.len, e.offset, v)
EncMeans(e, rows) ==
    \/ e.encoding = "plain" /\ e.children = <<>> /\ OwnSays(e, rows)
    \/ /\ e.encoding = "dictionary"
       /\ \E kid, keys, d : /\ e.children = <<kid>> /\ OwnSays(kid, d)
                            /\ OwnSays(e, keys) /\ LooksUp(keys, d, rows)
    \/ /\ e.encoding = "runs" /\ e.buffers = <<>> /\ e.len = Len(rows)
       /\ \E one, two, ends, vals :
            /\ e.children = <<one, two>> /\ OwnSays(one, ends) /\ OwnSays(two, vals)
            /\ Expands(ends, vals, rows)

\* A plain column stands for its rows.
LEMMA PlainMeans ==
    ASSUME NEW e, NEW v, IsPlain(e, v)
    PROVE  OwnSays(e, v) /\ EncMeans(e, v)
BY DEF IsPlain, OwnSays, EncMeans

\* A dictionary column has the buffers of its indices.
LEMMA PlainShape ==
    ASSUME NEW a, NEW x
    PROVE  LET e == EncodePlain(a)
               f == [e EXCEPT !.encoding = "dictionary", !.children = x]
           IN  /\ f.encoding = "dictionary" /\ f.children = x
               /\ f.len = e.len /\ f.offset = e.offset /\ f.buffers = e.buffers
BY DEF EncodePlain, EncodedAs

\* What a column's buffers say depends on them, its length and its offset.
LEMMA SameBuffers ==
    ASSUME NEW e, NEW f, NEW v, f.len = e.len, f.offset = e.offset, f.buffers = e.buffers, OwnSays(e, v)
    PROVE  OwnSays(f, v)
<1>1. BuffersOf(e, "validity") = BuffersOf(f, "validity") /\ BuffersOf(e, "data") = BuffersOf(f, "data")
      /\ PlainCells(e) = PlainCells(f)
      BY DEF BuffersOf, PlainCells
<1> QED BY <1>1 DEF OwnSays

\* A dictionary column stands for the rows it was made of.
LEMMA DictionaryIs ==
    ASSUME NEW a, IsArray(a), NEW d, DistinctWell(d, Rows(a))
    PROVE  EncMeans(Dictionary(a, d), Rows(a))
<1> DEFINE rows == Rows(a)
           keys == Keys(rows, d)
           b == Array("index", keys)
           c == Array(a.type, d)
           e == EncodePlain(b)
           kid == EncodePlain(c)
           f == Dictionary(a, d)
<1>1. rows \in Seq(Cell) /\ d \in Seq(Cell) /\ a.type \in DataTypes \cup {"index"}
      BY RowsOf DEF IsArray, ArraySet, DistinctWell
<1>2. f = [e EXCEPT !.encoding = "dictionary", !.children = <<kid>>]
      BY DEF Dictionary
<1> HIDE DEF kid
<1>3. /\ f.encoding = "dictionary" /\ f.children = <<kid>>
      /\ f.len = e.len /\ f.offset = e.offset /\ f.buffers = e.buffers
      BY <1>2, PlainShape
<1> HIDE DEF rows
<1>4. keys \in Seq(Cell) /\ LooksUp(keys, d, rows)
  <2>1. DistinctWell(d, rows)
        BY DEF rows
  <2> QED BY <1>1, <2>1, KeysAre
<1> HIDE DEF keys
<1>5. IsArray(b) /\ Rows(b) = keys /\ IsArray(c) /\ Rows(c) = d
      BY <1>1, <1>4, FreshArray
<1> HIDE DEF b, c
<1>6. IsPlain(e, keys) /\ IsPlain(kid, d)
      BY <1>5, EncodePlainIs DEF kid
<1> HIDE DEF e, f
<1>7. OwnSays(e, keys) /\ OwnSays(kid, d)
      BY <1>6, PlainMeans
<1>8. OwnSays(f, keys)
      BY <1>3, <1>7, SameBuffers
<1>9. EncMeans(f, rows)
      BY <1>3, <1>4, <1>7, <1>8 DEF EncMeans
<1> QED BY <1>9 DEF f, rows

\* A run-length column stands for the rows it was made of.
LEMMA RunLengthIs ==
    ASSUME NEW a, IsArray(a), NEW ends, RunsWell(ends, Rows(a))
    PROVE  EncMeans(RunLength(a, ends), Rows(a))
<1> DEFINE rows == Rows(a)
           vals == [i \in DOMAIN ends |-> rows[ends[i]]]
           b == Array("index", ends)
           c == Array(a.type, vals)
           one == EncodePlain(b)
           two == EncodePlain(c)
           f == RunLength(a, ends)
<1>1. rows \in Seq(Cell) /\ Len(rows) = a.len /\ a.type \in DataTypes \cup {"index"}
      BY RowsOf DEF IsArray, ArraySet
<1>2. f.encoding = "runs" /\ f.len = a.len /\ f.buffers = <<>> /\ f.children = <<one, two>>
      BY DEF RunLength, Describing
<1> HIDE DEF rows, f, one, two
<1>3. ends \in Seq(Nat) /\ (\A k \in 1..Len(ends) : ends[k] \in 1..Len(rows)) /\ Expands(ends, vals, rows)
      BY DEF RunsWell, rows
<1>4. ends \in Seq(Cell) /\ vals \in Seq(Cell)
  <2>1. Nat \subseteq Cell
        BY DEF Cell
  <2>2. ends \in Seq(Cell)
        BY <1>3, <2>1
  <2>3. \A k \in 1..Len(ends) : rows[ends[k]] \in Cell
        BY <1>1, <1>3
  <2>4. DOMAIN ends = 1..Len(ends) /\ Len(ends) \in Nat
        BY <1>3
  <2>5. vals \in [1..Len(ends) -> Cell]
        BY <2>3, <2>4
  <2> QED BY <2>2, <2>4, <2>5
<1> HIDE DEF vals
<1>5. IsArray(b) /\ Rows(b) = ends /\ IsArray(c) /\ Rows(c) = vals
      BY <1>1, <1>4, FreshArray
<1> HIDE DEF b, c
<1>6. IsPlain(one, ends) /\ IsPlain(two, vals)
      BY <1>5, EncodePlainIs DEF one, two
<1>7. OwnSays(one, ends) /\ OwnSays(two, vals)
      BY <1>6, PlainMeans
<1>8. EncMeans(f, rows)
      BY <1>1, <1>2, <1>3, <1>7 DEF EncMeans
<1> QED BY <1>8 DEF f, rows

\* Whatever encoding wins, it says the rows.
LEMMA EncodeColumnIs ==
    ASSUME NEW a, IsArray(a), NEW o
    PROVE  EncMeans(EncodeColumn(a, o), Rows(a))
<1> DEFINE rows == Rows(a)
           d == Distinct(rows)
           ends == RunEnds(rows)
           p == EncodePlain(a)
           A == IF o.dictionaryEncoding THEN TryDictionary(a, d) ELSE {}
           B == IF o.rleEncoding THEN TryRunLength(a, ends) ELSE {}
<1>1. EncMeans(p, rows)
  <2>1. IsPlain(p, rows)
        BY EncodePlainIs
  <2> QED BY <2>1, PlainMeans
<1>2. rows \in Seq(Cell)
      BY RowsOf
<1>3. DistinctWell(d, rows)
      BY <1>2, DistinctIs
<1>4. RunsWell(ends, rows)
      BY <1>2, RunsAre
<1> HIDE DEF d, ends
<1>5. EncMeans(Dictionary(a, d), rows)
      BY <1>3, DictionaryIs
<1>6. EncMeans(RunLength(a, ends), rows)
      BY <1>4, RunLengthIs
<1>7. \A c \in A : EncMeans(c, rows)
      BY <1>5 DEF TryDictionary
<1>8. \A c \in B : EncMeans(c, rows)
      BY <1>6 DEF TryRunLength
<1>9. EncodeColumn(a, o) = Smaller(Smaller(p, A), B)
      BY DEF EncodeColumn, d, ends
<1> HIDE DEF p, A, B, rows
<1>10. \A x, C : Smaller(x, C) = x \/ Smaller(x, C) \in C
      BY DEF Smaller
<1>11. EncMeans(Smaller(p, A), rows)
      BY <1>1, <1>7, <1>10
<1>12. EncMeans(Smaller(Smaller(p, A), B), rows)
      BY <1>8, <1>10, <1>11
<1> QED BY <1>9, <1>12 DEF rows

----------------------------------------------------------------------------
(* Storing buffers.                                                        *)

\* A sequence of anything.
IsList(s) == \E U : s \in Seq(U)

\* Lists joined, element by element.
Joins(u, s, t, k, n) ==
    /\ IsList(u) /\ k \in Nat /\ n \in Nat /\ Len(u) = k + n /\ DOMAIN u = 1..(k + n)
    /\ \A i \in 1..k : u[i] = s[i]
    /\ \A i \in 1..n : u[k + i] = t[i]
\* Two lists joined, element by element.
LEMMA ListConcat ==
    ASSUME NEW s, NEW t, IsList(s), IsList(t), NEW k, NEW n, k = Len(s), n = Len(t)
    PROVE  Joins(s \o t, s, t, k, n)
<1>1. PICK U : s \in Seq(U)
      BY DEF IsList
<1>2. PICK V : t \in Seq(V)
      BY DEF IsList
<1> DEFINE W == U \cup V
<1>3. s \in Seq(W) /\ t \in Seq(W)
      BY <1>1, <1>2
<1> HIDE DEF W
<1> DEFINE u == s \o t
<1>4. /\ u \in Seq(W) /\ k \in Nat /\ n \in Nat /\ Len(u) = k + n /\ DOMAIN u = 1..(k + n)
      /\ \A i \in 1..k : u[i] = s[i]
      /\ \A i \in 1..n : u[k + i] = t[i]
      BY <1>3
<1> HIDE DEF u
<1>5. Joins(u, s, t, k, n)
      BY <1>4 DEF IsList, Joins
<1> QED BY <1>5 DEF u

\* A function on 1..n is a list.
LEMMA ListOf ==
    ASSUME NEW n \in Nat, NEW s, DOMAIN s = 1..n, s = [i \in 1..n |-> s[i]]
    PROVE  IsList(s) /\ Len(s) = n
<1> DEFINE U == {s[i] : i \in 1..n}
<1>1. s \in [1..n -> U]
      OBVIOUS
<1> HIDE DEF U
<1>2. s \in Seq(U) /\ Len(s) = n
      BY <1>1
<1> QED BY <1>2 DEF IsList

\* A list with one more.
LEMMA ListAppend ==
    ASSUME NEW s, NEW x, IsList(s), NEW k, k = Len(s)
    PROVE  /\ IsList(Append(s, x)) /\ k \in Nat /\ Len(Append(s, x)) = k + 1
           /\ \A i \in 1..k : Append(s, x)[i] = s[i]
           /\ Append(s, x)[k + 1] = x
<1>1. PICK U : s \in Seq(U)
      BY DEF IsList
<1> DEFINE W == U \cup {x}
<1>2. s \in Seq(W) /\ x \in W
      BY <1>1
<1> HIDE DEF W
<1>3. Append(s, x) \in Seq(W)
      BY <1>2
<1> QED BY <1>2, <1>3 DEF IsList

\* The pieces a segment is made of.
IsPiece(p) == p = [off |-> p.off, len |-> p.len, cells |-> p.cells, packed |-> p.packed]
IsBytes(b) ==
    IsList(b) /\ Len(b) \in Nat /\ DOMAIN b = 1..Len(b) /\ \A i \in 1..Len(b) : IsPiece(b[i])

\* What was stored stays where it is.
Extends(b, c) ==
    IsBytes(b) /\ IsBytes(c) /\ Len(b) <= Len(c) /\ \A i \in 1..Len(b) : c[i] = b[i]

\* Bytes extend themselves.
LEMMA ExtendsItself ==
    ASSUME NEW b, IsBytes(b)
    PROVE  Extends(b, b)
BY DEF Extends, IsBytes

\* Appending twice is appending.
LEMMA ExtendsTransitive ==
    ASSUME NEW b, NEW c, NEW d, Extends(b, c), Extends(c, d)
    PROVE  Extends(b, d)
BY DEF Extends, IsBytes

\* A stored buffer is still found after more were appended.
LEMMA BackedStays ==
    ASSUME NEW b, NEW c, Extends(b, c), NEW spec, NEW codec, Backed(spec, codec, b)
    PROVE  Backed(spec, codec, c)
<1>1. PICK i \in DOMAIN b : /\ b[i].off = spec.off /\ b[i].len = spec.len
                            /\ Verified(b[i], spec) /\ Unpacks(b[i], spec, codec)
      BY DEF Backed
<1>2. c[i] = b[i] /\ i \in DOMAIN c
      BY DEF Extends, IsBytes
<1> QED BY <1>1, <1>2 DEF Backed

\* So are those of a chunk.
LEMMA BackedAllStays ==
    ASSUME NEW b, NEW c, Extends(b, c), NEW chunk, NEW D, BackedAll(chunk, b, D)
    PROVE  BackedAll(chunk, c, D)
BY BackedStays DEF BackedAll

\* So are those of its children.
LEMMA KidsBackedStays ==
    ASSUME NEW b, NEW c, Extends(b, c), NEW chunk, NEW D, KidsBacked(chunk, b, D)
    PROVE  KidsBacked(chunk, c, D)
BY BackedAllStays DEF KidsBacked

\* The buffers of a chunk after those stored before it.
Placed(b, c, stored, n) ==
    /\ Extends(b, c) /\ Len(c) = Len(b) + n
    /\ \A i \in 1..n : /\ c[Len(b) + i].len = stored[i].len
                       /\ c[Len(b) + i].cells = stored[i].cells
                       /\ c[Len(b) + i].packed = stored[i].packed
\* Buffers are appended to the segment's bytes, in order and unchanged.
LEMMA PlaceIs ==
    ASSUME NEW b, IsBytes(b), NEW stored, NEW n \in Nat, DOMAIN stored = 1..n
    PROVE  Placed(b, Place(b, stored), stored, n)
<1> DEFINE c == Place(b, stored)
           k == Len(b)
<1>1. \E end : c = b \o [i \in 1..n |->
            [off |-> AlignUp(end[i - 1], BUFFER_ALIGN), len |-> stored[i].len,
             cells |-> stored[i].cells, packed |-> stored[i].packed]]
      BY DEF Place
<1>2. PICK end : c = b \o [i \in 1..n |->
            [off |-> AlignUp(end[i - 1], BUFFER_ALIGN), len |-> stored[i].len,
             cells |-> stored[i].cells, packed |-> stored[i].packed]]
      BY <1>1
<1> DEFINE p == [i \in 1..n |->
            [off |-> AlignUp(end[i - 1], BUFFER_ALIGN), len |-> stored[i].len,
             cells |-> stored[i].cells, packed |-> stored[i].packed]]
<1>3. c = b \o p
      BY <1>2
<1>4. ASSUME NEW i \in 1..n PROVE /\ p[i].len = stored[i].len /\ p[i].cells = stored[i].cells
                                  /\ p[i].packed = stored[i].packed /\ IsPiece(p[i])
  <2> DEFINE off == AlignUp(end[i - 1], BUFFER_ALIGN)
             q == [off |-> off, len |-> stored[i].len, cells |-> stored[i].cells, packed |-> stored[i].packed]
  <2>1. p[i] = q
        OBVIOUS
  <2> HIDE DEF off, p
  <2>2. IsPiece(q) /\ q.len = stored[i].len /\ q.cells = stored[i].cells /\ q.packed = stored[i].packed
        BY DEF IsPiece
  <2> QED BY <2>1, <2>2
<1>5. DOMAIN p = 1..n /\ p = [i \in 1..n |-> p[i]]
      OBVIOUS
<1> HIDE DEF p, c
<1>6. IsList(p) /\ Len(p) = n
      BY <1>5, ListOf
<1>7. IsList(b)
      BY DEF IsBytes
<1>8. /\ IsList(c) /\ k \in Nat /\ Len(c) = k + n /\ DOMAIN c = 1..(k + n)
      /\ \A i \in 1..k : c[i] = b[i]
      /\ \A i \in 1..n : c[k + i] = p[i]
  <2> HIDE DEF k
  <2>1. k = Len(b) /\ n = Len(p)
        BY <1>6 DEF k
  <2>2. Joins(b \o p, b, p, k, n)
        BY <1>6, <1>7, <2>1, ListConcat
  <2> QED BY <1>3, <2>2 DEF Joins
<1> HIDE DEF k
<1>9. ASSUME NEW i \in 1..(k + n) PROVE IsPiece(c[i])
  <2>1. CASE i <= k
    <3>1. i \in 1..k /\ IsPiece(b[i])
          BY <1>8, <2>1 DEF IsBytes, k
    <3> QED BY <1>8, <3>1
  <2>2. CASE i > k
    <3>1. i - k \in 1..n /\ k + (i - k) = i
          BY <1>8, <2>2
    <3>2. c[k + (i - k)] = p[i - k]
          BY <1>8, <3>1
    <3> QED BY <1>4, <3>1, <3>2
  <2> QED BY <1>8, <2>1, <2>2
<1>10. IsBytes(c)
      BY <1>8, <1>9 DEF IsBytes
<1>11. Extends(b, c)
      BY <1>8, <1>10 DEF Extends, k
<1>12. Placed(b, c, stored, n)
      BY <1>4, <1>8, <1>11 DEF Placed, k
<1> QED BY <1>12 DEF c

\* The buffers of a chunk as they are stored.
StoredWell(stored, own, side, codec, n, m) ==
    /\ DOMAIN stored = 1..(n + m)
    /\ \A i \in 1..n : stored[i] = Compress(codec, own[i])
    /\ \A i \in 1..m : stored[n + i] = Compress("none", side[i])
\* Each buffer is stored packed or as it stands, the side buffers always raw.
LEMMA CompressedIs ==
    ASSUME NEW own, NEW side, IsList(own), IsList(side), NEW n, NEW m, n = Len(own), m = Len(side), NEW codec
    PROVE  StoredWell(CompressAll(codec, own) \o CompressAll("none", side), own, side, codec, n, m)
           /\ n \in Nat /\ m \in Nat
<1> DEFINE s == CompressAll(codec, own)
           t == CompressAll("none", side)
           u == s \o t
<1>1. DOMAIN own = 1..n /\ DOMAIN side = 1..m /\ n \in Nat /\ m \in Nat
      BY DEF IsList
<1>2. /\ DOMAIN s = 1..n /\ s = [i \in 1..n |-> s[i]] /\ \A i \in 1..n : s[i] = Compress(codec, own[i])
      /\ DOMAIN t = 1..m /\ t = [i \in 1..m |-> t[i]] /\ \A i \in 1..m : t[i] = Compress("none", side[i])
      BY <1>1 DEF CompressAll
<1> HIDE DEF s, t
<1>3. IsList(s) /\ Len(s) = n /\ IsList(t) /\ Len(t) = m
  <2>1. IsList(s) /\ Len(s) = n
        BY ONLY <1>1, <1>2, ListOf
  <2>2. IsList(t) /\ Len(t) = m
        BY ONLY <1>1, <1>2, ListOf
  <2> QED BY <2>1, <2>2
<1>4. Joins(u, s, t, n, m)
      BY <1>3, ListConcat
<1> HIDE DEF u
<1>5. StoredWell(u, own, side, codec, n, m)
      BY <1>2, <1>4 DEF Joins, StoredWell
<1> QED BY <1>1, <1>5 DEF u, s, t

\* A stored buffer unpacks as it was packed.
LEMMA UnpacksWell ==
    ASSUME NEW piece, NEW spec, NEW codec, NEW used, NEW size \in Nat,
           piece.packed = Shrinks(codec, size), spec.uncompressed = size,
           piece.len = (IF Shrinks(codec, size) THEN PackedSize(size) ELSE size),
           Shrinks(codec, size) => used = codec
    PROVE  Unpacks(piece, spec, used)
<1>1. CASE Shrinks(codec, size)
  <2>1. codec # "none" /\ PackedSize(size) < size
        BY <1>1 DEF Shrinks
  <2>2. PackedSize(size) # size
        BY <2>1
  <2>3. ~(used = "none" \/ piece.len = spec.uncompressed)
        BY <1>1, <2>1, <2>2
  <2>4. piece.packed = TRUE
    <3>1. Shrinks(codec, size) \in BOOLEAN
          BY DEF Shrinks
    <3> QED BY <1>1, <3>1
  <2> QED BY <2>3, <2>4 DEF Unpacks
<1>2. CASE ~Shrinks(codec, size)
  <2>1. piece.len = spec.uncompressed
        BY <1>2
  <2>2. piece.packed = FALSE
    <3>1. Shrinks(codec, size) \in BOOLEAN
          BY DEF Shrinks
    <3> QED BY <1>2, <3>1
  <2> QED BY <2>1, <2>2 DEF Unpacks
<1> QED BY <1>1, <1>2

\* A chunk of buffers, stored after what was there.
Wrote(w, bytes, e, side) ==
    /\ Extends(bytes, w.bytes)
    /\ w.chunk = Chunk(e, w.chunk.codec, w.chunk.buffers)
    /\ DOMAIN w.chunk.buffers = 1..(Len(e.buffers) + Len(side))
    /\ \A i \in 1..Len(e.buffers) :
        /\ w.chunk.buffers[i].role = e.buffers[i].role
        /\ w.chunk.buffers[i].checksum.cells = e.buffers[i].cells
    /\ \A i \in 1..Len(side) :
        /\ w.chunk.buffers[Len(e.buffers) + i].role = side[i].role
        /\ w.chunk.buffers[Len(e.buffers) + i].checksum.cells = side[i].cells
    /\ BackedAll(w.chunk, w.bytes, {})
\* The chunk written names, for each buffer, where its bytes are stored.
LEMMA WriteBuffersIs ==
    ASSUME NEW bytes, IsBytes(bytes), NEW e, NEW roles, e.buffers \in Seq(BufferSet(roles)), NEW codec,
           NEW side \in Seq(BufferSet({"zones"}))
    PROVE  Wrote(WriteBuffers(bytes, e, codec, side), bytes, e, side)
<1> DEFINE own == e.buffers
           n == Len(own)
           m == Len(side)
           k == Len(bytes)
           stored == CompressAll(codec, own) \o CompressAll("none", side)
           c == Place(bytes, stored)
           used == CodecUsed(codec, stored)
           specs == [i \in DOMAIN stored |-> SpecOf(stored[i], c[k + i])]
           w == WriteBuffers(bytes, e, codec, side)
           from == [i \in 1..(n + m) |-> IF i <= n THEN own[i] ELSE side[i - n]]
           by == [i \in 1..(n + m) |-> IF i <= n THEN codec ELSE "none"]
<1>1. IsList(own) /\ IsList(side)
      BY DEF IsList
<1>2. StoredWell(stored, own, side, codec, n, m) /\ n \in Nat /\ m \in Nat
      BY <1>1, CompressedIs
<1>3. w = [bytes |-> c, chunk |-> Chunk(e, used, specs)]
      BY DEF WriteBuffers, StoreBuffers, Written
<1>4. k \in Nat /\ DOMAIN stored = 1..(n + m) /\ n + m \in Nat
      BY <1>2 DEF IsBytes, StoredWell
<1> HIDE DEF stored
<1>5. Placed(bytes, c, stored, n + m)
  <2> DEFINE nm == n + m
  <2>1. nm \in Nat /\ DOMAIN stored = 1..nm
        BY <1>4
  <2> HIDE DEF nm
  <2>2. Placed(bytes, c, stored, nm)
        BY <2>1, PlaceIs
  <2> QED BY <2>2 DEF nm
<1> HIDE DEF c
<1>6. ASSUME NEW i \in 1..(n + m)
      PROVE  /\ stored[i] = Compress(by[i], from[i]) /\ from[i].size \in Nat
             /\ (i <= n /\ by[i] = codec /\ from[i] = own[i]) \/ (i > n /\ by[i] = "none" /\ from[i] = side[i - n])
  <2>1. CASE i <= n
    <3>1. i \in 1..n /\ by[i] = codec /\ from[i] = own[i]
          BY <1>2, <2>1
    <3>2. own[i] \in BufferSet(roles)
          BY <3>1
    <3> QED BY <1>2, <2>1, <3>1, <3>2 DEF StoredWell, BufferSet
  <2>2. CASE i > n
    <3>1. i - n \in 1..m /\ n + (i - n) = i /\ by[i] = "none" /\ from[i] = side[i - n]
          BY <1>2, <2>2
    <3>2. side[i - n] \in BufferSet({"zones"})
          BY <3>1
    <3>3. stored[n + (i - n)] = Compress("none", side[i - n])
          BY <1>2, <3>1 DEF StoredWell
    <3> QED BY <2>2, <3>1, <3>2, <3>3 DEF BufferSet
  <2> QED BY <1>2, <2>1, <2>2
<1> HIDE DEF from, by
<1>7. ASSUME NEW i \in 1..(n + m)
      PROVE  /\ stored[i].role = from[i].role /\ stored[i].cells = from[i].cells
             /\ stored[i].uncompressed = from[i].size /\ stored[i].packed = Shrinks(by[i], from[i].size)
             /\ stored[i].len = IF Shrinks(by[i], from[i].size) THEN PackedSize(from[i].size) ELSE from[i].size
  <2> DEFINE b == from[i]
             q == by[i]
  <2>1. stored[i] = Compress(q, b)
        BY <1>6
  <2> HIDE DEF b, q
  <2>2. /\ Compress(q, b).role = b.role /\ Compress(q, b).cells = b.cells
        /\ Compress(q, b).uncompressed = b.size /\ Compress(q, b).packed = Shrinks(q, b.size)
        /\ Compress(q, b).len = IF Shrinks(q, b.size) THEN PackedSize(b.size) ELSE b.size
        BY DEF Compress
  <2> QED BY <2>1, <2>2 DEF b, q
<1>8. ASSUME NEW i \in 1..(n + m), Shrinks(by[i], from[i].size) PROVE used = by[i]
  <2>1. by[i] # "none"
        BY <1>8 DEF Shrinks
  <2>2. by[i] = codec
        BY <1>6, <2>1
  <2>3. stored[i].packed = TRUE
    <3>1. Shrinks(by[i], from[i].size) \in BOOLEAN
          BY DEF Shrinks
    <3> QED BY <1>7, <1>8, <3>1
  <2>4. used = codec
        BY <1>4, <2>3 DEF CodecUsed
  <2> QED BY <2>2, <2>4
<1> HIDE DEF used
<1>9. DOMAIN specs = 1..(n + m) /\ \A i \in 1..(n + m) : specs[i] = SpecOf(stored[i], c[k + i])
      BY <1>4
<1> HIDE DEF specs
<1>10. ASSUME NEW i \in 1..(n + m)
       PROVE  /\ specs[i].role = from[i].role /\ specs[i].checksum.cells = from[i].cells
              /\ Backed(specs[i], used, c)
  <2> DEFINE p == c[k + i]
             s == stored[i]
             spec == specs[i]
             b == from[i]
  <2>1. p.len = s.len /\ p.cells = s.cells /\ p.packed = s.packed
        BY <1>5 DEF Placed
  <2>2. spec = SpecOf(s, p)
        BY <1>9
  <2>3. k + i \in DOMAIN c
    <3>1. DOMAIN c = 1..Len(c) /\ Len(c) = k + (n + m)
          BY <1>5 DEF Placed, Extends, IsBytes
    <3> HIDE DEF k, n, m
    <3>2. k + i \in 1..(k + (n + m))
          BY <1>2, <1>4
    <3> QED BY <3>1, <3>2
  <2>4. /\ s.role = b.role /\ s.cells = b.cells
        /\ s.uncompressed = b.size /\ s.packed = Shrinks(by[i], b.size)
        /\ s.len = IF Shrinks(by[i], b.size) THEN PackedSize(b.size) ELSE b.size
        BY <1>7
  <2>5. b.size \in Nat
        BY <1>6
  <2> HIDE DEF p, s, b, spec
  <2>6. /\ spec.role = s.role /\ spec.off = p.off /\ spec.len = p.len /\ spec.uncompressed = s.uncompressed
        /\ spec.checksum = [cells |-> p.cells, packed |-> p.packed] /\ spec.checksum.cells = p.cells
        BY <2>2 DEF SpecOf
  <2>7. Verified(p, spec)
        BY <2>6 DEF Verified
  <2>8. Unpacks(p, spec, used)
    <3>1. Shrinks(by[i], b.size) => used = by[i]
          BY <1>8 DEF b
    <3> DEFINE q == by[i]
               z == b.size
    <3>2. /\ p.packed = Shrinks(q, z) /\ spec.uncompressed = z /\ z \in Nat
          /\ p.len = (IF Shrinks(q, z) THEN PackedSize(z) ELSE z) /\ (Shrinks(q, z) => used = q)
          BY <2>1, <2>4, <2>5, <2>6, <3>1
    <3> HIDE DEF q, z
    <3> QED BY <3>2, UnpacksWell
  <2>9. Backed(spec, used, c)
        BY <2>3, <2>6, <2>7, <2>8 DEF Backed, p
  <2> QED BY <2>1, <2>4, <2>6, <2>9 DEF spec, b
<1>11. w.bytes = c /\ w.chunk = Chunk(e, used, specs)
      BY <1>3
<1> HIDE DEF w
<1>12. w.chunk.codec = used /\ w.chunk.buffers = specs
      BY <1>11 DEF Chunk
<1>13. BackedAll(w.chunk, c, {})
      BY <1>9, <1>10, <1>12 DEF BackedAll
<1>14. \A i \in 1..n : specs[i].role = own[i].role /\ specs[i].checksum.cells = own[i].cells
  <2> TAKE i \in 1..n
  <2>1. i \in 1..(n + m) /\ i <= n /\ ~(i > n)
        BY <1>2
  <2>2. from[i] = own[i]
        BY <1>6, <2>1
  <2> QED BY <1>10, <2>1, <2>2
<1>15. \A i \in 1..m : specs[n + i].role = side[i].role /\ specs[n + i].checksum.cells = side[i].cells
  <2> TAKE i \in 1..m
  <2>1. n + i \in 1..(n + m) /\ ~(n + i <= n) /\ (n + i) - n = i
        BY <1>2
  <2>2. from[n + i] = side[(n + i) - n]
        BY <1>6, <2>1
  <2>3. from[n + i] = side[i]
        BY <2>1, <2>2
  <2> QED BY <1>10, <2>1, <2>3
<1>16. Extends(bytes, c)
      BY <1>5 DEF Placed
<1>17. Wrote(w, bytes, e, side)
  <2>1. w.chunk = Chunk(e, w.chunk.codec, w.chunk.buffers)
        BY <1>11, <1>12
  <2> QED BY <1>9, <1>11, <1>12, <1>13, <1>14, <1>15, <1>16, <2>1 DEF Wrote
<1> QED BY <1>17 DEF w

\* What buffers say depends on their roles and contents only.
LEMMA SaysSame ==
    ASSUME NEW V, NEW D, NEW x, NEW y, NEW len, NEW offset, NEW v,
           \A i \in V \cup D : x[i] = y[i], Says(V, D, x, len, offset, v)
    PROVE  Says(V, D, y, len, offset, v)
<1>1. SaysNulls(V, y, v)
  <2>1. V # {} => Min(V) \in V /\ x[Min(V)] = y[Min(V)]
        BY DEF Says, SaysNulls
  <2> QED BY <2>1 DEF Says, SaysNulls
<1>2. SaysData(D, y, offset, v)
  <2>1. Max(D) \in D /\ x[Max(D)] = y[Max(D)]
        BY DEF Says, SaysData
  <2> QED BY <2>1 DEF Says, SaysData
<1> QED BY <1>1, <1>2 DEF Says

\* Chunk f has the buffers e was written as.
HoldsBuffers(f, e, side) ==
    /\ f.len = e.len /\ f.offset = e.offset
    /\ DOMAIN f.buffers = 1..(Len(e.buffers) + Len(side))
    /\ \A i \in 1..Len(e.buffers) :
        f.buffers[i].role = e.buffers[i].role /\ f.buffers[i].checksum.cells = e.buffers[i].cells
    /\ \A i \in 1..Len(side) :
        /\ f.buffers[Len(e.buffers) + i].role = side[i].role
        /\ f.buffers[Len(e.buffers) + i].checksum.cells = side[i].cells
\* What a chunk written holds is what was to be written.
LEMMA WroteHolds ==
    ASSUME NEW w, NEW bytes, NEW e, NEW side, Wrote(w, bytes, e, side)
    PROVE  /\ HoldsBuffers(w.chunk, e, side) /\ w.chunk.encoding = e.encoding
           /\ w.chunk.children = <<>> /\ w.chunk.blockRows = 0 /\ w.chunk.blocks = <<>>
<1> DEFINE f == w.chunk
<1>1. f = Chunk(e, f.codec, f.buffers)
      BY DEF Wrote
<1>2. /\ f.len = e.len /\ f.offset = e.offset /\ f.encoding = e.encoding
      /\ f.children = <<>> /\ f.blockRows = 0 /\ f.blocks = <<>>
  <2> HIDE DEF f
  <2> DEFINE g == Chunk(e, f.codec, f.buffers)
  <2>1. /\ g.len = e.len /\ g.offset = e.offset /\ g.encoding = e.encoding
        /\ g.children = <<>> /\ g.blockRows = 0 /\ g.blocks = <<>>
        BY DEF Chunk
  <2> HIDE DEF g
  <2>2. f = g
        BY <1>1 DEF g
  <2> QED BY <2>1, <2>2
<1> QED BY <1>2 DEF Wrote, HoldsBuffers

ZoneSide(side) == side \in Seq(BufferSet({"zones"}))

\* Side buffers do not change what the others say.
LEMMA HeldSays ==
    ASSUME NEW f, NEW e, NEW side, HoldsBuffers(f, e, side), ZoneSide(side), NEW v, OwnSays(e, v)
    PROVE  ChunkPlain(f, v)
<1> DEFINE n == Len(e.buffers)
           m == Len(side)
<1>1. n \in Nat /\ m \in Nat /\ DOMAIN e.buffers = 1..n /\ DOMAIN f.buffers = 1..(n + m)
      BY DEF OwnSays, ZoneSide, HoldsBuffers
<1>2. \A i \in 1..n : e.buffers[i].role \in OwnRoles
  <2>1. \A i \in 1..n : e.buffers[i] \in BufferSet(OwnRoles)
        BY DEF OwnSays
  <2> QED BY <2>1 DEF BufferSet
<1>3. \A i \in 1..m : side[i].role = "zones"
  <2>1. \A i \in 1..m : side[i] \in BufferSet({"zones"})
        BY DEF ZoneSide
  <2> QED BY <2>1 DEF BufferSet
<1> HIDE DEF n, m
<1>4. \A i \in 1..n : f.buffers[i].role = e.buffers[i].role /\ f.buffers[i].checksum.cells = e.buffers[i].cells
      BY DEF HoldsBuffers, n
<1>5. \A i \in 1..m : f.buffers[n + i].role = "zones"
      BY <1>3 DEF HoldsBuffers, n, m
<1>6. \A i \in (n + 1)..(n + m) : f.buffers[i].role = "zones"
  <2> TAKE i \in (n + 1)..(n + m)
  <2>1. i - n \in 1..m /\ n + (i - n) = i
        BY <1>1
  <2> QED BY <1>5, <2>1
<1>7. ASSUME NEW role \in OwnRoles PROVE BuffersOf(f, role) = BuffersOf(e, role)
  <2>1. role # "zones"
        BY DEF OwnRoles
  <2>2. \A i \in 1..(n + m) : i \in 1..n \/ i \in (n + 1)..(n + m)
        BY <1>1
  <2>3. 1..n \subseteq 1..(n + m)
        BY <1>1
  <2>4. BuffersOf(f, role) = {i \in 1..(n + m) : f.buffers[i].role = role}
        /\ BuffersOf(e, role) = {i \in 1..n : e.buffers[i].role = role}
        BY <1>1 DEF BuffersOf
  <2> QED BY <1>4, <1>6, <2>1, <2>2, <2>3, <2>4
<1> DEFINE V == BuffersOf(e, "validity")
           D == BuffersOf(e, "data")
           x == PlainCells(e)
           y == CellsOf(f)
<1>8. BuffersOf(f, "validity") = V /\ BuffersOf(f, "data") = D
      BY <1>7 DEF OwnRoles
<1>9. \A i \in V \cup D : x[i] = y[i]
  <2> TAKE i \in V \cup D
  <2>1. i \in 1..n /\ i \in 1..(n + m)
        BY <1>1 DEF BuffersOf
  <2> QED BY <1>1, <1>4, <2>1 DEF PlainCells, CellsOf
<1>10. Says(V, D, x, e.len, e.offset, v)
      BY DEF OwnSays
<1> HIDE DEF V, D, x, y
<1>11. Says(V, D, y, e.len, e.offset, v)
      BY <1>9, <1>10, SaysSame
<1> QED BY <1>8, <1>11 DEF ChunkPlain, HoldsBuffers, y

\* Where the page bounds of a chunk are.
ZonesAre(f, side) ==
    \/ side = <<>> /\ BuffersOf(f, "zones") = {}
    \/ \E z \in Nat : /\ Len(side) = 1 /\ BuffersOf(f, "zones") = {z}
                      /\ z \in DOMAIN f.buffers /\ f.buffers[z].checksum.cells = side[1].cells
\* The zones a chunk holds are the side buffer it was given.
LEMMA HeldZones ==
    ASSUME NEW f, NEW e, NEW side, HoldsBuffers(f, e, side), ZoneSide(side), Len(side) \in {0, 1},
           e.buffers \in Seq(BufferSet(OwnRoles))
    PROVE  ZonesAre(f, side)
<1> DEFINE n == Len(e.buffers)
           m == Len(side)
<1>1. n \in Nat /\ m \in {0, 1} /\ DOMAIN f.buffers = 1..(n + m)
      BY DEF HoldsBuffers
<1>2. \A i \in 1..n : f.buffers[i].role # "zones"
  <2>1. \A i \in 1..n : e.buffers[i] \in BufferSet(OwnRoles)
        OBVIOUS
  <2>2. \A i \in 1..n : e.buffers[i].role # "zones"
        BY <2>1 DEF BufferSet, OwnRoles
  <2> QED BY <2>2 DEF HoldsBuffers
<1>3. CASE m = 0
  <2>1. side = <<>>
        BY <1>3 DEF ZoneSide
  <2>2. BuffersOf(f, "zones") = {}
        BY <1>1, <1>2, <1>3 DEF BuffersOf
  <2> QED BY <2>1, <2>2 DEF ZonesAre
<1>4. CASE m = 1
  <2> DEFINE z == n + 1
  <2>1. side[1] \in BufferSet({"zones"})
        BY <1>4 DEF ZoneSide
  <2>2. side[1].role = "zones"
        BY <2>1 DEF BufferSet
  <2>3. f.buffers[n + 1].role = "zones" /\ f.buffers[n + 1].checksum.cells = side[1].cells
        BY <1>4, <2>2 DEF HoldsBuffers
  <2>4. BuffersOf(f, "zones") = {i \in 1..(n + 1) : f.buffers[i].role = "zones"}
        BY <1>1, <1>4 DEF BuffersOf
  <2> HIDE DEF n
  <2>5. \A i \in 1..(n + 1) : i = n + 1 \/ i \in 1..n
        BY <1>1
  <2>6. z \in Nat /\ z \in 1..(n + 1)
        BY <1>1
  <2>7. BuffersOf(f, "zones") = {z}
        BY <1>2, <2>3, <2>4, <2>5, <2>6
  <2>8. z \in DOMAIN f.buffers
        BY <1>1, <1>4, <2>6
  <2> HIDE DEF z
  <2>9. f.buffers[z].checksum.cells = side[1].cells
        BY <2>3 DEF z
  <2> QED BY <1>4, <2>6, <2>7, <2>8, <2>9 DEF ZonesAre
<1> QED BY <1>1, <1>3, <1>4

----------------------------------------------------------------------------
(* Writing chunk after chunk.                                              *)

\* f is what writing the first children leaves.
KidsDone(f, bytes, kids, codec, n) ==
    f = [i \in 0..n |-> IF i = 0 THEN Nothing(bytes) ELSE Then(f[i - 1], WriteBuffers(f[i - 1].bytes, kids[i], codec, <<>>))]

\* There is such a function.
LEMMA KidsDoneExists ==
    ASSUME NEW bytes, NEW kids, NEW codec, NEW n \in Nat
    PROVE  \E f : KidsDone(f, bytes, kids, codec, n)
<1> DEFINE Up(k) == \E f : KidsDone(f, bytes, kids, codec, k)
           N == {k \in Nat : Up(k)}
<1>1. 0 \in N
  <2>1. Up(0)
    <3> DEFINE f == [i \in 0..0 |-> Nothing(bytes)]
    <3>1. f = [i \in 0..0 |-> IF i = 0 THEN Nothing(bytes) ELSE Then(f[i - 1], WriteBuffers(f[i - 1].bytes, kids[i], codec, <<>>))]
          OBVIOUS
    <3> HIDE DEF f
    <3>2. KidsDone(f, bytes, kids, codec, 0)
          BY <3>1 DEF KidsDone
    <3> QED BY <3>2
  <2> QED BY <2>1
<1>2. ASSUME NEW k \in Nat, k \in N PROVE k + 1 \in N
  <2>1. PICK f : KidsDone(f, bytes, kids, codec, k)
        BY <1>2
  <2>2. f = [i \in 0..k |-> IF i = 0 THEN Nothing(bytes) ELSE Then(f[i - 1], WriteBuffers(f[i - 1].bytes, kids[i], codec, <<>>))]
        BY <2>1 DEF KidsDone
  <2> DEFINE m == k + 1
             g == [i \in 0..m |-> IF i = m THEN Then(f[i - 1], WriteBuffers(f[i - 1].bytes, kids[i], codec, <<>>)) ELSE f[i]]
  <2>3. ASSUME NEW i \in 0..m PROVE g[i] = IF i = 0 THEN Nothing(bytes) ELSE Then(g[i - 1], WriteBuffers(g[i - 1].bytes, kids[i], codec, <<>>))
    <3>1. CASE i = m
      <4>1. i # 0 /\ i - 1 \in 0..m /\ i - 1 # m
            BY <3>1
      <4>2. g[i - 1] = f[i - 1]
            BY <4>1
      <4> QED BY <3>1, <4>1, <4>2
    <3>2. CASE i # m
      <4>1. i \in 0..k /\ g[i] = f[i]
            BY <3>2
      <4>2. i # 0 => i - 1 \in 0..m /\ i - 1 # m /\ g[i - 1] = f[i - 1]
            BY <3>2
      <4>3. f[i] = IF i = 0 THEN Nothing(bytes) ELSE Then(f[i - 1], WriteBuffers(f[i - 1].bytes, kids[i], codec, <<>>))
            BY <2>2, <4>1
      <4> HIDE DEF g, m
      <4> QED BY <4>1, <4>2, <4>3
    <3> QED BY <3>1, <3>2
  <2>4. g = [i \in 0..m |-> IF i = 0 THEN Nothing(bytes) ELSE Then(g[i - 1], WriteBuffers(g[i - 1].bytes, kids[i], codec, <<>>))]
        BY <2>3
  <2> HIDE DEF g
  <2>5. Up(m)
    <3>1. KidsDone(g, bytes, kids, codec, m)
          BY <2>4 DEF KidsDone
    <3> QED BY <3>1
  <2>6. m \in Nat
        OBVIOUS
  <2> HIDE DEF Up
  <2> QED BY <2>5, <2>6
<1> HIDE DEF N
<1>3. n \in N
      BY <1>1, <1>2, SetInduction
<1> QED BY <1>3 DEF N

\* Its first value, and one value from the one before.
KidsRun(f, bytes, kids, codec, n) ==
    /\ f[0] = Nothing(bytes)
    /\ \A i \in 1..n : f[i] = Then(f[i - 1], WriteBuffers(f[i - 1].bytes, kids[i], codec, <<>>))
\* The loop over children, step by step.
LEMMA KidsDoneStep ==
    ASSUME NEW bytes, NEW kids, NEW codec, NEW n \in Nat, NEW f, KidsDone(f, bytes, kids, codec, n)
    PROVE  KidsRun(f, bytes, kids, codec, n)
<1>1. f = [i \in 0..n |-> IF i = 0 THEN Nothing(bytes) ELSE Then(f[i - 1], WriteBuffers(f[i - 1].bytes, kids[i], codec, <<>>))]
      BY DEF KidsDone
<1>2. f[0] = Nothing(bytes)
  <2>1. 0 \in 0..n
        OBVIOUS
  <2> QED BY <1>1, <2>1
<1>3. ASSUME NEW i \in 1..n PROVE f[i] = Then(f[i - 1], WriteBuffers(f[i - 1].bytes, kids[i], codec, <<>>))
  <2>1. i \in 0..n /\ i # 0
        OBVIOUS
  <2> QED BY <1>1, <2>1
<1> QED BY <1>2, <1>3 DEF KidsRun

\* The loop's result is the last value of such a function.
LEMMA WriteKidsIs ==
    ASSUME NEW bytes, NEW kids, NEW codec, NEW n \in Nat, n = Len(kids)
    PROVE  \E f : KidsDone(f, bytes, kids, codec, n) /\ WriteKids(bytes, kids, codec) = f[n]
<1>1. \E f : KidsDone(f, bytes, kids, codec, n)
      BY KidsDoneExists
<1>2. PICK f : f = CHOOSE g : g = [i \in 0..n |-> IF i = 0 THEN Nothing(bytes) ELSE Then(g[i - 1], WriteBuffers(g[i - 1].bytes, kids[i], codec, <<>>))]
      OBVIOUS
<1>3. KidsDone(f, bytes, kids, codec, n)
      BY <1>1, <1>2 DEF KidsDone
<1>4. WriteKids(bytes, kids, codec) = f[n]
      BY <1>2 DEF WriteKids
<1> QED BY <1>3, <1>4

\* f is what writing the first blocks leaves.
BlocksDone(f, bytes, pieces, codec, o, n) ==
    f = [i \in 0..n |-> IF i = 0 THEN Nothing(bytes) ELSE Then(f[i - 1], WriteChunk(f[i - 1].bytes, EncodeColumn(pieces[i], o), codec, <<>>))]

\* There is such a function.
LEMMA BlocksDoneExists ==
    ASSUME NEW bytes, NEW pieces, NEW codec, NEW o, NEW n \in Nat
    PROVE  \E f : BlocksDone(f, bytes, pieces, codec, o, n)
<1> DEFINE Up(k) == \E f : BlocksDone(f, bytes, pieces, codec, o, k)
           N == {k \in Nat : Up(k)}
<1>1. 0 \in N
  <2>1. Up(0)
    <3> DEFINE f == [i \in 0..0 |-> Nothing(bytes)]
    <3>1. f = [i \in 0..0 |-> IF i = 0 THEN Nothing(bytes) ELSE Then(f[i - 1], WriteChunk(f[i - 1].bytes, EncodeColumn(pieces[i], o), codec, <<>>))]
          OBVIOUS
    <3> HIDE DEF f
    <3>2. BlocksDone(f, bytes, pieces, codec, o, 0)
          BY <3>1 DEF BlocksDone
    <3> QED BY <3>2
  <2> QED BY <2>1
<1>2. ASSUME NEW k \in Nat, k \in N PROVE k + 1 \in N
  <2>1. PICK f : BlocksDone(f, bytes, pieces, codec, o, k)
        BY <1>2
  <2>2. f = [i \in 0..k |-> IF i = 0 THEN Nothing(bytes) ELSE Then(f[i - 1], WriteChunk(f[i - 1].bytes, EncodeColumn(pieces[i], o), codec, <<>>))]
        BY <2>1 DEF BlocksDone
  <2> DEFINE m == k + 1
             g == [i \in 0..m |-> IF i = m THEN Then(f[i - 1], WriteChunk(f[i - 1].bytes, EncodeColumn(pieces[i], o), codec, <<>>)) ELSE f[i]]
  <2>3. ASSUME NEW i \in 0..m PROVE g[i] = IF i = 0 THEN Nothing(bytes) ELSE Then(g[i - 1], WriteChunk(g[i - 1].bytes, EncodeColumn(pieces[i], o), codec, <<>>))
    <3>1. CASE i = m
      <4>1. i # 0 /\ i - 1 \in 0..m /\ i - 1 # m
            BY <3>1
      <4>2. g[i - 1] = f[i - 1]
            BY <4>1
      <4> QED BY <3>1, <4>1, <4>2
    <3>2. CASE i # m
      <4>1. i \in 0..k /\ g[i] = f[i]
            BY <3>2
      <4>2. i # 0 => i - 1 \in 0..m /\ i - 1 # m /\ g[i - 1] = f[i - 1]
            BY <3>2
      <4>3. f[i] = IF i = 0 THEN Nothing(bytes) ELSE Then(f[i - 1], WriteChunk(f[i - 1].bytes, EncodeColumn(pieces[i], o), codec, <<>>))
            BY <2>2, <4>1
      <4> HIDE DEF g, m
      <4> QED BY <4>1, <4>2, <4>3
    <3> QED BY <3>1, <3>2
  <2>4. g = [i \in 0..m |-> IF i = 0 THEN Nothing(bytes) ELSE Then(g[i - 1], WriteChunk(g[i - 1].bytes, EncodeColumn(pieces[i], o), codec, <<>>))]
        BY <2>3
  <2> HIDE DEF g
  <2>5. Up(m)
    <3>1. BlocksDone(g, bytes, pieces, codec, o, m)
          BY <2>4 DEF BlocksDone
    <3> QED BY <3>1
  <2>6. m \in Nat
        OBVIOUS
  <2> HIDE DEF Up
  <2> QED BY <2>5, <2>6
<1> HIDE DEF N
<1>3. n \in N
      BY <1>1, <1>2, SetInduction
<1> QED BY <1>3 DEF N

\* Its first value, and one value from the one before.
BlocksRun(f, bytes, pieces, codec, o, n) ==
    /\ f[0] = Nothing(bytes)
    /\ \A i \in 1..n : f[i] = Then(f[i - 1], WriteChunk(f[i - 1].bytes, EncodeColumn(pieces[i], o), codec, <<>>))
\* The loop over blocks, step by step.
LEMMA BlocksDoneStep ==
    ASSUME NEW bytes, NEW pieces, NEW codec, NEW o, NEW n \in Nat, NEW f, BlocksDone(f, bytes, pieces, codec, o, n)
    PROVE  BlocksRun(f, bytes, pieces, codec, o, n)
<1>1. f = [i \in 0..n |-> IF i = 0 THEN Nothing(bytes) ELSE Then(f[i - 1], WriteChunk(f[i - 1].bytes, EncodeColumn(pieces[i], o), codec, <<>>))]
      BY DEF BlocksDone
<1>2. f[0] = Nothing(bytes)
  <2>1. 0 \in 0..n
        OBVIOUS
  <2> QED BY <1>1, <2>1
<1>3. ASSUME NEW i \in 1..n PROVE f[i] = Then(f[i - 1], WriteChunk(f[i - 1].bytes, EncodeColumn(pieces[i], o), codec, <<>>))
  <2>1. i \in 0..n /\ i # 0
        OBVIOUS
  <2> QED BY <1>1, <2>1
<1> QED BY <1>2, <1>3 DEF BlocksRun

\* The loop's result is the last value of such a function.
LEMMA WriteBlocksIs ==
    ASSUME NEW bytes, NEW pieces, NEW codec, NEW o, NEW n \in Nat, n = Len(pieces)
    PROVE  \E f : BlocksDone(f, bytes, pieces, codec, o, n) /\ WriteBlocks(bytes, pieces, codec, o) = f[n]
<1>1. \E f : BlocksDone(f, bytes, pieces, codec, o, n)
      BY BlocksDoneExists
<1>2. PICK f : f = CHOOSE g : g = [i \in 0..n |-> IF i = 0 THEN Nothing(bytes) ELSE Then(g[i - 1], WriteChunk(g[i - 1].bytes, EncodeColumn(pieces[i], o), codec, <<>>))]
      OBVIOUS
<1>3. BlocksDone(f, bytes, pieces, codec, o, n)
      BY <1>1, <1>2 DEF BlocksDone
<1>4. WriteBlocks(bytes, pieces, codec, o) = f[n]
      BY <1>2 DEF WriteBlocks
<1> QED BY <1>3, <1>4

\* f is what writing the first columns leaves.
ColumnsDone(f, arrays, o, n) ==
    f = [i \in 0..n |-> IF i = 0 THEN Nothing(<<>>) ELSE Then(f[i - 1], WriteColumn(f[i - 1].bytes, arrays[i], o))]

\* There is such a function.
LEMMA ColumnsDoneExists ==
    ASSUME NEW arrays, NEW o, NEW n \in Nat
    PROVE  \E f : ColumnsDone(f, arrays, o, n)
<1> DEFINE Up(k) == \E f : ColumnsDone(f, arrays, o, k)
           N == {k \in Nat : Up(k)}
<1>1. 0 \in N
  <2>1. Up(0)
    <3> DEFINE f == [i \in 0..0 |-> Nothing(<<>>)]
    <3>1. f = [i \in 0..0 |-> IF i = 0 THEN Nothing(<<>>) ELSE Then(f[i - 1], WriteColumn(f[i - 1].bytes, arrays[i], o))]
          OBVIOUS
    <3> HIDE DEF f
    <3>2. ColumnsDone(f, arrays, o, 0)
          BY <3>1 DEF ColumnsDone
    <3> QED BY <3>2
  <2> QED BY <2>1
<1>2. ASSUME NEW k \in Nat, k \in N PROVE k + 1 \in N
  <2>1. PICK f : ColumnsDone(f, arrays, o, k)
        BY <1>2
  <2>2. f = [i \in 0..k |-> IF i = 0 THEN Nothing(<<>>) ELSE Then(f[i - 1], WriteColumn(f[i - 1].bytes, arrays[i], o))]
        BY <2>1 DEF ColumnsDone
  <2> DEFINE m == k + 1
             g == [i \in 0..m |-> IF i = m THEN Then(f[i - 1], WriteColumn(f[i - 1].bytes, arrays[i], o)) ELSE f[i]]
  <2>3. ASSUME NEW i \in 0..m PROVE g[i] = IF i = 0 THEN Nothing(<<>>) ELSE Then(g[i - 1], WriteColumn(g[i - 1].bytes, arrays[i], o))
    <3>1. CASE i = m
      <4>1. i # 0 /\ i - 1 \in 0..m /\ i - 1 # m
            BY <3>1
      <4>2. g[i - 1] = f[i - 1]
            BY <4>1
      <4> QED BY <3>1, <4>1, <4>2
    <3>2. CASE i # m
      <4>1. i \in 0..k /\ g[i] = f[i]
            BY <3>2
      <4>2. i # 0 => i - 1 \in 0..m /\ i - 1 # m /\ g[i - 1] = f[i - 1]
            BY <3>2
      <4>3. f[i] = IF i = 0 THEN Nothing(<<>>) ELSE Then(f[i - 1], WriteColumn(f[i - 1].bytes, arrays[i], o))
            BY <2>2, <4>1
      <4> HIDE DEF g, m
      <4> QED BY <4>1, <4>2, <4>3
    <3> QED BY <3>1, <3>2
  <2>4. g = [i \in 0..m |-> IF i = 0 THEN Nothing(<<>>) ELSE Then(g[i - 1], WriteColumn(g[i - 1].bytes, arrays[i], o))]
        BY <2>3
  <2> HIDE DEF g
  <2>5. Up(m)
    <3>1. ColumnsDone(g, arrays, o, m)
          BY <2>4 DEF ColumnsDone
    <3> QED BY <3>1
  <2>6. m \in Nat
        OBVIOUS
  <2> HIDE DEF Up
  <2> QED BY <2>5, <2>6
<1> HIDE DEF N
<1>3. n \in N
      BY <1>1, <1>2, SetInduction
<1> QED BY <1>3 DEF N

\* Its first value, and one value from the one before.
ColumnsRun(f, arrays, o, n) ==
    /\ f[0] = Nothing(<<>>)
    /\ \A i \in 1..n : f[i] = Then(f[i - 1], WriteColumn(f[i - 1].bytes, arrays[i], o))
\* The loop over columns, step by step.
LEMMA ColumnsDoneStep ==
    ASSUME NEW arrays, NEW o, NEW n \in Nat, NEW f, ColumnsDone(f, arrays, o, n)
    PROVE  ColumnsRun(f, arrays, o, n)
<1>1. f = [i \in 0..n |-> IF i = 0 THEN Nothing(<<>>) ELSE Then(f[i - 1], WriteColumn(f[i - 1].bytes, arrays[i], o))]
      BY DEF ColumnsDone
<1>2. f[0] = Nothing(<<>>)
  <2>1. 0 \in 0..n
        OBVIOUS
  <2> QED BY <1>1, <2>1
<1>3. ASSUME NEW i \in 1..n PROVE f[i] = Then(f[i - 1], WriteColumn(f[i - 1].bytes, arrays[i], o))
  <2>1. i \in 0..n /\ i # 0
        OBVIOUS
  <2> QED BY <1>1, <2>1
<1> QED BY <1>2, <1>3 DEF ColumnsRun

\* The loop's result is the last value of such a function.
LEMMA WriteColumnsIs ==
    ASSUME NEW arrays, NEW o, NEW n \in Nat, n = Len(arrays)
    PROVE  \E f : ColumnsDone(f, arrays, o, n) /\ WriteColumns(arrays, o) = f[n]
<1>1. \E f : ColumnsDone(f, arrays, o, n)
      BY ColumnsDoneExists
<1>2. PICK f : f = CHOOSE g : g = [i \in 0..n |-> IF i = 0 THEN Nothing(<<>>) ELSE Then(g[i - 1], WriteColumn(g[i - 1].bytes, arrays[i], o))]
      OBVIOUS
<1>3. ColumnsDone(f, arrays, o, n)
      BY <1>1, <1>2 DEF ColumnsDone
<1>4. WriteColumns(arrays, o) = f[n]
      BY <1>2 DEF WriteColumns
<1> QED BY <1>3, <1>4

\* What a loop of writes leaves: the bytes only grow, and the chunks are the
\* ones written.
Looped(so, bytes, w, n) ==
    /\ Extends(bytes, so.bytes) /\ IsList(so.chunks) /\ Len(so.chunks) = n /\ DOMAIN so.chunks = 1..n
    /\ \A i \in 1..n : so.chunks[i] = w[i].chunk /\ Extends(w[i].bytes, so.bytes)
\* One more chunk written after those before.
LEMMA LoopStep ==
    ASSUME NEW so, NEW bytes, NEW w, NEW k \in Nat, Looped(so, bytes, w, k), NEW x, x = w[k + 1],
           Extends(so.bytes, x.bytes)
    PROVE  Looped(Then(so, x), bytes, w, k + 1)
<1> DEFINE s == so.chunks
           t == Append(s, x.chunk)
           next == Then(so, x)
           m == k + 1
<1>1. next.bytes = x.bytes /\ next.chunks = t
      BY DEF Then
<1> HIDE DEF next
<1>2. IsList(s) /\ Len(s) = k
      BY DEF Looped
<1>3. IsList(t) /\ Len(t) = m /\ (\A i \in 1..k : t[i] = s[i]) /\ t[m] = x.chunk
      BY <1>2, ListAppend
<1>4. DOMAIN t = 1..m
      BY <1>3 DEF IsList
<1>5. Extends(bytes, x.bytes)
      BY ExtendsTransitive DEF Looped
<1>6. Extends(x.bytes, x.bytes)
      BY ExtendsItself DEF Extends
<1> HIDE DEF t, s
<1>7. ASSUME NEW i \in 1..m PROVE t[i] = w[i].chunk /\ Extends(w[i].bytes, x.bytes)
  <2>1. CASE i = m
        BY <1>3, <1>6, <2>1
  <2>2. CASE i # m
    <3>1. i \in 1..k
          BY <2>2
    <3>2. s[i] = w[i].chunk /\ Extends(w[i].bytes, so.bytes)
          BY <3>1 DEF Looped, s
    <3> QED BY <1>3, <3>1, <3>2, ExtendsTransitive
  <2> QED BY <2>1, <2>2
<1>8. Looped(next, bytes, w, m)
      BY <1>1, <1>3, <1>4, <1>5, <1>7 DEF Looped
<1> QED BY <1>8 DEF next

\* A loop that writes chunk after chunk only appends to the bytes, and its
\* chunks are those written.
LEMMA LoopIs ==
    ASSUME NEW n \in Nat, NEW f, NEW w, NEW bytes, IsBytes(bytes), f[0] = Nothing(bytes),
           \A i \in 1..n : f[i] = Then(f[i - 1], w[i]),
           \A i \in 1..n : IsBytes(f[i - 1].bytes) => Extends(f[i - 1].bytes, w[i].bytes)
    PROVE  \A i \in 0..n : Looped(f[i], bytes, w, i)
<1> DEFINE Q(k) == k <= n => Looped(f[k], bytes, w, k)
           N == {k \in Nat : Q(k)}
<1>1. 0 \in N
  <2> DEFINE z == Nothing(bytes)
  <2>1. z.bytes = bytes /\ z.chunks = <<>>
        BY DEF Nothing
  <2> HIDE DEF z
  <2>2. IsList(<<>>) /\ Len(<<>>) = 0 /\ DOMAIN <<>> = 1..0 /\ 1..0 = {}
    <3>1. <<>> \in Seq({})
          OBVIOUS
    <3> QED BY <3>1 DEF IsList
  <2>3. Extends(bytes, bytes)
        BY ExtendsItself
  <2>4. Looped(z, bytes, w, 0)
        BY <2>1, <2>2, <2>3 DEF Looped
  <2>5. Q(0)
        BY <2>4 DEF z
  <2> QED BY <2>5
<1>2. ASSUME NEW k \in Nat, k \in N PROVE k + 1 \in N
  <2>1. ASSUME k + 1 <= n PROVE Looped(f[k + 1], bytes, w, k + 1)
    <3>1. k + 1 \in 1..n /\ (k + 1) - 1 = k /\ k <= n
          BY <2>1
    <3>2. Looped(f[k], bytes, w, k)
          BY <1>2, <3>1
    <3>3. IsBytes(f[k].bytes)
          BY <3>2 DEF Looped, Extends
    <3>4. f[k + 1] = Then(f[k], w[k + 1]) /\ Extends(f[k].bytes, w[k + 1].bytes)
          BY <3>1, <3>3
    <3> DEFINE so == f[k]
               x == w[k + 1]
    <3>5. Looped(so, bytes, w, k) /\ x = w[k + 1] /\ Extends(so.bytes, x.bytes)
          BY <3>2, <3>4
    <3> HIDE DEF so, x, N, Q
    <3>6. Looped(Then(so, x), bytes, w, k + 1)
          BY <3>5, LoopStep
    <3> QED BY <3>4, <3>6 DEF so, x
  <2>2. Q(k + 1) /\ k + 1 \in Nat
        BY <2>1
  <2> HIDE DEF Q
  <2> QED BY <2>2
<1> HIDE DEF N
<1>3. Nat \subseteq N
      BY <1>1, <1>2, SetInduction
<1> QED BY <1>3 DEF N

\* A chunk without zones.
LEMMA NoSide == ZoneSide(<<>>) /\ Len(<<>>) = 0
BY DEF ZoneSide

\* The children of a chunk, written after it.
OwnKids(kids) == IsList(kids) /\ \A i \in 1..Len(kids) : kids[i].buffers \in Seq(BufferSet(OwnRoles))
KidsWell(so, bytes, kids, n) ==
    /\ Extends(bytes, so.bytes) /\ DOMAIN so.chunks = 1..n
    /\ \A i \in 1..n : HoldsBuffers(so.chunks[i], kids[i], <<>>) /\ BackedAll(so.chunks[i], so.bytes, {})
\* The children written are found in the bytes and say what they should.
LEMMA KidsWritten ==
    ASSUME NEW bytes, IsBytes(bytes), NEW kids, OwnKids(kids), NEW codec, NEW n, n = Len(kids)
    PROVE  KidsWell(WriteKids(bytes, kids, codec), bytes, kids, n)
<1>1. n \in Nat
      BY DEF OwnKids, IsList
<1>2. PICK f : KidsDone(f, bytes, kids, codec, n) /\ WriteKids(bytes, kids, codec) = f[n]
      BY <1>1, WriteKidsIs
<1>3. /\ f[0] = Nothing(bytes)
      /\ \A i \in 1..n : f[i] = Then(f[i - 1], WriteBuffers(f[i - 1].bytes, kids[i], codec, <<>>))
  <2>1. KidsDone(f, bytes, kids, codec, n)
        BY <1>2
  <2>2. KidsRun(f, bytes, kids, codec, n)
        BY <1>1, <2>1, KidsDoneStep
  <2> QED BY <2>2 DEF KidsRun
<1> DEFINE w == [i \in 1..n |-> WriteBuffers(f[i - 1].bytes, kids[i], codec, <<>>)]
<1>4. \A i \in 1..n : f[i] = Then(f[i - 1], w[i]) /\ w[i] = WriteBuffers(f[i - 1].bytes, kids[i], codec, <<>>)
      BY <1>3
<1> HIDE DEF w
<1>5. ASSUME NEW i \in 1..n, IsBytes(f[i - 1].bytes)
      PROVE  Extends(f[i - 1].bytes, w[i].bytes) /\ Wrote(w[i], f[i - 1].bytes, kids[i], <<>>)
  <2> DEFINE b == f[i - 1].bytes
             kid == kids[i]
  <2>1. kid.buffers \in Seq(BufferSet(OwnRoles))
        BY DEF OwnKids
  <2>2. IsBytes(b)
        BY <1>5
  <2>3. w[i] = WriteBuffers(b, kid, codec, <<>>)
        BY <1>4
  <2> HIDE DEF b, kid
  <2>4. Wrote(WriteBuffers(b, kid, codec, <<>>), b, kid, <<>>)
    <3>1. <<>> \in Seq(BufferSet({"zones"}))
          BY NoSide DEF ZoneSide
    <3> QED BY <2>1, <2>2, <3>1, WriteBuffersIs
  <2>5. Wrote(w[i], b, kid, <<>>)
        BY <2>3, <2>4
  <2> QED BY <2>5 DEF Wrote, b, kid
<1>6. \A i \in 0..n : Looped(f[i], bytes, w, i)
  <2>1. \A i \in 1..n : IsBytes(f[i - 1].bytes) => Extends(f[i - 1].bytes, w[i].bytes)
        BY <1>5
  <2> QED BY <1>1, <1>3, <1>4, <2>1, LoopIs
<1>7. Looped(f[n], bytes, w, n)
      BY <1>1, <1>6
<1>8. ASSUME NEW i \in 1..n
      PROVE  HoldsBuffers(f[n].chunks[i], kids[i], <<>>) /\ BackedAll(f[n].chunks[i], f[n].bytes, {})
  <2>1. i - 1 \in 0..n
        BY <1>1
  <2>2. Looped(f[i - 1], bytes, w, i - 1)
        BY <1>6, <2>1
  <2>3. IsBytes(f[i - 1].bytes)
        BY <2>2 DEF Looped, Extends
  <2>4. Wrote(w[i], f[i - 1].bytes, kids[i], <<>>)
        BY <1>5, <2>3
  <2>5. HoldsBuffers(w[i].chunk, kids[i], <<>>)
        BY <2>4, WroteHolds
  <2>6. BackedAll(w[i].chunk, w[i].bytes, {})
        BY <2>4 DEF Wrote
  <2>7. f[n].chunks[i] = w[i].chunk /\ Extends(w[i].bytes, f[n].bytes)
        BY <1>7 DEF Looped
  <2> QED BY <2>5, <2>6, <2>7, BackedAllStays
<1> QED BY <1>2, <1>7, <1>8 DEF KidsWell, Looped

\* The children of an encoded column are such.
LEMMA ColumnKids ==
    ASSUME NEW e, NEW rows, EncMeans(e, rows)
    PROVE  OwnKids(e.children) /\ e.buffers \in Seq(BufferSet(OwnRoles))
<1>1. CASE e.children = <<>> /\ OwnSays(e, rows)
  <2>1. IsList(<<>>) /\ Len(<<>>) = 0
    <3>1. <<>> \in Seq({})
          OBVIOUS
    <3> QED BY <3>1 DEF IsList
  <2>2. OwnKids(<<>>)
        BY <2>1 DEF OwnKids
  <2> QED BY <1>1, <2>2 DEF OwnSays
<1>2. CASE \E kid, keys, d : e.children = <<kid>> /\ OwnSays(kid, d) /\ OwnSays(e, keys)
  <2>1. PICK kid, keys, d : e.children = <<kid>> /\ OwnSays(kid, d) /\ OwnSays(e, keys)
        BY <1>2
  <2>2. <<kid>> \in Seq({kid}) /\ Len(<<kid>>) = 1 /\ <<kid>>[1] = kid
        OBVIOUS
  <2>3. kid.buffers \in Seq(BufferSet(OwnRoles)) /\ e.buffers \in Seq(BufferSet(OwnRoles))
        BY <2>1 DEF OwnSays
  <2>4. OwnKids(<<kid>>)
    <3> DEFINE p == <<kid>>
    <3> HIDE DEF p
    <3>1. p \in Seq({kid}) /\ Len(p) = 1 /\ p[1] = kid
          BY <2>2 DEF p
    <3>2. IsList(p)
          BY <3>1 DEF IsList
    <3>3. OwnKids(p)
          BY <2>3, <3>1, <3>2 DEF OwnKids
    <3> QED BY <3>3 DEF p
  <2> QED BY <2>1, <2>3, <2>4
<1>3. CASE e.buffers = <<>> /\ \E one, two, ends, vals :
            e.children = <<one, two>> /\ OwnSays(one, ends) /\ OwnSays(two, vals)
  <2>1. PICK one, two, ends, vals : e.children = <<one, two>> /\ OwnSays(one, ends) /\ OwnSays(two, vals)
        BY <1>3
  <2>2. <<one, two>> \in Seq({one, two}) /\ Len(<<one, two>>) = 2 /\ <<one, two>>[1] = one /\ <<one, two>>[2] = two
        OBVIOUS
  <2>3. one.buffers \in Seq(BufferSet(OwnRoles)) /\ two.buffers \in Seq(BufferSet(OwnRoles))
        BY <2>1 DEF OwnSays
  <2> DEFINE p == <<one, two>>
  <2> HIDE DEF p
  <2>4. p \in Seq({one, two}) /\ Len(p) = 2 /\ p[1] = one /\ p[2] = two
        BY <2>2 DEF p
  <2>5. IsList(p)
        BY <2>4 DEF IsList
  <2>6. \A i \in 1..2 : i = 1 \/ i = 2
        OBVIOUS
  <2>7. OwnKids(p)
        BY <2>3, <2>4, <2>5, <2>6 DEF OwnKids
  <2> QED BY <1>3, <2>1, <2>7 DEF p
<1> QED BY <1>1, <1>2, <1>3 DEF EncMeans

\* A chunk written means the rows that were encoded.
ChunkWell(w, bytes, side, rows) ==
    /\ Extends(bytes, w.bytes) /\ Means(w.chunk, rows) /\ KidsBacked(w.chunk, w.bytes, {})
    /\ w.chunk.blocks = <<>> /\ ZonesAre(w.chunk, side)
\* write_chunk: the chunk stands for the rows, its buffers and its
\* children's are all found in the bytes, and its zones are those given.
LEMMA WriteChunkIs ==
    ASSUME NEW bytes, IsBytes(bytes), NEW e, NEW rows, EncMeans(e, rows), NEW codec,
           NEW side, ZoneSide(side), Len(side) \in {0, 1}
    PROVE  ChunkWell(WriteChunk(bytes, e, codec, side), bytes, side, rows)
<1> DEFINE own == WriteBuffers(bytes, e, codec, side)
           kids == e.children
           n == Len(kids)
           so == WriteKids(own.bytes, kids, codec)
           w == WriteChunk(bytes, e, codec, side)
           g == own.chunk
           f == w.chunk
<1>1. OwnKids(kids) /\ e.buffers \in Seq(BufferSet(OwnRoles))
      BY ColumnKids
<1>2. Wrote(own, bytes, e, side)
  <2>1. side \in Seq(BufferSet({"zones"}))
        BY DEF ZoneSide
  <2> QED BY <1>1, <2>1, WriteBuffersIs
<1>3. w = [bytes |-> so.bytes, chunk |-> [own.chunk EXCEPT !.children = so.chunks]]
      BY DEF WriteChunk, WriteChildren, WithChildren
<1> HIDE DEF own
<1>4. /\ HoldsBuffers(g, e, side) /\ g.encoding = e.encoding /\ g.blocks = <<>>
      BY <1>2, WroteHolds
<1>5. IsBytes(own.bytes) /\ Extends(bytes, own.bytes) /\ BackedAll(g, own.bytes, {})
      BY <1>2 DEF Wrote, Extends
<1>6. KidsWell(so, own.bytes, kids, n)
      BY <1>1, <1>5, KidsWritten
<1> HIDE DEF so
<1>7. w.bytes = so.bytes /\ w.chunk = [own.chunk EXCEPT !.children = so.chunks]
      BY <1>3
<1> HIDE DEF w
<1>8. /\ f.len = g.len /\ f.offset = g.offset /\ f.encoding = g.encoding /\ f.buffers = g.buffers
      /\ f.blocks = g.blocks /\ f.codec = g.codec /\ f.children = so.chunks
  <2>1. g = Chunk(e, g.codec, g.buffers)
        BY <1>2 DEF Wrote
  <2> DEFINE codec0 == g.codec
             bufs == g.buffers
             h == Chunk(e, codec0, bufs)
             kk == so.chunks
  <2>2. g = h
        BY <2>1
  <2> HIDE DEF codec0, bufs, g, kk
  <2>3. [h EXCEPT !.children = kk] = [encoding |-> e.encoding, len |-> e.len, offset |-> e.offset, codec |-> codec0,
     buffers |-> bufs, children |-> kk, blockRows |-> 0, blocks |-> <<>>]
        BY DEF Chunk
  <2>4. h = [encoding |-> e.encoding, len |-> e.len, offset |-> e.offset, codec |-> codec0,
     buffers |-> bufs, children |-> <<>>, blockRows |-> 0, blocks |-> <<>>]
        BY DEF Chunk
  <2>5. f = [g EXCEPT !.children = kk]
        BY <1>7 DEF g, kk
  <2> HIDE DEF h, f
  <2>6. f = [encoding |-> e.encoding, len |-> e.len, offset |-> e.offset, codec |-> codec0,
     buffers |-> bufs, children |-> kk, blockRows |-> 0, blocks |-> <<>>]
        BY <2>2, <2>3, <2>5
  <2>7. /\ f.len = h.len /\ f.offset = h.offset /\ f.encoding = h.encoding /\ f.buffers = h.buffers
        /\ f.blocks = h.blocks /\ f.codec = h.codec /\ f.children = kk
        BY <2>4, <2>6
  <2> QED BY <2>2, <2>7 DEF kk
<1> HIDE DEF g, f
<1>9. HoldsBuffers(f, e, side)
      BY <1>4, <1>8 DEF HoldsBuffers
<1>10. Extends(own.bytes, so.bytes) /\ Extends(bytes, w.bytes)
  <2>1. Extends(own.bytes, so.bytes)
        BY <1>6 DEF KidsWell
  <2> QED BY <1>5, <1>7, <2>1, ExtendsTransitive
<1>11. BackedAll(f, w.bytes, {})
  <2>1. BackedAll(g, so.bytes, {})
        BY <1>5, <1>10, BackedAllStays
  <2> QED BY <1>7, <1>8, <2>1 DEF BackedAll
<1>12. /\ DOMAIN f.children = 1..n
       /\ \A i \in 1..n : HoldsBuffers(f.children[i], kids[i], <<>>) /\ BackedAll(f.children[i], w.bytes, {})
      BY <1>6, <1>7, <1>8 DEF KidsWell
<1>13. KidsBacked(f, w.bytes, {})
      BY <1>11, <1>12 DEF KidsBacked
<1>14. ZonesAre(f, side)
      BY <1>1, <1>9, HeldZones
<1>15. \A v : OwnSays(e, v) => ChunkPlain(f, v)
      BY <1>9, HeldSays
<1>16. \A i \in 1..n : \A v : OwnSays(kids[i], v) => ChunkPlain(f.children[i], v)
      BY <1>12, HeldSays, NoSide
<1>17. Means(f, rows)
  <2>1. CASE e.encoding = "plain" /\ OwnSays(e, rows)
        BY <1>4, <1>8, <1>15, <2>1 DEF Means
  <2>2. CASE /\ e.encoding = "dictionary"
             /\ \E kid, keys, d : /\ e.children = <<kid>> /\ OwnSays(kid, d)
                                  /\ OwnSays(e, keys) /\ LooksUp(keys, d, rows)
    <3>1. PICK kid, keys, d : /\ e.children = <<kid>> /\ OwnSays(kid, d)
                              /\ OwnSays(e, keys) /\ LooksUp(keys, d, rows)
          BY <2>2
    <3>2. n = 1 /\ kids[1] = kid /\ 1 \in 1..n
          BY <3>1
    <3>3. ChunkPlain(f, keys) /\ ChunkPlain(f.children[1], d) /\ 1 \in DOMAIN f.children
          BY <1>12, <1>15, <1>16, <3>1, <3>2
    <3> QED BY <1>4, <1>8, <2>2, <3>1, <3>3 DEF Means
  <2>3. CASE /\ e.encoding = "runs" /\ e.buffers = <<>> /\ e.len = Len(rows)
             /\ \E one, two, ends, vals :
                  /\ e.children = <<one, two>> /\ OwnSays(one, ends) /\ OwnSays(two, vals)
                  /\ Expands(ends, vals, rows)
    <3>1. PICK one, two, ends, vals :
                  /\ e.children = <<one, two>> /\ OwnSays(one, ends) /\ OwnSays(two, vals)
                  /\ Expands(ends, vals, rows)
          BY <2>3
    <3>2. n = 2 /\ kids[1] = one /\ kids[2] = two /\ 1 \in 1..n /\ 2 \in 1..n
          BY <3>1
    <3>3. /\ ChunkPlain(f.children[1], ends) /\ ChunkPlain(f.children[2], vals)
          /\ 1 \in DOMAIN f.children /\ 2 \in DOMAIN f.children
          BY <1>12, <1>16, <3>1, <3>2
    <3>4. f.len = Len(rows)
          BY <1>9, <2>3 DEF HoldsBuffers
    <3> QED BY <1>4, <1>8, <2>3, <3>1, <3>3, <3>4 DEF Means
  <2> QED BY <2>1, <2>2, <2>3 DEF EncMeans
<1>18. f.blocks = <<>>
      BY <1>4, <1>8
<1>19. ChunkWell(w, bytes, side, rows)
      BY <1>10, <1>13, <1>14, <1>17, <1>18 DEF ChunkWell, f
<1> QED BY <1>19 DEF w

----------------------------------------------------------------------------
(* Blocks and pages.                                                       *)

\* A slice of an array has the rows of the range.
LEMMA SliceArray ==
    ASSUME NEW a, IsArray(a), NEW start \in Nat, NEW len \in Nat, start + len <= a.len
    PROVE  IsArray(Slice(a, start, len)) /\ Rows(Slice(a, start, len)) = SubSeq(Rows(a), start + 1, start + len)
<1> DEFINE b == Slice(a, start, len)
           s == a.held
           n == Len(s)
           at == a.off
           top == at + a.len
           lo == at + start
           hi == lo + len
           end == start + len
<1>1. /\ a \in ArraySet /\ s \in Seq(Cell) /\ n \in Nat /\ at \in Nat /\ a.len \in Nat /\ top <= n
      BY DEF IsArray, ArraySet
<1>2. b.held = s /\ b.off = lo /\ b.len = len /\ b \in ArraySet
  <2>1. b = [a EXCEPT !.off = lo, !.len = len]
        BY <1>1 DEF Slice, ArraySet
  <2>2. lo \in Nat
        BY <1>1
  <2> HIDE DEF lo, b
  <2> QED BY <1>1, <2>1, <2>2 DEF ArraySet
<1> HIDE DEF b
<1>3. top \in Nat /\ lo \in Nat /\ hi \in Nat /\ end \in Nat /\ at <= lo /\ lo <= hi /\ hi <= top
      /\ start = lo - at /\ end = hi - at /\ hi <= n
      BY <1>1
<1>4. Rows(b) = SubSeq(s, lo + 1, hi) /\ Rows(a) = SubSeq(s, at + 1, top)
      BY <1>2 DEF Rows
<1>5. n = Len(s)
      OBVIOUS
<1> HIDE DEF s, n, at, top, lo, hi, end
<1>6. SubSeq(SubSeq(s, at + 1, top), start + 1, end) = SubSeq(s, lo + 1, hi)
      BY <1>1, <1>3, <1>5, SubSubSeq
<1>7. IsArray(b)
      BY <1>2, <1>3, <1>5 DEF IsArray, hi
<1> QED BY <1>4, <1>6, <1>7 DEF b, end

\* The pieces of an array have the rows of its blocks.
Cut(rows, size, i) == SubSeq(rows, (i - 1) * size + 1, BlockEnd(i, size, Len(rows)))
PiecesWell(p, rows, size) ==
    /\ Len(p) = CeilDiv(Len(rows), size) /\ DOMAIN p = 1..Len(p) /\ IsList(p)
    /\ \A i \in 1..Len(p) : IsArray(p[i]) /\ Rows(p[i]) = Cut(rows, size, i)
\* A column in pieces of so many rows.
LEMMA PiecesAre ==
    ASSUME NEW a, IsArray(a), NEW size \in Nat \ {0}
    PROVE  PiecesWell(Pieces(a, size), Rows(a), size)
<1> DEFINE rows == Rows(a)
           n == a.len
           m == CeilDiv(n, size)
           p == Pieces(a, size)
<1>1. n \in Nat /\ Len(rows) = n
      BY RowsOf DEF IsArray, ArraySet
<1>2. m \in Nat /\ n <= m * size /\ m * size < n + size
      BY <1>1, CeilDivBounds
<1>3. p = [i \in 1..m |-> Slice(a, (i - 1) * size, Min({size, n - (i - 1) * size}))]
      BY DEF Pieces, DivUp, CeilDiv
<1>4. DOMAIN p = 1..m /\ p = [i \in 1..m |-> p[i]]
      BY <1>3
<1> HIDE DEF p, m, rows, n
<1>5. IsList(p) /\ Len(p) = m
      BY <1>2, <1>4, ListOf
<1>6. ASSUME NEW i \in 1..m PROVE IsArray(p[i]) /\ Rows(p[i]) = Cut(rows, size, i)
  <2> DEFINE start == (i - 1) * size
             len == Min({size, n - start})
             end == i * size
  <2>1. p[i] = Slice(a, start, len)
        BY <1>3
  <2>2. i - 1 \in Nat /\ i \in Nat /\ m - 1 \in Nat /\ i - 1 <= m - 1
        BY <1>2
  <2>3. start \in Nat /\ end = start + size
        BY <2>2, TimesType, TimesStep
  <2>4. start <= (m - 1) * size /\ (m - 1) * size \in Nat /\ m * size = (m - 1) * size + size
        BY <1>2, <2>2, TimesGrows, TimesType, TimesStep
  <2>5. start < n
    <3> DEFINE x == (m - 1) * size
               y == m * size
    <3>1. x \in Nat /\ y = x + size /\ y < n + size /\ start <= x
          BY <1>2, <2>4
    <3> HIDE DEF x, y, start
    <3> QED BY <1>1, <2>3, <3>1
  <2> HIDE DEF start, end
  <2>6. len = IF size <= n - start THEN size ELSE n - start
        BY <1>1, <2>3, MinOfTwo
  <2> HIDE DEF len
  <2>7. len \in Nat /\ start + len <= n /\ start + len = (IF end <= n THEN end ELSE n)
        BY <1>1, <2>3, <2>5, <2>6
  <2>8. IsArray(p[i]) /\ Rows(p[i]) = SubSeq(rows, start + 1, start + len)
        BY <2>1, <2>3, <2>7, SliceArray DEF n, rows
  <2>9. Cut(rows, size, i) = SubSeq(rows, start + 1, start + len)
        BY <1>1, <2>7 DEF Cut, BlockEnd, start, end
  <2> QED BY <2>8, <2>9
<1>7. PiecesWell(p, rows, size)
      BY <1>1, <1>4, <1>5, <1>6 DEF PiecesWell, m
<1> QED BY <1>7 DEF p, rows

\* The bounds of the pages.
IsZones(z, rows, size) ==
    /\ size \in Nat \ {0} /\ CeilDiv(Len(rows), size) > 1
    /\ z \in Seq(SUBSET Cell) /\ Len(z) = CeilDiv(Len(rows), size)
    /\ \A p \in 1..Len(z) : z[p] = ToSet(Cut(rows, size, p))
SideWell(side, rows, size) ==
    /\ ZoneSide(side) /\ Len(side) \in {0, 1}
    /\ side # <<>> => IsZones(side[1].cells, rows, size)
\* page_zones: one per page, each exactly the values of the page.
LEMMA ZonesAreBounds ==
    ASSUME NEW a, IsArray(a), NEW o, o.pageRows \in Nat
    PROVE  SideWell(PageZones(a, o), Rows(a), o.pageRows)
<1> DEFINE side == PageZones(a, o)
           size == o.pageRows
           rows == Rows(a)
<1>1. a.len \in Nat /\ Len(rows) = a.len
      BY RowsOf DEF IsArray, ArraySet
<1>2. CASE PageCount(a.len, size) < 2
  <2>1. side = <<>>
        BY <1>2 DEF PageZones
  <2> QED BY <2>1, NoSide DEF SideWell
<1>3. CASE ~(PageCount(a.len, size) < 2)
  <2> DEFINE p == Pieces(a, size)
             n == CeilDiv(a.len, size)
             z == [i \in DOMAIN p |-> ToSet(Rows(p[i]))]
             b == Buffer("zones", z, Len(p))
  <2>1. size \in Nat \ {0}
        BY <1>3 DEF PageCount
  <2>2. PageCount(a.len, size) = n /\ n \in Nat /\ n > 1
    <3>1. PageCount(a.len, size) = n
          BY <2>1 DEF PageCount, DivUp, CeilDiv
    <3>2. n \in Nat
          BY <1>1, <2>1, CeilDivBounds
    <3> QED BY <1>3, <3>1, <3>2
  <2>3. side = <<b>>
        BY <1>3 DEF PageZones, ZonesOf
  <2> HIDE DEF size
  <2>4. PiecesWell(p, rows, size)
        BY <2>1, PiecesAre
  <2> HIDE DEF p, rows
  <2>5. Len(p) = n /\ DOMAIN p = 1..n
        BY <1>1, <2>4 DEF PiecesWell
  <2> HIDE DEF n
  <2>6. \A i \in 1..n : z[i] = ToSet(Cut(rows, size, i)) /\ z[i] \in SUBSET Cell
    <3> TAKE i \in 1..n
    <3>1. z[i] = ToSet(Rows(p[i])) /\ IsArray(p[i]) /\ Rows(p[i]) = Cut(rows, size, i)
          BY <2>4, <2>5 DEF PiecesWell
    <3>2. Rows(p[i]) \in Seq(Cell)
          BY <3>1, RowsOf
    <3>3. ToSet(Rows(p[i])) \subseteq Cell
          BY <3>2 DEF ToSet
    <3> QED BY <3>1, <3>3
  <2>7. z = [i \in 1..n |-> z[i]]
        BY <2>5
  <2> HIDE DEF z
  <2>8. z \in Seq(SUBSET Cell) /\ Len(z) = n
    <3>1. z \in [1..n -> SUBSET Cell]
          BY <2>6, <2>7
    <3> QED BY <2>2, <3>1
  <2>9. b \in BufferSet({"zones"}) /\ b.cells = z
        BY <2>2, <2>5, <2>8 DEF Buffer, BufferSet, Cells
  <2> HIDE DEF b
  <2>10. IsZones(z, rows, size)
        BY <1>1, <2>1, <2>2, <2>6, <2>8 DEF IsZones, n
  <2>11. ZoneSide(<<b>>) /\ Len(<<b>>) = 1 /\ <<b>>[1] = b
        BY <2>9 DEF ZoneSide
  <2> HIDE DEF side
  <2>12. SideWell(side, rows, size)
        BY <2>3, <2>9, <2>10, <2>11 DEF SideWell
  <2> QED BY <2>12 DEF side, rows, size
<1> QED BY <1>2, <1>3

----------------------------------------------------------------------------
(* Writing a column.                                                       *)

\* The blocks of a column mean the rows of its pieces.
BlocksWell(so, bytes, pieces, n) ==
    /\ Extends(bytes, so.bytes) /\ DOMAIN so.chunks = 1..n /\ Len(so.chunks) = n
    /\ \A i \in 1..n : Means(so.chunks[i], Rows(pieces[i])) /\ KidsBacked(so.chunks[i], so.bytes, {})
\* The blocks written stand for the pieces.
LEMMA BlocksWritten ==
    ASSUME NEW bytes, IsBytes(bytes), NEW pieces, NEW n \in Nat, n = Len(pieces),
           \A i \in 1..n : IsArray(pieces[i]), NEW codec, NEW o
    PROVE  BlocksWell(WriteBlocks(bytes, pieces, codec, o), bytes, pieces, n)
<1>2. PICK f : BlocksDone(f, bytes, pieces, codec, o, n) /\ WriteBlocks(bytes, pieces, codec, o) = f[n]
      BY WriteBlocksIs
<1>3. /\ f[0] = Nothing(bytes)
      /\ \A i \in 1..n : f[i] = Then(f[i - 1], WriteChunk(f[i - 1].bytes, EncodeColumn(pieces[i], o), codec, <<>>))
  <2>1. BlocksDone(f, bytes, pieces, codec, o, n)
        BY <1>2
  <2>2. BlocksRun(f, bytes, pieces, codec, o, n)
        BY <2>1, BlocksDoneStep
  <2> QED BY <2>2 DEF BlocksRun
<1> DEFINE w == [i \in 1..n |-> WriteChunk(f[i - 1].bytes, EncodeColumn(pieces[i], o), codec, <<>>)]
<1>4. \A i \in 1..n : /\ f[i] = Then(f[i - 1], w[i])
                      /\ w[i] = WriteChunk(f[i - 1].bytes, EncodeColumn(pieces[i], o), codec, <<>>)
      BY <1>3
<1> HIDE DEF w
<1>5. ASSUME NEW i \in 1..n, IsBytes(f[i - 1].bytes)
      PROVE  ChunkWell(w[i], f[i - 1].bytes, <<>>, Rows(pieces[i]))
  <2> DEFINE b == f[i - 1].bytes
             p == pieces[i]
             e == EncodeColumn(p, o)
             rows == Rows(p)
  <2>1. IsArray(p) /\ IsBytes(b)
        BY <1>5
  <2> HIDE DEF p, b
  <2>2. EncMeans(e, rows)
        BY <2>1, EncodeColumnIs
  <2> HIDE DEF e, rows
  <2>3. ChunkWell(WriteChunk(b, e, codec, <<>>), b, <<>>, rows)
        BY <2>1, <2>2, NoSide, WriteChunkIs
  <2>4. w[i] = WriteChunk(b, e, codec, <<>>)
        BY <1>4 DEF b, e, p
  <2> QED BY <2>3, <2>4 DEF b, rows, p
<1>6. \A i \in 0..n : Looped(f[i], bytes, w, i)
  <2>1. \A i \in 1..n : IsBytes(f[i - 1].bytes) => Extends(f[i - 1].bytes, w[i].bytes)
        BY <1>5 DEF ChunkWell
  <2> QED BY <1>3, <1>4, <2>1, LoopIs
<1>7. Looped(f[n], bytes, w, n)
      BY <1>6
<1>8. ASSUME NEW i \in 1..n
      PROVE  Means(f[n].chunks[i], Rows(pieces[i])) /\ KidsBacked(f[n].chunks[i], f[n].bytes, {})
  <2>1. i - 1 \in 0..n
        OBVIOUS
  <2>2. Looped(f[i - 1], bytes, w, i - 1)
        BY <1>6, <2>1
  <2>3. IsBytes(f[i - 1].bytes)
        BY <2>2 DEF Looped, Extends
  <2>4. ChunkWell(w[i], f[i - 1].bytes, <<>>, Rows(pieces[i]))
        BY <1>5, <2>3
  <2>5. Means(w[i].chunk, Rows(pieces[i])) /\ KidsBacked(w[i].chunk, w[i].bytes, {})
        BY <2>4 DEF ChunkWell
  <2>6. f[n].chunks[i] = w[i].chunk /\ Extends(w[i].bytes, f[n].bytes)
        BY <1>7 DEF Looped
  <2> QED BY <2>5, <2>6, KidsBackedStays
<1> QED BY <1>2, <1>7, <1>8 DEF BlocksWell, Looped

\* The page bounds a column holds.
ColumnZones(chunk, rows, size) ==
    \/ BuffersOf(chunk, "zones") = {}
    \/ \E z \in Nat : /\ BuffersOf(chunk, "zones") = {z} /\ z \in DOMAIN chunk.buffers
                      /\ IsZones(chunk.buffers[z].checksum.cells, rows, size)
\* The zones of a column as they are read back.
LEMMA ZonesHeld ==
    ASSUME NEW chunk, NEW side, NEW rows, NEW size, ZonesAre(chunk, side), SideWell(side, rows, size)
    PROVE  ColumnZones(chunk, rows, size)
<1>1. CASE side = <<>> /\ BuffersOf(chunk, "zones") = {}
      BY <1>1 DEF ColumnZones
<1>2. CASE \E z \in Nat : /\ Len(side) = 1 /\ BuffersOf(chunk, "zones") = {z}
                          /\ z \in DOMAIN chunk.buffers /\ chunk.buffers[z].checksum.cells = side[1].cells
  <2>1. PICK z \in Nat : /\ Len(side) = 1 /\ BuffersOf(chunk, "zones") = {z}
                          /\ z \in DOMAIN chunk.buffers /\ chunk.buffers[z].checksum.cells = side[1].cells
        BY <1>2
  <2>2. side # <<>>
    <3> SUFFICES ASSUME side = <<>> PROVE FALSE
        OBVIOUS
    <3>1. Len(side) = 0 /\ Len(side) = 1
          BY <2>1, NoSide
    <3> QED BY <3>1
  <2>3. IsZones(side[1].cells, rows, size)
        BY <2>2 DEF SideWell
  <2> QED BY <2>1, <2>3 DEF ColumnZones
<1> QED BY <1>1, <1>2 DEF ZonesAre

ColumnWell(w, bytes, rows, size) ==
    /\ Extends(bytes, w.bytes) /\ ColumnMeans(w.chunk, rows) /\ ColumnBacked(w.chunk, w.bytes, {})
    /\ ColumnZones(w.chunk, rows, size)

\* The buffers of a column are still found after more were appended.
LEMMA ColumnBackedStays ==
    ASSUME NEW b, NEW c, Extends(b, c), NEW chunk, NEW D, ColumnBacked(chunk, b, D)
    PROVE  ColumnBacked(chunk, c, D)
BY KidsBackedStays DEF ColumnBacked

\* A column in one chunk.
LEMMA WholeColumn ==
    ASSUME NEW bytes, IsBytes(bytes), NEW a, IsArray(a), NEW codec, NEW o, o.pageRows \in Nat
    PROVE  ColumnWell(WriteChunk(bytes, EncodeColumn(a, o), codec, PageZones(a, o)), bytes, Rows(a), o.pageRows)
<1> DEFINE e == EncodeColumn(a, o)
           rows == Rows(a)
           side == PageZones(a, o)
           w == WriteChunk(bytes, e, codec, side)
<1>1. EncMeans(e, rows)
      BY EncodeColumnIs
<1>2. SideWell(side, rows, o.pageRows)
      BY ZonesAreBounds
<1> HIDE DEF e, rows, side
<1>3. ZoneSide(side) /\ Len(side) \in {0, 1}
      BY <1>2 DEF SideWell
<1>4. ChunkWell(w, bytes, side, rows)
      BY <1>1, <1>3, WriteChunkIs
<1> HIDE DEF w
<1>5. /\ Extends(bytes, w.bytes) /\ Means(w.chunk, rows) /\ KidsBacked(w.chunk, w.bytes, {})
      /\ w.chunk.blocks = <<>> /\ ZonesAre(w.chunk, side)
      BY <1>4 DEF ChunkWell
<1>6. ColumnZones(w.chunk, rows, o.pageRows)
      BY <1>2, <1>5, ZonesHeld
<1>7. ColumnMeans(w.chunk, rows)
      BY <1>5 DEF ColumnMeans
<1>8. ColumnBacked(w.chunk, w.bytes, {})
      BY <1>5 DEF ColumnBacked
<1>9. ColumnWell(w, bytes, rows, o.pageRows)
      BY <1>5, <1>6, <1>7, <1>8 DEF ColumnWell
<1> QED BY <1>9 DEF w, rows, e, side

\* The chunk above the blocks.
LEMMA OuterIs ==
    ASSUME NEW outer, NEW bytes, NEW e, NEW side, Wrote(outer, bytes, e, side), NEW blocks, NEW size, NEW codec
    PROVE  LET f == OuterChunk(outer, blocks, size, codec).chunk
           IN  /\ HoldsBuffers(f, e, side) /\ f.blockRows = size /\ f.blocks = blocks
               /\ OuterChunk(outer, blocks, size, codec).bytes = outer.bytes
<1> DEFINE g == outer.chunk
           top == IF \E i \in DOMAIN blocks : blocks[i].codec # "none" THEN codec ELSE "none"
           w == OuterChunk(outer, blocks, size, codec)
           f == w.chunk
<1>1. HoldsBuffers(g, e, side)
      BY WroteHolds
<1>2. w.bytes = outer.bytes /\ f = [g EXCEPT !.blockRows = size, !.blocks = blocks, !.codec = top]
      BY DEF OuterChunk
<1>3. g = Chunk(e, g.codec, g.buffers)
      BY DEF Wrote
<1> HIDE DEF top, f, w
<1>4. f.len = g.len /\ f.offset = g.offset /\ f.buffers = g.buffers /\ f.blockRows = size /\ f.blocks = blocks
  <2> DEFINE c == g.codec
             bufs == g.buffers
             h == [encoding |-> e.encoding, len |-> e.len, offset |-> e.offset, codec |-> c,
                   buffers |-> bufs, children |-> <<>>, blockRows |-> 0, blocks |-> <<>>]
  <2>1. g = h
        BY <1>3 DEF Chunk
  <2> HIDE DEF c, bufs, g
  <2>2. f = [h EXCEPT !.blockRows = size, !.blocks = blocks, !.codec = top]
        BY <1>2, <2>1
  <2>3. f.len = h.len /\ f.offset = h.offset /\ f.buffers = h.buffers /\ f.blockRows = size /\ f.blocks = blocks
        BY <2>2
  <2> QED BY <2>1, <2>3
<1> HIDE DEF g
<1>5. HoldsBuffers(f, e, side)
      BY <1>1, <1>4 DEF HoldsBuffers
<1> QED BY <1>2, <1>4, <1>5 DEF f, w

\* A column cut into blocks.
LEMMA CutColumn ==
    ASSUME NEW bytes, IsBytes(bytes), NEW a, IsArray(a), NEW codec, NEW o, o.pageRows \in Nat,
           o.blockRows \in Nat \ {0}, a.len > o.blockRows
    PROVE  ColumnWell(WriteOuter(WriteBlocks(bytes, Pieces(a, o.blockRows), codec, o), a, codec, o),
                      bytes, Rows(a), o.pageRows)
<1> DEFINE rows == Rows(a)
           size == o.blockRows
           p == Pieces(a, size)
           n == Len(p)
           so == WriteBlocks(bytes, p, codec, o)
           side == PageZones(a, o)
           e == Describing(a)
           outer == WriteBuffers(so.bytes, e, "none", side)
           w == WriteOuter(so, a, codec, o)
           f == w.chunk
<1>1. PiecesWell(p, rows, size)
      BY PiecesAre
<1>2. rows \in Seq(Cell) /\ Len(rows) = a.len /\ a.len \in Nat
      BY RowsOf DEF IsArray, ArraySet
<1>3. SideWell(side, rows, o.pageRows)
      BY ZonesAreBounds
<1>4. w = OuterChunk(outer, so.chunks, size, codec)
      BY DEF WriteOuter
<1>5. e.len = a.len /\ e.buffers = <<>>
      BY DEF Describing
<1> HIDE DEF rows, p, side, e
<1>6. n = CeilDiv(Len(rows), size) /\ n \in Nat /\ n > 0
  <2>1. CeilDiv(a.len, size) \in Nat /\ (a.len > 0 => CeilDiv(a.len, size) > 0)
        BY <1>2, CeilDivBounds
  <2>2. a.len > 0
        BY <1>2
  <2> QED BY <1>1, <1>2, <2>1, <2>2 DEF PiecesWell
<1>7. \A i \in 1..n : IsArray(p[i]) /\ Rows(p[i]) = Cut(rows, size, i)
      BY <1>1 DEF PiecesWell
<1>8. BlocksWell(so, bytes, p, n)
  <2>1. n = Len(p) /\ \A i \in 1..n : IsArray(p[i])
        BY <1>7
  <2> HIDE DEF n
  <2> QED BY <1>6, <2>1, BlocksWritten
<1> HIDE DEF so, n
<1>9. IsBytes(so.bytes) /\ Extends(bytes, so.bytes)
      BY <1>8 DEF BlocksWell, Extends
<1>10. Wrote(outer, so.bytes, e, side)
  <2>1. e.buffers \in Seq(BufferSet(OwnRoles))
        BY <1>5
  <2>2. side \in Seq(BufferSet({"zones"}))
        BY <1>3 DEF SideWell, ZoneSide
  <2> QED BY <1>9, <2>1, <2>2, WriteBuffersIs
<1> HIDE DEF outer
<1>11. HoldsBuffers(f, e, side) /\ f.blockRows = size /\ f.blocks = so.chunks /\ w.bytes = outer.bytes
      BY <1>4, <1>10, OuterIs
<1> HIDE DEF w, f
<1>12. Extends(so.bytes, w.bytes)
      BY <1>10, <1>11 DEF Wrote
<1>13. Extends(bytes, w.bytes)
      BY <1>9, <1>12, ExtendsTransitive
<1>14. DOMAIN f.blocks = 1..n /\ Len(f.blocks) = n /\ f.blocks # <<>>
  <2>1. DOMAIN f.blocks = 1..n /\ Len(f.blocks) = n
        BY <1>8, <1>11 DEF BlocksWell
  <2> QED BY <1>6, <2>1
<1>15. \A i \in 1..n : Means(f.blocks[i], Cut(rows, size, i)) /\ KidsBacked(f.blocks[i], w.bytes, {})
  <2> TAKE i \in 1..n
  <2>1. Means(so.chunks[i], Rows(p[i])) /\ KidsBacked(so.chunks[i], so.bytes, {})
        BY <1>8 DEF BlocksWell
  <2> QED BY <1>7, <1>11, <1>12, <2>1, KidsBackedStays
<1>16. BlockMeans(f, rows)
  <2>1. f.len = Len(rows)
        BY <1>2, <1>5, <1>11 DEF HoldsBuffers
  <2>2. f.blockRows \in Nat \ {0}
        BY <1>11
  <2> QED BY <1>2, <1>6, <1>11, <1>14, <1>15, <2>1, <2>2 DEF BlockMeans, Cut
<1>17. ColumnMeans(f, rows)
      BY <1>14, <1>16 DEF ColumnMeans
<1>18. ColumnBacked(f, w.bytes, {})
      BY <1>14, <1>15 DEF ColumnBacked
<1>19. ColumnZones(f, rows, o.pageRows)
  <2>1. e.buffers \in Seq(BufferSet(OwnRoles))
        BY <1>5
  <2>2. ZoneSide(side) /\ Len(side) \in {0, 1}
        BY <1>3 DEF SideWell
  <2>3. ZonesAre(f, side)
        BY <1>11, <2>1, <2>2, HeldZones
  <2> QED BY <1>3, <2>3, ZonesHeld
<1>20. ColumnWell(w, bytes, rows, o.pageRows)
      BY <1>13, <1>17, <1>18, <1>19 DEF ColumnWell, f
<1> QED BY <1>20 DEF w, rows, so, p

\* Either way.
LEMMA WriteColumnIs ==
    ASSUME NEW bytes, IsBytes(bytes), NEW a, IsArray(a), NEW o, o.pageRows \in Nat, o.blockRows \in Nat
    PROVE  ColumnWell(WriteColumn(bytes, a, o), bytes, Rows(a), o.pageRows)
<1> DEFINE codec == CodecFor(o, a.type)
<1> HIDE DEF codec
<1>1. WriteColumn(bytes, a, o) = WriteCoded(bytes, a, codec, o)
      BY DEF WriteColumn, codec
<1>2. CASE BlocksWanted(a, codec, o)
  <2>1. o.blockRows \in Nat \ {0} /\ a.len > o.blockRows
        BY <1>2 DEF BlocksWanted
  <2>2. WriteColumn(bytes, a, o)
        = WriteOuter(WriteBlocks(bytes, Pieces(a, o.blockRows), codec, o), a, codec, o)
        BY <1>1, <1>2 DEF WriteCoded
  <2> QED BY <2>1, <2>2, CutColumn
<1>3. CASE ~BlocksWanted(a, codec, o)
  <2>1. WriteColumn(bytes, a, o) = WriteChunk(bytes, EncodeColumn(a, o), codec, PageZones(a, o))
        BY <1>1, <1>3 DEF WriteCoded
  <2> QED BY <2>1, WholeColumn
<1> QED BY <1>2, <1>3

----------------------------------------------------------------------------
(* Writing a segment.                                                      *)

\* Every column means its rows and is all there.
ColumnsWell(so, arrays, n, size) ==
    /\ IsBytes(so.bytes) /\ DOMAIN so.chunks = 1..n /\ Len(so.chunks) = n
    /\ \A i \in 1..n : /\ ColumnMeans(so.chunks[i], Rows(arrays[i]))
                       /\ ColumnBacked(so.chunks[i], so.bytes, {})
                       /\ ColumnZones(so.chunks[i], Rows(arrays[i]), size)
\* The columns of a segment, one after the other.
LEMMA ColumnsWritten ==
    ASSUME NEW arrays, NEW n \in Nat, n = Len(arrays), \A i \in 1..n : IsArray(arrays[i]),
           NEW o, o.pageRows \in Nat, o.blockRows \in Nat
    PROVE  ColumnsWell(WriteColumns(arrays, o), arrays, n, o.pageRows)
<1>1. IsBytes(<<>>)
  <2>1. <<>> \in Seq({}) /\ Len(<<>>) = 0 /\ DOMAIN <<>> = 1..0 /\ 1..0 = {}
        OBVIOUS
  <2> QED BY <2>1 DEF IsBytes, IsList
<1>2. PICK f : ColumnsDone(f, arrays, o, n) /\ WriteColumns(arrays, o) = f[n]
      BY WriteColumnsIs
<1>3. /\ f[0] = Nothing(<<>>)
      /\ \A i \in 1..n : f[i] = Then(f[i - 1], WriteColumn(f[i - 1].bytes, arrays[i], o))
  <2>1. ColumnsDone(f, arrays, o, n)
        BY <1>2
  <2>2. ColumnsRun(f, arrays, o, n)
        BY <2>1, ColumnsDoneStep
  <2> QED BY <2>2 DEF ColumnsRun
<1> DEFINE w == [i \in 1..n |-> WriteColumn(f[i - 1].bytes, arrays[i], o)]
<1>4. \A i \in 1..n : f[i] = Then(f[i - 1], w[i]) /\ w[i] = WriteColumn(f[i - 1].bytes, arrays[i], o)
      BY <1>3
<1> HIDE DEF w
<1>5. ASSUME NEW i \in 1..n, IsBytes(f[i - 1].bytes)
      PROVE  ColumnWell(w[i], f[i - 1].bytes, Rows(arrays[i]), o.pageRows)
  <2> DEFINE b == f[i - 1].bytes
             a == arrays[i]
  <2>1. IsArray(a) /\ IsBytes(b)
        BY <1>5
  <2> HIDE DEF a, b
  <2>2. ColumnWell(WriteColumn(b, a, o), b, Rows(a), o.pageRows)
        BY <2>1, WriteColumnIs
  <2>3. w[i] = WriteColumn(b, a, o)
        BY <1>4 DEF a, b
  <2> QED BY <2>2, <2>3 DEF a, b
<1>6. \A i \in 0..n : Looped(f[i], <<>>, w, i)
  <2>1. \A i \in 1..n : IsBytes(f[i - 1].bytes) => Extends(f[i - 1].bytes, w[i].bytes)
        BY <1>5 DEF ColumnWell
  <2> QED BY <1>1, <1>3, <1>4, <2>1, LoopIs
<1>7. Looped(f[n], <<>>, w, n)
      BY <1>6
<1>8. ASSUME NEW i \in 1..n
      PROVE  /\ ColumnMeans(f[n].chunks[i], Rows(arrays[i]))
             /\ ColumnBacked(f[n].chunks[i], f[n].bytes, {})
             /\ ColumnZones(f[n].chunks[i], Rows(arrays[i]), o.pageRows)
  <2>1. i - 1 \in 0..n
        OBVIOUS
  <2>2. Looped(f[i - 1], <<>>, w, i - 1)
        BY <1>6, <2>1
  <2>3. IsBytes(f[i - 1].bytes)
        BY <2>2 DEF Looped, Extends
  <2>4. ColumnWell(w[i], f[i - 1].bytes, Rows(arrays[i]), o.pageRows)
        BY <1>5, <2>3
  <2>5. /\ ColumnMeans(w[i].chunk, Rows(arrays[i])) /\ ColumnBacked(w[i].chunk, w[i].bytes, {})
        /\ ColumnZones(w[i].chunk, Rows(arrays[i]), o.pageRows)
        BY <2>4 DEF ColumnWell
  <2>6. f[n].chunks[i] = w[i].chunk /\ Extends(w[i].bytes, f[n].bytes)
        BY <1>7 DEF Looped
  <2> QED BY <2>5, <2>6, ColumnBackedStays
<1> QED BY <1>2, <1>7, <1>8 DEF ColumnsWell, Looped, Extends

\* The values of a column.
ColumnOf(tuples, c) == [k \in 1..Len(tuples) |-> tuples[k][c]]
Column(c) == [t \in Row |-> t[c]]

\* The values of a column are cells.
LEMMA ValueCell == Value \subseteq Cell
BY ArrowAssumption DEF Value, Cell

\* A column of a row as a function of the row.
LEMMA ColumnType ==
    ASSUME NEW c \in DOMAIN Types
    PROVE  Column(c) \in [Row -> Value] /\ \A t \in Row : Column(c)[t] = t[c]
BY DEF Column, Row

\* A column of rows is a list of cells.
LEMMA ColumnOver ==
    ASSUME NEW c \in DOMAIN Types, NEW s \in Seq(Row)
    PROVE  ColumnOf(s, c) = Over(Column(c), s) /\ ColumnOf(s, c) \in Seq(Cell) /\ Len(ColumnOf(s, c)) = Len(s)
<1> DEFINE n == Len(s)
<1>1. n \in Nat /\ \A k \in 1..n : s[k] \in Row
      OBVIOUS
<1>2. \A k \in 1..n : Column(c)[s[k]] = s[k][c] /\ s[k][c] \in Cell
  <2> TAKE k \in 1..n
  <2>1. s[k] \in Row
        BY <1>1
  <2>2. s[k][c] \in Value
        BY <2>1 DEF Row
  <2> QED BY <2>1, <2>2, ColumnType, ValueCell
<1>3. ColumnOf(s, c) = Over(Column(c), s)
      BY <1>2 DEF ColumnOf, Over
<1>4. ColumnOf(s, c) = [k \in 1..n |-> s[k][c]]
      BY DEF ColumnOf
<1> HIDE DEF n
<1>5. ColumnOf(s, c) \in Seq(Cell) /\ Len(ColumnOf(s, c)) = n
      BY <1>1, <1>2, <1>4
<1> QED BY <1>3, <1>5 DEF n

\* A column of a batch is an array with the values of its rows.
LEMMA BatchColumn ==
    ASSUME NEW b \in BatchSet, NEW c \in DOMAIN Types
    PROVE  IsArray(b[c]) /\ Rows(b[c]) = ColumnOf(Tuples(b), c)
<1>1. /\ NumRows(b) \in Nat
      /\ Rows(b[c]) \in Seq(Value) /\ Len(Rows(b[c])) = NumRows(b)
      /\ b[c].off + b[c].len <= Len(b[c].held)
      BY ColumnRowsType
<1>2. /\ Tuples(b) \in Seq(Row) /\ Len(Tuples(b)) = NumRows(b)
      /\ \A r \in 1..NumRows(b) : Tuples(b)[r][c] = Rows(b[c])[r]
      BY TuplesType
<1>3. b[c] \in [type : DataTypes, held : Seq(Value), off : Nat, len : Nat]
      BY DEF BatchSet
<1>4. b[c] \in ArraySet
      BY <1>3, ValueCell DEF ArraySet
<1>5. Rows(b[c]) = [r \in 1..NumRows(b) |-> Rows(b[c])[r]]
      BY <1>1
<1>6. Rows(b[c]) = ColumnOf(Tuples(b), c)
      BY <1>2, <1>5 DEF ColumnOf
<1> QED BY <1>1, <1>4, <1>6 DEF IsArray

\* concat_columns has the rows of the group, column by column.
LEMMA ConcatIs ==
    ASSUME NEW group \in Seq(BatchSet), NEW c \in DOMAIN Types
    PROVE  IsArray(ConcatColumns(group)[c]) /\ Rows(ConcatColumns(group)[c]) = ColumnOf(AllTuples(group), c)
<1> DEFINE a == ConcatColumns(group)[c]
           n == Len(group)
<1>1. n \in Nat /\ DOMAIN group = 1..n /\ \A i \in 1..n : group[i] \in BatchSet
      OBVIOUS
<1>2. CASE n = 1
  <2> DEFINE b == group[1]
  <2>1. a = b[c]
        BY <1>2 DEF ConcatColumns
  <2>2. b \in BatchSet /\ group = <<b>>
        BY <1>1, <1>2
  <2> HIDE DEF b, a
  <2>3. AllTuples(group) = Tuples(b)
        BY <2>2, AllTuplesOne
  <2>4. IsArray(b[c]) /\ Rows(b[c]) = ColumnOf(Tuples(b), c)
        BY <2>2, BatchColumn
  <2> QED BY <2>1, <2>3, <2>4 DEF a
<1>3. CASE n # 1
  <2> DEFINE s == Over(TuplesFn, group)
             g == Column(c)
             arrays == [i \in 1..n |-> group[i][c]]
             parts == [i \in 1..n |-> Rows(arrays[i])]
             v == FlattenSeq(parts)
  <2>1. a = Concat(Types[c], [b \in DOMAIN group |-> group[b][c]])
        BY <1>3 DEF ConcatColumns
  <2>2. a = Array(Types[c], v)
        BY <1>1, <2>1 DEF Concat
  <2>3. AllTuples(group) = FlattenSeq(s) /\ s \in Seq(Seq(Row)) /\ AllTuples(group) \in Seq(Row)
        BY AllTuplesIs
  <2>4. Len(s) = n /\ \A i \in 1..n : s[i] = Tuples(group[i])
    <3>1. s = [i \in 1..n |-> TuplesFn[group[i]]]
          BY DEF Over
    <3>2. \A i \in 1..n : s[i] = Tuples(group[i])
          BY <1>1, <3>1, TuplesFnType
    <3> QED BY <1>1, <3>1, <3>2
  <2>5. \A i \in 1..n : parts[i] = Over(g, s[i])
    <3> TAKE i \in 1..n
    <3>1. group[i] \in BatchSet
          BY <1>1
    <3>2. Rows(group[i][c]) = ColumnOf(Tuples(group[i]), c) /\ Tuples(group[i]) \in Seq(Row)
          BY <3>1, BatchColumn, TuplesType
    <3>3. ColumnOf(Tuples(group[i]), c) = Over(g, Tuples(group[i]))
          BY <3>2, ColumnOver
    <3> QED BY <2>4, <3>2, <3>3
  <2> HIDE DEF s, g, a
  <2>6. parts = [i \in 1..Len(s) |-> Over(g, s[i])]
        BY <2>4, <2>5
  <2>7. g \in [Row -> Value]
        BY ColumnType DEF g
  <2> HIDE DEF parts
  <2>8. v = Over(g, FlattenSeq(s))
        BY <2>3, <2>6, <2>7, FlattenOver
  <2>9. v = ColumnOf(AllTuples(group), c) /\ v \in Seq(Cell)
        BY <2>3, <2>8, ColumnOver DEF g
  <2> HIDE DEF v
  <2>10. Types[c] \in DataTypes \cup {"index"}
        BY ArrowAssumption
  <2>11. IsArray(a) /\ Rows(a) = v
        BY <2>2, <2>9, <2>10, FreshArray
  <2> QED BY <2>9, <2>11 DEF a
<1> QED BY <1>2, <1>3

\* A segment as it was built: what it was given, column by column.
SegmentHolds(seg, tuples, D) ==
    /\ IsBytes(seg.bytes) /\ Len(seg.columns) = Len(Types) /\ seg.rowCount = Len(tuples)
    /\ \A c \in DOMAIN Types :
        /\ ColumnMeans(seg.columns[c], ColumnOf(tuples, c))
        /\ ColumnBacked(seg.columns[c], seg.bytes, D)
        /\ ColumnZones(seg.columns[c], ColumnOf(tuples, c), seg.pageRows)
\* build_segment: the segment holds the rows of its group, whatever the
\* options.
LEMMA SegmentBuilt ==
    ASSUME NEW group \in Seq(BatchSet), NEW o, o.pageRows \in Nat, o.blockRows \in Nat
    PROVE  SegmentHolds(BuildSegment(group, o), AllTuples(group), {})
<1> DEFINE arrays == ConcatColumns(group)
           n == Len(Types)
           tuples == AllTuples(group)
           built == WriteColumns(arrays, o)
           seg == BuildSegment(group, o)
           rows == TotalRows(group)
<1>1. DOMAIN Types = 1..n /\ n \in Nat \ {0}
      BY FirstColumn
<1>2. arrays = [c \in 1..n |-> arrays[c]] /\ DOMAIN arrays = 1..n
      BY <1>1 DEF ConcatColumns
<1>3. \A c \in 1..n : IsArray(arrays[c]) /\ Rows(arrays[c]) = ColumnOf(tuples, c)
      BY <1>1, ConcatIs
<1>4. seg = SegmentMeta(built, rows, o)
      BY DEF BuildSegment
<1>5. tuples \in Seq(Row) /\ rows = Len(tuples) /\ rows \in Nat
      BY AllTuplesIs
<1> HIDE DEF arrays, n, tuples
<1>6. n = Len(arrays)
      BY <1>1, <1>2, ListOf
<1>7. ColumnsWell(built, arrays, n, o.pageRows)
      BY <1>1, <1>3, <1>6, ColumnsWritten
<1> HIDE DEF built, rows
<1>8. /\ seg.bytes = built.bytes /\ seg.columns = built.chunks /\ seg.rowCount = rows
      /\ seg.pageRows = IF PageCount(rows, o.pageRows) > 1 THEN o.pageRows ELSE 0
      BY <1>4 DEF SegmentMeta
<1> HIDE DEF seg
<1>9. ASSUME NEW c \in DOMAIN Types
      PROVE  /\ ColumnMeans(seg.columns[c], ColumnOf(tuples, c)) /\ ColumnBacked(seg.columns[c], seg.bytes, {})
             /\ ColumnZones(seg.columns[c], ColumnOf(tuples, c), seg.pageRows)
  <2> DEFINE v == ColumnOf(tuples, c)
             chunk == seg.columns[c]
  <2>1. /\ ColumnMeans(chunk, v) /\ ColumnBacked(chunk, seg.bytes, {})
        /\ ColumnZones(chunk, v, o.pageRows)
        BY <1>1, <1>3, <1>7, <1>8 DEF ColumnsWell
  <2>2. Len(v) = rows
        BY <1>5, ColumnOver
  <2> HIDE DEF v, chunk
  <2>3. \A z : IsZones(z, v, o.pageRows) => PageCount(rows, o.pageRows) > 1
        BY <2>2 DEF IsZones, PageCount, DivUp, CeilDiv
  <2>4. ColumnZones(chunk, v, seg.pageRows)
    <3>1. CASE BuffersOf(chunk, "zones") = {}
          BY <3>1 DEF ColumnZones
    <3>2. CASE BuffersOf(chunk, "zones") # {}
      <4>1. PICK z \in Nat : /\ BuffersOf(chunk, "zones") = {z} /\ z \in DOMAIN chunk.buffers
                             /\ IsZones(chunk.buffers[z].checksum.cells, v, o.pageRows)
            BY <2>1, <3>2 DEF ColumnZones
      <4>2. seg.pageRows = o.pageRows
            BY <1>8, <2>3, <4>1
      <4> QED BY <2>1, <4>2
    <3> QED BY <3>1, <3>2
  <2> QED BY <2>1, <2>4 DEF v, chunk
<1>10. SegmentHolds(seg, tuples, {})
      BY <1>5, <1>7, <1>8, <1>9 DEF SegmentHolds, ColumnsWell, n
<1> QED BY <1>10 DEF seg, tuples

----------------------------------------------------------------------------
(* The rows in segments and in the memtable.                               *)

\* The rows inserted with a sequence number below `from` and not deleted, and
\* all of them.
Slots == Row \cup {<<>>}
Kept(tr, from) == Picked(tr, {s \in 1..Len(tr) : s < from /\ tr[s] # <<>>})
Everything(tr) == Picked(tr, {s \in 1..Len(tr) : tr[s] # <<>>})

\* What left the memtable and what it still holds is everything.
LEMMA EverythingSplit ==
    ASSUME NEW m, NEW from, NEW tr, MemWell(m, from), Agrees(m, from, tr)
    PROVE  /\ Everything(tr) = Kept(tr, from) \o AllTuples(Batches(m))
           /\ Kept(tr, from) \in Seq(Slots) /\ AllTuples(Batches(m)) \in Seq(Slots)
<1> DEFINE n == Len(tr)
           A == {s \in 1..n : s < from /\ tr[s] # <<>>}
           B == {s \in 1..n : s >= from /\ tr[s] # <<>>}
           C == {s \in 1..n : tr[s] # <<>>}
<1>1. tr \in Seq(Slots) /\ n \in Nat
      BY DEF Agrees, Slots
<1>2. from \in Nat
      BY DEF MemWell
<1>3. A \in SUBSET (1..n) /\ B \in SUBSET (1..n) /\ (\A a \in A : \A b \in B : a < b) /\ C = A \cup B
      BY <1>1, <1>2
<1>4. AllTuples(Batches(m)) = Picked(tr, B)
      BY LivePicked
<1>5. Kept(tr, from) = Picked(tr, A) /\ Everything(tr) = Picked(tr, C)
      BY DEF Kept, Everything
<1>6. n = Len(tr)
      OBVIOUS
<1> HIDE DEF A, B, C, n
<1>7. Picked(tr, A \cup B) = Picked(tr, A) \o Picked(tr, B)
      BY <1>1, <1>3, <1>6, PickedConcat
<1>8. Picked(tr, A) \in Seq(Slots) /\ Picked(tr, B) \in Seq(Slots)
      BY <1>1, <1>3, <1>6, PickedType
<1> QED BY <1>3, <1>4, <1>5, <1>7, <1>8

\* An insert or a delete leaves what was flushed alone, and a flush takes all.
LEMMA KeptSame ==
    ASSUME NEW tr, NEW new, NEW n \in Nat, NEW m \in Nat, n = Len(tr), m = Len(new), n <= m,
           NEW from \in Nat, from <= n + 1, \A s \in 1..n : s < from => tr[s] = new[s]
    PROVE  Kept(tr, from) = Kept(new, from)
<1> DEFINE A == {s \in 1..n : s < from /\ tr[s] # <<>>}
           B == {s \in 1..m : s < from /\ new[s] # <<>>}
<1>1. A = B
  <2>1. \A s \in 1..m : s < from => s \in 1..n
        OBVIOUS
  <2>2. \A s \in 1..n : s \in 1..m
        OBVIOUS
  <2> QED BY <2>1, <2>2
<1>2. A \subseteq 1..n /\ \A s \in A : tr[s] = new[s]
      OBVIOUS
<1>3. Kept(tr, from) = Picked(tr, A) /\ Kept(new, from) = Picked(new, B)
      BY DEF Kept
<1> HIDE DEF A, B
<1>4. Picked(tr, A) = Picked(new, A)
  <2>1. n \in Nat /\ A \subseteq 1..n /\ \A s \in A : tr[s] = new[s]
        BY <1>2
  <2> DEFINE p == Ascending(A)
  <2>2. Lists(p, A)
        BY <2>1, AscendingLists
  <2> HIDE DEF p
  <2>3. /\ Picked(tr, A) = [k \in 1..Len(p) |-> tr[p[k]]]
        /\ Picked(new, A) = [k \in 1..Len(p) |-> new[p[k]]]
        BY <2>2, PickedIs
  <2>4. \A k \in 1..Len(p) : p[k] \in A
        BY <2>2 DEF Lists
  <2> QED BY <2>1, <2>3, <2>4
<1> QED BY <1>1, <1>3, <1>4

\* Once everything was flushed, what was flushed is everything.
LEMMA KeptAll ==
    ASSUME NEW tr, NEW n \in Nat, n = Len(tr), NEW from, from = n + 1
    PROVE  Kept(tr, from) = Everything(tr)
<1>1. {s \in 1..n : s < from /\ tr[s] # <<>>} = {s \in 1..n : tr[s] # <<>>}
      OBVIOUS
<1> QED BY <1>1 DEF Kept, Everything

----------------------------------------------------------------------------
(* The segments.                                                           *)

IsSeg(seg) ==
    seg = [limit |-> seg.limit, flush |-> seg.flush, tuples |-> seg.tuples, bytes |-> seg.bytes,
           columns |-> seg.columns, rowCount |-> seg.rowCount, pageRows |-> seg.pageRows,
           blockRows |-> seg.blockRows]
SegWell(seg) ==
    /\ IsSeg(seg) /\ seg.tuples \in Seq(Row) /\ seg.limit \in Nat /\ seg.flush \in Nat
    /\ seg.rowCount \in Nat /\ seg.rowCount > 0 /\ (seg.limit = 0 \/ seg.rowCount <= seg.limit)
SegsWell(s) == IsList(s) /\ Len(s) \in Nat /\ DOMAIN s = 1..Len(s) /\ \A i \in 1..Len(s) : SegWell(s[i])

TuplesOf(s) == [i \in 1..Len(s) |-> s[i].tuples]
StoredIn(s) == FlattenSeq(TuplesOf(s))

\* The rows in segments are rows.
LEMMA TuplesOfType ==
    ASSUME NEW s, SegsWell(s)
    PROVE  TuplesOf(s) \in Seq(Seq(Row)) /\ StoredIn(s) \in Seq(Row) /\ StoredIn(s) \in Seq(Slots)
<1> DEFINE n == Len(s)
           T == Seq(Row)
<1>1. n \in Nat /\ \A i \in 1..n : s[i].tuples \in T
      BY DEF SegsWell, SegWell
<1>2. TuplesOf(s) = [i \in 1..n |-> s[i].tuples]
      BY DEF TuplesOf
<1> HIDE DEF n, T
<1>3. TuplesOf(s) \in Seq(T)
      BY <1>1, <1>2
<1>4. TuplesOf(s) \in Seq(Seq(Row))
      BY <1>3 DEF T
<1>5. StoredIn(s) \in Seq(Row)
      BY <1>4, FlattenType DEF StoredIn
<1>6. Row \subseteq Slots
      BY DEF Slots
<1>7. StoredIn(s) \in Seq(Slots)
      BY <1>5, <1>6
<1> QED BY <1>4, <1>5, <1>7

\* More segments after those there were.
LEMMA SegsConcat ==
    ASSUME NEW s, NEW t, SegsWell(s), SegsWell(t)
    PROVE  SegsWell(s \o t) /\ StoredIn(s \o t) = StoredIn(s) \o StoredIn(t)
<1> DEFINE u == s \o t
           k == Len(s)
           n == Len(t)
           a == TuplesOf(s)
           b == TuplesOf(t)
           c == TuplesOf(u)
<1>1. IsList(s) /\ IsList(t)
      BY DEF SegsWell
<1>2. Joins(u, s, t, k, n)
  <2>1. k = Len(s) /\ n = Len(t)
        OBVIOUS
  <2> HIDE DEF k, n
  <2> QED BY <1>1, <2>1, ListConcat
<1> HIDE DEF u, k, n
<1>3. /\ IsList(u) /\ k \in Nat /\ n \in Nat /\ Len(u) = k + n /\ DOMAIN u = 1..(k + n)
      /\ (\A i \in 1..k : u[i] = s[i]) /\ (\A i \in 1..n : u[k + i] = t[i])
      BY <1>2 DEF Joins
<1>4. ASSUME NEW i \in 1..(k + n), i > k PROVE i - k \in 1..n /\ k + (i - k) = i
      BY <1>3, <1>4
<1>5. ASSUME NEW i \in 1..(k + n) PROVE SegWell(u[i])
  <2>1. CASE i <= k
    <3>1. i \in 1..k
          BY <1>3, <2>1
    <3> QED BY <1>3, <3>1 DEF SegsWell, k
  <2>2. CASE i > k
    <3>1. i - k \in 1..n /\ k + (i - k) = i
          BY <1>4, <2>2
    <3>2. u[i] = t[i - k]
          BY <1>3, <3>1
    <3> QED BY <3>1, <3>2 DEF SegsWell, n
  <2> QED BY <1>3, <2>1, <2>2
<1>6. SegsWell(u)
      BY <1>3, <1>5 DEF SegsWell
<1>7. a \in Seq(Seq(Row)) /\ b \in Seq(Seq(Row)) /\ c \in Seq(Seq(Row))
      BY <1>6, TuplesOfType
<1>8. /\ Len(a) = k /\ Len(b) = n /\ Len(c) = k + n
      /\ (\A i \in 1..k : a[i] = s[i].tuples) /\ (\A i \in 1..n : b[i] = t[i].tuples)
      /\ (\A i \in 1..(k + n) : c[i] = u[i].tuples)
      BY <1>3 DEF TuplesOf, k, n
<1> HIDE DEF a, b, c
<1>9. a \o b = c
  <2> DEFINE T == Seq(Row)
             d == a \o b
  <2>0. IsList(a) /\ IsList(b)
        BY <1>7 DEF IsList
  <2>0b. Joins(d, a, b, k, n)
        BY <1>8, <2>0, ListConcat
  <2>1. a \in Seq(T) /\ b \in Seq(T) /\ c \in Seq(T)
        BY <1>7
  <2> HIDE DEF T
  <2>2. /\ d \in Seq(T) /\ Len(d) = k + n /\ (\A i \in 1..k : d[i] = a[i]) /\ (\A i \in 1..n : d[k + i] = b[i])
    <3>1. d \in Seq(T)
          BY ONLY <2>1, ConcatProperties DEF d
    <3>2. Len(d) = k + n /\ (\A i \in 1..k : d[i] = a[i]) /\ (\A i \in 1..n : d[k + i] = b[i])
          BY ONLY <2>0b DEF Joins
    <3> QED BY ONLY <3>1, <3>2
  <2> HIDE DEF d
  <2>3. ASSUME NEW i \in 1..(k + n) PROVE d[i] = c[i]
    <3>1. CASE i <= k
      <4>1. i \in 1..k
            BY <1>3, <3>1
      <4> QED BY <1>3, <1>8, <2>2, <4>1
    <3>2. CASE i > k
      <4>1. i - k \in 1..n /\ k + (i - k) = i
            BY <1>4, <3>2
      <4>2. d[i] = b[i - k] /\ u[i] = t[i - k]
            BY <1>3, <2>2, <4>1
      <4> QED BY <1>8, <4>1, <4>2
    <3> QED BY <1>3, <3>1, <3>2
  <2>4. k + n \in Nat
        BY <1>3
  <2>5. d = c
        BY <1>8, <2>1, <2>2, <2>3, SeqEqual
  <2> QED BY <2>5 DEF d
<1>10. FlattenSeq(a \o b) = FlattenSeq(a) \o FlattenSeq(b)
      BY <1>7, FlattenConcat
<1>11. StoredIn(u) = StoredIn(s) \o StoredIn(t)
      BY <1>9, <1>10 DEF StoredIn, a, b, c
<1> QED BY <1>6, <1>11 DEF u

----------------------------------------------------------------------------
(* What a flush adds.                                                      *)

\* The segment of one group, and those of all groups.
NewSeg(g, o, limit, fl) ==
    [limit |-> limit, flush |-> fl, tuples |-> AllTuples(g),
     bytes |-> BuildSegment(g, o).bytes, columns |-> BuildSegment(g, o).columns,
     rowCount |-> BuildSegment(g, o).rowCount, pageRows |-> BuildSegment(g, o).pageRows,
     blockRows |-> BuildSegment(g, o).blockRows]
SegmentsOf(G, o, limit, fl) == [g \in 1..Len(G) |-> NewSeg(G[g], o, limit, fl)]

\* A segment of the group, written by this flush, that holds what it was given.
Fresh(seg, g, fl) ==
    /\ SegWell(seg) /\ seg.flush = fl /\ seg.tuples = AllTuples(g)
    /\ SegmentHolds(seg, seg.tuples, {})

\* What is written of a group holds its rows.
LEMMA NewSegIs ==
    ASSUME NEW g \in Seq(BatchSet), NEW o, o.pageRows \in Nat, o.blockRows \in Nat,
           NEW limit \in Nat, NEW fl \in Nat, TotalRows(g) > 0, limit # 0 => TotalRows(g) <= limit
    PROVE  Fresh(NewSeg(g, o, limit, fl), g, fl)
<1> DEFINE b == BuildSegment(g, o)
           t == AllTuples(g)
           seg == NewSeg(g, o, limit, fl)
<1>1. SegmentHolds(b, t, {})
      BY SegmentBuilt
<1>2. t \in Seq(Row) /\ TotalRows(g) = Len(t) /\ TotalRows(g) \in Nat
      BY AllTuplesIs
<1>3. /\ seg = [limit |-> limit, flush |-> fl, tuples |-> t, bytes |-> b.bytes,
               columns |-> b.columns, rowCount |-> b.rowCount, pageRows |-> b.pageRows,
               blockRows |-> b.blockRows]
      BY DEF NewSeg
<1> HIDE DEF b, t, seg
<1>4. /\ seg.limit = limit /\ seg.flush = fl /\ seg.tuples = t /\ seg.bytes = b.bytes
      /\ seg.columns = b.columns /\ seg.rowCount = b.rowCount /\ seg.pageRows = b.pageRows
      /\ seg.blockRows = b.blockRows
      BY <1>3
<1>5. IsSeg(seg)
      BY <1>3, <1>4 DEF IsSeg
<1>6. b.rowCount = TotalRows(g)
      BY <1>1, <1>2 DEF SegmentHolds
<1>7. SegWell(seg)
      BY <1>2, <1>4, <1>5, <1>6 DEF SegWell
<1>8. SegmentHolds(seg, seg.tuples, {})
      BY <1>1, <1>4 DEF SegmentHolds
<1> QED BY <1>4, <1>7, <1>8 DEF Fresh, seg, t

\* All that a flush writes.
NewWell(s, G, fl) ==
    /\ SegsWell(s) /\ Len(s) = Len(G) /\ StoredIn(s) = GroupRows(G)
    /\ \A i \in 1..Len(G) : Fresh(s[i], G[i], fl)

\* The segments of the groups hold the groups' rows, in that order.
LEMMA NewSegs ==
    ASSUME NEW G \in Seq(Seq(BatchSet)), NEW o, o.pageRows \in Nat, o.blockRows \in Nat,
           NEW limit \in Nat, NEW fl \in Nat,
           \A g \in 1..Len(G) : TotalRows(G[g]) > 0 /\ (limit # 0 => TotalRows(G[g]) <= limit)
    PROVE  NewWell(SegmentsOf(G, o, limit, fl), G, fl)
<1> DEFINE s == SegmentsOf(G, o, limit, fl)
           n == Len(G)
           T == Seq(BatchSet)
<1>1. n \in Nat /\ (\A i \in 1..n : G[i] \in T) /\ s = [g \in 1..n |-> NewSeg(G[g], o, limit, fl)]
      BY DEF SegmentsOf
<1>2. ASSUME NEW i \in 1..n PROVE s[i] = NewSeg(G[i], o, limit, fl) /\ Fresh(s[i], G[i], fl)
  <2>1. s[i] = NewSeg(G[i], o, limit, fl)
        BY <1>1
  <2>2. G[i] \in Seq(BatchSet) /\ TotalRows(G[i]) > 0 /\ (limit # 0 => TotalRows(G[i]) <= limit)
        BY <1>1
  <2> HIDE DEF n, s
  <2> QED BY <2>1, <2>2, NewSegIs
<1>3. DOMAIN s = 1..n /\ s = [i \in 1..n |-> s[i]]
      BY <1>1
<1>n. n = Len(G)
      OBVIOUS
<1> HIDE DEF s, n
<1>4. IsList(s) /\ Len(s) = n
      BY <1>1, <1>3, ListOf
<1>5. SegsWell(s)
      BY <1>1, <1>2, <1>3, <1>4 DEF SegsWell, Fresh
<1>6. StoredIn(s) = GroupRows(G)
  <2>1. ASSUME NEW i \in 1..n PROVE s[i].tuples = AllFn[G[i]]
    <3>1. s[i].tuples = AllTuples(G[i]) /\ G[i] \in Seq(BatchSet)
          BY <1>1, <1>2 DEF Fresh
    <3> QED BY <3>1, AllFnType
  <2>2. TuplesOf(s) = [i \in 1..n |-> s[i].tuples]
        BY <1>4 DEF TuplesOf
  <2>3. Over(AllFn, G) = [i \in 1..n |-> AllFn[G[i]]]
        BY <1>n DEF Over
  <2>4. TuplesOf(s) = Over(AllFn, G)
        BY <2>1, <2>2, <2>3
  <2> QED BY <2>4 DEF StoredIn, GroupRows
<1> QED BY <1>2, <1>4, <1>5, <1>6, <1>n DEF NewWell, s

\* The groups of one flush are in the order of their keys, and no two flushes
\* have the same number.
Apart(a, b, columns) ==
    a.flush = b.flush =>
        \A x \in DOMAIN a.tuples : \A y \in DOMAIN b.tuples :
            KeyLeq(Key(a.tuples[x], columns), Key(b.tuples[y], columns))
Ordered(s, columns) ==
    columns # <<>> => \A i \in 1..(Len(s) - 1) : Apart(s[i], s[i + 1], columns)
Before(s, fl) == \A i \in 1..Len(s) : s[i].flush < fl

\* The new segments follow the old ones.
LEMMA OrderedConcat ==
    ASSUME NEW s, NEW t, NEW G, NEW columns, NEW fl \in Nat, SegsWell(s), NewWell(t, G, fl),
           Ordered(s, columns), Before(s, fl), columns # <<>> => Stepped(G, columns)
    PROVE  Ordered(s \o t, columns) /\ Before(s \o t, fl + 1)
<1> DEFINE u == s \o t
           k == Len(s)
           n == Len(t)
<1>1. IsList(s) /\ IsList(t)
      BY DEF SegsWell, NewWell
<1>2. Joins(u, s, t, k, n)
  <2>1. k = Len(s) /\ n = Len(t)
        OBVIOUS
  <2> HIDE DEF k, n
  <2> QED BY <1>1, <2>1, ListConcat
<1>e. k = Len(s) /\ n = Len(t) /\ n = Len(G)
      BY DEF NewWell
<1> HIDE DEF u, k, n
<1>3. /\ k \in Nat /\ n \in Nat /\ Len(u) = k + n
      /\ (\A i \in 1..k : u[i] = s[i]) /\ (\A i \in 1..n : u[k + i] = t[i])
      BY <1>2 DEF Joins
<1>4. ASSUME NEW i \in 1..(k + n) PROVE u[i].flush \in Nat /\ (i <= k => u[i] = s[i] /\ u[i].flush < fl)
                                       /\ (i > k => i - k \in 1..n /\ u[i] = t[i - k] /\ u[i].flush = fl)
  <2>1. CASE i <= k
    <3>1. i \in 1..k
          BY <1>3, <2>1
    <3>2. u[i] = s[i] /\ s[i].flush \in Nat /\ s[i].flush < fl
          BY <1>3, <1>e, <3>1 DEF Before, SegsWell, SegWell
    <3> QED BY <1>3, <2>1, <3>2
  <2>2. CASE i > k
    <3>1. i - k \in 1..n /\ k + (i - k) = i
          BY <1>3, <2>2
    <3>2. u[i] = t[i - k]
          BY <1>3, <3>1
    <3>3. t[i - k].flush = fl
          BY <1>e, <3>1 DEF NewWell, Fresh
    <3> QED BY <1>3, <2>2, <3>1, <3>2, <3>3
  <2> QED BY <1>3, <2>1, <2>2
<1>5. Before(u, fl + 1)
  <2>1. ASSUME NEW i \in 1..(k + n) PROVE u[i].flush < fl + 1
        BY <1>3, <1>4
  <2> QED BY <1>3, <2>1 DEF Before
<1>6. ASSUME columns # <<>>, NEW i \in 1..(k + n - 1) PROVE Apart(u[i], u[i + 1], columns)
  <2>1. i \in 1..(k + n) /\ i + 1 \in 1..(k + n)
        BY <1>3
  <2>2. CASE i + 1 <= k
    <3>1. i \in 1..(k - 1) /\ i <= k
          BY <1>3, <2>2
    <3>2. u[i] = s[i] /\ u[i + 1] = s[i + 1]
          BY <1>4, <2>1, <2>2, <3>1
    <3> QED BY <1>6, <1>e, <3>1, <3>2 DEF Ordered
  <2>3. CASE i = k
    <3>1. u[i].flush < fl /\ u[i + 1].flush = fl /\ u[i].flush \in Nat
          BY <1>3, <1>4, <2>1, <2>3
    <3> QED BY <3>1 DEF Apart
  <2>4. CASE i > k
    <3> DEFINE j == i - k
    <3>1. j \in 1..(n - 1) /\ j \in 1..n /\ j + 1 \in 1..n /\ (i + 1) - k = j + 1
          BY <1>3, <2>4
    <3>2. u[i] = t[j] /\ u[i + 1] = t[j + 1]
          BY <1>3, <1>4, <2>1, <2>4, <3>1
    <3>3. t[j].tuples = AllTuples(G[j]) /\ t[j + 1].tuples = AllTuples(G[j + 1])
          BY <1>e, <3>1 DEF NewWell, Fresh
    <3>4. Stepped(G, columns)
          BY <1>6
    <3> HIDE DEF j
    <3>5. \A x \in DOMAIN AllTuples(G[j]) : \A y \in DOMAIN AllTuples(G[j + 1]) :
            KeyLeq(Key(AllTuples(G[j])[x], columns), Key(AllTuples(G[j + 1])[y], columns))
          BY <1>e, <3>1, <3>4 DEF Stepped
    <3> QED BY <3>2, <3>3, <3>5 DEF Apart
  <2> QED BY <1>3, <2>1, <2>2, <2>3, <2>4
<1>7. Ordered(u, columns)
      BY <1>3, <1>6 DEF Ordered
<1> QED BY <1>5, <1>7 DEF u

\* The damaged buffers of segment i.
Hit(dmg, i) == {d.off : d \in {e \in dmg : e.seg = i}}
Held(s, dmg) == \A i \in 1..Len(s) : SegmentHolds(s[i], s[i].tuples, Hit(dmg, i))

\* New segments hold their rows, and the old ones still do.
LEMMA HeldConcat ==
    ASSUME NEW s, NEW t, NEW G, NEW fl, SegsWell(s), NewWell(t, G, fl), Held(s, {})
    PROVE  Held(s \o t, {})
<1> DEFINE u == s \o t
           k == Len(s)
           n == Len(t)
<1>1. IsList(s) /\ IsList(t)
      BY DEF SegsWell, NewWell
<1>2. Joins(u, s, t, k, n)
  <2>1. k = Len(s) /\ n = Len(t)
        OBVIOUS
  <2> HIDE DEF k, n
  <2> QED BY <1>1, <2>1, ListConcat
<1>e. k = Len(s) /\ n = Len(t) /\ n = Len(G)
      BY DEF NewWell
<1> HIDE DEF u, k, n
<1>3. /\ k \in Nat /\ n \in Nat /\ Len(u) = k + n
      /\ (\A i \in 1..k : u[i] = s[i]) /\ (\A i \in 1..n : u[k + i] = t[i])
      BY <1>2 DEF Joins
<1>h. \A i : Hit({}, i) = {}
      BY DEF Hit
<1>4. ASSUME NEW i \in 1..(k + n) PROVE SegmentHolds(u[i], u[i].tuples, {})
  <2>1. CASE i <= k
    <3>1. i \in 1..k
          BY <1>3, <2>1
    <3>2. u[i] = s[i]
          BY <1>3, <3>1
    <3>3. SegmentHolds(s[i], s[i].tuples, {})
          BY <1>e, <1>h, <3>1 DEF Held
    <3> QED BY <3>2, <3>3
  <2>2. CASE i > k
    <3>1. i - k \in 1..n /\ k + (i - k) = i
          BY <1>3, <2>2
    <3>2. u[i] = t[i - k]
          BY <1>3, <3>1
    <3>3. SegmentHolds(t[i - k], t[i - k].tuples, {})
          BY <1>e, <3>1 DEF NewWell, Fresh
    <3> QED BY <3>2, <3>3
  <2> QED BY <1>3, <2>1, <2>2
<1> QED BY <1>3, <1>4, <1>h DEF Held, u

----------------------------------------------------------------------------
(* Damage.                                                                 *)

\* Bytes with one buffer damaged.
Harms(c, b, i) ==
    /\ IsBytes(b) /\ IsBytes(c) /\ Len(c) = Len(b) /\ i \in 1..Len(b)
    /\ \A j \in 1..Len(b) : j # i => c[j] = b[j]
    /\ c[i].off = b[i].off

\* Damage changes one stored buffer where it is.
LEMMA HarmedIs ==
    ASSUME NEW b, IsBytes(b), NEW i \in DOMAIN b
    PROVE  Harms([b EXCEPT ![i].cells = Reverse(@)], b, i)
<1> DEFINE n == Len(b)
           c == [b EXCEPT ![i].cells = Reverse(@)]
           p == b[i]
           x == Reverse(b[i].cells)
           q == [p EXCEPT !.cells = x]
<1>1. n \in Nat /\ DOMAIN b = 1..n /\ i \in 1..n /\ IsPiece(p) /\ IsList(b)
      BY DEF IsBytes
<1>2. c = [b EXCEPT ![i] = q]
      OBVIOUS
<1>3. DOMAIN c = 1..n /\ (\A j \in 1..n : j # i => c[j] = b[j]) /\ c[i] = q
      BY <1>1, <1>2
<1>4. c = [j \in 1..n |-> c[j]]
  <2>1. b = [j \in 1..n |-> b[j]]
        BY <1>1 DEF IsList
  <2> QED BY <1>2, <1>3, <2>1
<1>5. p = [off |-> p.off, len |-> p.len, cells |-> p.cells, packed |-> p.packed]
      BY <1>1 DEF IsPiece
<1>n. n = Len(b)
      OBVIOUS
<1> HIDE DEF n, p, x
<1>6. q = [off |-> p.off, len |-> p.len, cells |-> x, packed |-> p.packed]
      BY <1>5
<1> HIDE DEF q, c
<1>7. q.off = p.off /\ IsPiece(q)
      BY <1>6 DEF IsPiece
<1>8. IsList(c) /\ Len(c) = n
      BY <1>1, <1>3, <1>4, ListOf
<1>9. ASSUME NEW j \in 1..n PROVE IsPiece(c[j])
      BY <1>3, <1>7, <1>n DEF IsBytes
<1>10. IsBytes(c)
      BY <1>1, <1>3, <1>8, <1>9 DEF IsBytes
<1>11. Harms(c, b, i)
      BY <1>1, <1>3, <1>7, <1>8, <1>10, <1>n DEF Harms, p
<1> QED BY <1>11 DEF c

\* What the damaged buffer does not back stays backed.
LEMMA BackedHarmed ==
    ASSUME NEW b, NEW c, NEW i, Harms(c, b, i), NEW spec, NEW codec, Backed(spec, codec, b)
    PROVE  spec.off \in {b[i].off} \/ Backed(spec, codec, c)
<1>1. PICK j \in DOMAIN b : /\ b[j].off = spec.off /\ b[j].len = spec.len
                            /\ Verified(b[j], spec) /\ Unpacks(b[j], spec, codec)
      BY DEF Backed
<1>2. DOMAIN b = DOMAIN c /\ DOMAIN b = 1..Len(b)
      BY DEF Harms, IsBytes
<1>3. CASE j = i
      BY <1>1, <1>3
<1>4. CASE j # i
  <2>1. c[j] = b[j] /\ j \in DOMAIN c
        BY <1>2, <1>4 DEF Harms
  <2> QED BY <1>1, <2>1 DEF Backed
<1> QED BY <1>3, <1>4

\* So for the buffers of a chunk.
LEMMA BackedAllHarmed ==
    ASSUME NEW b, NEW c, NEW i, Harms(c, b, i), NEW chunk, BackedAll(chunk, b, {})
    PROVE  BackedAll(chunk, c, {b[i].off})
BY BackedHarmed DEF BackedAll

\* So for its children's.
LEMMA KidsBackedHarmed ==
    ASSUME NEW b, NEW c, NEW i, Harms(c, b, i), NEW chunk, KidsBacked(chunk, b, {})
    PROVE  KidsBacked(chunk, c, {b[i].off})
BY BackedAllHarmed DEF KidsBacked

\* So for those of a column.
LEMMA ColumnBackedHarmed ==
    ASSUME NEW b, NEW c, NEW i, Harms(c, b, i), NEW chunk, ColumnBacked(chunk, b, {})
    PROVE  ColumnBacked(chunk, c, {b[i].off})
BY KidsBackedHarmed DEF ColumnBacked

\* All of a segment but its bytes.
Alike(a, b) ==
    /\ a.limit = b.limit /\ a.flush = b.flush /\ a.tuples = b.tuples /\ a.columns = b.columns
    /\ a.rowCount = b.rowCount /\ a.pageRows = b.pageRows /\ a.blockRows = b.blockRows
    /\ IsSeg(a)

\* A segment after damage holds the same rows, but for what the damaged buffer
\* backs.
LEMMA SegHarmed ==
    ASSUME NEW seg, SegWell(seg), NEW b, b = seg.bytes, NEW i \in DOMAIN b, NEW D,
           SegmentHolds(seg, seg.tuples, {}), D = {b[i].off},
           NEW new, new = [seg EXCEPT !.bytes[i].cells = Reverse(@)]
    PROVE  Alike(new, seg) /\ SegmentHolds(new, new.tuples, D)
<1> DEFINE c == [b EXCEPT ![i].cells = Reverse(@)]
<1>1. IsBytes(b)
      BY DEF SegmentHolds
<1>2. Harms(c, b, i)
      BY <1>1, HarmedIs
<1>3. new = [seg EXCEPT !.bytes = c]
      OBVIOUS
<1>4. seg = [limit |-> seg.limit, flush |-> seg.flush, tuples |-> seg.tuples, bytes |-> seg.bytes,
             columns |-> seg.columns, rowCount |-> seg.rowCount, pageRows |-> seg.pageRows,
             blockRows |-> seg.blockRows]
      BY DEF SegWell, IsSeg
<1> HIDE DEF c
<1>5. new = [limit |-> seg.limit, flush |-> seg.flush, tuples |-> seg.tuples, bytes |-> c,
             columns |-> seg.columns, rowCount |-> seg.rowCount, pageRows |-> seg.pageRows,
             blockRows |-> seg.blockRows]
      BY <1>3, <1>4
<1>6. /\ new.limit = seg.limit /\ new.flush = seg.flush /\ new.tuples = seg.tuples
      /\ new.bytes = c /\ new.columns = seg.columns /\ new.rowCount = seg.rowCount
      /\ new.pageRows = seg.pageRows /\ new.blockRows = seg.blockRows
      BY <1>5
<1>7. Alike(new, seg)
      BY <1>5, <1>6 DEF Alike, IsSeg
<1>8. ASSUME NEW k \in DOMAIN Types PROVE ColumnBacked(seg.columns[k], c, D)
      BY <1>2, ColumnBackedHarmed DEF SegmentHolds
<1>9. SegmentHolds(new, new.tuples, D)
      BY <1>2, <1>6, <1>8 DEF SegmentHolds, Harms
<1> QED BY <1>7, <1>9

\* The segments after damage to buffer i of segment k.
AllAlike(t, s) ==
    /\ IsList(t) /\ Len(t) = Len(s) /\ DOMAIN t = 1..Len(s)
    /\ \A j \in 1..Len(s) : Alike(t[j], s[j])

\* Nothing but reading depends on the bytes of a segment.
LEMMA AlikeKeeps ==
    ASSUME NEW s, NEW t, SegsWell(s), AllAlike(t, s)
    PROVE  /\ SegsWell(t) /\ StoredIn(t) = StoredIn(s)
           /\ \A fl : Before(s, fl) => Before(t, fl)
           /\ \A columns : Ordered(s, columns) => Ordered(t, columns)
<1> DEFINE n == Len(s)
<1>1. n \in Nat /\ Len(t) = n /\ IsList(t) /\ DOMAIN t = 1..n
      BY DEF SegsWell, AllAlike
<1>2. ASSUME NEW j \in 1..n PROVE Alike(t[j], s[j]) /\ SegWell(t[j])
      BY DEF SegsWell, AllAlike, SegWell, Alike
<1>3. SegsWell(t)
      BY <1>1, <1>2 DEF SegsWell
<1>4. TuplesOf(t) = TuplesOf(s)
      BY <1>1, <1>2 DEF TuplesOf, Alike
<1>5. ASSUME NEW fl, Before(s, fl) PROVE Before(t, fl)
      BY <1>1, <1>2, <1>5 DEF Before, Alike
<1>6. ASSUME NEW columns, Ordered(s, columns) PROVE Ordered(t, columns)
  <2>1. ASSUME columns # <<>>, NEW i \in 1..(n - 1) PROVE Apart(t[i], t[i + 1], columns)
    <3>1. i \in 1..n /\ i + 1 \in 1..n
          BY <1>1
    <3>2. t[i].flush = s[i].flush /\ t[i].tuples = s[i].tuples
          /\ t[i + 1].flush = s[i + 1].flush /\ t[i + 1].tuples = s[i + 1].tuples
          BY <1>2, <3>1 DEF Alike
    <3>3. Apart(s[i], s[i + 1], columns)
          BY <1>6, <2>1 DEF Ordered
    <3> QED BY <3>2, <3>3 DEF Apart
  <2> QED BY <1>1, <2>1 DEF Ordered
<1> QED BY <1>3, <1>4, <1>5, <1>6 DEF StoredIn

\* Damage leaves all segments as they were but for one stored buffer.
LEMMA DamageKeeps ==
    ASSUME NEW s, SegsWell(s), Held(s, {}), NEW k \in DOMAIN s, NEW i \in DOMAIN s[k].bytes,
           NEW t, t = [s EXCEPT ![k].bytes[i].cells = Reverse(@)]
    PROVE  AllAlike(t, s) /\ Held(t, {[seg |-> k, off |-> s[k].bytes[i].off]})
<1> DEFINE n == Len(s)
           new == [s[k] EXCEPT !.bytes[i].cells = Reverse(@)]
           off == s[k].bytes[i].off
           dmg == {[seg |-> k, off |-> off]}
<1>1. n \in Nat /\ DOMAIN s = 1..n /\ IsList(s) /\ k \in 1..n
      BY DEF SegsWell
<1>2. t = [s EXCEPT ![k] = new]
      OBVIOUS
<1>3. DOMAIN t = 1..n /\ (\A j \in 1..n : j # k => t[j] = s[j]) /\ t[k] = new
      BY <1>1, <1>2
<1>4. t = [j \in 1..n |-> t[j]]
  <2>1. s = [j \in 1..n |-> s[j]]
        BY <1>1 DEF IsList
  <2> QED BY <1>2, <1>3, <2>1
<1>5. Hit({}, k) = {}
      BY DEF Hit
<1>6. SegWell(s[k]) /\ SegmentHolds(s[k], s[k].tuples, {})
      BY <1>1, <1>5 DEF SegsWell, Held
<1>7. Hit(dmg, k) = {off}
  <2> DEFINE r == [seg |-> k, off |-> off]
  <2>1. r.seg = k /\ r.off = off /\ dmg = {r}
        OBVIOUS
  <2> HIDE DEF r, dmg, off
  <2>2. {e \in dmg : e.seg = k} = {r}
        BY <2>1
  <2> QED BY <2>1, <2>2 DEF Hit
<1>n. n = Len(s)
      OBVIOUS
<1>8. Alike(new, s[k]) /\ SegmentHolds(new, new.tuples, {off})
      BY ONLY <1>6, i \in DOMAIN s[k].bytes, SegHarmed
<1> HIDE DEF n, new, off, dmg
<1>9. IsList(t) /\ Len(t) = n
      BY <1>1, <1>3, <1>4, ListOf
<1>10. ASSUME NEW j \in 1..n, j # k PROVE Alike(t[j], s[j]) /\ SegmentHolds(t[j], t[j].tuples, Hit(dmg, j))
  <2>1. t[j] = s[j] /\ SegWell(s[j])
        BY <1>3, <1>10, <1>n DEF SegsWell
  <2>2. Alike(s[j], s[j])
        BY <2>1 DEF Alike, SegWell
  <2>3. Hit(dmg, j) = {} /\ Hit({}, j) = {}
        BY <1>10 DEF Hit, dmg
  <2>4. SegmentHolds(s[j], s[j].tuples, {})
        BY <1>n, <2>3 DEF Held
  <2> QED BY <2>1, <2>2, <2>3, <2>4
<1>11. AllAlike(t, s)
      BY <1>3, <1>8, <1>9, <1>10, <1>n DEF AllAlike
<1>12. Held(t, dmg)
      BY <1>3, <1>7, <1>8, <1>9, <1>10 DEF Held
<1> QED BY <1>11, <1>12 DEF dmg, off

----------------------------------------------------------------------------
(* The rows in segments are those that left the memtable.                  *)

RowsKept(s, tr, from, columns) ==
    IF columns = <<>> THEN StoredIn(s) = Kept(tr, from) ELSE SameRows(StoredIn(s), Kept(tr, from))

\* The numbers of a memtable and of its history.
LEMMA MemFacts ==
    ASSUME NEW m, NEW from, NEW tr, MemWell(m, from), Agrees(m, from, tr)
    PROVE  /\ from \in Nat \ {0} /\ m.nextSeqno \in Nat /\ from <= m.nextSeqno
           /\ tr \in Seq(Slots) /\ Len(tr) \in Nat /\ Len(tr) = m.nextSeqno - 1
BY DEF MemWell, MemSet, Agrees, Slots

\* An insert leaves the flushed rows alone.
LEMMA InsertKept ==
    ASSUME NEW m, NEW from, NEW tr, MemWell(m, from), Agrees(m, from, tr), NEW b \in BatchSet
    PROVE  Kept(tr \o Tuples(b), from) = Kept(tr, from)
<1> DEFINE u == tr \o Tuples(b)
           n == Len(tr)
           k == Len(u)
<1>1. tr \in Seq(Slots) /\ n \in Nat /\ from \in Nat /\ from <= n + 1
      BY MemFacts
<1>2. Tuples(b) \in Seq(Slots)
  <2>1. Tuples(b) \in Seq(Row) /\ Row \subseteq Slots
        BY TuplesType DEF Slots
  <2> QED BY <2>1
<1>3. k \in Nat /\ n <= k /\ \A s \in 1..n : tr[s] = u[s]
      BY <1>1, <1>2
<1>4. n = Len(tr) /\ k = Len(u)
      OBVIOUS
<1> HIDE DEF u, n, k
<1>5. Kept(tr, from) = Kept(u, from)
      BY <1>1, <1>3, <1>4, KeptSame
<1> QED BY <1>5 DEF u

\* So does a delete, whatever stale numbers it names.
LEMMA DeleteKept ==
    ASSUME NEW m, NEW from, NEW tr, MemWell(m, from), Agrees(m, from, tr), NEW seqnos
    PROVE  Kept(Without(tr, seqnos, from), from) = Kept(tr, from)
<1> DEFINE u == Without(tr, seqnos, from)
           n == Len(tr)
<1>1. tr \in Seq(Slots) /\ n \in Nat /\ from \in Nat /\ from <= n + 1
      BY MemFacts
<1>2. u = [s \in 1..n |-> IF s \in seqnos /\ s >= from THEN <<>> ELSE tr[s]]
      BY <1>1 DEF Without
<1>3. u \in Seq(Slots) /\ Len(u) = n
      BY <1>1, <1>2 DEF Slots
<1>4. \A s \in 1..n : s < from => tr[s] = u[s]
      BY <1>1, <1>2
<1>5. n = Len(tr) /\ n <= n
      BY <1>1
<1> HIDE DEF u, n
<1>6. Kept(tr, from) = Kept(u, from)
      BY <1>1, <1>3, <1>4, <1>5, KeptSame
<1> QED BY <1>6 DEF u

\* A flush of what is live in the memtable, and one with nothing live.
LEMMA LiveRows ==
    ASSUME NEW m, NEW from, NEW tr, MemWell(m, from), Agrees(m, from, tr)
    PROVE  /\ Batches(m) \in Seq(BatchSet) /\ TotalRows(Batches(m)) = LiveCount(m)
           /\ LiveCount(m) \in Nat /\ AllTuples(Batches(m)) \in Seq(Row)
           /\ LiveCount(m) = 0 => AllTuples(Batches(m)) = <<>>
<1> DEFINE t == AllTuples(Batches(m))
           l == LiveSeqnos(m)
<1>1. Batches(m) \in Seq(BatchSet) /\ t = Over(tr, l)
      BY BatchesNamed
<1>2. t \in Seq(Row) /\ TotalRows(Batches(m)) = Len(t)
      BY <1>1, AllTuplesIs
<1>3. LiveCount(m) = Len(l) /\ LiveCount(m) \in Nat
      BY LiveCounted
<1> HIDE DEF t, l
<1>4. Len(t) = Len(l)
      BY <1>1, <1>3 DEF Over
<1>5. LiveCount(m) = 0 => t = <<>>
      BY <1>2, <1>3, <1>4
<1> QED BY <1>1, <1>2, <1>3, <1>4, <1>5 DEF t

\* A flush takes everything the memtable held.
LEMMA FlushKept ==
    ASSUME NEW m, NEW from, NEW tr, MemWell(m, from), Agrees(m, from, tr)
    PROVE  /\ Kept(tr, m.nextSeqno) = Everything(tr)
           /\ Everything(tr) = Kept(tr, from) \o AllTuples(Batches(m))
           /\ Kept(tr, from) \in Seq(Slots) /\ AllTuples(Batches(m)) \in Seq(Slots)
<1>1. Len(tr) \in Nat /\ m.nextSeqno = Len(tr) + 1
      BY MemFacts
<1>2. Kept(tr, m.nextSeqno) = Everything(tr)
      BY <1>1, KeptAll
<1> QED BY <1>2, EverythingSplit

\* A flush of a memtable without live rows has nothing to write.
LEMMA FlushNothing ==
    ASSUME NEW m, NEW from, NEW tr, MemWell(m, from), Agrees(m, from, tr), LiveCount(m) = 0
    PROVE  Kept(tr, m.nextSeqno) = Kept(tr, from)
<1> DEFINE k == Kept(tr, from)
           e == Kept(tr, m.nextSeqno)
<1>1. k \in Seq(Slots) /\ e = k \o <<>>
      BY FlushKept, LiveRows
<1> HIDE DEF k, e
<1>2. e = k
      BY <1>1
<1> QED BY <1>2 DEF k, e

\* The same rows, the other way round.
LEMMA SameRowsSwap ==
    ASSUME NEW s, NEW t, SameRows(s, t)
    PROVE  SameRows(t, s)
BY DEF SameRows

\* After a flush the segments hold the rows that left the memtable.
LEMMA FlushRows ==
    ASSUME NEW m, NEW from, NEW tr, MemWell(m, from), Agrees(m, from, tr), NEW s, SegsWell(s),
           NEW columns, RowsKept(s, tr, from, columns), NEW t, NEW G, NEW fl, NewWell(t, G, fl),
           NEW limit, CutWell(G, Batches(m), limit, columns)
    PROVE  RowsKept(s \o t, tr, m.nextSeqno, columns)
<1> DEFINE k == Kept(tr, from)
           e == Kept(tr, m.nextSeqno)
           b == AllTuples(Batches(m))
           a == StoredIn(s)
           c == GroupRows(G)
           d == StoredIn(s \o t)
<1>1. e = k \o b /\ k \in Seq(Slots) /\ b \in Seq(Slots)
      BY FlushKept
<1>2. SegsWell(t) /\ StoredIn(t) = c
      BY DEF NewWell
<1>3. d = a \o c
      BY <1>2, SegsConcat
<1>4. a \in Seq(Slots) /\ c \in Seq(Slots)
      BY <1>2, TuplesOfType
<1>5. CASE columns = <<>>
  <2>1. a = k
        BY <1>5 DEF RowsKept
  <2>2. c = b
        BY <1>5 DEF CutWell
  <2> QED BY <1>1, <1>3, <1>5, <2>1, <2>2 DEF RowsKept
<1>6. CASE columns # <<>>
  <2>1. SameRows(a, k)
        BY <1>6 DEF RowsKept
  <2>2. SameRows(c, b)
        BY SameRowsSwap DEF CutWell
  <2> HIDE DEF a, b, c, d, e, k
  <2>3. SameRows(a \o c, k \o b)
        BY <1>1, <1>4, <2>1, <2>2, SameRowsConcat
  <2>4. SameRows(d, e)
        BY <1>1, <1>3, <2>3
  <2> QED BY <1>6, <2>4 DEF RowsKept, d, e
<1> QED BY <1>5, <1>6

\* What the segments and the memtable hold is everything.
LEMMA AllThere ==
    ASSUME NEW m, NEW from, NEW tr, MemWell(m, from), Agrees(m, from, tr), NEW s, SegsWell(s),
           NEW columns, RowsKept(s, tr, from, columns)
    PROVE  IF columns = <<>> THEN StoredIn(s) \o AllTuples(Batches(m)) = Everything(tr)
           ELSE ToBag(StoredIn(s) \o AllTuples(Batches(m))) = ToBag(Everything(tr))
<1> DEFINE k == Kept(tr, from)
           e == Everything(tr)
           b == AllTuples(Batches(m))
           a == StoredIn(s)
<1>1. e = k \o b /\ k \in Seq(Slots) /\ b \in Seq(Slots)
      BY FlushKept
<1>2. a \in Seq(Slots)
      BY TuplesOfType
<1>3. CASE columns = <<>>
      BY <1>1, <1>3 DEF RowsKept
<1>4. CASE columns # <<>>
  <2>1. SameRows(a, k) /\ SameRows(b, b)
        BY <1>4 DEF RowsKept, SameRows
  <2> HIDE DEF a, b, e, k
  <2>2. SameRows(a \o b, k \o b) /\ a \o b \in Seq(Slots) /\ k \o b \in Seq(Slots)
        BY <1>1, <1>2, <2>1, SameRowsConcat
  <2>3. ToBag(a \o b) = ToBag(e)
        BY <1>1, <2>2, BagOf
  <2> QED BY <1>4, <2>3 DEF a, b, e
<1> QED BY <1>3, <1>4

----------------------------------------------------------------------------
(* The inductive invariant.                                                *)

\* At most one stored buffer, of a segment there is, is damaged.
DamageWell(s, dmg) ==
    dmg = {} \/ \E k \in DOMAIN s : \E off : dmg = {[seg |-> k, off |-> off]}

IInv ==
    /\ opts \in Options /\ flushes \in 0..MaxFlushes
    /\ MemWell(mem, flushed) /\ Agrees(mem, flushed, truth) /\ mem.nextSeqno <= MaxSeqno + 1
    /\ SegsWell(segs) /\ Before(segs, flushes) /\ Ordered(segs, opts.clusterBy)
    /\ RowsKept(segs, truth, flushed, opts.clusterBy)
    /\ Held(segs, damage) /\ DamageWell(segs, damage)

\* The fields of the options that flushes and reads use.
LEMMA OptionsAre ==
    ASSUME NEW o \in Options
    PROVE  /\ o.pageRows \in Nat /\ o.blockRows \in Nat /\ o.rowGroupRows \in Nat
           /\ o.minRowGroupRows \in Nat /\ o.clusterBy \in Seq(Nat) /\ Resolves(o.clusterBy)
BY FlushPipelineAssumption DEF IsOptions

\* A table without segments.
LEMMA NoSegs ==
    /\ SegsWell(<<>>) /\ StoredIn(<<>>) = <<>>
    /\ \A fl : Before(<<>>, fl)
    /\ \A columns : Ordered(<<>>, columns)
    /\ \A dmg : Held(<<>>, dmg)
<1> DEFINE e == <<>>
<1>1. Len(e) = 0 /\ DOMAIN e = 1..0 /\ e \in Seq(Nat) /\ 1..0 = {}
      OBVIOUS
<1>2. IsList(e)
      BY <1>1 DEF IsList
<1> HIDE DEF e
<1>3. SegsWell(e)
      BY <1>1, <1>2 DEF SegsWell
<1>4. StoredIn(e) = <<>>
  <2>1. TuplesOf(e) = <<>>
        BY <1>1 DEF TuplesOf
  <2> QED BY <2>1, FlattenEmpty DEF StoredIn
<1>5. ASSUME NEW fl PROVE Before(e, fl)
      BY <1>1 DEF Before
<1>6. ASSUME NEW columns PROVE Ordered(e, columns)
  <2>1. 1..(Len(e) - 1) = {}
        BY <1>1
  <2> QED BY <2>1 DEF Ordered
<1>7. ASSUME NEW dmg PROVE Held(e, dmg)
      BY <1>1 DEF Held
<1> QED BY <1>3, <1>4, <1>5, <1>6, <1>7 DEF e

\* The invariant holds of a new table.
LEMMA InitInv == Init => IInv
<1> SUFFICES ASSUME Init PROVE IInv
    OBVIOUS
<1>1. /\ opts \in Options /\ mem = NewMemtable(1) /\ segs = <<>> /\ flushes = 0
      /\ truth = <<>> /\ flushed = 1 /\ damage = {}
      BY DEF Init
<1>2. mem.chunks = <<>> /\ mem.tombstones = {} /\ mem.nextSeqno = 1 /\ mem.rows = 0
      BY <1>1 DEF NewMemtable
<1>3. mem \in MemSet
  <2>1. <<>> \in Seq(ChunkSet)
        OBVIOUS
  <2> QED BY <1>1, <2>1 DEF NewMemtable, MemSet
<1>4. MemWell(mem, flushed)
      BY <1>1, <1>2, <1>3, EmptyWell
<1>5. truth \in Seq(Row \cup {<<>>}) /\ Len(truth) = mem.nextSeqno - 1
      BY <1>1, <1>2
<1>6. Agrees(mem, flushed, truth)
      BY <1>2, <1>5, EmptyAgrees
<1>7. StoredIn(segs) = Kept(truth, flushed)
  <2>1. Kept(truth, flushed) = <<>>
    <3>1. {s \in 1..Len(truth) : s < flushed /\ truth[s] # <<>>} = {}
          BY <1>1
    <3>2. Picked(truth, {}) = <<>>
      <4>1. Picked(truth, {}) = [k \in 1..Len(<<>>) |-> truth[<<>>[k]]]
            BY ListsEmpty, PickedIs
      <4> QED BY <4>1
    <3> QED BY <3>1, <3>2 DEF Kept
  <2> QED BY <1>1, <2>1, NoSegs
<1>8. RowsKept(segs, truth, flushed, opts.clusterBy)
      BY <1>7 DEF RowsKept, SameRows
<1>9. SegsWell(segs) /\ Before(segs, flushes) /\ Ordered(segs, opts.clusterBy) /\ Held(segs, damage)
      BY <1>1, NoSegs
<1>10. flushes \in 0..MaxFlushes /\ mem.nextSeqno <= MaxSeqno + 1
      BY <1>1, <1>2, FlushPipelineAssumption
<1>11. DamageWell(segs, damage)
      BY <1>1 DEF DamageWell
<1> QED BY <1>1, <1>4, <1>6, <1>8, <1>9, <1>10, <1>11 DEF IInv

\* An insert keeps the invariant.
LEMMA InsertInv ==
    ASSUME IInv, NEW batch \in Inserts, Insert(batch)
    PROVE  IInv'
<1>1. batch \in BatchSet
      BY FlushPipelineAssumption, BatchIn
<1>2. /\ mem' = MemInsertAt(mem, mem.nextSeqno, batch) /\ truth' = truth \o Tuples(batch)
      /\ mem.nextSeqno + NumRows(batch) <= MaxSeqno + 1
      /\ UNCHANGED <<opts, segs, flushes, flushed, damage>>
      BY DEF Insert
<1>3. MemWell(mem, flushed) /\ Agrees(mem, flushed, truth)
      BY DEF IInv
<1>4. MemWell(mem', flushed) /\ mem'.nextSeqno <= MaxSeqno + 1
      BY <1>1, <1>2, <1>3, InsertWell
<1>5. Agrees(mem', flushed, truth')
      BY <1>1, <1>2, <1>3, InsertAgrees
<1>6. Kept(truth', flushed) = Kept(truth, flushed)
      BY <1>1, <1>2, <1>3, InsertKept
<1>7. RowsKept(segs, truth', flushed, opts.clusterBy)
      BY <1>6 DEF IInv, RowsKept
<1> QED BY <1>2, <1>4, <1>5, <1>7 DEF IInv

\* A delete keeps it.
LEMMA DeleteInv ==
    ASSUME IInv, NEW s \in DOMAIN truth, NEW t \in DOMAIN truth, Delete({s, t})
    PROVE  IInv'
<1> DEFINE seqnos == {s, t}
<1>1. /\ mem' = MemDelete(mem, seqnos) /\ truth' = Without(truth, seqnos, flushed)
      /\ UNCHANGED <<opts, segs, flushes, flushed, damage>>
      BY DEF Delete, Without
<1>2. MemWell(mem, flushed) /\ Agrees(mem, flushed, truth)
      BY DEF IInv
<1>3. seqnos \in SUBSET Nat
      BY <1>2, MemFacts
<1> HIDE DEF seqnos
<1>4. MemWell(mem', flushed)
      BY <1>1, <1>2, <1>3, DeleteWell
<1>5. Agrees(mem', flushed, truth')
      BY <1>1, <1>2, <1>3, DeleteAgrees
<1>6. Kept(truth', flushed) = Kept(truth, flushed)
      BY <1>1, <1>2, DeleteKept
<1>7. RowsKept(segs, truth', flushed, opts.clusterBy)
      BY <1>6 DEF IInv, RowsKept
<1>8. mem'.nextSeqno = mem.nextSeqno
      BY <1>1, <1>2 DEF MemDelete, MemWell, MemSet
<1> QED BY <1>1, <1>4, <1>5, <1>7, <1>8 DEF IInv

\* What freeze leaves is a memtable without chunks that counts on from where
\* it was.
LEMMA EmptiedIs ==
    ASSUME NEW m, NEW from, NEW tr, MemWell(m, from), Agrees(m, from, tr)
    PROVE  /\ MemWell(Emptied(m), m.nextSeqno) /\ Agrees(Emptied(m), m.nextSeqno, tr)
           /\ Emptied(m).nextSeqno = m.nextSeqno
<1> DEFINE e == Emptied(m)
<1>1. m \in MemSet /\ m.nextSeqno \in Nat \ {0} /\ tr \in Seq(Row \cup {<<>>})
      /\ Len(tr) = m.nextSeqno - 1
  <2>1. m \in MemSet /\ tr \in Seq(Row \cup {<<>>})
        BY DEF MemWell, Agrees
  <2> QED BY <2>1, MemFacts
<1>2. e.chunks = <<>> /\ e.tombstones = {} /\ e.nextSeqno = m.nextSeqno /\ e.rows = 0 /\ e \in MemSet
  <2>1. <<>> \in Seq(ChunkSet)
        OBVIOUS
  <2> QED BY <1>1, <2>1 DEF Emptied, MemSet
<1> HIDE DEF e
<1>3. MemWell(e, m.nextSeqno)
      BY <1>1, <1>2, EmptyWell
<1>4. Agrees(e, m.nextSeqno, tr)
      BY <1>1, <1>2, EmptyAgrees
<1> QED BY <1>2, <1>3, <1>4 DEF e

\* The row group size a flush works out is a natural number.
LEMMA LimitType ==
    ASSUME IInv
    PROVE  RowGroupSizeFor(opts, StoredRows + LiveCount(mem)) \in Nat
<1> DEFINE r == [i \in DOMAIN segs |-> segs[i].rowCount]
           n == Len(segs)
<1>1. n \in Nat /\ DOMAIN segs = 1..n /\ \A i \in 1..n : segs[i].rowCount \in Nat
      BY DEF IInv, SegsWell, SegWell
<1>2. r \in Seq(Nat)
      BY <1>1
<1>3. StoredRows \in Nat
      BY <1>2, SumOfType DEF StoredRows
<1>4. LiveCount(mem) \in Nat
      BY LiveRows DEF IInv
<1>5. StoredRows + LiveCount(mem) \in Nat
      BY <1>3, <1>4
<1>6. opts.rowGroupRows \in Nat /\ opts.minRowGroupRows \in Nat
      BY OptionsAre DEF IInv
<1> QED BY <1>5, <1>6, SizeType

\* A flush keeps the invariant.
LEMMA FlushInv ==
    ASSUME IInv, Flush
    PROVE  IInv'
<1> DEFINE limit == RowGroupSizeFor(opts, StoredRows + LiveCount(mem))
<1>1. /\ mem' = Emptied(mem) /\ flushed' = mem.nextSeqno /\ UNCHANGED <<opts, truth, damage>>
      /\ damage = {} /\ flushes < MaxFlushes
      BY DEF Flush
<1>2. MemWell(mem, flushed) /\ Agrees(mem, flushed, truth) /\ mem.nextSeqno <= MaxSeqno + 1
      /\ flushes \in 0..MaxFlushes /\ opts \in Options /\ SegsWell(segs)
      BY DEF IInv
<1>3. MemWell(mem', flushed') /\ Agrees(mem', flushed', truth') /\ mem'.nextSeqno <= MaxSeqno + 1
      BY <1>1, <1>2, EmptiedIs
<1>4. CASE LiveCount(mem) = 0
  <2>1. UNCHANGED <<segs, flushes>>
        BY <1>4 DEF Flush
  <2>2. Kept(truth, mem.nextSeqno) = Kept(truth, flushed)
        BY <1>2, <1>4, FlushNothing
  <2>3. RowsKept(segs, truth, mem.nextSeqno, opts.clusterBy)
        BY <2>2 DEF IInv, RowsKept
  <2> QED BY <1>1, <1>3, <2>1, <2>3 DEF IInv
<1>5. CASE LiveCount(mem) # 0
  <2>1. flushes' = flushes + 1 /\ WriteGroups(Batches(mem), limit)
        BY <1>5 DEF Flush
  <2>2. PICK order \in Orders(Batches(mem), opts.clusterBy) :
            segs' = segs \o Segments(CutRows(Batches(mem), limit, opts.clusterBy, order), limit)
        BY <2>1 DEF WriteGroups
  <2> DEFINE G == CutRows(Batches(mem), limit, opts.clusterBy, order)
             new == SegmentsOf(G, opts, limit, flushes)
  <2>3. limit \in Nat
        BY LimitType
  <2> HIDE DEF limit
  <2>4. /\ Batches(mem) \in Seq(BatchSet) /\ TotalRows(Batches(mem)) > 0
    <3>1. TotalRows(Batches(mem)) = LiveCount(mem) /\ LiveCount(mem) \in Nat /\ Batches(mem) \in Seq(BatchSet)
          BY <1>2, LiveRows
    <3> QED BY <1>5, <3>1
  <2>5. opts.clusterBy \in Seq(Nat) /\ Resolves(opts.clusterBy) /\ opts.pageRows \in Nat /\ opts.blockRows \in Nat
        BY <1>2, OptionsAre
  <2>6. CutWell(G, Batches(mem), limit, opts.clusterBy)
        BY <2>3, <2>4, <2>5, CutKeeps
  <2>7. Segments(G, limit) = new
    <3>1. G \in Seq(Seq(BatchSet))
          BY <2>6 DEF CutWell
    <3> HIDE DEF G
    <3>2. DOMAIN G = 1..Len(G)
          BY <3>1
    <3> QED BY <3>2 DEF Segments, SegmentsOf, NewSeg
  <2>8. segs' = segs \o new
        BY <2>2, <2>7
  <2> HIDE DEF G, new
  <2>9. NewWell(new, G, flushes)
    <3>1. /\ G \in Seq(Seq(BatchSet))
          /\ \A g \in 1..Len(G) : TotalRows(G[g]) > 0 /\ (limit # 0 => TotalRows(G[g]) <= limit)
          BY <2>6 DEF CutWell
    <3>2. flushes \in Nat
          BY <1>2, FlushPipelineAssumption
    <3> QED BY <2>3, <2>5, <3>1, <3>2, NewSegs DEF new
  <2>10. SegsWell(segs')
    <3>1. SegsWell(new)
          BY <2>9 DEF NewWell
    <3> QED BY <1>2, <2>8, <3>1, SegsConcat
  <2>11. Ordered(segs', opts.clusterBy) /\ Before(segs', flushes')
    <3>1. opts.clusterBy # <<>> => Stepped(G, opts.clusterBy)
          BY <2>6 DEF CutWell
    <3>2. Ordered(segs, opts.clusterBy) /\ Before(segs, flushes) /\ flushes \in Nat
          BY FlushPipelineAssumption DEF IInv
    <3> QED BY <1>2, <2>1, <2>8, <2>9, <3>1, <3>2, OrderedConcat
  <2>12. Held(segs', {})
    <3>1. Held(segs, {})
          BY <1>1 DEF IInv
    <3> QED BY <1>2, <2>8, <2>9, <3>1, HeldConcat
  <2>13. RowsKept(segs', truth, mem.nextSeqno, opts.clusterBy)
    <3>1. RowsKept(segs, truth, flushed, opts.clusterBy)
          BY DEF IInv
    <3> QED BY <1>2, <2>6, <2>8, <2>9, <3>1, FlushRows
  <2>14. flushes' \in 0..MaxFlushes
        BY <1>1, <1>2, <2>1, FlushPipelineAssumption
  <2>15. DamageWell(segs', {})
        BY DEF DamageWell
  <2> QED BY <1>1, <1>2, <1>3, <2>10, <2>11, <2>12, <2>13, <2>14, <2>15 DEF IInv
<1> QED BY <1>4, <1>5

\* Damage keeps it.
LEMMA DamageInv ==
    ASSUME IInv, NEW s \in DOMAIN segs, NEW i \in DOMAIN segs[s].bytes, Damage(s, i)
    PROVE  IInv'
<1>1. /\ segs' = [segs EXCEPT ![s].bytes[i].cells = Reverse(@)] /\ damage = {}
      /\ damage' = {[seg |-> s, off |-> segs[s].bytes[i].off]}
      /\ UNCHANGED <<opts, mem, flushes, truth, flushed>>
      BY DEF Damage
<1>2. SegsWell(segs) /\ Held(segs, {})
      BY <1>1 DEF IInv
<1>3. AllAlike(segs', segs) /\ Held(segs', damage')
      BY <1>1, <1>2, DamageKeeps
<1>4. SegsWell(segs') /\ StoredIn(segs') = StoredIn(segs) /\ Before(segs', flushes) /\ Ordered(segs', opts.clusterBy)
      BY <1>2, <1>3, AlikeKeeps DEF IInv
<1>5. RowsKept(segs', truth, flushed, opts.clusterBy)
      BY <1>4 DEF IInv, RowsKept
<1>6. DamageWell(segs', damage')
  <2>1. s \in DOMAIN segs'
        BY <1>2, <1>3 DEF AllAlike, SegsWell
  <2> QED BY <1>1, <2>1 DEF DamageWell
<1> QED BY <1>1, <1>3, <1>4, <1>5, <1>6 DEF IInv

\* Every step keeps the invariant.
LEMMA StepInv == IInv /\ [Next]_vars => IInv'
<1> SUFFICES ASSUME IInv, [Next]_vars PROVE IInv'
    OBVIOUS
<1>1. CASE UNCHANGED vars
      BY <1>1 DEF IInv, vars
<1>2. ASSUME NEW batch \in Inserts, Insert(batch) PROVE IInv'
      BY <1>2, InsertInv
<1>3. ASSUME NEW s \in DOMAIN truth, NEW t \in DOMAIN truth, Delete({s, t}) PROVE IInv'
      BY <1>3, DeleteInv
<1>4. CASE Flush
      BY <1>4, FlushInv
<1>5. ASSUME NEW s \in DOMAIN segs, NEW i \in DOMAIN segs[s].bytes, Damage(s, i) PROVE IInv'
      BY <1>5, DamageInv
<1> QED BY <1>1, <1>2, <1>3, <1>4, <1>5 DEF Next

\* The memtable and its history agree, the segments hold the rows that left it,
\* fit their limits and are in key order, and every column of every segment can
\* be read back but for damaged buffers (memtable.rs, write.rs, segment.rs).
THEOREM FlushSafe == Spec => []IInv
BY InitInv, StepInv, PTL DEF Spec

----------------------------------------------------------------------------
(* What follows from the invariant.                                        *)

\* The types follow from the invariant.
LEMMA TypeHolds == IInv => TypeOK
<1> SUFFICES ASSUME IInv PROVE TypeOK
    OBVIOUS
<1> DEFINE n == Len(mem.chunks)
           e == Ends(mem, flushed)
<1>1. MemWell(mem, flushed) /\ Agrees(mem, flushed, truth) /\ mem.nextSeqno <= MaxSeqno + 1
      BY DEF IInv
<1>2. /\ flushed \in Nat \ {0} /\ mem.nextSeqno \in Nat /\ flushed <= mem.nextSeqno
      /\ truth \in Seq(Slots) /\ Len(truth) \in Nat /\ Len(truth) = mem.nextSeqno - 1
      BY <1>1, MemFacts
<1>3. mem.nextSeqno \in 1..(MaxSeqno + 1) /\ flushed \in 1..(MaxSeqno + 1)
      BY <1>1, <1>2, FlushPipelineAssumption
<1>4. mem.tombstones \subseteq 1..MaxSeqno
  <2>1. mem.tombstones \subseteq flushed..(mem.nextSeqno - 1)
        BY <1>1 DEF MemWell
  <2>2. flushed..(mem.nextSeqno - 1) \subseteq 1..MaxSeqno
        BY <1>1, <1>2, FlushPipelineAssumption
  <2> QED BY <2>1, <2>2
<1>5. DOMAIN truth \subseteq 1..MaxSeqno
      BY <1>1, <1>2, FlushPipelineAssumption
<1>6. ASSUME NEW i \in 2..n
      PROVE  mem.chunks[i].base >= mem.chunks[i - 1].base + NumRows(mem.chunks[i - 1].batch)
  <2>1. /\ n \in Nat /\ e \in [0..n -> Nat]
        /\ \A j \in 1..n : mem.chunks[j].base = e[j - 1] /\ NumRows(mem.chunks[j].batch) = e[j] - e[j - 1]
        BY <1>1, EndsFacts
  <2> HIDE DEF n, e
  <2>2. i \in 1..n /\ i - 1 \in 1..n /\ i - 1 \in 0..n /\ i - 2 \in 0..n /\ (i - 1) - 1 = i - 2
        BY <2>1
  <2>3. e[i - 1] \in Nat /\ e[i - 2] \in Nat
        BY <2>1, <2>2
  <2>4. mem.chunks[i].base = e[i - 1] /\ mem.chunks[i - 1].base = e[i - 2]
        /\ NumRows(mem.chunks[i - 1].batch) = e[i - 1] - e[i - 2]
        BY <2>1, <2>2
  <2> QED BY <2>3, <2>4
<1>7. ASSUME NEW i \in DOMAIN segs PROVE Len(segs[i].columns) = Len(Types) /\ segs[i].rowCount > 0
  <2>1. i \in 1..Len(segs) /\ SegWell(segs[i])
        BY DEF IInv, SegsWell
  <2> QED BY <2>1 DEF IInv, Held, SegmentHolds, SegWell
<1> QED BY <1>3, <1>4, <1>5, <1>6, <1>7 DEF IInv, TypeOK

\* Live sequence numbers name the live rows.
LEMMA SeqnosHold == IInv => SeqnosNameRows
<1> SUFFICES ASSUME IInv PROVE SeqnosNameRows
    OBVIOUS
<1> DEFINE l == LiveSeqnos(mem)
<1>1. MemWell(mem, flushed) /\ Agrees(mem, flushed, truth)
      BY DEF IInv
<1>2. LiveCount(mem) = Len(l)
      BY <1>1, LiveCounted
<1>3. AllTuples(Batches(mem)) = Over(truth, l)
      BY <1>1, BatchesNamed
<1>4. l \in Seq(Nat)
      BY <1>1, LiveLists DEF Lists
<1>5. DOMAIN l = 1..Len(l)
      BY <1>4
<1> QED BY <1>2, <1>3, <1>5 DEF SeqnosNameRows, Over

\* Segments and memtable hold all rows.
LEMMA RowsHold == IInv => NoRowLostByFlush
<1> SUFFICES ASSUME IInv PROVE NoRowLostByFlush
    OBVIOUS
<1>1. /\ MemWell(mem, flushed) /\ Agrees(mem, flushed, truth) /\ SegsWell(segs)
      /\ RowsKept(segs, truth, flushed, opts.clusterBy)
      BY DEF IInv
<1>2. IF opts.clusterBy = <<>> THEN StoredIn(segs) \o AllTuples(Batches(mem)) = Everything(truth)
      ELSE ToBag(StoredIn(segs) \o AllTuples(Batches(mem))) = ToBag(Everything(truth))
      BY <1>1, AllThere
<1>3. DOMAIN truth = 1..Len(truth)
      BY <1>1, MemFacts
<1>4. Expected = Everything(truth)
      BY <1>3 DEF Expected, Everything
<1>5. Stored = StoredIn(segs)
      BY <1>1 DEF SegsWell, Stored, StoredIn, TuplesOf
<1> QED BY <1>2, <1>4, <1>5 DEF NoRowLostByFlush

\* Limits and key order are part of the invariant.
LEMMA GroupsHold == IInv => GroupsFit
<1> SUFFICES ASSUME IInv PROVE GroupsFit
    OBVIOUS
<1>1. ASSUME NEW i \in DOMAIN segs PROVE segs[i].limit = 0 \/ segs[i].rowCount <= segs[i].limit
      BY DEF IInv, SegsWell, SegWell
<1>2. Ordered(segs, opts.clusterBy)
      BY DEF IInv
<1> QED BY <1>1, <1>2 DEF GroupsFit, Ordered, Apart

\* The rows of a range of a column.
LEMMA GivenIs ==
    ASSUME NEW seg, SegWell(seg), NEW c \in DOMAIN Types, seg.rowCount = Len(seg.tuples),
           NEW r, r.start \in Nat, r.len \in Nat, r.start + r.len <= seg.rowCount
    PROVE  /\ SubSeq(ColumnOf(seg.tuples, c), r.start + 1, r.start + r.len) = Given(seg, c, r)
           /\ Len(ColumnOf(seg.tuples, c)) = seg.rowCount /\ ColumnOf(seg.tuples, c) \in Seq(Cell)
<1> DEFINE rows == ColumnOf(seg.tuples, c)
           a == r.start
           l == r.len
           n == seg.rowCount
           t == SubSeq(rows, a + 1, a + l)
<1>1. rows \in Seq(Cell) /\ Len(rows) = Len(seg.tuples)
      BY ColumnOver DEF SegWell
<1>2. rows = [k \in 1..n |-> seg.tuples[k][c]] /\ n \in Nat
      BY DEF ColumnOf, SegWell
<1>3. ~(c > Len(Types)) /\ a \in Nat /\ l \in Nat /\ a + l <= n /\ a + l \in Nat /\ n = Len(rows)
      BY <1>1, FirstColumn
<1>4. Given(seg, c, r) = [i \in 1..l |-> seg.tuples[a + i][c]]
      BY <1>3 DEF Given
<1>d. t = SubSeq(rows, a + 1, a + l)
      OBVIOUS
<1> HIDE DEF rows, a, l, n, t
<1>5. t \in Seq(Cell) /\ Len(t) = (a + l) - a /\ \A k \in 1..((a + l) - a) : t[k] = rows[a + k]
  <2>1. a <= a + l
        BY <1>3
  <2> QED BY <1>1, <1>3, <1>d, <2>1, SubSeqIs
<1>6. (a + l) - a = l
      BY <1>3
<1>7. ASSUME NEW i \in 1..l PROVE t[i] = seg.tuples[a + i][c]
  <2>1. a + i \in 1..n
    <3>1. a \in Nat /\ l \in Nat /\ n \in Nat /\ a + l <= n /\ i \in 1..l
          BY <1>2, <1>3
    <3> QED BY ONLY <3>1
  <2>2. t[i] = rows[a + i]
        BY <1>5, <1>6
  <2> QED BY <1>2, <2>1, <2>2
<1>8. t = [i \in 1..l |-> t[i]]
      BY <1>5, <1>6
<1>9. t = [i \in 1..l |-> seg.tuples[a + i][c]]
      BY <1>7, <1>8
<1> QED BY <1>1, <1>3, <1>4, <1>9, <1>d DEF rows, a, l, n

\* A read is right or an error, and right unless it needs a damaged buffer.
LEMMA ReadIs ==
    ASSUME NEW seg, SegWell(seg), NEW D, SegmentHolds(seg, seg.tuples, D), NEW c \in DOMAIN Types,
           NEW r \in Ranges(seg.rowCount)
    PROVE  /\ Reads(ReadOf(seg, c, r), Given(seg, c, r))
           /\ Needed(seg.columns[c], r) \cap D = {} => ReadOf(seg, c, r) = Ok(Given(seg, c, r))
<1> DEFINE rows == ColumnOf(seg.tuples, c)
           a == r.start
           l == r.len
           chunk == seg.columns[c]
           got == DecodeColumnRows(chunk, seg.bytes, a, l)
<1>1. /\ r = [start |-> a, len |-> l] /\ a \in Nat /\ l \in Nat /\ a + l <= seg.rowCount
      BY DEF Ranges, SegWell
<1>2. seg.rowCount = Len(seg.tuples) /\ ColumnMeans(chunk, rows) /\ ColumnBacked(chunk, seg.bytes, D)
      /\ Len(seg.columns) = Len(Types)
      BY DEF SegmentHolds
<1>3. SubSeq(rows, a + 1, a + l) = Given(seg, c, r) /\ Len(rows) = seg.rowCount
      BY <1>1, <1>2, GivenIs
<1>4. ReadOf(seg, c, r) = got
  <2>1. ~(c > Len(seg.columns))
        BY <1>2, FirstColumn
  <2> QED BY <2>1 DEF ReadOf, ColumnRows
<1> HIDE DEF rows, a, l, chunk, got
<1>5. RangeRight(got, chunk, seg.bytes, a, l, SubSeq(rows, a + 1, a + l))
      BY <1>1, <1>2, <1>3, DecodeColumnIs DEF got
<1>6. RangeRight(got, chunk, seg.bytes, a, l, Given(seg, c, r))
      BY <1>3, <1>5
<1>7. Reads(got, Given(seg, c, r))
      BY <1>6 DEF RangeRight
<1>8. Needed(chunk, r) \cap D = {} => got = Ok(Given(seg, c, r))
      BY <1>1, <1>2, <1>6 DEF RangeRight
<1> QED BY <1>4, <1>7, <1>8 DEF chunk

\* Without damage every read returns what was given.
LEMMA ReadsHold == IInv => RoundTrip
<1> SUFFICES ASSUME IInv, damage = {}, NEW i \in DOMAIN segs, NEW c \in 1..(Len(Types) + 1),
                    NEW r \in Ranges(segs[i].rowCount)
             PROVE  ReadOf(segs[i], c, r) = Ok(Given(segs[i], c, r))
    BY DEF RoundTrip
<1> DEFINE seg == segs[i]
<1>1. SegWell(seg) /\ SegmentHolds(seg, seg.tuples, {})
  <2>1. i \in 1..Len(segs) /\ Hit({}, i) = {}
        BY DEF IInv, SegsWell, Hit
  <2> QED BY <2>1 DEF IInv, SegsWell, Held
<1>2. CASE c \in DOMAIN Types
  <2>1. r \in Ranges(seg.rowCount)
        OBVIOUS
  <2> HIDE DEF seg
  <2>2. Needed(seg.columns[c], r) \cap {} = {}
        OBVIOUS
  <2>3. ReadOf(seg, c, r) = Ok(Given(seg, c, r))
        BY <1>1, <1>2, <2>1, <2>2, ReadIs
  <2> QED BY <2>3 DEF seg
<1>3. CASE c > Len(Types)
  <2>1. Len(seg.columns) = Len(Types)
        BY <1>1 DEF SegmentHolds
  <2> HIDE DEF seg
  <2>2. ReadOf(seg, c, r) = Ok([k \in 1..r.len |-> Null])
        BY <1>3, <2>1 DEF ReadOf, ColumnRows
  <2>3. Given(seg, c, r) = [k \in 1..r.len |-> Null]
        BY <1>3 DEF Given
  <2> QED BY <2>2, <2>3 DEF seg
<1>4. c \in DOMAIN Types \/ c > Len(Types)
      BY FirstColumn
<1> QED BY <1>2, <1>3, <1>4

\* With one buffer damaged, a read that does not need it is right.
LEMMA DamageHolds == IInv => DamageStaysLocal
<1> SUFFICES ASSUME IInv, NEW d \in damage, NEW c \in DOMAIN Types, NEW r \in Ranges(segs[d.seg].rowCount)
             PROVE  RightOrMissing(ReadOf(segs[d.seg], c, r), segs[d.seg], c, r, d.off)
    BY DEF DamageStaysLocal
<1>1. PICK k \in DOMAIN segs : \E off : damage = {[seg |-> k, off |-> off]}
      BY DEF IInv, DamageWell
<1>2. PICK off : damage = {[seg |-> k, off |-> off]}
      BY <1>1
<1>3. d.seg = k /\ d.off = off
      BY <1>2
<1> DEFINE seg == segs[k]
           read == ReadOf(seg, c, r)
           D == Hit(damage, k)
<1>4. D = {off}
  <2>1. {e \in damage : e.seg = k} = {d}
        BY <1>2, <1>3
  <2> QED BY <1>3, <2>1 DEF Hit
<1>5. SegWell(seg) /\ SegmentHolds(seg, seg.tuples, D)
      BY DEF IInv, SegsWell, Held
<1>6. r \in Ranges(seg.rowCount)
      BY <1>3
<1> HIDE DEF seg, D
<1>7. /\ Reads(read, Given(seg, c, r))
      /\ Needed(seg.columns[c], r) \cap D = {} => read = Ok(Given(seg, c, r))
      BY <1>5, <1>6, ReadIs
<1> HIDE DEF read
<1>8. CASE read.ok
  <2>1. read = Ok(Given(seg, c, r))
        BY <1>7, <1>8, Results DEF Reads
  <2>2. read.cells = Given(seg, c, r)
        BY <2>1, Results
  <2> QED BY <1>3, <1>8, <2>2 DEF RightOrMissing, read, seg
<1>9. CASE ~read.ok
  <2>1. read # Ok(Given(seg, c, r))
        BY <1>9, Results
  <2>2. off \in Needed(seg.columns[c], r)
        BY <1>4, <1>7, <2>1
  <2> QED BY <1>3, <1>9, <2>2 DEF RightOrMissing, read, seg
<1> QED BY <1>8, <1>9

\* A page of a column is the piece its zones were taken of.
LEMMA PageIs ==
    ASSUME NEW seg, SegWell(seg), NEW c \in DOMAIN Types, seg.rowCount = Len(seg.tuples),
           NEW size, size = seg.pageRows, size \in Nat \ {0}, NEW p \in Nat \ {0},
           (p - 1) * size < seg.rowCount
    PROVE  Given(seg, c, PageRange(seg, p - 1)) = Cut(ColumnOf(seg.tuples, c), size, p)
<1> DEFINE n == seg.rowCount
           at == (p - 1) * size
           to == p * size
           r == PageRange(seg, p - 1)
           rows == ColumnOf(seg.tuples, c)
<1>1. n \in Nat /\ at \in Nat /\ to \in Int /\ to = at + size /\ at < n
  <2>1. p - 1 \in Nat /\ p \in Int /\ size \in Int
        OBVIOUS
  <2> QED BY <2>1, TimesStep, TimesType DEF SegWell
<1>2. r = [start |-> at, len |-> Min({size, n - at})]
      BY DEF PageRange
<1>3. BlockEnd(p, size, n) = IF to <= n THEN to ELSE n
      BY DEF BlockEnd
<1>d. at = (p - 1) * size /\ n = seg.rowCount /\ r = PageRange(seg, p - 1)
      OBVIOUS
<1> HIDE DEF n, at, to, r
<1>4. Min({size, n - at}) = IF size <= n - at THEN size ELSE n - at
      BY <1>1, MinOfTwo
<1>5. r.start = at /\ r.len \in Nat /\ at + r.len <= n /\ at + r.len = BlockEnd(p, size, n)
      BY <1>1, <1>2, <1>3, <1>4
<1>6. /\ SubSeq(rows, at + 1, at + r.len) = Given(seg, c, r) /\ Len(rows) = n
      BY <1>1, <1>5, <1>d, GivenIs
<1> HIDE DEF rows
<1>7. Cut(rows, size, p) = SubSeq(rows, at + 1, BlockEnd(p, size, n))
      BY <1>6, <1>d DEF Cut
<1> QED BY <1>5, <1>6, <1>7, <1>d DEF rows

\* The zones of a column match its pages.
LEMMA ZonesAreRight ==
    ASSUME NEW seg, SegWell(seg), NEW c \in DOMAIN Types, seg.rowCount = Len(seg.tuples),
           NEW z, IsZones(z, ColumnOf(seg.tuples, c), seg.pageRows)
    PROVE  ZonesMatch(z, seg, c)
<1> DEFINE rows == ColumnOf(seg.tuples, c)
           size == seg.pageRows
           n == seg.rowCount
           m == Len(z)
<1>1. Len(rows) = n /\ n \in Nat
      BY ColumnOver DEF SegWell
<1>2. /\ size \in Nat \ {0} /\ m = CeilDiv(n, size) /\ DOMAIN z = 1..m /\ m \in Nat
      /\ \A p \in 1..m : z[p] = ToSet(Cut(rows, size, p))
      BY <1>1 DEF IsZones
<1>d. size = seg.pageRows /\ n = seg.rowCount /\ m = Len(z)
      OBVIOUS
<1> HIDE DEF rows, size, n, m
<1>3. n <= m * size /\ m * size < n + size /\ m * size \in Nat
      BY <1>1, <1>2, CeilDivBounds, TimesType
<1>4. m * size = (m - 1) * size + size /\ (m - 1) * size \in Int
  <2>1. m \in Int /\ size \in Int /\ m - 1 \in Int
        BY <1>2
  <2> QED BY <2>1, TimesStep
<1>5. (m - 1) * size < n
  <2> DEFINE x == m * size
             y == (m - 1) * size
  <2>1. x \in Nat /\ y \in Int /\ x = y + size /\ x < n + size /\ size \in Nat /\ n \in Nat
        BY <1>1, <1>2, <1>3, <1>4
  <2> HIDE DEF x, y
  <2>2. y < n
        BY <2>1
  <2> QED BY <2>2 DEF y
<1>6. ASSUME NEW p \in 1..m PROVE ToSet(Given(seg, c, PageRange(seg, p - 1))) = z[p]
  <2>1. p \in Nat \ {0} /\ p - 1 \in Nat /\ m - 1 \in Nat /\ p - 1 <= m - 1 /\ size \in Nat
        BY <1>2
  <2>2. (p - 1) * size <= (m - 1) * size /\ (p - 1) * size \in Nat /\ (m - 1) * size \in Nat
        BY <2>1, TimesGrows, TimesType
  <2>3. (p - 1) * size < n
    <3> DEFINE x == (p - 1) * size
               y == (m - 1) * size
    <3>1. x \in Nat /\ y \in Nat /\ n \in Nat /\ x <= y /\ y < n
          BY <1>1, <1>5, <2>2
    <3> HIDE DEF x, y
    <3>2. x < n
          BY <3>1
    <3> QED BY <3>2 DEF x
  <2>4. Given(seg, c, PageRange(seg, p - 1)) = Cut(rows, size, p)
        BY <1>2, <1>d, <2>1, <2>3, PageIs DEF rows
  <2> QED BY <1>2, <2>4
<1> QED BY <1>2, <1>3, <1>5, <1>6, <1>d DEF ZonesMatch

\* side_buffer returns what the checksum was taken of, or nothing.
LEMMA SideIs ==
    ASSUME NEW chunk, NEW z \in Nat, NEW bytes
    PROVE  \/ SideBuffer(chunk, {z}, bytes).cells = <<>>
           \/ SideBuffer(chunk, {z}, bytes).cells = chunk.buffers[z].checksum.cells
<1> DEFINE spec == chunk.buffers[z]
           P == {p \in Fetch(bytes, spec) : Verified(p, spec)}
<1>1. Min({z}) = z
      BY MinFound
<1>2. SideBuffer(chunk, {z}, bytes) = FirstOk(P)
      BY <1>1 DEF SideBuffer
<1>3. \A p \in P : p.cells = spec.checksum.cells
  <2>1. ASSUME NEW p \in P PROVE p.cells = spec.checksum.cells
    <3>1. [cells |-> p.cells, packed |-> p.packed] = spec.checksum
          BY DEF Verified
    <3>2. [cells |-> p.cells, packed |-> p.packed].cells = p.cells
          OBVIOUS
    <3> QED BY <3>1, <3>2
  <2> QED BY <2>1
<1> HIDE DEF P
<1>4. CASE P = {}
      BY <1>2, <1>4, Results DEF FirstOk
<1>5. CASE P # {}
  <2>1. (CHOOSE p \in P : TRUE) \in P
        BY <1>5
  <2> QED BY <1>2, <1>3, <1>5, <2>1, Results DEF FirstOk
<1> QED BY <1>4, <1>5

\* Zones read back match the pages.
LEMMA PagesHold == IInv => PagesBound
<1> SUFFICES ASSUME IInv, NEW i \in DOMAIN segs, NEW c \in DOMAIN Types
             PROVE  ZonesMatch(ReadPageZones(segs[i], c).cells, segs[i], c)
    BY DEF PagesBound
<1> DEFINE seg == segs[i]
           chunk == seg.columns[c]
           at == BuffersOf(chunk, "zones")
           rows == ColumnOf(seg.tuples, c)
           got == SideBuffer(chunk, at, seg.bytes)
<1>1. SegWell(seg) /\ SegmentHolds(seg, seg.tuples, Hit(damage, i))
      BY DEF IInv, SegsWell, Held
<1>2. seg.rowCount = Len(seg.tuples) /\ ColumnZones(chunk, rows, seg.pageRows)
      BY <1>1 DEF SegmentHolds
<1>3. ReadPageZones(seg, c) = got
      BY DEF ReadPageZones
<1>4. ZonesMatch(<<>>, seg, c)
      BY DEF ZonesMatch
<1>5. ASSUME at = {} PROVE ZonesMatch(got.cells, seg, c)
  <2>1. got.cells = <<>>
        BY <1>5, Results DEF SideBuffer
  <2> QED BY <1>4, <2>1
<1>6. ASSUME NEW z \in Nat, at = {z}, IsZones(chunk.buffers[z].checksum.cells, rows, seg.pageRows)
      PROVE  ZonesMatch(got.cells, seg, c)
  <2>1. ZonesMatch(chunk.buffers[z].checksum.cells, seg, c)
        BY <1>1, <1>2, <1>6, ZonesAreRight
  <2>2. got.cells = <<>> \/ got.cells = chunk.buffers[z].checksum.cells
        BY <1>6, SideIs
  <2> QED BY <1>4, <2>1, <2>2
<1> HIDE DEF seg, chunk, at, rows, got
<1>7. ZonesMatch(got.cells, seg, c)
      BY <1>2, <1>3, <1>5, <1>6 DEF ColumnZones, at
<1> QED BY <1>3, <1>7 DEF seg

----------------------------------------------------------------------------
\* Counters and sequence numbers stay in range, the memtable's chunks do not
\* overlap, and each segment has a chunk per column (memtable.rs, page.rs).
THEOREM FlushTypes == Spec => []TypeOK
BY FlushSafe, TypeHolds, PTL

\* Whatever was inserted, deleted by stale numbers and flushed before, the
\* numbers a memtable scan hands out name its rows one for one, and live_rows
\* counts them (memtable.rs).
THEOREM SeqnosAlwaysNameRows == Spec => []SeqnosNameRows
BY FlushSafe, SeqnosHold, PTL

\* For any batches, limits and z-order, splitting and clustering lose, repeat
\* and mix no row (split_row_groups, cluster).
THEOREM FlushLosesNoRow == Spec => []NoRowLostByFlush
BY FlushSafe, RowsHold, PTL

\* No segment exceeds its flush's row group size, and a clustered flush's
\* segments are slices of the key order (row_group_size_for, cluster).
THEOREM GroupsAlwaysFit == Spec => []GroupsFit
BY FlushSafe, GroupsHold, PTL

\* For any data, encoding, codec, block and page size, any range of any column
\* reads back as it was written (encode.rs, decode.rs, segment.rs).
THEOREM SegmentsRoundTrip == Spec => []RoundTrip
BY FlushSafe, ReadsHold, PTL

\* After damage to any one stored buffer a read is right or an error, and an
\* error only where the range needs that buffer (decode.rs: load).
THEOREM DamageIsLocal == Spec => []DamageStaysLocal
BY FlushSafe, DamageHolds, PTL

\* Page bounds that read back are exactly the values of the pages, which cover
\* the segment, damaged or not (page_zones, page_range, side_buffer).
THEOREM PageBoundsHold == Spec => []PagesBound
BY FlushSafe, PagesHold, PTL
====
