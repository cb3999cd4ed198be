---------------------------- MODULE PruningProofs ----------------------------
(***************************************************************************)
(* What Pruning skips holds no row a filter selects: proofs for tables,    *)
(* filters, sizes and hash functions of every kind.                        *)
(***************************************************************************)
EXTENDS Pruning, FiniteSetTheorems, SequenceTheorems, WellFoundedInduction, TLAPS

----------------------------------------------------------------------------
(* Least elements.                                                         *)

\* A set of natural numbers has a least one.
LEMMA Least ==
    ASSUME NEW S \in SUBSET Nat, S # {}
    PROVE  \E x \in S : \A y \in S : x <= y
<1> DEFINE R == OpToRel(<, Nat)
<1>1. IsWellFoundedOn(R, Nat)
      BY NatLessThanWellFounded
<1>2. \A y, z \in Nat : <<y, z>> \in R <=> y < z
      BY DEF OpToRel
<1> HIDE DEF R
<1>3. PICK x \in S : \A y \in S : ~ (<<y, x>> \in R)
      BY <1>1, WFMin
<1>4. ASSUME NEW y \in S PROVE x <= y
  <2>1. x \in Nat /\ y \in Nat /\ ~(<<y, x>> \in R)
        BY <1>3
  <2>2. ~(y < x)
        BY <1>2, <2>1
  <2> QED BY <2>1, <2>2
<1> QED BY <1>4

\* The least element of a set of naturals.
LEMMA MinIs ==
    ASSUME NEW S \in SUBSET Nat, S # {}
    PROVE  Min(S) \in S /\ \A x \in S : Min(S) <= x
BY Least DEF Min

\* The smaller and the larger of two numbers.
LEMMA MinOfTwo ==
    ASSUME NEW a \in Int, NEW b \in Int
    PROVE  Min({a, b}) = IF a <= b THEN a ELSE b
<1>1. \E x \in {a, b} : \A y \in {a, b} : x <= y
      OBVIOUS
<1>2. Min({a, b}) \in {a, b} /\ \A y \in {a, b} : Min({a, b}) <= y
      BY <1>1 DEF Min
<1> QED BY <1>2

\* The larger of two numbers.
LEMMA MaxOfTwo ==
    ASSUME NEW a \in Int, NEW b \in Int
    PROVE  Max({a, b}) = IF a >= b THEN a ELSE b
<1>1. \E x \in {a, b} : \A y \in {a, b} : x >= y
      OBVIOUS
<1>2. Max({a, b}) \in {a, b} /\ \A y \in {a, b} : Max({a, b}) >= y
      BY <1>1 DEF Max
<1> QED BY <1>2

----------------------------------------------------------------------------
(* The order of values.                                                    *)

\* The order of byte strings is transitive.
LEMMA LessTrans ==
    ASSUME NEW a \in Seq(Byte), NEW b \in Seq(Byte), NEW c \in Seq(Byte),
           Less(a, b), Less(b, c)
    PROVE  Less(a, c)
<1>1. PICK i \in DOMAIN b : /\ \A j \in 1..(i - 1) : j <= Len(a) /\ a[j] = b[j]
                            /\ i > Len(a) \/ a[i] < b[i]
      BY DEF Less
<1>2. PICK k \in DOMAIN c : /\ \A j \in 1..(k - 1) : j <= Len(b) /\ b[j] = c[j]
                            /\ k > Len(b) \/ b[k] < c[k]
      BY DEF Less
<1>3. /\ DOMAIN a = 1..Len(a) /\ DOMAIN b = 1..Len(b) /\ DOMAIN c = 1..Len(c)
      /\ Len(a) \in Nat /\ Len(b) \in Nat /\ Len(c) \in Nat
      /\ \A j \in 1..Len(a) : a[j] \in Int
      /\ \A j \in 1..Len(b) : b[j] \in Int
      /\ \A j \in 1..Len(c) : c[j] \in Int
      BY DEF Byte, TopByte
<1>4. CASE i < k
  <2>1. i \in DOMAIN c /\ b[i] = c[i]
        BY <1>2, <1>3, <1>4
  <2>2. \A j \in 1..(i - 1) : j <= Len(a) /\ a[j] = c[j]
        BY <1>1, <1>2, <1>3, <1>4
  <2>3. i > Len(a) \/ a[i] < c[i]
        BY <1>1, <2>1
  <2> QED BY <2>1, <2>2, <2>3 DEF Less
<1>5. CASE i = k
  <2>1. \A j \in 1..(i - 1) : j <= Len(a) /\ a[j] = c[j]
        BY <1>1, <1>2, <1>3, <1>5
  <2>2. i > Len(a) \/ a[i] < c[i]
        BY <1>1, <1>2, <1>3, <1>5
  <2> QED BY <1>2, <1>5, <2>1, <2>2 DEF Less
<1>6. CASE i > k
  <2>1. \A j \in 1..(k - 1) : j <= Len(a) /\ a[j] = c[j]
        BY <1>1, <1>2, <1>3, <1>6
  <2>2. k \in 1..(i - 1) /\ k <= Len(b)
        BY <1>3, <1>6
  <2>3. k <= Len(a) /\ a[k] = b[k] /\ b[k] < c[k]
        BY <1>1, <1>2, <1>3, <2>2
  <2>4. a[k] < c[k]
        BY <2>3
  <2> QED BY <1>2, <2>1, <2>4 DEF Less
<1> QED BY <1>3, <1>4, <1>5, <1>6

\* Of two byte strings that differ one is less.
LEMMA LessTotal ==
    ASSUME NEW a \in Seq(Byte), NEW b \in Seq(Byte), a # b
    PROVE  Less(a, b) \/ Less(b, a)
<1> DEFINE D == {i \in Nat \ {0} : \/ i > Len(a) \/ i > Len(b)
                                   \/ (i <= Len(a) /\ i <= Len(b) /\ a[i] # b[i])}
<1>1. /\ DOMAIN a = 1..Len(a) /\ DOMAIN b = 1..Len(b)
      /\ Len(a) \in Nat /\ Len(b) \in Nat
      /\ \A j \in 1..Len(a) : a[j] \in Int
      /\ \A j \in 1..Len(b) : b[j] \in Int
      BY DEF Byte, TopByte
<1>2. Len(a) + 1 \in D
      BY <1>1
<1>3. PICK i \in D : \A j \in D : i <= j
      BY <1>2, Least
<1>4. \A j \in 1..(i - 1) : j <= Len(a) /\ j <= Len(b) /\ a[j] = b[j]
      BY <1>1, <1>3
<1>5. CASE i > Len(a) /\ i > Len(b)
  <2>0. i \in Nat \ {0} /\ i <= Len(a) + 1 /\ i <= Len(b) + 1
    <3>1. Len(b) + 1 \in D
          BY <1>1
    <3> QED BY <1>2, <1>3, <3>1
  <2>1. Len(a) = Len(b)
    <3>1. Len(a) \in Nat /\ Len(b) \in Nat
          BY <1>1
    <3> HIDE DEF D
    <3>2. i = Len(a) + 1 /\ i = Len(b) + 1
          BY <1>5, <2>0, <3>1
    <3> QED BY <3>1, <3>2
  <2>2. \A j \in 1..Len(a) : a[j] = b[j]
        BY <1>1, <1>3, <1>4, <1>5
  <2> QED BY <2>1, <2>2, SeqEqual
<1>6. CASE i > Len(a) /\ i <= Len(b)
      BY <1>1, <1>3, <1>4, <1>6 DEF Less
<1>7. CASE i <= Len(a) /\ i > Len(b)
      BY <1>1, <1>3, <1>4, <1>7 DEF Less
<1>8. CASE i <= Len(a) /\ i <= Len(b)
  <2>1. a[i] < b[i] \/ b[i] < a[i]
        BY <1>1, <1>3, <1>8
  <2>2. i \in DOMAIN a /\ i \in DOMAIN b
        BY <1>1, <1>3, <1>8
  <2>3. CASE a[i] < b[i]
        BY <1>4, <2>2, <2>3 DEF Less
  <2>4. CASE b[i] < a[i]
    <3>1. \A j \in 1..(i - 1) : j <= Len(b) /\ b[j] = a[j]
          BY <1>4
    <3> QED BY <3>1, <2>2, <2>4 DEF Less
  <2> QED BY <2>1, <2>3, <2>4
<1> QED BY <1>1, <1>3, <1>5, <1>6, <1>7, <1>8

\* The same for less or equal.
LEMMA LeqTrans ==
    ASSUME NEW a \in Seq(Byte), NEW b \in Seq(Byte), NEW c \in Seq(Byte)
    PROVE  /\ Leq(a, b) /\ Leq(b, c) => Leq(a, c)
           /\ Less(a, b) /\ Leq(b, c) => Less(a, c)
           /\ Leq(a, b) /\ Less(b, c) => Less(a, c)
BY LessTrans DEF Leq

\* The image of a finite set is finite.
LEMMA ImageFinite ==
    ASSUME NEW S, IsFiniteSet(S), NEW f, NEW T, T = {f[x] : x \in S}
    PROVE  IsFiniteSet(T)
<1> DEFINE g == [x \in S |-> f[x]]
<1>1. g \in Surjection(S, T)
      BY DEF Surjection
<1> QED BY <1>1, FS_Surjection

\* A finite set has a least element under a total preorder.
LEMMA FiniteLeast ==
    ASSUME NEW U, NEW R,
           \A a, b \in U : <<a, b>> \in R \/ <<b, a>> \in R,
           \A a, b, c \in U : <<a, b>> \in R /\ <<b, c>> \in R => <<a, c>> \in R,
           NEW S \in SUBSET U, IsFiniteSet(S), S # {}
    PROVE  \E v \in S : \A w \in S : <<v, w>> \in R
<1> DEFINE HasLeast(T) == \E v \in T : \A w \in T : <<v, w>> \in R
           Bad == {n \in Nat : \E T \in SUBSET U :
                      IsFiniteSet(T) /\ T # {} /\ Cardinality(T) = n /\ ~HasLeast(T)}
<1> SUFFICES ASSUME ~HasLeast(S) PROVE FALSE
    OBVIOUS
<1>1. Cardinality(S) \in Bad
      BY FS_CardinalityType
<1> HIDE DEF HasLeast
<1>2. PICK n \in Bad : \A m \in Bad : n <= m
      BY <1>1, Least
<1>3. PICK T \in SUBSET U : IsFiniteSet(T) /\ T # {} /\ Cardinality(T) = n /\ ~HasLeast(T)
      BY <1>2
<1>4. PICK x \in T : TRUE
      BY <1>3
<1> DEFINE rest == T \ {x}
<1>5. IsFiniteSet(rest) /\ Cardinality(rest) = n - 1 /\ n \in Nat
      BY <1>2, <1>3, <1>4, FS_RemoveElement
<1>6. CASE rest = {}
  <2>1. T = {x} /\ <<x, x>> \in R
        BY <1>4, <1>6
  <2> QED BY <2>1, <1>3 DEF HasLeast
<1>7. CASE rest # {}
  <2>1. Cardinality(rest) \in Nat /\ Cardinality(rest) \notin Bad
    <3>1. Cardinality(rest) \in Nat
          BY <1>5, FS_CardinalityType
    <3>2. ASSUME n - 1 \in Bad PROVE FALSE
          BY <1>2, <1>5, <3>2
    <3> QED BY <1>5, <3>1, <3>2
  <2>2. HasLeast(rest)
        BY <1>5, <1>7, <2>1
  <2>3. PICK v \in rest : \A w \in rest : <<v, w>> \in R
        BY <2>2 DEF HasLeast
  <2>4. v \in U /\ x \in U /\ \A w \in T : w = x \/ w \in rest
        BY <1>4
  <2>5. CASE <<v, x>> \in R
        BY <1>3, <2>3, <2>4, <2>5 DEF HasLeast
  <2>6. CASE <<x, v>> \in R
    <3>1. \A w \in rest : <<x, w>> \in R
          BY <2>3, <2>4, <2>6
    <3>2. <<x, x>> \in R
          BY <2>4
    <3> QED BY <1>3, <1>4, <2>4, <3>1, <3>2 DEF HasLeast
  <2> QED BY <2>4, <2>5, <2>6
<1> QED BY <1>6, <1>7

\* What is not null in an array of values.
LEMMA NonNullFinite ==
    ASSUME NEW array \in Seq(Value)
    PROVE  /\ IsFiniteSet(NonNull(array))
           /\ NonNull(array) \subseteq Seq(Byte)
           /\ \A i \in 1..Len(array) : array[i] # Null => array[i] \in NonNull(array)
<1>1. Len(array) \in Nat /\ DOMAIN array = 1..Len(array)
      OBVIOUS
<1>2. \A i \in 1..Len(array) : array[i] \in Value
      OBVIOUS
<1> DEFINE all == {array[i] : i \in DOMAIN array}
<1>3. IsFiniteSet(all)
  <2>1. IsFiniteSet(1..Len(array))
        BY <1>1, FS_Interval
  <2> QED BY <1>1, <2>1, ImageFinite
<1>4. IsFiniteSet(all \ {Null})
      BY <1>3, FS_Difference
<1> QED BY <1>1, <1>2, <1>4 DEF NonNull, Value

\* The least and the greatest value a column holds.
LEMMA ValueExtremes ==
    ASSUME NEW S \in SUBSET Seq(Byte), IsFiniteSet(S), S # {}
    PROVE  /\ \E v \in S : \A w \in S : Leq(v, w)
           /\ \E v \in S : \A w \in S : Leq(w, v)
<1> DEFINE U == Seq(Byte)
           R == {p \in U \X U : Leq(p[1], p[2])}
           Q == {p \in U \X U : Leq(p[2], p[1])}
<1>1. \A a, b \in U : (<<a, b>> \in R <=> Leq(a, b)) /\ (<<a, b>> \in Q <=> Leq(b, a))
      OBVIOUS
<1>2. \A a, b \in U : Leq(a, b) \/ Leq(b, a)
      BY LessTotal DEF Leq
<1>3. \A a, b, c \in U : Leq(a, b) /\ Leq(b, c) => Leq(a, c)
      BY LeqTrans
<1> HIDE DEF U, R, Q
<1>4. S \in SUBSET U
      BY DEF U
<1>5. \E v \in S : \A w \in S : <<v, w>> \in R
  <2>1. /\ \A a, b \in U : <<a, b>> \in R \/ <<b, a>> \in R
        /\ \A a, b, c \in U : <<a, b>> \in R /\ <<b, c>> \in R => <<a, c>> \in R
        BY <1>1, <1>2, <1>3
  <2> QED BY <1>4, <2>1, FiniteLeast
<1>6. \E v \in S : \A w \in S : <<v, w>> \in Q
  <2>1. /\ \A a, b \in U : <<a, b>> \in Q \/ <<b, a>> \in Q
        /\ \A a, b, c \in U : <<a, b>> \in Q /\ <<b, c>> \in Q => <<a, c>> \in Q
        BY <1>1, <1>2, <1>3
  <2> QED BY <1>4, <2>1, FiniteLeast
<1> QED BY <1>1, <1>4, <1>5, <1>6

----------------------------------------------------------------------------
(* Zone maps.                                                              *)

\* A cut minimum is still below what it was cut from.
LEMMA PrefixBelow ==
    ASSUME NEW v \in Seq(Byte)
    PROVE  /\ Prefix(v) \in Seq(Byte)
           /\ Leq(Prefix(v), v)
           /\ Len(v) > MAX_BOUND_BYTES =>
                 /\ Len(Prefix(v)) = MAX_BOUND_BYTES
                 /\ \A j \in 1..MAX_BOUND_BYTES : Prefix(v)[j] = v[j]
<1> DEFINE n == Min({Len(v), MAX_BOUND_BYTES})
<1>1. MAX_BOUND_BYTES \in Nat \ {0} /\ Len(v) \in Nat /\ DOMAIN v = 1..Len(v)
      BY PruningAssumption
<1>2. n = IF Len(v) <= MAX_BOUND_BYTES THEN Len(v) ELSE MAX_BOUND_BYTES
      BY <1>1, MinOfTwo
<1> HIDE DEF n
<1>3. /\ SubSeq(v, 1, n) \in Seq(Byte) /\ Len(SubSeq(v, 1, n)) = n
      /\ \A j \in 1..n : SubSeq(v, 1, n)[j] = v[j]
      BY <1>1, <1>2
<1>4. Prefix(v) = SubSeq(v, 1, n)
      BY DEF Prefix, n
<1>5. CASE Len(v) <= MAX_BOUND_BYTES
  <2>1. SubSeq(v, 1, n) = v
        BY <1>1, <1>2, <1>3, <1>5, SeqEqual
  <2>2. ~(Len(v) > MAX_BOUND_BYTES)
        BY <1>1, <1>5
  <2> QED BY <1>4, <2>1, <2>2 DEF Leq
<1>6. CASE Len(v) > MAX_BOUND_BYTES
  <2>0. n = MAX_BOUND_BYTES
    <3>1. ~(Len(v) <= MAX_BOUND_BYTES)
          BY <1>1, <1>6
    <3> QED BY <1>2, <3>1
  <2>1. n = MAX_BOUND_BYTES /\ n + 1 \in DOMAIN v
        BY <1>1, <1>6, <2>0
  <2>2. Less(Prefix(v), v)
    <3>1. /\ \A j \in 1..((n + 1) - 1) : j <= Len(Prefix(v)) /\ Prefix(v)[j] = v[j]
          /\ n + 1 > Len(Prefix(v))
          BY <1>1, <1>3, <1>4, <2>1
    <3> QED BY <2>1, <3>1 DEF Less
  <2> QED BY <1>3, <1>4, <2>1, <2>2 DEF Leq
<1> QED BY <1>1, <1>5, <1>6

\* An incremented prefix is above everything that starts with the prefix.
LEMMA IncrementAbove ==
    ASSUME NEW p \in Seq(Byte), NEW v \in Seq(Byte), Len(p) <= Len(v),
           \A j \in 1..Len(p) : p[j] = v[j], IncrementPrefix(p) # Null
    PROVE  IncrementPrefix(p) \in Seq(Byte) /\ Less(v, IncrementPrefix(p))
<1> DEFINE room == {i \in DOMAIN p : p[i] < TopByte}
           m == Max(room)
           q == SubSeq(p, 1, m)
           up == [q EXCEPT ![m] = @ + 1]
<1>1. Len(p) \in Nat /\ DOMAIN p = 1..Len(p) /\ \A i \in 1..Len(p) : p[i] \in Byte
      OBVIOUS
<1>2. room # {} /\ IncrementPrefix(p) = up
      BY DEF IncrementPrefix
<1>3. m \in room
  <2> DEFINE T == {Len(p) - i : i \in room}
  <2>1. T \in SUBSET Nat /\ T # {}
        BY <1>1, <1>2
  <2>2. PICK t \in T : \A u \in T : t <= u
        BY <2>1, Least
  <2>3. PICK x \in room : t = Len(p) - x
        BY <2>2
  <2>4. ASSUME NEW y \in room PROVE x >= y
    <3>1. Len(p) - x <= Len(p) - y
          BY <2>2, <2>3
    <3> QED BY <1>1, <3>1
  <2> QED BY <2>4 DEF Max
<1> HIDE DEF m
<1>4. m \in 1..Len(p) /\ p[m] < TopByte /\ p[m] \in Int /\ p[m] >= 0
      BY <1>1, <1>3 DEF Byte, TopByte
<1>5. /\ q \in Seq(Byte) /\ Len(q) = m /\ \A j \in 1..m : q[j] = p[j]
      BY <1>1, <1>4
<1>6. q[m] + 1 \in Byte
      BY <1>4, <1>5 DEF Byte, TopByte
<1>7. up \in Seq(Byte) /\ Len(up) = m /\ up[m] = p[m] + 1
      /\ \A j \in 1..(m - 1) : up[j] = p[j]
  <2> HIDE DEF q
  <2>1. m \in Nat /\ DOMAIN q = 1..m
        BY <1>4, <1>5
  <2>2. up = [j \in 1..m |-> IF j = m THEN q[m] + 1 ELSE q[j]]
        BY <2>1
  <2> HIDE DEF up
  <2>3. \A j \in 1..m : up[j] \in Byte
        BY <1>5, <1>6, <2>2
  <2>4. up \in [1..m -> Byte]
        BY <2>2, <2>3
  <2>5. up \in Seq(Byte) /\ Len(up) = m
        BY <2>1, <2>4
  <2> QED BY <1>4, <1>5, <2>2, <2>5
<1> HIDE DEF up
<1>8. /\ m \in DOMAIN up
      /\ \A j \in 1..(m - 1) : j <= Len(v) /\ v[j] = up[j]
      /\ v[m] < up[m]
      BY <1>1, <1>4, <1>7
<1> QED BY <1>2, <1>7, <1>8 DEF Less

\* What a value is stored as, read as the same kind, is the value.
LEMMA RawBack ==
    ASSUME NEW kind, NEW v \in Seq(Byte)
    PROVE  Raw(kind, v) \in Seq(Byte) /\ Raw(kind, Raw(kind, v)) = v
<1>1. CASE kind # "float"
      BY <1>1 DEF Raw
<1>2. CASE kind = "float"
  <2> DEFINE w == Raw(kind, v)
             u == Raw(kind, w)
  <2>1. Len(v) \in Nat /\ DOMAIN v = 1..Len(v) /\ \A i \in 1..Len(v) : v[i] \in 0..3
        BY DEF Byte, TopByte
  <2>2. w = [i \in DOMAIN v |-> (v[i] + 2) % 4]
        BY <1>2 DEF Raw, TopByte
  <2>3. \A n \in 0..3 : (n + 2) % 4 \in 0..3 /\ (((n + 2) % 4) + 2) % 4 = n
        OBVIOUS
  <2> HIDE DEF w
  <2>4. DOMAIN w = 1..Len(v) /\ \A i \in 1..Len(v) : w[i] = (v[i] + 2) % 4 /\ w[i] \in 0..3
        BY <2>1, <2>2, <2>3
  <2>5. w \in [1..Len(v) -> Byte]
        BY <2>1, <2>2, <2>4 DEF Byte, TopByte
  <2>6. w \in Seq(Byte) /\ Len(w) = Len(v)
        BY <2>1, <2>5
  <2>7. u = [i \in DOMAIN w |-> (w[i] + 2) % 4]
        BY <1>2 DEF Raw, TopByte
  <2> HIDE DEF u
  <2>8. DOMAIN u = 1..Len(v) /\ \A i \in 1..Len(v) : u[i] = v[i]
        BY <2>1, <2>3, <2>4, <2>7
  <2>9. u \in [1..Len(v) -> Byte]
    <3>1. \A i \in 1..Len(v) : u[i] \in Byte
          BY <2>8
    <3>2. u = [i \in 1..Len(v) |-> u[i]]
          BY <2>4, <2>7
    <3> QED BY <3>1, <3>2
  <2>10. u \in Seq(Byte) /\ Len(u) = Len(v)
        BY <2>1, <2>9
  <2>11. u = v
        BY <2>1, <2>8, <2>10, SeqEqual
  <2> QED BY <2>6, <2>11 DEF u, w
<1> QED BY <1>1, <1>2

\* Whatever a zone map says of an array is true of each of its values: a stored
\* minimum, read as the kind it was stored as, is not above it, a stored maximum
\* not below, and nulls are counted.
LEMMA ZoneMapHolds ==
    ASSUME NEW kind, NEW array \in Seq(Value), NEW i \in 1..Len(array)
    PROVE  LET z == ZoneMap(kind, array) IN
           /\ array[i] # Null =>
                 /\ z.min # Null => /\ Raw(kind, z.min) \in Seq(Byte)
                                    /\ Leq(Raw(kind, z.min), array[i])
                 /\ z.max # Null => /\ Raw(kind, z.max) \in Seq(Byte)
                                    /\ Leq(array[i], Raw(kind, z.max))
                 /\ z.null_count # Len(array)
           /\ array[i] = Null => z.null_count # 0
           /\ z.null_count \in Nat
<1> DEFINE found == NonNull(array)
           known == kind # "list" /\ found # {}
           min == CHOOSE v \in found : \A w \in found : Leq(v, w)
           max == CHOOSE v \in found : \A w \in found : Leq(w, v)
           nulls == {j \in DOMAIN array : array[j] = Null}
           z == ZoneMap(kind, array)
<1>1. /\ IsFiniteSet(found) /\ found \subseteq Seq(Byte)
      /\ array[i] # Null => array[i] \in found
      BY NonNullFinite
<1>2. Len(array) \in Nat /\ DOMAIN array = 1..Len(array)
      OBVIOUS
<1>3. /\ IsFiniteSet(nulls) /\ Cardinality(nulls) \in Nat
      /\ array[i] # Null => Cardinality(nulls) # Len(array)
      /\ array[i] = Null => Cardinality(nulls) # 0
  <2>1. /\ IsFiniteSet(1..Len(array)) /\ Cardinality(1..Len(array)) = Len(array)
        BY <1>2, FS_Interval
  <2>2. nulls \subseteq 1..Len(array)
        BY <1>2
  <2>3. IsFiniteSet(nulls) /\ Cardinality(nulls) \in Nat
        BY <2>1, <2>2, FS_Subset, FS_CardinalityType
  <2>4. ASSUME array[i] # Null PROVE Cardinality(nulls) # Len(array)
    <3>1. i \in 1..Len(array) /\ i \notin nulls
          BY <2>4
    <3> HIDE DEF nulls
    <3> QED BY <2>1, <2>2, <3>1, FS_Subset
  <2>5. ASSUME array[i] = Null PROVE Cardinality(nulls) # 0
    <3>1. i \in nulls
          BY <1>2, <2>5
    <3> HIDE DEF nulls
    <3> QED BY <2>3, <3>1, FS_EmptySet
  <2> QED BY <2>3, <2>4, <2>5
<1>4. z.null_count = Cardinality(nulls)
      BY DEF ZoneMap
<1>5. ASSUME array[i] # Null, z.min # Null
      PROVE  Raw(kind, z.min) \in Seq(Byte) /\ Leq(Raw(kind, z.min), array[i])
  <2>1. known /\ z.min = Raw(kind, Prefix(min))
        BY <1>5 DEF ZoneMap, StoredBound
  <2>2. min \in found /\ Leq(min, array[i])
    <3>1. \E v \in found : \A w \in found : Leq(v, w)
          BY <1>1, <1>5, ValueExtremes
    <3> HIDE DEF found
    <3> QED BY <1>1, <1>5, <3>1
  <2> HIDE DEF min, found
  <2>3. min \in Seq(Byte) /\ array[i] \in Seq(Byte)
        BY <1>1, <1>5, <2>2
  <2>4. Prefix(min) \in Seq(Byte) /\ Leq(Prefix(min), min)
        BY <2>3, PrefixBelow
  <2>5. Raw(kind, z.min) = Prefix(min)
        BY <2>1, <2>4, RawBack
  <2> HIDE DEF z
  <2> QED BY <2>2, <2>3, <2>4, <2>5, LeqTrans
<1>6. ASSUME array[i] # Null, z.max # Null
      PROVE  Raw(kind, z.max) \in Seq(Byte) /\ Leq(array[i], Raw(kind, z.max))
  <2> DEFINE up == IF Len(max) > MAX_BOUND_BYTES THEN IncrementPrefix(Prefix(max)) ELSE max
  <2>1. known /\ up # Null /\ z.max = Raw(kind, up)
        BY <1>6 DEF ZoneMap, UpperBound, StoredBound
  <2>2. max \in found /\ Leq(array[i], max)
    <3>1. \E v \in found : \A w \in found : Leq(w, v)
          BY <1>1, <1>6, ValueExtremes
    <3> HIDE DEF found
    <3> QED BY <1>1, <1>6, <3>1
  <2> HIDE DEF max, found
  <2>3. max \in Seq(Byte) /\ array[i] \in Seq(Byte)
        BY <1>1, <1>6, <2>2
  <2>4. CASE Len(max) > MAX_BOUND_BYTES
    <3> DEFINE p == Prefix(max)
    <3>1. /\ p \in Seq(Byte) /\ Len(p) = MAX_BOUND_BYTES
          /\ \A j \in 1..MAX_BOUND_BYTES : p[j] = max[j]
          BY <2>3, <2>4, PrefixBelow
    <3>2. Len(p) <= Len(max)
          BY <2>3, <2>4, <3>1, PruningAssumption
    <3>3. IncrementPrefix(p) # Null
          BY <2>1, <2>4
    <3> HIDE DEF p
    <3>4. IncrementPrefix(p) \in Seq(Byte) /\ Less(max, IncrementPrefix(p))
          BY <2>3, <3>1, <3>2, <3>3, IncrementAbove
    <3>5. Less(array[i], IncrementPrefix(p))
          BY <2>2, <2>3, <3>4, LeqTrans
    <3>6. up \in Seq(Byte) /\ Leq(array[i], up)
          BY <2>4, <3>4, <3>5 DEF Leq, p
    <3>7. Raw(kind, z.max) = up
          BY <2>1, <3>6, RawBack
    <3> HIDE DEF up, z
    <3> QED BY <3>6, <3>7
  <2>5. CASE ~(Len(max) > MAX_BOUND_BYTES)
    <3>1. up = max
          BY <2>5
    <3>2. Raw(kind, z.max) = max
          BY <2>1, <2>3, <3>1, RawBack
    <3> HIDE DEF up, z
    <3> QED BY <2>2, <2>3, <3>2
  <2> QED BY <2>4, <2>5
<1> HIDE DEF z
<1>7. z = ZoneMap(kind, array)
      BY DEF z
<1> QED BY <1>3, <1>4, <1>5, <1>6, <1>7

----------------------------------------------------------------------------
(* LIKE and the pieces of its patterns.                                    *)

\* Plain bytes of a pattern stand next to each other in what it matches.
LEMMA RequiredFound ==
    ASSUME NEW pattern \in Seq(Byte \cup {ANY, ONE}), NEW v \in Seq(Byte),
           Like(pattern, v), NEW t \in Required(pattern)
    PROVE  t \in Trigrams(v)
<1> DEFINE width(j) == IF v[j] = 2 /\ j < Len(v) THEN 2 ELSE 1
           Takes(x, j, k) ==
               CASE x = ANY -> j <= k
                 [] x = ONE -> j <= Len(v) /\ k = j + width(j)
                 [] OTHER -> j <= Len(v) /\ v[j] = x /\ k = j + 1
<1>1. PICK at \in [1..(Len(pattern) + 1) -> 1..(Len(v) + 1)] :
          \A i \in DOMAIN pattern : Takes(pattern[i], at[i], at[i + 1])
      BY DEF Like
<1>2. /\ Len(pattern) \in Nat /\ DOMAIN pattern = 1..Len(pattern)
      /\ Len(v) \in Nat /\ SIZE \in Nat \ {0}
      BY PruningAssumption
<1>3. \A x \in Byte : x # ANY /\ x # ONE
      BY DEF Byte, ANY, ONE, TopByte
<1>4. \A x \in Byte : \A j, k : Takes(x, j, k) => j <= Len(v) /\ v[j] = x /\ k = j + 1
      BY <1>3
<1> HIDE DEF Takes
<1>5. PICK i \in 1..(Len(pattern) - SIZE + 1) : t = SubSeq(pattern, i, i + SIZE - 1)
      BY DEF Required, Trigrams
<1>6. \A j \in DOMAIN t : t[j] \in Byte
      BY DEF Required
<1>7. /\ i \in Nat \ {0} /\ i + SIZE - 1 <= Len(pattern)
      /\ Len(t) = SIZE /\ DOMAIN t = 1..SIZE
      /\ \A j \in 1..SIZE : t[j] = pattern[i + j - 1] /\ i + j - 1 \in DOMAIN pattern
      BY <1>2, <1>5
<1>8. \A j \in 1..SIZE : Takes(t[j], at[i + j - 1], at[i + j])
  <2> SUFFICES ASSUME NEW j \in 1..SIZE PROVE Takes(t[j], at[i + j - 1], at[i + j])
      OBVIOUS
  <2>1. i + j - 1 \in DOMAIN pattern /\ t[j] = pattern[i + j - 1] /\ (i + j - 1) + 1 = i + j
        BY <1>2, <1>7
  <2> QED BY <1>1, <2>1
<1>9. \A j \in 1..SIZE : /\ at[i + j - 1] <= Len(v) /\ v[at[i + j - 1]] = t[j]
                         /\ at[i + j] = at[i + j - 1] + 1
      BY <1>4, <1>6, <1>7, <1>8
<1>10. \A j \in 0..SIZE : at[i + j] \in Nat \ {0}
  <2>1. \A j \in 0..SIZE : i + j \in 1..(Len(pattern) + 1)
        BY <1>2, <1>7
  <2> QED BY <1>2, <2>1
<1> DEFINE Off == {j \in 0..SIZE : at[i + j] # at[i] + j}
<1>11. Off = {}
  <2> SUFFICES ASSUME Off # {} PROVE FALSE
      OBVIOUS
  <2>0. Off \in SUBSET Nat
        BY <1>2
  <2>1. PICK j \in Off : \A k \in Off : j <= k
        BY <2>0, Least
  <2>2. j \in 1..SIZE
    <3>1. i + 0 = i /\ at[i] \in Nat
          BY <1>7, <1>10
    <3> QED BY <1>2, <2>1, <3>1
  <2>3. j - 1 \in 0..SIZE /\ j - 1 \notin Off /\ i + (j - 1) = i + j - 1
        BY <1>2, <1>7, <2>1, <2>2
  <2>4. at[i + j - 1] = at[i] + (j - 1)
        BY <2>3
  <2>5. at[i + j] = at[i + j - 1] + 1 /\ at[i] \in Nat
    <3>1. i + 0 = i /\ at[i] \in Nat
          BY <1>7, <1>10
    <3> QED BY <1>9, <2>2, <3>1
  <2> QED BY <2>1, <2>2, <2>4, <2>5
<1> DEFINE k == at[i]
<1>12. k \in Nat \ {0}
  <2>1. i + 0 = i /\ 0 \in 0..SIZE
        BY <1>2, <1>7
  <2> QED BY <1>10, <2>1
<1>13. \A j \in 1..SIZE : k + j - 1 <= Len(v) /\ v[k + j - 1] = t[j]
  <2> SUFFICES ASSUME NEW j \in 1..SIZE
               PROVE  k + j - 1 <= Len(v) /\ v[k + j - 1] = t[j]
      OBVIOUS
  <2>1. j - 1 \in 0..SIZE /\ i + (j - 1) = i + j - 1
        BY <1>2, <1>7
  <2>2. at[i + j - 1] = at[i] + (j - 1)
        BY <1>11, <2>1
  <2>3. at[i + j - 1] = k + j - 1
        BY <1>12, <2>2
  <2> QED BY <1>9, <2>3
<1> HIDE DEF k
<1>14. k \in 1..(Len(v) - SIZE + 1)
  <2>1. k + SIZE - 1 <= Len(v)
    <3>1. SIZE \in 1..SIZE
          BY <1>2
    <3> QED BY <1>13, <3>1
  <2> QED BY <1>2, <1>12, <2>1
<1> DEFINE u == SubSeq(v, k, k + SIZE - 1)
<1>15. u \in Seq(Byte) /\ Len(u) = SIZE /\ \A j \in 1..SIZE : u[j] = v[k + j - 1]
      BY <1>2, <1>14
<1>16. u = t
  <2>1. t \in Seq(Byte \cup {ANY, ONE}) /\ u \in Seq(Byte \cup {ANY, ONE})
        BY <1>2, <1>5, <1>15
  <2> HIDE DEF u
  <2> QED BY <1>7, <1>13, <1>15, <2>1, SeqEqual
<1> QED BY <1>14, <1>16 DEF Trigrams

----------------------------------------------------------------------------
(* Statistics.                                                             *)

\* Statistics that are true of a container with value v in it.
Describes(s, v) ==
    /\ v # Null => /\ s.min # Null => s.min \in Seq(Byte) /\ Leq(s.min, v)
                   /\ s.max # Null => s.max \in Seq(Byte) /\ Leq(v, s.max)
                   /\ s.nulls # s.rows
                   /\ s.bloom # Null => Hash(Raw(s.kind, v)) \in s.bloom
    /\ v = Null => s.nulls # 0

\* A container with a value that passes a comparison is not ruled out by it.
LEMMA BoundsSound ==
    ASSUME NEW t, IsComparison(t), NEW row, row[t.column] \in Value, Passes(t, row),
           NEW s, Describes(s, row[t.column])
    PROVE  BoundsAllow(t, s)
<1> DEFINE v == row[t.column]
<1>1. v = Null \/ v \in Seq(Byte)
      BY DEF Value
<1>2. CASE t.op = "in"
  <2>1. v # Null /\ v \in t.of
        BY <1>2 DEF Passes
  <2> QED BY <1>2, <2>1 DEF BoundsAllow, Describes
<1>3. CASE t.op = "lt"
  <2>1. v # Null /\ Less(v, t.of) /\ t.of \in Seq(Byte)
        BY <1>3 DEF Passes, IsComparison
  <2>2. s.min # Null => Less(s.min, t.of)
        BY <1>1, <2>1, LeqTrans DEF Describes
  <2> QED BY <1>3, <2>1, <2>2 DEF BoundsAllow, Describes
<1>4. CASE t.op = "gt"
  <2>1. v # Null /\ Less(t.of, v) /\ t.of \in Seq(Byte)
        BY <1>4 DEF Passes, IsComparison
  <2>2. s.max # Null => Less(t.of, s.max)
        BY <1>1, <2>1, LeqTrans DEF Describes
  <2> QED BY <1>4, <2>1, <2>2 DEF BoundsAllow, Describes
<1>5. CASE t.op = "null"
  <2>1. v = Null
        BY <1>5 DEF Passes
  <2> QED BY <1>5, <2>1 DEF BoundsAllow, Describes
<1>6. CASE t.op \notin {"in", "lt", "gt", "null"}
      BY <1>6 DEF BoundsAllow
<1> QED BY <1>2, <1>3, <1>4, <1>5, <1>6

\* A row passes a term.
Meets(t, row) == IF t.op = "or" THEN \E u \in t.of : Passes(u, row) ELSE Passes(t, row)

\* A selected row meets each term of the filter.
LEMMA SelectsMeets ==
    ASSUME NEW filter, NEW row, Selects(filter, row), NEW t \in filter
    PROVE  Meets(t, row)
BY DEF Selects, Meets

\* DataFusion keeps a container with a row that passes the term.
LEMMA AllowsSound ==
    ASSUME NEW t, IsTerm(t), NEW row, Meets(t, row), NEW stats,
           \A c \in ColumnsOf(t) : row[c] \in Value /\ Describes(stats[c], row[c])
    PROVE  Allows(t, stats)
<1>1. CASE t.op = "or"
  <2>1. PICK u \in t.of : Passes(u, row) /\ IsComparison(u)
        BY <1>1 DEF Meets, IsTerm
  <2>2. u.column \in ColumnsOf(t)
        BY <1>1 DEF ColumnsOf
  <2>3. BoundsAllow(u, stats[u.column])
        BY <2>1, <2>2, BoundsSound
  <2> QED BY <1>1, <2>3 DEF Allows
<1>2. CASE t.op # "or"
  <2> DEFINE s == stats[t.column]
             v == row[t.column]
  <2>1. Passes(t, row) /\ IsComparison(t)
        BY <1>2 DEF Meets, IsTerm
  <2>2. t.column \in ColumnsOf(t)
        BY <1>2 DEF ColumnsOf
  <2>3. v \in Value /\ Describes(s, v)
        BY <2>2
  <2>4. BoundsAllow(t, s)
        BY <2>1, <2>3, BoundsSound
  <2>5. ASSUME t.op = "in" PROVE ~Excluded(s, t.of)
    <3>1. v # Null /\ v \in t.of
          BY <2>1, <2>5 DEF Passes
    <3>2. s.bloom # Null => MayContain(s.bloom, s.kind, v)
          BY <2>3, <3>1 DEF Describes, MayContain
    <3> QED BY <3>1, <3>2 DEF Excluded
  <2> QED BY <1>2, <2>4, <2>5 DEF Allows
<1> QED BY <1>1, <1>2

\* No statistics rule nothing out.
LEMMA NothingDescribes ==
    ASSUME NEW rows \in Int, NEW v
    PROVE  Describes(Nothing(rows), v)
BY PruningAssumption DEF Describes, Nothing

\* A zone map describes every value of the array it was built from, read as the
\* kind it was built for.
LEMMA KnownDescribes ==
    ASSUME NEW kind, NEW array \in Seq(Value), NEW i \in 1..Len(array),
           NEW rows, rows = Len(array), NEW bloom,
           bloom # Null /\ array[i] # Null => Hash(Raw(kind, array[i])) \in bloom
    PROVE  Describes(Known(kind, ZoneMap(kind, array), rows, bloom), array[i])
<1> DEFINE z == ZoneMap(kind, array)
           s == Known(kind, z, rows, bloom)
           v == array[i]
<1>1. /\ v # Null =>
             /\ z.min # Null => Raw(kind, z.min) \in Seq(Byte) /\ Leq(Raw(kind, z.min), v)
             /\ z.max # Null => Raw(kind, z.max) \in Seq(Byte) /\ Leq(v, Raw(kind, z.max))
             /\ z.null_count # Len(array)
      /\ v = Null => z.null_count # 0
      BY ZoneMapHolds
<1> HIDE DEF z
<1>2. /\ s.min # Null => z.min # Null /\ s.min = Raw(kind, z.min)
      /\ s.max # Null => z.max # Null /\ s.max = Raw(kind, z.max)
      /\ s.nulls = z.null_count /\ s.rows = rows /\ s.bloom = bloom /\ s.kind = kind
      BY DEF Known, DecodeBound
<1> HIDE DEF s
<1>3. Describes(s, v)
      BY <1>1, <1>2 DEF Describes
<1> QED BY <1>3 DEF s, z

----------------------------------------------------------------------------
(* Segments.                                                               *)

\* The columns of a segment are as long as the segment has rows.
LEMMA SegmentFacts ==
    ASSUME NEW seg \in Segments
    PROVE  /\ RowCount(seg) \in Nat
           /\ DOMAIN seg.columns = DOMAIN seg.fields
           /\ DOMAIN seg.columns = 1..Len(seg.columns) /\ Len(seg.columns) \in Nat
           /\ \A i \in DOMAIN seg.columns :
                 seg.columns[i] \in Seq(Value) /\ Len(seg.columns[i]) = RowCount(seg)
           /\ seg.deletes \subseteq 0..(RowCount(seg) - 1)
           /\ seg.blooms \cup seg.trigrams \subseteq DOMAIN seg.columns
<1>1. /\ seg.columns \in Seq(Seq(Value)) /\ seg.fields \in Seq(Kinds)
      /\ Len(seg.columns) = Len(seg.fields) /\ Len(seg.columns) > 0
      BY DEF Segments
<1>2. 1 \in DOMAIN seg.columns /\ seg.columns[1] \in Seq(Value)
      BY <1>1
<1> QED BY <1>1, <1>2 DEF Segments, RowCount

\* What finishing a segment adds, and what it leaves alone.
LEMMA BuiltFacts ==
    ASSUME NEW seg \in Segments, NEW b, b = BuildSegment(seg)
    PROVE  /\ b.columns = seg.columns /\ b.fields = seg.fields /\ b.deletes = seg.deletes
           /\ RowCount(b) = RowCount(seg)
           /\ StoredPageRows(b) = StoredPageRows(seg)
           /\ StoredBlockRows(b) = StoredBlockRows(seg)
           /\ DOMAIN b.zone = DOMAIN seg.columns
           /\ \A i \in DOMAIN seg.columns :
                 b.zone[i] = ZoneMap(seg.fields[i], seg.columns[i])
           /\ \A i \in DOMAIN seg.columns : b.pages[i] = PageZones(seg, i)
           /\ DOMAIN b.bloom = seg.blooms
           /\ \A i \in seg.blooms : b.bloom[i] = BloomFilter(seg.fields[i], seg.columns[i])
           /\ DOMAIN b.trigram = seg.trigrams
           /\ \A i \in seg.trigrams :
                 b.trigram[i] = TrigramFilter(seg.fields[i], seg.columns[i])
<1>1. b.columns = seg.columns /\ b.fields = seg.fields /\ b.deletes = seg.deletes
      BY DEF BuildSegment
<1>2. RowCount(b) = RowCount(seg)
      BY <1>1 DEF RowCount
<1>3. StoredPageRows(b) = StoredPageRows(seg) /\ StoredBlockRows(b) = StoredBlockRows(seg)
      BY <1>1, <1>2 DEF StoredPageRows, StoredBlockRows
<1> QED BY <1>1, <1>2, <1>3 DEF BuildSegment

\* The value of column c in row r, when the segment has that column, and of the
\* kind the segment stores.
HoldsAt(schema, seg, c, r, v) ==
    IndexOf(schema, c) \in DOMAIN seg.columns =>
        /\ v = seg.columns[IndexOf(schema, c)][r + 1]
        /\ schema[IndexOf(schema, c)].kind = seg.fields[IndexOf(schema, c)]

\* A segment's statistics are true of each of its rows.
LEMMA SegmentDescribes ==
    ASSUME NEW schema, NEW seg \in Segments, NEW r \in 0..(RowCount(seg) - 1),
           NEW c, NEW v, HoldsAt(schema, seg, c, r, v)
    PROVE  Describes(SegmentStatistics(schema, BuildSegment(seg), c), v)
<1> DEFINE b == BuildSegment(seg)
           at == IndexOf(schema, c)
           filter == IF at \in DOMAIN b.bloom THEN b.bloom[at] ELSE Null
<1>1. /\ b.columns = seg.columns /\ RowCount(b) = RowCount(seg)
      /\ DOMAIN b.zone = DOMAIN seg.columns
      /\ \A i \in DOMAIN seg.columns : b.zone[i] = ZoneMap(seg.fields[i], seg.columns[i])
      /\ DOMAIN b.bloom = seg.blooms
      /\ \A i \in seg.blooms : b.bloom[i] = BloomFilter(seg.fields[i], seg.columns[i])
      BY BuiltFacts
<1> HIDE DEF b, at
<1>2. RowCount(seg) \in Nat
      BY SegmentFacts
<1>3. CASE at \notin DOMAIN b.zone
  <2>1. SegmentStatistics(schema, b, c) = Nothing(RowCount(b))
        BY <1>3 DEF SegmentStatistics, at
  <2> QED BY <1>1, <1>2, <2>1, NothingDescribes DEF b
<1>4. CASE at \in DOMAIN b.zone
  <2> DEFINE array == seg.columns[at]
  <2>1. /\ array \in Seq(Value) /\ Len(array) = RowCount(seg) /\ v = array[r + 1]
        BY <1>1, <1>4, SegmentFacts DEF HoldsAt, at
  <2> DEFINE kind == seg.fields[at]
  <2>2. SegmentStatistics(schema, b, c) = Known(kind, ZoneMap(kind, array), Len(array), filter)
    <3>1. schema[at].kind = kind
          BY <1>1, <1>4 DEF HoldsAt, at
    <3> QED BY <1>1, <1>4, <2>1, <3>1 DEF SegmentStatistics, at
  <2>3. ASSUME filter # Null, v # Null PROVE Hash(Raw(kind, v)) \in filter
    <3>1. at \in DOMAIN b.bloom /\ filter = BloomFilter(kind, array)
          BY <1>1, <2>3
    <3>2. v \in NonNull(array)
          BY <1>2, <2>1, <2>3, NonNullFinite
    <3> HIDE DEF filter, array, kind
    <3> QED BY <2>3, <3>1, <3>2 DEF BloomFilter
  <2>4. r + 1 \in 1..Len(array)
        BY <1>2, <2>1
  <2> HIDE DEF filter, array, kind
  <2>5. Describes(Known(kind, ZoneMap(kind, array), Len(array), filter), array[r + 1])
        BY <2>1, <2>3, <2>4, KnownDescribes
  <2> QED BY <2>1, <2>2, <2>5 DEF b
<1> QED BY <1>3, <1>4

\* A LIKE that a row passes finds its pieces in the segment's filter.
LEMMA PiecesThere ==
    ASSUME NEW schema, NEW seg \in Segments, NEW r \in 0..(RowCount(seg) - 1),
           NEW t, t.op = "like", IsComparison(t),
           NEW row, row[t.column] \in Value, Passes(t, row),
           HoldsAt(schema, seg, t.column, r, row[t.column])
    PROVE  MayMatch(schema, BuildSegment(seg), t)
<1> DEFINE b == BuildSegment(seg)
           at == IndexOf(schema, t.column)
           v == row[t.column]
<1>1. /\ DOMAIN b.trigram = seg.trigrams
      /\ \A i \in seg.trigrams : b.trigram[i] = TrigramFilter(seg.fields[i], seg.columns[i])
      BY BuiltFacts
<1> HIDE DEF b, at
<1>2. v # Null /\ Like(t.of, v) /\ v \in Seq(Byte) /\ t.of \in Seq(Byte \cup {ANY, ONE})
  <2>1. v # Null /\ Like(t.of, v)
        BY DEF Passes
  <2>2. v \in Seq(Byte)
        BY <2>1 DEF Value
  <2>3. t.of \in Seq(Byte \cup {ANY, ONE})
        BY DEF IsComparison
  <2> QED BY <2>1, <2>2, <2>3
<1> HIDE DEF v
<1> SUFFICES ASSUME at \in DOMAIN b.trigram, b.trigram[at] # Null, NEW x \in Required(t.of)
             PROVE  Hash(x) \in b.trigram[at]
    BY DEF MayMatch, at, b
<1>3. at \in seg.trigrams /\ at \in DOMAIN seg.columns
      BY <1>1, SegmentFacts
<1> DEFINE array == seg.columns[at]
<1>4. array \in Seq(Value) /\ Len(array) = RowCount(seg) /\ v = array[r + 1]
      BY <1>3, SegmentFacts DEF HoldsAt, at, v
<1>5. r + 1 \in 1..Len(array)
      BY <1>4, SegmentFacts
<1>6. v \in NonNull(array)
      BY <1>2, <1>4, <1>5, NonNullFinite
<1>7. b.trigram[at] = TrigramFilter(seg.fields[at], array)
      BY <1>1, <1>3
<1>8. x \in Trigrams(v)
      BY <1>2, RequiredFound
<1> HIDE DEF array
<1> DEFINE seen == UNION {Trigrams(w) : w \in NonNull(array)}
<1>9. x \in seen
      BY <1>6, <1>8
<1>10. b.trigram[at] = {Hash(y) : y \in seen}
      BY <1>7 DEF TrigramFilter
<1> QED BY <1>9, <1>10

\* prune() keeps a segment that holds a row the filter selects.
THEOREM SegmentKept ==
    ASSUME NEW schema, NEW seg \in Segments, NEW r \in 0..(RowCount(seg) - 1),
           NEW filter, NEW row, Selects(filter, row),
           \A t \in filter : IsTerm(t) /\ \A c \in ColumnsOf(t) :
               row[c] \in Value /\ HoldsAt(schema, seg, c, r, row[c])
    PROVE  SurvivesPruning(schema, filter, BuildSegment(seg))
<1> DEFINE b == BuildSegment(seg)
<1>1. ASSUME NEW t \in Predicates(schema, filter)
      PROVE  Allows(t, [c \in ColumnsOf(t) |-> SegmentStatistics(schema, b, c)])
  <2> DEFINE stats == [c \in ColumnsOf(t) |-> SegmentStatistics(schema, b, c)]
  <2>1. t \in filter /\ IsTerm(t) /\ Meets(t, row)
        BY SelectsMeets DEF Predicates
  <2>2. ASSUME NEW c \in ColumnsOf(t)
        PROVE  row[c] \in Value /\ Describes(stats[c], row[c])
    <3>1. row[c] \in Value /\ HoldsAt(schema, seg, c, r, row[c])
          BY <2>1
    <3>2. Describes(SegmentStatistics(schema, BuildSegment(seg), c), row[c])
          BY <3>1, SegmentDescribes
    <3> QED BY <3>1, <3>2
  <2> HIDE DEF stats
  <2> QED BY <2>1, <2>2, AllowsSound DEF stats
<1>2. ASSUME NEW t \in filter, t.op = "like"
      PROVE  MayMatch(schema, b, t)
  <2>1. IsComparison(t) /\ Passes(t, row) /\ t.column \in ColumnsOf(t)
        BY <1>2, SelectsMeets DEF Meets, IsTerm, ColumnsOf
  <2>2. row[t.column] \in Value /\ HoldsAt(schema, seg, t.column, r, row[t.column])
        BY <2>1
  <2> QED BY <1>2, <2>1, <2>2, PiecesThere
<1> QED BY <1>1, <1>2 DEF SurvivesPruning

----------------------------------------------------------------------------
(* Pages.                                                                  *)

\* A number between two multiples of a page or block size.
LEMMA DivBounds ==
    ASSUME NEW P \in Nat \ {0}, NEW r \in Nat
    PROVE  r \div P \in Nat /\ (r \div P) * P <= r /\ r < (r \div P) * P + P
OBVIOUS

\* Multiples of distinct numbers are at least P apart.
LEMMA MultiplesApart ==
    ASSUME NEW P \in Nat \ {0}, NEW a \in Nat, NEW b \in Nat, a < b
    PROVE  a * P + P <= b * P
<1>1. b = a + 1 + (b - a - 1) /\ b - a - 1 \in Nat
      OBVIOUS
<1>2. (a + 1 + (b - a - 1)) * P = a * P + P + (b - a - 1) * P
      OBVIOUS
<1>3. (b - a - 1) * P >= 0
      BY <1>1
<1> QED BY <1>1, <1>2, <1>3

\* The quotient is the largest multiple that fits.
LEMMA DivLargest ==
    ASSUME NEW P \in Nat \ {0}, NEW q \in Nat, NEW x \in Nat, q * P <= x
    PROVE  q <= x \div P
<1>1. x \div P \in Nat /\ x < (x \div P) * P + P
      BY DivBounds
<1>2. ASSUME x \div P < q PROVE FALSE
      BY <1>1, <1>2, MultiplesApart
<1> QED BY <1>1, <1>2

\* A multiple above another is at least one step above it.
LEMMA NextMultiple ==
    ASSUME NEW P \in Nat \ {0}, NEW q \in Nat
    PROVE  q * P \in Nat /\ (q + 1) * P = q * P + P
OBVIOUS

\* A number has one quotient.
LEMMA DivUnique ==
    ASSUME NEW P \in Nat \ {0}, NEW q \in Nat, NEW x \in Nat, q * P <= x, x < q * P + P
    PROVE  x \div P = q
<1>1. x \div P \in Nat /\ (x \div P) * P <= x
      BY DivBounds
<1>2. q <= x \div P
      BY DivLargest
<1>3. ASSUME q < x \div P PROVE FALSE
  <2>1. q * P + P <= (x \div P) * P
        BY <1>1, <1>3, MultiplesApart
  <2> QED BY <1>1, <2>1, NextMultiple
<1> QED BY <1>1, <1>2, <1>3

\* Pages cover the rows, and each holds at least one.
LEMMA PagesCover ==
    ASSUME NEW P \in Nat \ {0}, NEW R \in Nat
    PROVE  /\ DivCeil(R, P) \in Nat
           /\ \A r \in 0..(R - 1) : r \div P \in 0..(DivCeil(R, P) - 1)
           /\ \A p \in 0..(DivCeil(R, P) - 1) : p * P < R
<1> DEFINE n == DivCeil(R, P)
<1>1. R + P - 1 \in Nat
      OBVIOUS
<1>2. n \in Nat /\ n * P <= R + P - 1
      BY <1>1, DivBounds DEF DivCeil
<1>3. ASSUME NEW r \in 0..(R - 1) PROVE r \div P \in 0..(n - 1)
  <2>1. r \div P \in Nat /\ (r \div P) * P <= r
        BY DivBounds
  <2>2. (r \div P + 1) * P = (r \div P) * P + P
        BY <2>1, NextMultiple
  <2>3. (r \div P + 1) * P <= R + P - 1
        BY <2>1, <2>2
  <2>4. r \div P + 1 <= n
        BY <1>1, <2>1, <2>3, DivLargest DEF DivCeil
  <2> HIDE DEF n
  <2> QED BY <1>2, <2>1, <2>4
<1>4. ASSUME NEW p \in 0..(n - 1) PROVE p * P < R
  <2>1. p \in Nat /\ p < n
        BY <1>2
  <2>2. p * P + P <= n * P
        BY <1>2, <2>1, MultiplesApart
  <2>3. p * P \in Nat
        BY <2>1, NextMultiple
  <2> HIDE DEF n
  <2>4. n * P \in Nat
        BY <1>2, NextMultiple
  <2> QED BY <1>2, <2>2, <2>3, <2>4
<1> QED BY <1>2, <1>3, <1>4

\* The bounds of page p are those of its rows.
LEMMA PageZone ==
    ASSUME NEW seg, NEW i, StoredPageRows(seg) # 0,
           DivCeil(RowCount(seg), PageRows) \in Nat,
           NEW p \in 0..(DivCeil(RowCount(seg), PageRows) - 1),
           NEW lo, lo = p * PageRows,
           NEW end, end = Min({(p + 1) * PageRows, RowCount(seg)})
    PROVE  PageZones(seg, i)[p + 1]
               = ZoneMap(seg.fields[i], SubSeq(seg.columns[i], lo + 1, end))
<1> DEFINE n == DivCeil(RowCount(seg), PageRows)
           From(k) == (k - 1) * PageRows + 1
           To(k) == Min({k * PageRows, RowCount(seg)})
<1>1. PageZones(seg, i)
          = [k \in 1..n |-> ZoneMap(seg.fields[i], SubSeq(seg.columns[i], From(k), To(k)))]
      BY DEF PageZones
<1>2. p + 1 \in 1..n /\ p + 1 - 1 = p
      OBVIOUS
<1>3. From(p + 1) = lo + 1
      BY <1>2
<1>4. To(p + 1) = end
      OBVIOUS
<1> HIDE DEF n, From, To
<1> QED BY <1>1, <1>2, <1>3, <1>4

\* The statistics of a page are true of each of its rows.
LEMMA PageDescribes ==
    ASSUME NEW schema, NEW seg \in Segments, NEW r \in 0..(RowCount(seg) - 1),
           StoredPageRows(seg) # 0,
           NEW loaded \in SUBSET DOMAIN seg.columns,
           NEW c, NEW v, HoldsAt(schema, seg, c, r, v)
    PROVE  Describes(PageStatistics(schema, BuildSegment(seg), loaded, c, r \div PageRows), v)
<1> DEFINE b == BuildSegment(seg)
           at == IndexOf(schema, c)
           R == RowCount(seg)
           p == r \div PageRows
           rows == Min({PageRows, R - p * PageRows})
<1>1. /\ b.columns = seg.columns /\ RowCount(b) = R
      /\ \A i \in DOMAIN seg.columns : b.pages[i] = PageZones(seg, i)
      BY BuiltFacts
<1> HIDE DEF b
<1>2. R \in Nat /\ PageRows \in Nat \ {0}
  <2>1. PageRows > 0
        BY DEF StoredPageRows
  <2> QED BY <2>1, SegmentFacts, PruningAssumption
<1>3. /\ p \in Nat /\ p * PageRows <= r /\ r < p * PageRows + PageRows
      /\ p * PageRows \in Nat /\ (p + 1) * PageRows = p * PageRows + PageRows
      /\ p \in 0..(DivCeil(R, PageRows) - 1)
  <2>1. r \in Nat /\ r \in 0..(R - 1)
        BY <1>2
  <2>2. p \in Nat /\ p * PageRows <= r /\ r < p * PageRows + PageRows
        BY <1>2, <2>1, DivBounds
  <2>3. p \in 0..(DivCeil(R, PageRows) - 1)
        BY <1>2, <2>1, PagesCover
  <2> HIDE DEF p
  <2>4. p * PageRows \in Nat /\ (p + 1) * PageRows = p * PageRows + PageRows
        BY <1>2, <2>2, NextMultiple
  <2> QED BY <2>2, <2>3, <2>4
<1> DEFINE lo == p * PageRows
<1> HIDE DEF R, p, lo
<1>4. /\ lo \in Nat /\ lo <= r /\ r < lo + PageRows /\ (p + 1) * PageRows = lo + PageRows
      /\ r \in 0..(R - 1)
      BY <1>3 DEF lo, R
<1>5. rows = IF PageRows <= R - lo THEN PageRows ELSE R - lo
      BY <1>2, <1>4, MinOfTwo DEF lo
<1> HIDE DEF rows
<1>6. CASE at \notin loaded
  <2>1. PageStatistics(schema, b, loaded, c, p) = Nothing(rows)
        BY <1>1, <1>6 DEF PageStatistics, rows, lo
  <2>2. rows \in Int
        BY <1>2, <1>4, <1>5
  <2> QED BY <2>1, <2>2, NothingDescribes DEF b, p
<1>7. CASE at \in loaded
  <2> DEFINE array == seg.columns[at]
             end == Min({(p + 1) * PageRows, R})
             page == SubSeq(array, lo + 1, end)
  <2>1. at \in DOMAIN seg.columns
        BY <1>7
  <2>2. /\ array \in Seq(Value) /\ Len(array) = R /\ v = array[r + 1]
        /\ schema[at].kind = seg.fields[at]
        BY <2>1, SegmentFacts DEF HoldsAt, R
  <2>3. end = IF lo + PageRows <= R THEN lo + PageRows ELSE R
        BY <1>2, <1>4, MinOfTwo
  <2>4. b.pages[at][p + 1] = ZoneMap(seg.fields[at], page)
    <3>1. b.pages[at] = PageZones(seg, at)
          BY <1>1, <2>1
    <3>2. p \in 0..(DivCeil(RowCount(seg), PageRows) - 1) /\ DivCeil(RowCount(seg), PageRows) \in Nat
          BY <1>2, <1>3, PagesCover DEF R
    <3>3. p * PageRows = lo /\ Min({(p + 1) * PageRows, RowCount(seg)}) = end
          BY DEF lo, R
    <3> HIDE DEF at
    <3> QED BY <1>3, <3>1, <3>2, <3>3, PageZone
  <2> HIDE DEF array, end
  <2>5. end \in Nat /\ end <= R /\ lo + 1 <= end /\ end - lo = rows /\ r + 1 <= end
        BY <1>2, <1>4, <1>5, <2>3
  <2>6. page \in Seq(Value) /\ Len(page) = rows
        BY <1>2, <1>4, <2>2, <2>5
  <2>7. r - lo + 1 \in 1..Len(page) /\ page[r - lo + 1] = array[r + 1]
        BY <1>2, <1>4, <2>2, <2>5
  <2> HIDE DEF page
  <2>8. Describes(Known(seg.fields[at], ZoneMap(seg.fields[at], page), rows, Null),
                  page[r - lo + 1])
        BY <2>6, <2>7, KnownDescribes
  <2>9. PageStatistics(schema, b, loaded, c, p)
            = Known(seg.fields[at], ZoneMap(seg.fields[at], page), rows, Null)
        BY <1>1, <1>7, <2>2, <2>4 DEF PageStatistics, rows, lo
  <2> QED BY <2>2, <2>7, <2>8, <2>9 DEF b, p
<1> QED BY <1>6, <1>7

\* keep_pages keeps the page of a row that passes every predicate.
THEOREM PageKept ==
    ASSUME NEW schema, NEW seg \in Segments, NEW r \in 0..(RowCount(seg) - 1),
           NEW predicates, NEW columns, NEW row,
           \A t \in predicates : IsTerm(t) /\ Meets(t, row) /\ \A c \in ColumnsOf(t) :
               row[c] \in Value /\ HoldsAt(schema, seg, c, r, row[c]),
           NEW keep, keep = KeepPages(schema, predicates, columns, BuildSegment(seg)),
           keep # Null
    PROVE  keep[r \div PageRows]
<1> DEFINE b == BuildSegment(seg)
           loaded == columns \cap DOMAIN b.columns
           pages == 0..(DivCeil(RowCount(b), PageRows) - 1)
           kept == {p \in pages : \A t \in predicates :
                       Allows(t, [c \in ColumnsOf(t) |->
                                   PageStatistics(schema, b, loaded, c, p)])}
           at == r \div PageRows
<1>1. b.columns = seg.columns /\ RowCount(b) = RowCount(seg)
      /\ StoredPageRows(b) = StoredPageRows(seg)
      BY BuiltFacts
<1>2. StoredPageRows(b) # 0 /\ keep = [p \in pages |-> p \in kept]
      BY DEF KeepPages
<1>3. PageRows \in Nat \ {0} /\ RowCount(seg) \in Nat
  <2>1. PageRows > 0
        BY <1>2 DEF StoredPageRows
  <2> QED BY <2>1, SegmentFacts, PruningAssumption
<1>4. at \in pages
      BY <1>1, <1>3, PagesCover
<1>5. ASSUME NEW t \in predicates
      PROVE  Allows(t, [c \in ColumnsOf(t) |-> PageStatistics(schema, b, loaded, c, at)])
  <2> DEFINE stats == [c \in ColumnsOf(t) |-> PageStatistics(schema, b, loaded, c, at)]
  <2>1. ASSUME NEW c \in ColumnsOf(t)
        PROVE  row[c] \in Value /\ Describes(stats[c], row[c])
    <3>1. row[c] \in Value /\ HoldsAt(schema, seg, c, r, row[c])
          OBVIOUS
    <3>2. loaded \in SUBSET DOMAIN seg.columns /\ StoredPageRows(seg) # 0
          BY <1>1, <1>2
    <3> HIDE DEF loaded
    <3>3. Describes(PageStatistics(schema, BuildSegment(seg), loaded, c, r \div PageRows), row[c])
          BY <3>1, <3>2, PageDescribes
    <3> QED BY <3>1, <3>3
  <2> HIDE DEF stats
  <2>2. Allows(t, stats)
        BY <2>1, AllowsSound
  <2> QED BY <2>2 DEF stats
<1>6. at \in kept
      BY <1>4, <1>5
<1> HIDE DEF at, kept, pages
<1> QED BY <1>2, <1>4, <1>6 DEF at

\* What keep_pages answers when it answers: a mark for each page.
LEMMA KeepPagesType ==
    ASSUME NEW schema, NEW seg \in Segments, NEW predicates, NEW columns,
           NEW keep, keep = KeepPages(schema, predicates, columns, BuildSegment(seg)),
           keep # Null
    PROVE  /\ PageRows \in Nat \ {0}
           /\ keep \in [0..(DivCeil(RowCount(seg), PageRows) - 1) -> BOOLEAN]
<1> DEFINE b == BuildSegment(seg)
<1>1. RowCount(b) = RowCount(seg)
      BY BuiltFacts
<1>2. /\ StoredPageRows(b) # 0
      /\ keep \in [0..(DivCeil(RowCount(b), PageRows) - 1) -> BOOLEAN]
  <2> HIDE DEF b
  <2> DEFINE pages == 0..(DivCeil(RowCount(b), PageRows) - 1)
             kept == {p \in pages : \A t \in predicates :
                         Allows(t, [c \in ColumnsOf(t) |->
                            PageStatistics(schema, b, columns \cap DOMAIN b.columns, c, p)])}
  <2>1. StoredPageRows(b) # 0 /\ keep = [p \in pages |-> p \in kept]
        BY DEF KeepPages, b
  <2> HIDE DEF pages, kept
  <2> QED BY <2>1 DEF pages
<1>3. PageRows > 0
      BY <1>2 DEF StoredPageRows
<1> QED BY <1>1, <1>2, <1>3, PruningAssumption

----------------------------------------------------------------------------
(* Ranges.                                                                 *)

\* Ranges inside R rows, not empty unless there are no rows, none overlapping
\* another.
WellRanged(ranges, R) ==
    /\ \A q \in ranges :
        q[1] \in Nat /\ q[2] \in Nat /\ q[1] + q[2] <= R /\ (R > 0 => q[2] > 0)
    /\ \A q, s \in ranges : q # s => RowsIn(q) \cap RowsIn(s) = {}

\* The ranges of the kept pages hold the rows of those pages.
LEMMA KeptRangesFit ==
    ASSUME NEW seg, RowCount(seg) \in Nat, PageRows \in Nat \ {0},
           NEW keep \in [0..(DivCeil(RowCount(seg), PageRows) - 1) -> BOOLEAN]
    PROVE  /\ WellRanged(KeptRanges(seg, keep), RowCount(seg))
           /\ \A r \in 0..(RowCount(seg) - 1) : keep[r \div PageRows] =>
                 \E q \in KeptRanges(seg, keep) : r \in RowsIn(q)
<1> DEFINE P == PageRows
           R == RowCount(seg)
           pages == DivCeil(R, P)
           First(p) == keep[p] /\ (p > 0 => ~keep[p - 1])
           Unwanted(p) == {q \in p..(pages - 1) : ~keep[q]} \cup {pages}
           After(p) == Min(Unwanted(p))
           End(p) == Min({After(p) * P, R})
           Span(p) == <<p * P, End(p) - p * P>>
           starts == {q \in DOMAIN keep : First(q)}
<1>1. KeptRanges(seg, keep) = {Span(p) : p \in starts}
      BY DEF KeptRanges
<1>2. P \in Nat \ {0} /\ R \in Nat /\ keep \in [0..(pages - 1) -> BOOLEAN]
      OBVIOUS
<1>3. /\ pages \in Nat
      /\ \A r \in 0..(R - 1) : r \div P \in 0..(pages - 1)
      /\ \A p \in 0..(pages - 1) : p * P < R
      BY <1>2, PagesCover
<1> HIDE DEF P, R, pages
<1>4. ASSUME NEW p \in 0..(pages - 1), keep[p]
      PROVE  /\ After(p) \in p..pages /\ After(p) > p
             /\ \A q \in p..(pages - 1) : ~keep[q] => After(p) <= q
             /\ \A k \in (p + 1)..pages : (\A j \in p..(k - 1) : keep[j]) => k <= After(p)
  <2>1. Unwanted(p) \in SUBSET Nat /\ Unwanted(p) # {} /\ pages \in Unwanted(p)
        BY <1>3
  <2>2. After(p) \in Unwanted(p) /\ \A x \in Unwanted(p) : After(p) <= x
        BY <2>1, MinIs
  <2>3. After(p) \in p..pages
        BY <1>3, <2>2
  <2>4. After(p) # p
        BY <1>3, <1>4, <2>2
  <2>5. ASSUME NEW k \in (p + 1)..pages, \A j \in p..(k - 1) : keep[j], After(p) < k PROVE FALSE
    <3>1. After(p) \in p..(k - 1) /\ After(p) # pages
          BY <1>3, <2>3, <2>5
    <3>2. keep[After(p)] /\ ~keep[After(p)]
          BY <2>2, <2>5, <3>1
    <3> QED BY <3>2
  <2> HIDE DEF After
  <2>6. After(p) > p
        BY <1>3, <2>3, <2>4
  <2>7. \A k \in (p + 1)..pages : (\A j \in p..(k - 1) : keep[j]) => k <= After(p)
        BY <1>3, <2>3, <2>5
  <2> QED BY <2>2, <2>3, <2>6, <2>7
<1> HIDE DEF After
<1>5. ASSUME NEW p \in 0..(pages - 1), keep[p]
      PROVE  /\ End(p) \in Nat /\ p * P \in Nat /\ p * P < End(p) /\ End(p) <= R
             /\ End(p) <= After(p) * P
             /\ \A x \in Nat : x < R /\ x < After(p) * P => x < End(p)
  <2>1. After(p) \in Nat /\ p \in Nat /\ p < After(p)
        BY <1>3, <1>4, <1>5
  <2>2. After(p) * P \in Nat /\ p * P \in Nat
        BY <1>2, <2>1, NextMultiple
  <2>3. p * P + P <= After(p) * P
        BY <1>2, <2>1, MultiplesApart
  <2>4. p * P < R
        BY <1>3
  <2>5. End(p) = IF After(p) * P <= R THEN After(p) * P ELSE R
        BY <1>2, <2>2, MinOfTwo
  <2> HIDE DEF End
  <2> DEFINE a == After(p) * P
             s == p * P
  <2>6. a \in Nat /\ s \in Nat /\ s + P <= a /\ s < R /\ End(p) = IF a <= R THEN a ELSE R
        BY <2>2, <2>3, <2>4, <2>5
  <2> HIDE DEF a, s
  <2>7. End(p) \in Nat /\ s < End(p) /\ End(p) <= R /\ End(p) <= a
        /\ \A x \in Nat : x < R /\ x < a => x < End(p)
        BY <1>2, <2>6
  <2> QED BY <2>2, <2>7 DEF a, s
<1> HIDE DEF End
<1>6. starts \subseteq 0..(pages - 1) /\ \A p \in starts : First(p)
      BY <1>2
<1>7. ASSUME NEW p \in starts
      PROVE  /\ Span(p)[1] = p * P /\ Span(p)[1] \in Nat /\ Span(p)[2] \in Nat /\ Span(p)[2] > 0
             /\ Span(p)[1] + Span(p)[2] = End(p) /\ End(p) <= R
             /\ \A x : x \in RowsIn(Span(p)) <=> x \in Nat /\ p * P <= x /\ x < End(p)
  <2>1. /\ End(p) \in Nat /\ p * P \in Nat /\ p * P < End(p) /\ End(p) <= R
        BY <1>5, <1>6
  <2>2. Span(p)[1] = p * P /\ Span(p)[2] = End(p) - p * P
        OBVIOUS
  <2> HIDE DEF Span
  <2> DEFINE s == p * P
  <2>3. s \in Nat /\ s < End(p) /\ Span(p)[1] = s /\ Span(p)[2] = End(p) - s
        BY <2>1, <2>2
  <2> HIDE DEF s
  <2>4. /\ Span(p)[2] \in Nat /\ Span(p)[2] > 0 /\ Span(p)[1] + Span(p)[2] = End(p)
        /\ \A x : x \in RowsIn(Span(p)) <=> x \in Nat /\ s <= x /\ x < End(p)
        BY <2>1, <2>3 DEF RowsIn
  <2> QED BY <2>1, <2>3, <2>4 DEF s
<1> HIDE DEF Span
<1>8. ASSUME NEW p \in starts, NEW q \in starts, p < q
      PROVE  RowsIn(Span(p)) \cap RowsIn(Span(q)) = {}
  <2>0. p \in 0..(pages - 1) /\ q \in 0..(pages - 1)
        BY <1>6
  <2>1. p \in Nat /\ q \in Nat /\ p \in 0..(pages - 1) /\ q \in 0..(pages - 1)
        BY <1>3, <2>0
  <2>2. keep[p] /\ keep[q] /\ ~keep[q - 1]
        BY <1>6, <1>8, <2>1
  <2>3. q - 1 \in p..(pages - 1)
        BY <1>3, <1>8, <2>1
  <2>4. After(p) \in Nat /\ After(p) < q
        BY <1>3, <1>4, <2>1, <2>2, <2>3
  <2>5. After(p) * P + P <= q * P /\ After(p) * P \in Nat /\ q * P \in Nat
        BY <1>2, <2>1, <2>4, MultiplesApart, NextMultiple
  <2>6. End(p) <= After(p) * P /\ End(p) \in Nat
        BY <1>5, <2>1, <2>2
  <2>7. End(p) <= q * P
        BY <1>2, <2>5, <2>6
  <2>8. ASSUME NEW x \in RowsIn(Span(p)), x \in RowsIn(Span(q)) PROVE FALSE
        BY <1>7, <2>5, <2>6, <2>7, <2>8
  <2> QED BY <2>8
<1>9. WellRanged(KeptRanges(seg, keep), RowCount(seg))
  <2>1. ASSUME NEW q \in KeptRanges(seg, keep)
        PROVE  q[1] \in Nat /\ q[2] \in Nat /\ q[1] + q[2] <= R /\ q[2] > 0
        BY <1>1, <1>7
  <2>2. ASSUME NEW q \in KeptRanges(seg, keep), NEW s \in KeptRanges(seg, keep), q # s
        PROVE  RowsIn(q) \cap RowsIn(s) = {}
    <3>1. PICK a \in starts, b \in starts : q = Span(a) /\ s = Span(b)
          BY <1>1
    <3>2. a \in Int /\ b \in Int /\ a # b
          BY <1>3, <1>6, <2>2, <3>1
    <3>3. a < b \/ b < a
          BY <3>2
    <3> QED BY <1>8, <3>1, <3>3
  <2> QED BY <2>1, <2>2 DEF WellRanged, R
<1>10. ASSUME NEW r \in 0..(R - 1), keep[r \div P]
       PROVE  \E q \in KeptRanges(seg, keep) : r \in RowsIn(q)
  <2> DEFINE g == r \div P
             Run == {q \in 0..g : \A k \in q..g : keep[k]}
  <2>1. g \in Nat /\ g * P <= r /\ r < g * P + P /\ g \in 0..(pages - 1) /\ r \in Nat /\ keep[g]
    <3>1. r \in Nat
          BY <1>2
    <3> QED BY <1>2, <1>3, <1>10, <3>1, DivBounds
  <2> HIDE DEF g
  <2>2. Run \in SUBSET Nat /\ g \in Run
        BY <2>1
  <2>3. PICK p \in Run : \A q \in Run : p <= q
        BY <2>2, Least
  <2>4. p \in 0..g /\ p \in 0..(pages - 1) /\ keep[p] /\ \A k \in p..g : keep[k]
        BY <1>3, <2>1, <2>3
  <2>5. ASSUME p > 0 PROVE ~keep[p - 1]
    <3>1. p - 1 \in 0..g /\ p - 1 \notin Run
          BY <2>1, <2>3, <2>4, <2>5
    <3>2. \A k \in (p - 1)..g : k = p - 1 \/ k \in p..g
          BY <2>1, <2>4
    <3> QED BY <2>4, <3>1, <3>2
  <2>6. p \in starts
        BY <1>2, <2>4, <2>5
  <2>7. g + 1 <= After(p) /\ After(p) \in Nat
    <3>1. g + 1 \in (p + 1)..pages /\ \A j \in p..((g + 1) - 1) : keep[j]
          BY <1>3, <2>1, <2>4
    <3> QED BY <1>3, <1>4, <2>4, <3>1
  <2>8. g * P + P <= After(p) * P /\ After(p) * P \in Nat
        BY <1>2, <2>1, <2>7, MultiplesApart, NextMultiple
  <2>9. g * P \in Nat
        BY <1>2, <2>1, NextMultiple
  <2>10. r < After(p) * P
        BY <1>2, <2>1, <2>8, <2>9
  <2>11. r < R
        BY <1>2
  <2>12. r < End(p)
        BY <1>5, <2>1, <2>4, <2>10, <2>11
  <2>13. p * P <= r
    <3>1. CASE p = g
          BY <2>1, <3>1
    <3>2. CASE p < g
      <4>1. p * P + P <= g * P /\ p * P \in Nat
            BY <1>2, <2>1, <2>4, <3>2, MultiplesApart, NextMultiple
      <4> QED BY <1>2, <2>1, <2>9, <4>1
    <3> QED BY <2>1, <2>4, <3>1, <3>2
  <2>14. r \in RowsIn(Span(p))
        BY <1>7, <2>1, <2>6, <2>12, <2>13
  <2> QED BY <1>1, <2>6, <2>14
<1> QED BY <1>9, <1>10 DEF P, R

\* The piece of a range in one of its blocks holds the rows of both.
LEMMA PieceRows ==
    ASSUME NEW B \in Nat \ {0}, NEW q, q[1] \in Nat, q[2] \in Nat, q[2] > 0,
           NEW b \in (q[1] \div B)..((q[1] + q[2] - 1) \div B)
    PROVE  /\ b \in Nat
           /\ Piece(q, b, B)[1] \in Nat /\ Piece(q, b, B)[2] \in Nat /\ Piece(q, b, B)[2] > 0
           /\ Piece(q, b, B)[1] + Piece(q, b, B)[2] <= q[1] + q[2]
           /\ \A x \in Nat : x \in RowsIn(Piece(q, b, B))
                 <=> x \in RowsIn(q) /\ b * B <= x /\ x < b * B + B
           /\ RowsIn(Piece(q, b, B)) \subseteq Nat
<1> DEFINE s == q[1]
           e == q[1] + q[2]
           lo == b * B
           p == Piece(q, b, B)
           at == Max({s, lo})
           end == Min({e, (b + 1) * B})
<1>1. s \in Nat /\ e \in Nat /\ s < e /\ e - 1 \in Nat
      OBVIOUS
<1>2. s \div B \in Nat /\ s < (s \div B) * B + B /\ (s \div B) * B <= s
      BY <1>1, DivBounds
<1>3. (e - 1) \div B \in Nat /\ ((e - 1) \div B) * B <= e - 1
      BY <1>1, DivBounds
<1>4. b \in Nat /\ s \div B <= b /\ b <= (e - 1) \div B
  <2>1. b \in (s \div B)..((e - 1) \div B)
        OBVIOUS
  <2> HIDE DEF s, e
  <2> QED BY <1>2, <1>3, <2>1
<1>5. lo \in Nat /\ (b + 1) * B = lo + B
      BY <1>4, NextMultiple
<1>6. lo <= e - 1
  <2>1. CASE b = (e - 1) \div B
        BY <1>3, <2>1
  <2>2. CASE b < (e - 1) \div B
    <3>1. b * B + B <= ((e - 1) \div B) * B
          BY <1>3, <1>4, <2>2, MultiplesApart
    <3> DEFINE m == ((e - 1) \div B) * B
    <3>2. m \in Nat /\ m <= e - 1 /\ lo + B <= m
          BY <1>3, <3>1, NextMultiple
    <3> HIDE DEF m, e, lo
    <3> QED BY <1>1, <1>5, <3>2
  <2> QED BY <1>3, <1>4, <2>1, <2>2
<1>7. s < lo + B
  <2>1. CASE b = s \div B
        BY <1>2, <2>1
  <2>2. CASE b > s \div B
    <3>1. (s \div B) * B + B <= b * B
          BY <1>2, <1>4, <2>2, MultiplesApart
    <3> DEFINE m == (s \div B) * B
    <3>2. m \in Nat /\ s < m + B /\ m + B <= lo
          BY <1>2, <3>1, NextMultiple
    <3> HIDE DEF m, s, lo
    <3> QED BY <1>1, <1>5, <3>2
  <2> QED BY <1>2, <1>4, <2>1, <2>2
<1> HIDE DEF lo
<1>8. at = (IF s >= lo THEN s ELSE lo) /\ end = (IF e <= lo + B THEN e ELSE lo + B)
      BY <1>1, <1>5, MaxOfTwo, MinOfTwo
<1>9. p[1] = at /\ p[2] = end - at
      BY DEF Piece, lo
<1>10. \A x : x \in RowsIn(q) <=> x \in Int /\ s <= x /\ x < e
      BY <1>1 DEF RowsIn
<1> HIDE DEF s, e, at, end, p
<1>11. /\ at \in Nat /\ end \in Nat /\ at < end /\ end <= e
       /\ \A x \in Nat : at <= x /\ x < end <=> s <= x /\ x < e /\ lo <= x /\ x < lo + B
      BY <1>1, <1>5, <1>6, <1>7, <1>8
<1>12. \A x : x \in RowsIn(p) <=> x \in Int /\ at <= x /\ x < end
      BY <1>9, <1>11 DEF RowsIn
<1>13. /\ p[1] \in Nat /\ p[2] \in Nat /\ p[2] > 0 /\ p[1] + p[2] <= e
      BY <1>1, <1>9, <1>11
<1>14. RowsIn(p) \subseteq Nat
      BY <1>11, <1>12
<1>15. ASSUME NEW x \in Nat
       PROVE  x \in RowsIn(p) <=> x \in RowsIn(q) /\ lo <= x /\ x < lo + B
      BY <1>10, <1>11, <1>12
<1> QED BY <1>4, <1>13, <1>14, <1>15 DEF p, e, lo

\* Ranges cut at blocks hold the same rows, and each stays in one block.
LEMMA SplitFits ==
    ASSUME NEW R \in Nat \ {0}, NEW B \in Nat \ {0}, NEW ranges, WellRanged(ranges, R)
    PROVE  /\ WellRanged(SplitAtBlocks(ranges, B), R)
           /\ \A q \in ranges : \A r \in RowsIn(q) :
                 \E s \in SplitAtBlocks(ranges, B) : r \in RowsIn(s)
           /\ \A s \in SplitAtBlocks(ranges, B) : \A x, y \in RowsIn(s) : x \div B = y \div B
<1> DEFINE Blocks(q) == (q[1] \div B)..((q[1] + q[2] - 1) \div B)
           S == SplitAtBlocks(ranges, B)
<1>1. S = UNION {{Piece(q, b, B) : b \in Blocks(q)} : q \in ranges}
      BY DEF SplitAtBlocks
<1>2. \A q \in ranges : q[1] \in Nat /\ q[2] \in Nat /\ q[2] > 0 /\ q[1] + q[2] <= R
      BY DEF WellRanged
<1>3. \A s \in S : \E q \in ranges : \E b \in Blocks(q) : s = Piece(q, b, B)
      BY <1>1
<1>4. \A q \in ranges : \A b \in Blocks(q) : Piece(q, b, B) \in S
      BY <1>1
<1>5. ASSUME NEW q \in ranges, NEW b \in Blocks(q)
      PROVE  /\ b \in Nat
             /\ Piece(q, b, B)[1] \in Nat /\ Piece(q, b, B)[2] \in Nat /\ Piece(q, b, B)[2] > 0
             /\ Piece(q, b, B)[1] + Piece(q, b, B)[2] <= R
             /\ \A x \in Nat : x \in RowsIn(Piece(q, b, B))
                   <=> x \in RowsIn(q) /\ b * B <= x /\ x < b * B + B
             /\ RowsIn(Piece(q, b, B)) \subseteq Nat
  <2>1. q[1] \in Nat /\ q[2] \in Nat /\ q[2] > 0 /\ q[1] + q[2] <= R
        BY <1>2
  <2> DEFINE p == Piece(q, b, B)
  <2>2. /\ b \in Nat
        /\ p[1] \in Nat /\ p[2] \in Nat /\ p[2] > 0
        /\ p[1] + p[2] <= q[1] + q[2]
        /\ \A x \in Nat : x \in RowsIn(p)
              <=> x \in RowsIn(q) /\ b * B <= x /\ x < b * B + B
        /\ RowsIn(p) \subseteq Nat
        BY <2>1, PieceRows
  <2> HIDE DEF p
  <2>3. p[1] + p[2] <= R
        BY <2>1, <2>2
  <2> QED BY <2>2, <2>3 DEF p
<1> HIDE DEF S, Blocks
<1>6. ASSUME NEW s \in S
      PROVE  s[1] \in Nat /\ s[2] \in Nat /\ s[1] + s[2] <= R /\ (R > 0 => s[2] > 0)
      BY <1>3, <1>5
<1>7. ASSUME NEW s \in S, NEW t \in S, s # t, NEW x \in RowsIn(s), x \in RowsIn(t)
      PROVE  FALSE
  <2>0. PICK q \in ranges : \E b \in Blocks(q) : s = Piece(q, b, B)
        BY <1>3
  <2>1. PICK b \in Blocks(q) : s = Piece(q, b, B)
        BY <2>0
  <2>9. PICK q2 \in ranges : \E b2 \in Blocks(q2) : t = Piece(q2, b2, B)
        BY <1>3
  <2>2. PICK b2 \in Blocks(q2) : t = Piece(q2, b2, B)
        BY <2>9
  <2>3. b \in Nat /\ x \in Nat /\ x \in RowsIn(q) /\ b * B <= x /\ x < b * B + B
        BY <1>5, <1>7, <2>1
  <2>4. b2 \in Nat /\ x \in RowsIn(q2) /\ b2 * B <= x /\ x < b2 * B + B
        BY <1>5, <1>7, <2>2, <2>3
  <2>5. q = q2
        BY <2>3, <2>4 DEF WellRanged
  <2>6. b = x \div B /\ b2 = x \div B
        BY <2>3, <2>4, DivUnique
  <2> QED BY <1>7, <2>1, <2>2, <2>5, <2>6
<1>8. ASSUME NEW q \in ranges, NEW r \in RowsIn(q)
      PROVE  \E s \in S : r \in RowsIn(s)
  <2> DEFINE b == r \div B
             last == q[1] + q[2] - 1
  <2>1. q[1] \in Nat /\ q[2] \in Nat /\ q[2] > 0
        BY <1>2
  <2>2. r \in Nat /\ q[1] <= r /\ r <= last /\ last \in Nat
        BY <2>1 DEF RowsIn
  <2>3. b \in Nat /\ b * B <= r /\ r < b * B + B /\ b * B \in Nat
        BY <2>2, DivBounds, NextMultiple
  <2> HIDE DEF b, last
  <2>4. b <= last \div B /\ last \div B \in Nat
    <3>1. b * B <= last
          BY <2>2, <2>3
    <3> QED BY <2>2, <2>3, <3>1, DivLargest, DivBounds
  <2>5. q[1] \div B <= b /\ q[1] \div B \in Nat
    <3>1. q[1] \div B \in Nat /\ (q[1] \div B) * B <= q[1] /\ (q[1] \div B) * B \in Nat
          BY <2>1, DivBounds, NextMultiple
    <3>2. (q[1] \div B) * B <= r
          BY <2>1, <2>2, <3>1
    <3> QED BY <2>2, <3>1, <3>2, DivLargest DEF b
  <2>6. b \in Blocks(q)
        BY <2>3, <2>4, <2>5 DEF Blocks, last
  <2>7. r \in RowsIn(Piece(q, b, B))
        BY <1>5, <2>2, <2>3, <2>6
  <2> QED BY <1>4, <2>6, <2>7
<1>9. ASSUME NEW s \in S, NEW x \in RowsIn(s), NEW y \in RowsIn(s)
      PROVE  x \div B = y \div B
  <2>0. PICK q \in ranges : \E b \in Blocks(q) : s = Piece(q, b, B)
        BY <1>3
  <2>1. PICK b \in Blocks(q) : s = Piece(q, b, B)
        BY <2>0
  <2>2. /\ b \in Nat /\ x \in Nat /\ y \in Nat
        /\ b * B <= x /\ x < b * B + B /\ b * B <= y /\ y < b * B + B
        BY <1>5, <2>1
  <2>3. x \div B = b /\ y \div B = b
        BY <2>2, DivUnique
  <2> QED BY <2>3
<1>10. WellRanged(S, R)
  <2>1. \A s, t \in S : s # t => RowsIn(s) \cap RowsIn(t) = {}
        BY <1>7
  <2> QED BY <1>6, <2>1 DEF WellRanged
<1> QED BY <1>8, <1>9, <1>10 DEF S

\* What read_segment_pages decodes: ranges inside the segment, none over
\* another, each in one block, with every row of the pages to keep.
THEOREM RangesFit ==
    ASSUME NEW seg, RowCount(seg) \in Nat, NEW keep,
           keep # Null => /\ PageRows \in Nat \ {0}
                          /\ keep \in [0..(DivCeil(RowCount(seg), PageRows) - 1) -> BOOLEAN]
    PROVE  /\ WellRanged(RangesToRead(seg, keep), RowCount(seg))
           /\ \A r \in 0..(RowCount(seg) - 1) : (keep = Null \/ keep[r \div PageRows]) =>
                 \E q \in RangesToRead(seg, keep) : r \in RowsIn(q)
           /\ StoredBlockRows(seg) > 0 =>
                 \A q \in RangesToRead(seg, keep) : \A x, y \in RowsIn(q) :
                     x \div StoredBlockRows(seg) = y \div StoredBlockRows(seg)
<1> DEFINE R == RowCount(seg)
           B == StoredBlockRows(seg)
           whole == {<<0, R>>}
           ranges == IF keep = Null THEN whole ELSE KeptRanges(seg, keep)
<1>1. RangesToRead(seg, keep) = SplitAtBlocks(ranges, B)
      BY DEF RangesToRead
<1>2. B \in Nat /\ (B > 0 => R > 0)
      BY PruningAssumption DEF StoredBlockRows
<1>3. WellRanged(whole, R) /\ \A r \in 0..(R - 1) : r \in RowsIn(<<0, R>>)
      BY DEF WellRanged, RowsIn
<1>4. WellRanged(ranges, R)
      BY <1>3, KeptRangesFit
<1>5. \A r \in 0..(R - 1) : (keep = Null \/ keep[r \div PageRows]) =>
          \E q \in ranges : r \in RowsIn(q)
  <2>1. CASE keep = Null
        BY <1>3, <2>1
  <2>2. CASE keep # Null
        BY <2>2, KeptRangesFit
  <2> QED BY <2>1, <2>2
<1> HIDE DEF R, B, ranges
<1>6. CASE B = 0
  <2>1. SplitAtBlocks(ranges, B) = ranges
        BY <1>6 DEF SplitAtBlocks
  <2> QED BY <1>1, <1>4, <1>5, <1>6, <2>1 DEF R, B
<1>7. CASE B > 0
  <2>1. R \in Nat \ {0} /\ B \in Nat \ {0}
        BY <1>2, <1>7 DEF R
  <2>2. /\ WellRanged(SplitAtBlocks(ranges, B), R)
        /\ \A q \in ranges : \A r \in RowsIn(q) :
              \E s \in SplitAtBlocks(ranges, B) : r \in RowsIn(s)
        /\ \A s \in SplitAtBlocks(ranges, B) : \A x, y \in RowsIn(s) : x \div B = y \div B
        BY <1>4, <2>1, SplitFits
  <2> HIDE DEF WellRanged
  <2> QED BY <1>1, <1>5, <2>2 DEF R, B
<1> QED BY <1>2, <1>6, <1>7

----------------------------------------------------------------------------
(* Batches.                                                                *)

\* A set in ascending order: each of its numbers, once.
LEMMA AscendingLists ==
    ASSUME NEW S \in SUBSET Nat, IsFiniteSet(S)
    PROVE  /\ Ascending(S) \in [1..Cardinality(S) -> S] /\ Cardinality(S) \in Nat
           /\ \A j, k \in 1..Cardinality(S) : Ascending(S)[j] = Ascending(S)[k] => j = k
           /\ \A x \in S : \E k \in 1..Cardinality(S) : Ascending(S)[k] = x
<1> DEFINE n == Cardinality(S)
           UpTo(i) == {j \in S : j <= i}
           Rank(i) == Cardinality(UpTo(i))
           rank == [i \in S |-> Rank(i)]
<1>1. n \in Nat
      BY FS_CardinalityType
<1>2. ASSUME NEW i \in S
      PROVE  IsFiniteSet(UpTo(i)) /\ Rank(i) \in 1..n
  <2>1. UpTo(i) \in SUBSET S /\ i \in UpTo(i)
        OBVIOUS
  <2> HIDE DEF UpTo
  <2>2. IsFiniteSet(UpTo(i)) /\ Rank(i) <= n
        BY <2>1, FS_Subset
  <2>3. Rank(i) \in Nat /\ Rank(i) # 0
        BY <2>1, <2>2, FS_CardinalityType, FS_EmptySet
  <2> HIDE DEF n, Rank
  <2> QED BY <1>1, <2>2, <2>3
<1>3. ASSUME NEW i \in S, NEW k \in S, i < k
      PROVE  Rank(i) # Rank(k)
  <2>1. i \in Nat /\ k \in Nat
        OBVIOUS
  <2>2. UpTo(i) \in SUBSET UpTo(k) /\ k \in UpTo(k) /\ k \notin UpTo(i)
    <3>1. ASSUME NEW j \in UpTo(i) PROVE j \in UpTo(k)
      <4>1. j \in S /\ j \in Nat /\ j <= i
            OBVIOUS
      <4>2. j <= k
            BY <1>3, <2>1, <4>1
      <4> QED BY <4>1, <4>2
    <3>2. ~(k <= i) /\ k <= k
          BY <1>3, <2>1
    <3> QED BY <3>1, <3>2
  <2>3. IsFiniteSet(UpTo(k))
        BY <1>2
  <2> HIDE DEF UpTo
  <2> QED BY <2>2, <2>3, FS_Subset
<1> HIDE DEF n, Rank
<1>4. rank \in Injection(S, 1..n)
  <2>1. rank \in [S -> 1..n]
        BY <1>2
  <2>2. \A i, k \in S : rank[i] = rank[k] => i = k
    <3> SUFFICES ASSUME NEW i \in S, NEW k \in S, i # k PROVE Rank(i) # Rank(k)
        OBVIOUS
    <3>1. i \in Nat /\ k \in Nat
          OBVIOUS
    <3>2. i < k \/ k < i
          BY <3>1
    <3> QED BY <1>3, <3>2
  <2> HIDE DEF rank
  <2> QED BY <2>1, <2>2 DEF Injection, IsInjective
<1>5. rank \in Surjection(S, 1..n)
  <2>1. IsFiniteSet(1..n) /\ Cardinality(1..n) = n
        BY <1>1, FS_Interval
  <2> HIDE DEF rank
  <2> QED BY <1>4, <2>1, FS_Injection DEF n
<1>6. \A k \in 1..n : \E i \in S : Rank(i) = k
      BY <1>5 DEF Surjection
<1>7. Ascending(S) = [k \in 1..n |-> CHOOSE i \in S : Rank(i) = k]
      BY DEF Ascending, n, Rank
<1>8. \A k \in 1..n : Ascending(S)[k] \in S /\ Rank(Ascending(S)[k]) = k
      BY <1>6, <1>7
<1>9. Ascending(S) \in [1..n -> S]
      BY <1>7, <1>8
<1>10. ASSUME NEW x \in S PROVE \E k \in 1..n : Ascending(S)[k] = x
  <2>1. Rank(x) \in 1..n /\ Ascending(S)[Rank(x)] \in S
        /\ Rank(Ascending(S)[Rank(x)]) = Rank(x)
        BY <1>2, <1>8
  <2>2. Ascending(S)[Rank(x)] = x
        BY <1>4, <2>1 DEF Injection, IsInjective
  <2> QED BY <2>1, <2>2
<1> QED BY <1>1, <1>8, <1>9, <1>10 DEF n

\* What is in a sequence of batches, and that it is there once.
InBatches(batches, x) == \E k \in DOMAIN batches : \E i \in DOMAIN batches[k] : batches[k][i] = x

Distinct(batches) ==
    \A k, m \in DOMAIN batches : \A i \in DOMAIN batches[k], j \in DOMAIN batches[m] :
        batches[k][i] = batches[m][j] => k = m /\ i = j

\* Slicing rows into batches keeps each of them, once; no batch is empty or
\* longer than asked for.
LEMMA SlicesFit ==
    ASSUME NEW T, NEW rows \in Seq(T), NEW n \in Nat,
           \A i, j \in 1..Len(rows) : rows[i] = rows[j] => i = j
    PROVE  LET batches == SliceBatches(rows, n) IN
           /\ batches \in Seq(Seq(T))
           /\ \A k \in DOMAIN batches : batches[k] # <<>> /\ (n > 0 => Len(batches[k]) <= n)
           /\ \A i \in 1..Len(rows) : InBatches(batches, rows[i])
           /\ Distinct(batches)
<1> DEFINE batches == SliceBatches(rows, n)
           L == Len(rows)
<1>0. L \in Nat /\ DOMAIN rows = 1..L
      OBVIOUS
<1>1. CASE rows = <<>>
  <2>1. batches = <<>> /\ L = 0
        BY <1>1 DEF SliceBatches
  <2> HIDE DEF batches
  <2>2. batches \in Seq(Seq(T)) /\ DOMAIN batches = {}
        BY <2>1
  <2> QED BY <2>1, <2>2 DEF Distinct, InBatches, batches
<1>2. CASE rows # <<>> /\ n = 0
  <2>1. batches = <<rows>>
        BY <1>2 DEF SliceBatches
  <2> HIDE DEF batches
  <2>2. batches \in Seq(Seq(T)) /\ DOMAIN batches = {1} /\ batches[1] = rows
        BY <2>1
  <2>3. \A i \in 1..L : InBatches(batches, rows[i])
        BY <1>0, <2>2 DEF InBatches
  <2>4. Distinct(batches)
        BY <1>0, <2>2 DEF Distinct
  <2>5. \A k \in DOMAIN batches : batches[k] # <<>> /\ (n > 0 => Len(batches[k]) <= n)
        BY <1>2, <2>2
  <2> QED BY <2>2, <2>3, <2>4, <2>5 DEF batches
<1>3. CASE rows # <<>> /\ n > 0
  <2> DEFINE K == DivCeil(L, n)
             From(k) == (k - 1) * n
             To(k) == Min({k * n, L})
             Batch(k) == SubSeq(rows, From(k) + 1, To(k))
  <2>1. batches = [k \in 1..K |-> Batch(k)]
        BY <1>3 DEF SliceBatches
  <2>2. n \in Nat \ {0} /\ L \in Nat
        BY <1>0, <1>3
  <2>3. /\ K \in Nat /\ \A r \in 0..(L - 1) : r \div n \in 0..(K - 1)
        /\ \A k \in 0..(K - 1) : k * n < L
        BY <2>2, PagesCover
  <2> HIDE DEF K, L
  <2>4. ASSUME NEW k \in 1..K
        PROVE  /\ From(k) \in Nat /\ To(k) \in Nat /\ From(k) < To(k) /\ To(k) <= L
               /\ To(k) <= From(k) + n
               /\ \A x \in 1..L : x <= From(k) + n => x <= To(k)
    <3>1. k - 1 \in 0..(K - 1) /\ k - 1 \in Nat /\ k \in Nat /\ (k - 1) + 1 = k
          BY <2>3
    <3>2. From(k) < L /\ From(k) \in Nat
          BY <2>2, <2>3, <3>1, NextMultiple
    <3>3. k * n = From(k) + n
          BY <2>2, <3>1, NextMultiple
    <3> HIDE DEF From
    <3>4. To(k) = IF From(k) + n <= L THEN From(k) + n ELSE L
          BY <2>2, <3>2, <3>3, MinOfTwo
    <3> HIDE DEF To
    <3> QED BY <2>2, <3>2, <3>4
  <2> HIDE DEF To
  <2>5. ASSUME NEW k \in 1..K
        PROVE  /\ Batch(k) \in Seq(T) /\ Len(Batch(k)) = To(k) - From(k)
               /\ DOMAIN Batch(k) = 1..(To(k) - From(k))
               /\ \A i \in 1..(To(k) - From(k)) :
                     Batch(k)[i] = rows[From(k) + i] /\ From(k) + i \in 1..L
    <3>1. From(k) \in Nat /\ To(k) \in Nat /\ From(k) < To(k) /\ To(k) <= Len(rows)
          BY <2>4 DEF L
    <3> HIDE DEF From
    <3> QED BY <2>2, <3>1 DEF L
  <2> HIDE DEF From, Batch
  <2> HIDE DEF batches
  <2>6. batches \in Seq(Seq(T)) /\ DOMAIN batches = 1..K /\ \A k \in 1..K : batches[k] = Batch(k)
    <3>1. batches \in [1..K -> Seq(T)]
          BY <2>1, <2>5
    <3> QED BY <2>1, <2>3, <3>1
  <2>7. ASSUME NEW k \in DOMAIN batches
        PROVE  batches[k] # <<>> /\ Len(batches[k]) <= n
    <3>1. k \in 1..K /\ batches[k] = Batch(k)
          BY <2>6
    <3>2. Len(Batch(k)) = To(k) - From(k) /\ To(k) - From(k) > 0 /\ To(k) - From(k) <= n
      <4>1. From(k) \in Nat /\ To(k) \in Nat /\ From(k) < To(k) /\ To(k) <= From(k) + n
            BY <2>4, <3>1
      <4> QED BY <2>2, <2>5, <3>1, <4>1
    <3>3. Len(Batch(k)) # 0
          BY <3>2
    <3> QED BY <3>1, <3>2, <3>3
  <2>8. ASSUME NEW x \in 1..L PROVE InBatches(batches, rows[x])
    <3> DEFINE k == (x - 1) \div n + 1
               i == x - From(k)
    <3>1. x - 1 \in Nat /\ x - 1 \in 0..(L - 1)
          BY <2>2
    <3>2. (x - 1) \div n \in 0..(K - 1)
          BY <2>3, <3>1
    <3>3. /\ (x - 1) \div n \in Nat /\ ((x - 1) \div n) * n <= x - 1
          /\ x - 1 < ((x - 1) \div n) * n + n
          BY <2>2, <3>1, DivBounds
    <3>4. k \in 1..K /\ k - 1 = (x - 1) \div n
          BY <2>3, <3>2, <3>3
    <3>5. From(k) = ((x - 1) \div n) * n
          BY <3>4 DEF From
    <3> HIDE DEF k
    <3>6. From(k) \in Nat /\ From(k) <= x - 1 /\ x - 1 < From(k) + n
          BY <2>4, <3>3, <3>4, <3>5
    <3>7. x <= To(k) /\ To(k) \in Nat
          BY <2>2, <2>4, <3>4, <3>6
    <3>8. i \in 1..(To(k) - From(k)) /\ From(k) + i = x
          BY <2>2, <3>6, <3>7
    <3>9. Batch(k)[i] = rows[From(k) + i] /\ i \in DOMAIN Batch(k)
          BY <2>5, <3>4, <3>8
    <3>10. batches[k][i] = rows[x] /\ i \in DOMAIN batches[k] /\ k \in DOMAIN batches
          BY <2>6, <3>4, <3>8, <3>9
    <3> HIDE DEF i
    <3> QED BY <3>10 DEF InBatches
  <2>9. Distinct(batches)
    <3> SUFFICES ASSUME NEW k \in DOMAIN batches, NEW m \in DOMAIN batches,
                        NEW i \in DOMAIN batches[k], NEW j \in DOMAIN batches[m],
                        batches[k][i] = batches[m][j]
                 PROVE  k = m /\ i = j
        BY DEF Distinct
    <3>1. k \in 1..K /\ m \in 1..K /\ batches[k] = Batch(k) /\ batches[m] = Batch(m)
          BY <2>6
    <3>2. /\ i \in 1..(To(k) - From(k)) /\ batches[k][i] = rows[From(k) + i]
          /\ From(k) + i \in 1..L
          BY <2>5, <3>1
    <3>3. /\ j \in 1..(To(m) - From(m)) /\ batches[m][j] = rows[From(m) + j]
          /\ From(m) + j \in 1..L
          BY <2>5, <3>1
    <3>4. From(k) + i = From(m) + j
          BY <3>2, <3>3 DEF L
    <3>5. /\ From(k) \in Nat /\ To(k) \in Nat /\ To(k) <= From(k) + n
          /\ From(m) \in Nat /\ To(m) \in Nat /\ To(m) <= From(m) + n
          BY <2>4, <3>1
    <3>6. /\ i \in Nat /\ i >= 1 /\ i <= n
          BY <2>2, <3>2, <3>5
    <3>7. /\ j \in Nat /\ j >= 1 /\ j <= n
          BY <2>2, <3>3, <3>5
    <3> DEFINE x == From(k) + i - 1
    <3>8. x \in Nat /\ From(k) <= x /\ x < From(k) + n /\ From(m) <= x /\ x < From(m) + n
          BY <2>2, <3>4, <3>5, <3>6, <3>7
    <3> HIDE DEF x
    <3>9. k - 1 = x \div n /\ m - 1 = x \div n
      <4>1. k - 1 \in Nat /\ m - 1 \in Nat
            BY <3>1
      <4>2. (k - 1) * n <= x /\ x < (k - 1) * n + n
            BY <3>8 DEF From
      <4>3. (m - 1) * n <= x /\ x < (m - 1) * n + n
            BY <3>8 DEF From
      <4>4. x \div n = k - 1
            BY <2>2, <3>8, <4>1, <4>2, DivUnique
      <4>5. x \div n = m - 1
            BY <2>2, <3>8, <4>1, <4>3, DivUnique
      <4> QED BY <4>4, <4>5
    <3>10. k = m
          BY <3>1, <3>9
    <3> QED BY <3>4, <3>5, <3>6, <3>7, <3>10
  <2> QED BY <2>6, <2>7, <2>8, <2>9 DEF batches, L
<1> QED BY <1>1, <1>2, <1>3

\* Decoding a range hands on its rows that are not deleted, each once.
THEOREM DecodeFits ==
    ASSUME NEW seg, NEW q, q[1] \in Nat, q[2] \in Nat
    PROVE  LET batches == DecodeRange(seg, q) IN
           /\ batches \in Seq(Seq(Nat))
           /\ \A k \in DOMAIN batches :
                 /\ batches[k] # <<>>
                 /\ ScanBatchRows > 0 => Len(batches[k]) <= ScanBatchRows
                 /\ \A i \in DOMAIN batches[k] : batches[k][i] \in RowsIn(q) \ seg.deletes
           /\ \A r \in RowsIn(q) \ seg.deletes : InBatches(batches, r)
           /\ Distinct(batches)
<1> DEFINE S == RowsIn(q) \ seg.deletes
           rows == Ascending(S)
           batches == SliceBatches(rows, ScanBatchRows)
<1>1. S \in SUBSET Nat /\ IsFiniteSet(S)
  <2>1. IsFiniteSet(RowsIn(q)) /\ RowsIn(q) \subseteq Nat
    <3>1. q[1] \in Int /\ q[1] + q[2] - 1 \in Int
          OBVIOUS
    <3>2. IsFiniteSet(q[1]..(q[1] + q[2] - 1))
          BY <3>1, FS_Interval
    <3> QED BY <3>1, <3>2 DEF RowsIn
  <2> QED BY <2>1, FS_Difference
<1> HIDE DEF S
<1>2. /\ rows \in [1..Cardinality(S) -> S] /\ Cardinality(S) \in Nat
      /\ \A j, k \in 1..Cardinality(S) : rows[j] = rows[k] => j = k
      /\ \A x \in S : \E k \in 1..Cardinality(S) : rows[k] = x
      BY <1>1, AscendingLists
<1> HIDE DEF rows
<1>3. rows \in Seq(S) /\ Len(rows) = Cardinality(S)
      BY <1>2
<1>4. ScanBatchRows \in Nat
      BY PruningAssumption
<1>5. /\ batches \in Seq(Seq(S))
      /\ \A k \in DOMAIN batches : batches[k] # <<>> /\ (ScanBatchRows > 0 => Len(batches[k]) <= ScanBatchRows)
      /\ \A i \in 1..Len(rows) : InBatches(batches, rows[i])
      /\ Distinct(batches)
      BY <1>2, <1>3, <1>4, SlicesFit
<1>6. DecodeRange(seg, q) = batches
      BY DEF DecodeRange, S, rows
<1> HIDE DEF batches
<1>7. \A k \in DOMAIN batches : \A i \in DOMAIN batches[k] : batches[k][i] \in S
      BY <1>5
<1>8. batches \in Seq(Seq(Nat))
  <2>1. \A k \in DOMAIN batches : batches[k] \in Seq(Nat)
        BY <1>1, <1>5
  <2> QED BY <1>5, <2>1
<1>9. \A r \in S : InBatches(batches, r)
      BY <1>2, <1>3, <1>5
<1> QED BY <1>5, <1>6, <1>7, <1>8, <1>9 DEF S

=============================================================================
