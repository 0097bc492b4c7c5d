--------------------------- MODULE Numbers_proofs ---------------------------
(***************************************************************************)
(* Proofs about the modules Order and QueueSlices: a finite set of numbers *)
(* in increasing order, C's unsigned division, and the division of queues  *)
(* between lcores.  The slices of QueueSlices partition the queues, and    *)
(* the lcore main() names as the owner of a queue is the lcore that polls  *)
(* it, for every number of queues and lcores.                              *)
(***************************************************************************)
EXTENDS QueueSlices, Order, Sequences, WellFoundedInduction, FiniteSetTheorems, FunctionTheorems,
        TLAPS

(***************************************************************************)
(* Sets of natural numbers.                                                *)
(***************************************************************************)

\* A set of natural numbers has a smallest one.
LEMMA Smallest ==
  ASSUME NEW T, T \subseteq Nat, T # {}
  PROVE  \E x \in T : \A y \in T : x <= y
  <1> DEFINE R == OpToRel(<, Nat)
  <1>1. \E x \in T : \A y \in T : ~ (<<y, x>> \in R)
    <2>1. IsWellFoundedOn(R, Nat)
      BY NatLessThanWellFounded
    <2> HIDE DEF R
    <2> QED
      BY <2>1, WFMin
  <1>2. \A x, y \in Nat : y < x => <<y, x>> \in R
    BY DEF OpToRel
  <1> HIDE DEF R
  <1>3. PICK x \in T : \A y \in T : ~ (<<y, x>> \in R)
    BY <1>1
  <1>4. ASSUME NEW y \in T PROVE x <= y
    <2>1. x \in Nat /\ y \in Nat
      BY <1>3
    <2>2. ~ (y < x)
      BY <1>2, <1>3, <2>1
    <2> QED
      BY <2>1, <2>2
  <1> QED
    BY <1>3, <1>4

\* The members of a finite set of numbers are told apart by their ranks, which
\* are the numbers below its size.
LEMMA RankFacts ==
  ASSUME NEW S, S \subseteq Nat, IsFiniteSet(S)
  PROVE  /\ \A x \in S : Rank(S, x) \in 0 .. Cardinality(S)-1
         /\ \A x, y \in S : x < y => Rank(S, x) < Rank(S, y)
         /\ \A x, y \in S : Rank(S, x) = Rank(S, y) => x = y
         /\ \A n \in 0 .. Cardinality(S)-1 : \E x \in S : Rank(S, x) = n
  <1> DEFINE Below(x) == {o \in S : o < x}
  <1>0. Cardinality(S) \in Nat
    BY FS_CardinalityType
  <1>1. ASSUME NEW x \in S
        PROVE  /\ IsFiniteSet(Below(x)) /\ Rank(S, x) = Cardinality(Below(x))
               /\ Rank(S, x) \in 0 .. Cardinality(S)-1
    <2>1. /\ IsFiniteSet(Below(x)) /\ Cardinality(Below(x)) <= Cardinality(S)
          /\ Cardinality(S) = Cardinality(Below(x)) => S = Below(x)
      BY FS_Subset, Below(x) \in SUBSET S
    <2>2. x \notin Below(x) /\ Cardinality(Below(x)) \in Nat
      BY <2>1, FS_CardinalityType
    <2> QED
      BY <1>0, <2>1, <2>2 DEF Rank
  <1>2. ASSUME NEW x \in S, NEW y \in S, x < y
        PROVE  Rank(S, x) < Rank(S, y)
    <2>1. Below(x) \in SUBSET Below(y) /\ x \in Below(y) /\ x \notin Below(x)
      <3>1. \A o \in S : o < x => o < y
        BY <1>2
      <3>2. ~ (x < x)
        OBVIOUS
      <3> QED
        BY <1>2, <3>1, <3>2
    <2>2. /\ Cardinality(Below(x)) <= Cardinality(Below(y))
          /\ Cardinality(Below(y)) = Cardinality(Below(x)) => Below(y) = Below(x)
      BY <1>1, <2>1, FS_Subset
    <2>3. Cardinality(Below(x)) # Cardinality(Below(y))
      BY <2>1, <2>2
    <2> HIDE DEF Below
    <2> QED
      BY <1>0, <1>1, <2>2, <2>3
  <1>3. \A x, y \in S : Rank(S, x) = Rank(S, y) => x = y
    <2>1. \A x, y \in S : x = y \/ x < y \/ y < x
      OBVIOUS
    <2>2. \A x \in S : Rank(S, x) \in 0 .. Cardinality(S)-1
      BY <1>1, Zenon
    <2>3. \A x \in S : Rank(S, x) \in Int
      BY <1>0, <2>2
    <2> QED
      BY <1>2, <2>1, <2>3
  <1>4. ASSUME NEW n \in 0 .. Cardinality(S)-1 PROVE \E x \in S : Rank(S, x) = n
    <2> DEFINE T == 0 .. Cardinality(S)-1
               f == [x \in S |-> Rank(S, x)]
    <2>1. f \in Injection(S, T)
      BY <1>1, <1>3 DEF Injection, IsInjective
    <2>2. IsFiniteSet(T) /\ Cardinality(T) = Cardinality(S)
      BY <1>0, FS_Interval
    <2>3. f \in Surjection(S, T)
      BY <2>1, <2>2, FS_Injection
    <2> QED
      BY <2>3 DEF Surjection
  <1> QED
    BY <1>1, <1>2, <1>3, <1>4

\* A set in increasing order: every member once, at its rank.
LEMMA AscendingFacts ==
  ASSUME NEW S, S \subseteq Nat, IsFiniteSet(S)
  PROVE  /\ Cardinality(S) \in Nat
         /\ Ascending(S) \in [1 .. Cardinality(S) -> S]
         /\ Ascending(S) \in Seq(S) /\ Len(Ascending(S)) = Cardinality(S)
         /\ \A n \in 1 .. Cardinality(S) : Rank(S, Ascending(S)[n]) = n-1
  <1>1. Cardinality(S) \in Nat
    BY FS_CardinalityType
  <1>2. ASSUME NEW n \in 1 .. Cardinality(S)
        PROVE  Ascending(S)[n] \in S /\ Rank(S, Ascending(S)[n]) = n-1
    <2>1. \E x \in S : Rank(S, x) = n-1
      <3>1. n-1 \in 0 .. Cardinality(S)-1
        BY <1>1
      <3> QED
        BY <3>1, RankFacts, Zenon
    <2>2. Ascending(S)[n] = CHOOSE x \in S : Rank(S, x) = n-1
      BY <1>2, Zenon DEF Ascending
    <2> QED
      BY <2>1, <2>2, Zenon
  <1>3. Ascending(S) \in [1 .. Cardinality(S) -> S]
    BY <1>2 DEF Ascending
  <1> QED
    BY <1>1, <1>2, <1>3

\* The rank of the next member is one more.
LEMMA NextRank ==
  ASSUME NEW S, S \subseteq Nat, IsFiniteSet(S), NEW p \in S, NEW q \in S, p < q,
         \A o \in S : ~ (p < o /\ o < q)
  PROVE  Rank(S, q) = Rank(S, p) + 1
  <1>1. {o \in S : o < q} = {o \in S : o < p} \union {p}
    <2>1. \A o \in S : o < q <=> o < p \/ o = p
      OBVIOUS
    <2> QED
      BY <2>1
  <1>2. IsFiniteSet({o \in S : o < p})
    BY FS_Subset
  <1>3. p \notin {o \in S : o < p}
    BY p \in Nat
  <1> QED
    BY <1>1, <1>2, <1>3, FS_AddElement, Zenon DEF Rank

-----------------------------------------------------------------------------
(***************************************************************************)
(* Facts about C's unsigned division.                                      *)
(***************************************************************************)

\* Quotient and remainder.
LEMMA DivBounds ==
  ASSUME NEW a \in Nat, NEW n \in Nat \ {0}
  PROVE  /\ a \div n \in Nat
         /\ n * (a \div n) <= a
         /\ a < n * (a \div n) + n
         /\ a % n \in 0 .. n-1
         /\ a = n * (a \div n) + (a % n)
  OBVIOUS

\* Multiplication keeps the order.
LEMMA MulMono ==
  ASSUME NEW a \in Nat, NEW b \in Nat, NEW c \in Nat, a <= b
  PROVE  a * c <= b * c
  OBVIOUS

\* Division keeps the order.
LEMMA DivMono ==
  ASSUME NEW a \in Nat, NEW b \in Nat, NEW n \in Nat \ {0}, a <= b
  PROVE  a \div n <= b \div n
  OBVIOUS

\* A quotient reaches m as soon as the dividend reaches m times the divisor.
LEMMA DivAtLeast ==
  ASSUME NEW a \in Nat, NEW m \in Nat, NEW n \in Nat \ {0}
  PROVE  /\ m * n <= a => m <= a \div n
         /\ a < m * n => a \div n < m
  <1> DEFINE d == a \div n
  <1>1. d \in Nat /\ n * d <= a /\ a < n * d + n
    BY DivBounds
  <1>2. ASSUME m * n <= a, d < m PROVE FALSE
    <2>1. (d + 1) * n <= m * n
      BY <1>1, <1>2, MulMono
    <2> QED
      BY <1>1, <1>2, <2>1
  <1>3. ASSUME a < m * n, m <= d PROVE FALSE
    <2>1. m * n <= d * n
      BY <1>1, <1>3, MulMono
    <2> QED
      BY <1>1, <1>3, <2>1
  <1> QED
    BY <1>1, <1>2, <1>3

-----------------------------------------------------------------------------

\* nf-chain: slices lie inside the queues and follow one another.
LEMMA NfSliceOrder ==
  ASSUME NEW q \in Nat, NEW n \in Nat \ {0}, NEW k \in 0 .. n-1
  PROVE  /\ NfFirst(q, n, k) \in Nat /\ NfLast(q, n, k) \in Nat
         /\ NfFirst(q, n, k) <= NfLast(q, n, k) /\ NfLast(q, n, k) <= q
         /\ \A j \in 0 .. k-1 : NfLast(q, n, j) <= NfFirst(q, n, k)
  <1>1. q * k \in Nat /\ q * (k+1) \in Nat /\ q * k <= q * (k+1)
    OBVIOUS
  <1>2. q * (k+1) <= q * n
    BY MulMono, k+1 <= n, k+1 \in Nat
  <1>3. (q * n) \div n = q
    OBVIOUS
  <1>4. ASSUME NEW j \in 0 .. k-1 PROVE NfLast(q, n, j) <= NfFirst(q, n, k)
    <2>1. q * (j+1) \in Nat /\ q * (j+1) <= q * k
      BY MulMono, j+1 <= k, j+1 \in Nat
    <2> QED
      BY <1>1, <2>1, DivMono DEF NfLast, NfFirst
  <1>5. q * n \in Nat
    OBVIOUS
  <1>6. /\ (q * k) \div n <= (q * (k+1)) \div n
        /\ (q * (k+1)) \div n <= (q * n) \div n
    BY <1>1, <1>2, <1>5, DivMono
  <1> QED
    BY <1>1, <1>3, <1>4, <1>6, DivBounds DEF NfLast, NfFirst

\* nf-chain: every queue is in some slice.
LEMMA NfSliceCover ==
  ASSUME NEW q \in Nat \ {0}, NEW n \in Nat \ {0}, NEW x \in 0 .. q-1
  PROVE  \E k \in 0 .. n-1 : x >= NfFirst(q, n, k) /\ x < NfLast(q, n, k)
  <1> DEFINE a == (x + 1) * n - 1
             k == a \div q
  <1>1. a \in Nat
    <2>1. 1 * n <= (x+1) * n
      BY MulMono
    <2> QED
      BY <2>1
  <1>2. k \in Nat /\ q * k <= a /\ a < q * k + q
    BY <1>1, DivBounds
  <1>3. k < n
    <2>1. (x + 1) * n <= q * n
      BY MulMono
    <2>2. a < n * q
      BY <2>1
    <2> QED
      BY <1>1, <2>2, DivAtLeast
  <1>4. q * k < (x + 1) * n
    BY <1>1, <1>2
  <1>5. (x + 1) * n <= q * (k + 1)
    BY <1>1, <1>2
  <1> HIDE DEF a, k
  <1>6. NfFirst(q, n, k) < x + 1
    BY <1>2, <1>4, DivAtLeast DEF NfFirst
  <1>7. x + 1 <= NfLast(q, n, k)
    BY SMTT(30), <1>2, <1>5, DivAtLeast DEF NfLast
  <1>8. NfFirst(q, n, k) \in Nat /\ NfLast(q, n, k) \in Nat
    BY <1>2, <1>3, NfSliceOrder
  <1> QED
    BY <1>2, <1>3, <1>6, <1>7, <1>8
\* nf-chain: get_lcore_for_queue() names the one lcore that polls the queue, so
\* the mbuf pool behind an RX queue is never shared between polling lcores.
THEOREM NfOwnerPolls ==
  ASSUME NEW q \in Nat \ {0}, NEW n \in Nat \ {0}, NEW x \in 0 .. q-1
  PROVE  /\ NfOwner(q, n, x) \in 0 .. n-1
         /\ \A k \in 0 .. n-1 :
              x \in NfFirst(q, n, k) .. NfLast(q, n, k) - 1 <=> k = NfOwner(q, n, x)
  <1> DEFINE In(k) == x >= NfFirst(q, n, k) /\ x < NfLast(q, n, k)
             Best(k) == In(k) /\ \A j \in 0 .. k-1 : ~ In(j)
  <1>1. ASSUME NEW k \in 0 .. n-1, In(k) PROVE Best(k)
    <2>1. ASSUME NEW j \in 0 .. k-1, In(j) PROVE FALSE
      <3>1. j \in 0 .. n-1
        OBVIOUS
      <3> QED
        BY <1>1, <2>1, <3>1, NfSliceOrder
    <2> QED
      BY <1>1, <2>1
  <1>2. ASSUME NEW k \in 0 .. n-1, NEW m \in 0 .. n-1, In(k), In(m) PROVE k = m
    <2>1. Best(k) /\ Best(m)
      BY <1>1, <1>2
    <2> QED
      BY <1>2, <2>1
  <1>3. \E k \in 0 .. n-1 : In(k)
    BY NfSliceCover
  <1>4. \E k \in 0 .. n-1 : Best(k)
    BY <1>1, <1>3
  <1>5. NfOwner(q, n, x) = CHOOSE k \in 0 .. n-1 : Best(k)
    BY DEF NfOwner
  <1> HIDE DEF Best
  <1>6. NfOwner(q, n, x) \in 0 .. n-1 /\ Best(NfOwner(q, n, x))
    BY <1>4, <1>5
  <1>7. In(NfOwner(q, n, x))
    BY <1>6 DEF Best
  <1>8. \A k \in 0 .. n-1 :
          x \in NfFirst(q, n, k) .. NfLast(q, n, k) - 1 <=> In(k)
    BY NfSliceOrder
  <1> HIDE DEF In
  <1> QED
    BY <1>2, <1>6, <1>7, <1>8

-----------------------------------------------------------------------------

\* mica: slices lie inside the queues and follow one another.
LEMMA MicaSliceOrder ==
  ASSUME NEW q \in Nat, NEW n \in Nat \ {0}, NEW k \in 0 .. n-1
  PROVE  /\ MicaFirst(q, n, k) \in Nat /\ MicaLast(q, n, k) \in Nat
         /\ MicaFirst(q, n, k) <= MicaLast(q, n, k) /\ MicaLast(q, n, k) <= q
         /\ \A j \in 0 .. k-1 : MicaLast(q, n, j) <= MicaFirst(q, n, k)
  <1> DEFINE per == q \div n  extra == q % n
  <1>1. per \in Nat /\ extra \in 0 .. n-1 /\ q = n * per + extra
    BY DivBounds
  <1>2. k * per \in Nat /\ (k + 1) * per <= n * per /\ (k + 1) * per = k * per + per
    BY <1>1, MulMono
  <1>3. ASSUME NEW j \in 0 .. k-1 PROVE MicaLast(q, n, j) <= MicaFirst(q, n, k)
    <2>1. j * per \in Nat /\ (j + 1) * per <= k * per /\ (j + 1) * per = j * per + per
      BY <1>1, MulMono
    <2> HIDE DEF per, extra
    <2>2. MicaLast(q, n, j) = j * per + (IF j < extra THEN j ELSE extra) + per
                                + (IF j < extra THEN 1 ELSE 0)
      BY DEF MicaLast, MicaFirst, per, extra
    <2>3. MicaFirst(q, n, k) = k * per + (IF k < extra THEN k ELSE extra)
      BY DEF MicaFirst, per, extra
    <2> QED
      BY <1>1, <1>2, <2>1, <2>2, <2>3
  <1>4. /\ MicaFirst(q, n, k) = k * per + (IF k < extra THEN k ELSE extra)
        /\ MicaLast(q, n, k) = MicaFirst(q, n, k) + per + (IF k < extra THEN 1 ELSE 0)
    BY DEF MicaLast, MicaFirst
  <1> HIDE DEF per, extra
  <1> QED
    BY <1>1, <1>2, <1>3, <1>4

\* mica: the lcore whose pool main() gives to an RX queue is the one lcore that
\* polls that queue.
THEOREM MicaOwnerPolls ==
  ASSUME NEW q \in Nat \ {0}, NEW n \in Nat \ {0}, n <= q, NEW x \in 0 .. q-1
  PROVE  /\ MicaOwner(q, n, x) \in 0 .. n-1
         /\ \A k \in 0 .. n-1 :
              x \in MicaFirst(q, n, k) .. MicaLast(q, n, k) - 1 <=> k = MicaOwner(q, n, x)
  <1> DEFINE per == q \div n  extra == q % n  boundary == extra * (per + 1)
             o == MicaOwner(q, n, x)
  <1>1. per \in Nat \ {0} /\ extra \in 0 .. n-1 /\ q = n * per + extra
    <2>1. 1 <= per
      BY DivAtLeast
    <2> QED
      BY <2>1, DivBounds
  <1>2. boundary \in Nat /\ boundary = extra * per + extra
    BY <1>1
  <1>3. /\ o \in 0 .. n-1
        /\ x >= MicaFirst(q, n, o)
        /\ x < MicaLast(q, n, o)
    <2>1. CASE x < boundary
      <3> DEFINE p == per + 1
      <3>1. o = x \div p
        BY <2>1 DEF MicaOwner
      <3>2. p \in Nat \ {0} /\ extra \in Nat /\ x < extra * p /\ x \in Nat
        BY <1>1, <2>1
      <3> HIDE DEF p, per, extra, o
      <3>3. o \in Nat /\ p * o <= x /\ x < p * o + p
        BY <3>1, <3>2, DivBounds
      <3>4. o < extra
        BY <3>1, <3>2, DivAtLeast
      <3>5. /\ MicaFirst(q, n, o) = o * per + o
            /\ MicaLast(q, n, o) = o * per + o + per + 1
        BY <1>1, <3>3, <3>4 DEF MicaFirst, MicaLast, per, extra
      <3>6. p * o = o * per + o
        BY <1>1, <3>3 DEF p
      <3> QED
        BY <1>1, <3>3, <3>4, <3>5, <3>6 DEF p
    <2>2. CASE x >= boundary
      <3> DEFINE y == x - boundary  d == y \div per
      <3>1. o = extra + d /\ y \in Nat
        BY <1>1, <1>2, <2>2 DEF MicaOwner
      <3>2. d \in Nat /\ per * d <= y /\ y < per * d + per
        BY <1>1, <3>1, DivBounds
      <3>3. d < n - extra
        <4>1. n - extra \in Nat /\ (n - extra) * per = n * per - extra * per
          BY <1>1
        <4>2. y < (n - extra) * per
          BY <1>1, <1>2, <4>1
        <4> QED
          BY <1>1, <3>1, <4>1, <4>2, DivAtLeast
      <3>4. /\ MicaFirst(q, n, o) = o * per + extra
            /\ MicaLast(q, n, o) = o * per + extra + per
        BY <1>1, <3>1, <3>2 DEF MicaFirst, MicaLast
      <3>5. o * per = extra * per + d * per
        BY <1>1, <3>1, <3>2
      <3> HIDE DEF d, o, per, extra
      <3> QED
        BY <1>1, <1>2, <3>1, <3>2, <3>3, <3>4, <3>5
    <2> QED
      BY <1>2, <2>1, <2>2
  <1> HIDE DEF o
  <1>4. ASSUME NEW k \in 0 .. n-1, x >= MicaFirst(q, n, k), x < MicaLast(q, n, k)
        PROVE  k = o
    <2>1. ASSUME k < o PROVE FALSE
      BY <1>3, <1>4, <2>1, MicaSliceOrder, k \in 0 .. o-1
    <2>2. ASSUME o < k PROVE FALSE
      BY <1>3, <1>4, <2>2, MicaSliceOrder, o \in 0 .. k-1
    <2> QED
      BY <1>3, <2>1, <2>2
  <1>5. \A k \in 0 .. n-1 : MicaFirst(q, n, k) \in Nat /\ MicaLast(q, n, k) \in Nat
    BY MicaSliceOrder
  <1>6. \A k \in 0 .. n-1 :
          x \in MicaFirst(q, n, k) .. MicaLast(q, n, k) - 1 <=> k = o
    BY <1>3, <1>4, <1>5
  <1> QED
    BY <1>3, <1>6 DEF o

\* Quotient and remainder are determined by what they add up to.
LEMMA RemainderIs ==
  ASSUME NEW n \in Nat, NEW d \in Nat \ {0}, NEW q \in Nat, NEW r \in 0 .. d-1, n = d * q + r
  PROVE  n % d = r
  <1> DEFINE p == n \div d  s == n % d
  <1>1. p \in Nat /\ s \in 0 .. d-1 /\ n = d * p + s
    BY DivBounds
  <1> HIDE DEF p, s
  <1>2. ASSUME p > q PROVE FALSE
    <2>1. (q + 1) * d <= p * d
      BY <1>1, <1>2, MulMono
    <2>2. (q + 1) * d = d * q + d /\ p * d = d * p /\ d * q \in Nat /\ d * p \in Nat
      BY <1>1
    <2> QED
      BY <1>1, <2>1, <2>2
  <1>3. ASSUME p < q PROVE FALSE
    <2>1. (p + 1) * d <= q * d
      BY <1>1, <1>3, MulMono
    <2>2. (p + 1) * d = d * p + d /\ q * d = d * q /\ d * q \in Nat /\ d * p \in Nat
      BY <1>1
    <2> QED
      BY <1>1, <2>1, <2>2
  <1>4. p = q
    BY <1>1, <1>2, <1>3
  <1>5. d * q \in Nat
    OBVIOUS
  <1>6. s = r
    BY <1>1, <1>4, <1>5
  <1> QED
    BY <1>6 DEF s

\* Counting round d numbers.
LEMMA NextRemainder ==
  ASSUME NEW x \in Nat, NEW d \in Nat \ {0}
  PROVE  /\ x % d \in 0 .. d-1
         /\ (x + 1) % d = IF x % d = d-1 THEN 0 ELSE (x % d) + 1
  <1> DEFINE q == x \div d  r == x % d
  <1>1. q \in Nat /\ r \in 0 .. d-1 /\ x = d * q + r
    BY DivBounds
  <1> HIDE DEF q, r
  <1>2. d * (q + 1) = d * q + d /\ d * q \in Nat
    BY <1>1
  <1>3. ASSUME r = d-1 PROVE (x + 1) % d = 0
    <2>1. x + 1 = d * (q + 1) + 0 /\ q + 1 \in Nat /\ 0 \in 0 .. d-1 /\ x + 1 \in Nat
      BY <1>1, <1>2, <1>3
    <2> QED
      BY <2>1, RemainderIs
  <1>4. ASSUME r # d-1 PROVE (x + 1) % d = r + 1
    <2>1. x + 1 = d * q + (r + 1) /\ r + 1 \in 0 .. d-1 /\ x + 1 \in Nat
      BY <1>1, <1>2, <1>4
    <2> QED
      BY <1>1, <2>1, RemainderIs
  <1> QED
    BY <1>1, <1>3, <1>4 DEF r

=============================================================================
