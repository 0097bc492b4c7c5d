-------------------------- MODULE MicaTable_proofs --------------------------
(***************************************************************************)
(* Proofs about the MICA table, for any number of lcores, keys, buckets and*)
(* slots and any size of the log.                                          *)
(*                                                                         *)
(* StoreInv, the inductive invariant, relates item vectors to the items of *)
(* the log, versions to the operations in a bucket, and requests to what   *)
(* they have read or are about to write.  It holds as long as no offset is *)
(* taken for a later one (NoItemRevives); CleanStore adds how far the      *)
(* operations have cleaned up behind the tail, which is why none is.       *)
(***************************************************************************)
EXTENDS MicaTable, Numbers_proofs

-----------------------------------------------------------------------------
(***************************************************************************)
(* Places in the log.                                                      *)
(***************************************************************************)

\* The word at an address; the key that the header at an address names; that
\* no word of the item there has been given to another.
Word(p, a)  == p.data[a % p.size]
KeyAt(p, a) == Word(p, a).key.key
InLog(p, a) == p.tail - a <= p.size

WordFields == {"item_size", "key", "val"}

IsLog(p) ==
  /\ p = [size |-> p.size, head |-> p.head, tail |-> p.tail, data |-> p.data]
  /\ p.size \in Nat \ {0} /\ p.head \in Nat /\ p.tail \in Nat
  /\ p.data = [i \in 0 .. p.size-1 |-> p.data[i]]
  /\ \A i \in 0 .. p.size-1 : DOMAIN p.data[i] = WordFields /\ p.data[i].item_size \in Nat

\* Where items start: S holds every start from head on, and tail.
TiledBy(p, S) ==
  /\ S \subseteq p.head .. p.tail
  /\ p.head \in S /\ p.tail \in S
  /\ p.tail - p.head <= p.size
  /\ \A s \in S : s < p.tail =>
       /\ Word(p, s).item_size >= 1
       /\ s + Word(p, s).item_size \in S
       /\ \A t \in S : s < t => s + Word(p, s).item_size <= t

\* Addresses less than the size of the log apart have places of their own.
LEMMA PlacesDiffer ==
  ASSUME NEW n \in Nat \ {0}, NEW a \in Nat, NEW b \in Nat, a < b, b - a < n
  PROVE  a % n # b % n
  <1> DEFINE q == a \div n  r == b \div n  t == a % n
  <1>1. q \in Nat /\ t \in 0 .. n-1 /\ a = n * q + t
    BY DivBounds
  <1>2. r \in Nat /\ b = n * r + (b % n)
    BY DivBounds
  <1> HIDE DEF q, r, t
  <1>3. SUFFICES ASSUME b % n = t PROVE FALSE
    BY DEF t
  <1>4. n * q \in Nat /\ n * r \in Nat
    BY <1>1, <1>2
  <1>5. CASE r <= q
    <2>1. r * n <= q * n
      BY <1>1, <1>2, <1>5, MulMono
    <2>2. r * n = n * r /\ q * n = n * q
      BY <1>1, <1>2
    <2> QED
      BY <1>1, <1>2, <1>3, <1>4, <2>1, <2>2
  <1>6. CASE q + 1 <= r
    <2>1. (q + 1) * n <= r * n
      BY <1>1, <1>2, <1>6, MulMono
    <2>2. r * n = n * r /\ (q + 1) * n = n * q + n
      BY <1>1, <1>2
    <2> QED
      BY <1>1, <1>2, <1>3, <1>4, <2>1, <2>2
  <1> QED
    BY <1>1, <1>2, <1>5, <1>6

\* The place of the word k words after an address.
PlaceAfter(a, k, n) == (a + k) % n

\* An offset, which is an address modulo Span, has the place of its address.
LEMMA OffsetPlace ==
  ASSUME NEW n \in Nat, NEW m \in Nat, n > 0, m > 0, m % n = 0,
         NEW a \in Nat, NEW k \in Nat, NEW r \in Nat, r = a % m
  PROVE  PlaceAfter(r, k, n) = PlaceAfter(a, k, n)
  <1> DEFINE q == a \div m  c == m \div n
  <1>1. q \in Nat /\ r \in Nat /\ a = m * q + r
    BY DivBounds
  <1>2. c \in Nat /\ m = n * c
    <2>1. c \in Nat /\ m = n * c + (m % n)
      BY DivBounds
    <2> QED
      BY <2>1
  <1> HIDE DEF q, c
  <1> DEFINE d == (r + k) \div n  t == (r + k) % n
  <1>3. d \in Nat /\ t \in 0 .. n-1 /\ r + k = n * d + t
    <2>1. r + k \in Nat
      BY <1>1
    <2> QED
      BY <2>1, DivBounds
  <1> HIDE DEF d, t
  <1>4. m * q = n * (c * q) /\ c * q \in Nat
    BY <1>1, <1>2
  <1>5. c * q + d \in Nat /\ n * (c * q + d) = n * (c * q) + n * d
    BY <1>3, <1>4
  <1>6. n * (c * q) \in Nat /\ n * d \in Nat
    BY <1>3, <1>4
  <1>7. a + k \in Nat /\ a + k = n * (c * q + d) + t
    BY <1>1, <1>3, <1>4, <1>5, <1>6
  <1>8. (a + k) % n = t
    <2> DEFINE e == a + k  f == c * q + d
    <2>1. e \in Nat /\ f \in Nat /\ e = n * f + t /\ t \in 0 .. n-1
      BY <1>3, <1>5, <1>7
    <2> HIDE DEF e, f
    <2>2. e % n = t
      BY <2>1, RemainderIs
    <2> QED
      BY <2>2 DEF e
  <1> QED
    BY <1>8 DEF t, PlaceAfter

LEMMA OffsetPlaces ==
  ASSUME NEW n \in Nat \ {0}, Span \in Nat \ {0}, Span % n = 0, NEW a \in Nat
  PROVE  /\ (a % Span) % n = a % n
         /\ \A k \in Nat : ((a % Span) + k) % n = (a + k) % n
  <1>1. \A k \in Nat : PlaceAfter(a % Span, k, n) = PlaceAfter(a, k, n)
    <2>1. a % Span \in Nat
      BY DivBounds
    <2> QED
      BY <2>1, OffsetPlace
  <1>2. \A k \in Nat : ((a % Span) + k) % n = (a + k) % n
    BY <1>1 DEF PlaceAfter
  <1>3. a % Span \in Nat
    BY DivBounds
  <1>4. (a % Span) + 0 = a % Span /\ a + 0 = a /\ 0 \in Nat
    BY <1>3
  <1>5. PlaceAfter(a % Span, 0, n) = PlaceAfter(a, 0, n)
    BY <1>1
  <1> QED
    BY <1>2, <1>4, <1>5 DEF PlaceAfter

\* The distance from an offset is that from its address, below Span.
LEMMA OffsetDistance ==
  ASSUME NEW m \in Nat \ {0}, NEW a \in Nat, NEW t \in Nat, a <= t, t - a < m
  PROVE  (t - (a % m)) % m = t - a
  <1> DEFINE q == a \div m  r == a % m
  <1>1. q \in Nat /\ r \in Nat /\ a = m * q + r
    BY DivBounds
  <1> HIDE DEF q, r
  <1>2. m * q \in Nat
    BY <1>1
  <1>3. t - r \in Nat /\ t - r = m * q + (t - a) /\ t - a \in 0 .. m-1
    BY <1>1, <1>2
  <1>4. (t - r) % m = t - a
    BY <1>1, <1>3, RemainderIs
  <1> QED
    BY <1>4 DEF r

-----------------------------------------------------------------------------
(***************************************************************************)
(* Walking along the log.                                                  *)
(***************************************************************************)

\* As many steps as the log has words lead from head to any later start.
LEMMA StartsInOrder ==
  ASSUME NEW p, IsLog(p), NEW S, TiledBy(p, S), NEW h \in S
  PROVE  \E g \in [0 .. p.size -> S] :
           /\ g[0] = p.head /\ g[p.size] = h
           /\ \A i \in 1 .. p.size :
                /\ g[i-1] <= h
                /\ g[i] = IF g[i-1] < h THEN g[i-1] + Word(p, g[i-1]).item_size ELSE g[i-1]
  <1> DEFINE N == p.size
             R == Rank(S, h)
             At(i) == CHOOSE s \in S : Rank(S, s) = i
             g == [i \in 0 .. N |-> IF i <= R THEN At(i) ELSE h]
  <1>1. /\ N \in Nat \ {0} /\ p.head \in Nat /\ p.tail \in Nat
        /\ S \subseteq p.head .. p.tail /\ p.head \in S
        /\ p.tail - p.head <= N
    BY DEF IsLog, TiledBy
  <1>2. S \subseteq Nat /\ h \in Nat
    BY <1>1
  <1>3. IsFiniteSet(S)
    <2>1. p.head \in Int /\ p.tail \in Int
      BY <1>1
    <2>2. IsFiniteSet(p.head .. p.tail)
      BY <2>1, FS_Interval
    <2> QED
      BY <1>1, <2>2, FS_Subset
  <1>4. R \in 0 .. Cardinality(S)-1 /\ Cardinality(S) \in Nat
    BY <1>2, <1>3, RankFacts, FS_CardinalityType
  <1>5. R <= N
    <2> DEFINE T == {o \in S : o < h}
    <2>1. T \subseteq p.head .. h-1
      <3>1. ASSUME NEW o \in S, o < h PROVE o \in p.head .. h-1
        BY <1>1, <1>2, <3>1
      <3> QED
        BY <3>1
    <2>2. IsFiniteSet(p.head .. h-1) /\ Cardinality(p.head .. h-1) <= N
      <3>1. p.head <= h /\ h - p.head <= N /\ p.head \in Int /\ h-1 \in Int
        BY <1>1, <1>2
      <3>2. /\ IsFiniteSet(p.head .. h-1)
            /\ Cardinality(p.head .. h-1) = IF p.head > h-1 THEN 0 ELSE (h-1) - p.head + 1
        BY <3>1, FS_Interval
      <3> QED
        BY <1>1, <1>2, <3>1, <3>2
    <2>3. Cardinality(T) <= Cardinality(p.head .. h-1) /\ IsFiniteSet(T)
      BY <2>1, <2>2, FS_Subset
    <2>4. Cardinality(p.head .. h-1) \in Nat /\ Cardinality(T) \in Nat
      BY <2>2, <2>3, FS_CardinalityType
    <2>5. R = Cardinality(T)
      BY DEF Rank
    <2> QED
      BY <1>1, <2>2, <2>3, <2>4, <2>5
  <1>6. ASSUME NEW i \in 0 .. R PROVE At(i) \in S /\ Rank(S, At(i)) = i
    <2>1. i \in 0 .. Cardinality(S)-1
      BY <1>4
    <2>2. \E s \in S : Rank(S, s) = i
      BY <1>2, <1>3, <2>1, RankFacts
    <2> QED
      BY <2>2
  <1>7. \A x, y \in S : Rank(S, x) = Rank(S, y) => x = y
    BY <1>2, <1>3, RankFacts
  <1>8. \A x, y \in S : x < y => Rank(S, x) < Rank(S, y)
    BY <1>2, <1>3, RankFacts
  <1>9. \A x \in S : Rank(S, x) \in Nat
    <2>1. \A x \in S : Rank(S, x) \in 0 .. Cardinality(S)-1
      BY <1>2, <1>3, RankFacts
    <2> QED
      BY <1>4, <2>1
  <1>10. At(R) = h
    BY <1>4, <1>6, <1>7
  <1>11. At(0) = p.head
    <2>1. \A o \in S : ~ (o < p.head)
      BY <1>1
    <2>0. {o \in S : o < p.head} = {}
      BY <2>1
    <2>2. Rank(S, p.head) = 0
      BY <2>0, FS_EmptySet DEF Rank
    <2> QED
      BY <1>1, <1>4, <1>6, <1>7, <2>2
  <1>12. ASSUME NEW i \in 1 .. R
         PROVE  At(i-1) < h /\ At(i) = At(i-1) + Word(p, At(i-1)).item_size
    <2> DEFINE s == At(i-1)  t == s + Word(p, s).item_size
    <2>1. i-1 \in 0 .. R
      BY <1>4
    <2>2. s \in S /\ Rank(S, s) = i-1
      BY <1>6, <2>1
    <2> HIDE DEF s
    <2>3. s < h
      <3>1. CASE h < s
        <4>1. Rank(S, h) < Rank(S, s)
          BY <1>8, <2>2, <3>1
        <4> QED
          BY <1>4, <2>2, <4>1
      <3>2. CASE s = h
        BY <1>4, <2>2, <3>2
      <3> QED
        BY <1>2, <2>2, <3>1, <3>2
    <2>4. s < p.tail
      BY <1>1, <2>2, <2>3
    <2>5. /\ Word(p, s).item_size >= 1 /\ t \in S
          /\ \A o \in S : s < o => t <= o
      BY <2>2, <2>4 DEF TiledBy
    <2>6. s < t /\ s \in Nat /\ t \in Nat
      <3>1. s \in Nat /\ t \in Nat
        BY <1>2, <2>2, <2>5
      <3>2. Word(p, s).item_size \in Nat
        BY <1>1, <3>1, DivBounds DEF IsLog, Word
      <3> QED
        BY <2>5, <3>1, <3>2
    <2> HIDE DEF t
    <2>7. Rank(S, t) = Rank(S, s) + 1
      <3>1. \A o \in S : ~ (s < o /\ o < t)
        BY <1>2, <2>5, <2>6
      <3> QED
        BY <1>2, <1>3, <2>2, <2>5, <2>6, <3>1, NextRank
    <2>8. At(i) = t
      <3>1. i \in 0 .. R
        BY <1>4
      <3>2. Rank(S, t) = i
        BY <2>2, <2>7
      <3> QED
        BY <1>6, <1>7, <2>5, <3>1, <3>2
    <2> QED
      BY <2>3, <2>8 DEF s, t
  <1>13. \A i \in 0 .. N : g[i] = IF i <= R THEN At(i) ELSE h
    OBVIOUS
  <1>14. g \in [0 .. N -> S]
    BY <1>4, <1>5, <1>6
  <1> HIDE DEF g, At, R
  <1>15. g[0] = p.head
    BY <1>1, <1>4, <1>11, <1>13
  <1>16. g[N] = h
    BY <1>1, <1>4, <1>5, <1>10, <1>13
  <1>17. ASSUME NEW i \in 1 .. N
         PROVE  /\ g[i-1] <= h
                /\ g[i] = IF g[i-1] < h THEN g[i-1] + Word(p, g[i-1]).item_size ELSE g[i-1]
    <2>1. i \in 0 .. N /\ i-1 \in 0 .. N
      BY <1>1
    <2>2. CASE i <= R
      <3>1. i \in 1 .. R
        BY <1>4, <2>1, <2>2
      <3>2. g[i] = At(i) /\ g[i-1] = At(i-1)
        <4>1. i-1 <= R
          BY <1>4, <2>1, <2>2
        <4> QED
          BY <1>13, <2>1, <2>2, <4>1
      <3>3. At(i-1) < h /\ At(i) = At(i-1) + Word(p, At(i-1)).item_size
        BY <1>12, <3>1
      <3>4. g[i-1] < h /\ g[i] = g[i-1] + Word(p, g[i-1]).item_size
        BY <3>2, <3>3
      <3>5. g[i-1] \in Nat
        BY <1>2, <1>14, <2>1
      <3> QED
        BY <1>2, <3>4, <3>5
    <2>3. CASE ~ (i <= R)
      <3>1. g[i] = h /\ g[i-1] = h
        BY <1>4, <1>10, <1>13, <2>1, <2>3
      <3> QED
        BY <1>2, <3>1
    <2> QED
      BY <2>2, <2>3
  <1> QED
    BY <1>14, <1>15, <1>16, <1>17

\* Whole items that follow one another are what the walk finds.
LEMMA TilesAreTiled ==
  ASSUME NEW p, IsLog(p), NEW S, TiledBy(p, S)
  PROVE  Tiled(p)
  <1> DEFINE IsReach(f) ==
               f = [n \in 0 .. p.size |->
                      IF n = 0 THEN p.head
                      ELSE IF f[n-1] < p.tail
                             THEN f[n-1] + mehcached_pool_item(p, f[n-1]).item_size
                             ELSE f[n-1]]
             reach == CHOOSE f : IsReach(f)
  <1>1. p.tail \in S /\ p.tail - p.head <= p.size /\ p.size \in Nat
    BY DEF IsLog, TiledBy
  <1>2. PICK g \in [0 .. p.size -> S] :
           /\ g[0] = p.head /\ g[p.size] = p.tail
           /\ \A i \in 1 .. p.size :
                /\ g[i-1] <= p.tail
                /\ g[i] = IF g[i-1] < p.tail THEN g[i-1] + Word(p, g[i-1]).item_size ELSE g[i-1]
    BY <1>1, StartsInOrder
  <1>3. ASSUME NEW f, IsReach(f) PROVE f = g
    <2>1. \A n \in 0 .. p.size :
             f[n] = IF n = 0 THEN p.head
                    ELSE IF f[n-1] < p.tail
                           THEN f[n-1] + Word(p, f[n-1]).item_size
                           ELSE f[n-1]
      BY <1>3 DEF mehcached_pool_item, Place, Word
    <2>2. \A n \in 0 .. p.size : f[n] = g[n]
      <3>1. SUFFICES ASSUME {n \in 0 .. p.size : f[n] # g[n]} # {} PROVE FALSE
        OBVIOUS
      <3>2. PICK n \in {n \in 0 .. p.size : f[n] # g[n]} :
              \A m \in {m \in 0 .. p.size : f[m] # g[m]} : n <= m
        <4>1. {n \in 0 .. p.size : f[n] # g[n]} \subseteq Nat
          OBVIOUS
        <4> QED
          BY <3>1, <4>1, Smallest
      <3>3. n # 0
        BY <1>1, <1>2, <2>1, <3>2
      <3>4. n-1 \in 0 .. p.size /\ n \in 1 .. p.size
        BY <1>1, <3>2, <3>3
      <3>5. f[n-1] = g[n-1]
        BY <3>2, <3>4
      <3> QED
        BY <1>2, <2>1, <3>2, <3>3, <3>4, <3>5
    <2> QED
      <3>1. f = [n \in 0 .. p.size |-> f[n]]
        BY <1>3
      <3> QED
        BY <2>2, <3>1
  <1>4. IsReach(g)
    <2>1. \A n \in 0 .. p.size :
             g[n] = IF n = 0 THEN p.head
                    ELSE IF g[n-1] < p.tail
                           THEN g[n-1] + mehcached_pool_item(p, g[n-1]).item_size
                           ELSE g[n-1]
      BY <1>1, <1>2 DEF mehcached_pool_item, Place, Word
    <2> QED
      BY <2>1
  <1>5. reach = g
    <2>1. IsReach(reach)
      BY <1>4, Zenon
    <2> HIDE DEF IsReach, reach
    <2> QED
      BY <1>3, <2>1
  <1>6. Tiled(p) <=> reach[p.size] = p.tail /\ p.tail - p.head <= p.size
    BY Zenon DEF Tiled
  <1> QED
    BY <1>1, <1>2, <1>5, <1>6

-----------------------------------------------------------------------------
(***************************************************************************)
(* What the operations of the log do to it.                                *)
(***************************************************************************)

WithHead(p, x) == [size |-> p.size, head |-> x, tail |-> p.tail, data |-> p.data]

LEMMA PopHead ==
  ASSUME NEW p, NEW x
  PROVE  mehcached_pool_pop_head(WithHead(p, x)) = WithHead(p, x + Word(p, x).item_size)
  <1>1. /\ WithHead(p, x).head = x /\ WithHead(p, x).size = p.size
        /\ WithHead(p, x).tail = p.tail /\ WithHead(p, x).data = p.data
    BY DEF WithHead
  <1>2. mehcached_pool_item(WithHead(p, x), x) = Word(p, x)
    BY <1>1 DEF mehcached_pool_item, Place, Word
  <1>3. mehcached_pool_pop_head(WithHead(p, x))
          = [WithHead(p, x) EXCEPT !.head = x + Word(p, x).item_size]
    BY <1>1, <1>2 DEF mehcached_pool_pop_head
  <1> QED
    BY <1>3 DEF WithHead

\* Room is made by popping items up to the first one that leaves enough.
LEMMA MadeRoomIs ==
  ASSUME NEW p, IsLog(p), NEW S, TiledBy(p, S), NEW n \in 1 .. p.size
  PROVE  \E h \in S :
           /\ MadeRoom(p, n) = WithHead(p, h)
           /\ p.tail + n <= h + p.size
           /\ \A s \in S : s < h => p.tail + n > s + p.size
  <1>1. /\ p.size \in Nat \ {0} /\ p.head \in Nat /\ p.tail \in Nat /\ n \in Nat
        /\ S \subseteq Nat /\ p.tail \in S /\ n <= p.size
    BY DEF IsLog, TiledBy
  <1>2. PICK h \in S : /\ p.tail + n <= h + p.size
                       /\ \A s \in S : s < h => p.tail + n > s + p.size
    <2> DEFINE T == {s \in S : p.tail + n <= s + p.size}
    <2>1. p.tail \in T
      BY <1>1
    <2>2. PICK h \in T : \A s \in T : h <= s
      <3>1. T \subseteq Nat /\ T # {}
        BY <1>1, <2>1
      <3> HIDE DEF T
      <3> QED
        BY <3>1, Smallest
    <2>3. h \in S /\ p.tail + n <= h + p.size
      BY <2>2
    <2>4. ASSUME NEW s \in S, s < h PROVE p.tail + n > s + p.size
      <3>1. s \in Nat /\ h \in Nat
        BY <1>1, <2>3
      <3>2. s \notin T
        BY <2>2, <2>4, <3>1
      <3> QED
        BY <1>1, <3>1, <3>2
    <2> QED
      BY <2>3, <2>4
  <1>3. PICK g \in [0 .. p.size -> S] :
           /\ g[0] = p.head /\ g[p.size] = h
           /\ \A i \in 1 .. p.size :
                /\ g[i-1] <= h
                /\ g[i] = IF g[i-1] < h THEN g[i-1] + Word(p, g[i-1]).item_size ELSE g[i-1]
    BY StartsInOrder
  <1> DEFINE Once(q) == IF NoSpace(q, n) THEN mehcached_pool_pop_head(q) ELSE q
             IsPopped(f) == f = [i \in 0 .. p.size |-> IF i = 0 THEN p ELSE Once(f[i-1])]
             popped == CHOOSE f : IsPopped(f)
             w == [i \in 0 .. p.size |-> WithHead(p, g[i])]
  <1>4. \A i \in 0 .. p.size : w[i] = WithHead(p, g[i])
    OBVIOUS
  <1>5. w = [i \in 0 .. p.size |-> w[i]]
    OBVIOUS
  <1> HIDE DEF w
  <1>6. w[0] = p
    BY SMTT(30), <1>1, <1>3, <1>4 DEF IsLog, WithHead
  <1>7. ASSUME NEW i \in 1 .. p.size PROVE w[i] = Once(w[i-1])
    <2>1. i \in 0 .. p.size /\ i-1 \in 0 .. p.size
      BY <1>1
    <2> DEFINE x == g[i-1]
    <2>2. x \in S /\ x \in Nat /\ h \in Nat
      BY <1>1, <1>3, <2>1
    <2>3. x <= h /\ g[i] = IF x < h THEN x + Word(p, x).item_size ELSE x
      BY <1>3
    <2>4. w[i-1] = WithHead(p, x) /\ w[i] = WithHead(p, g[i])
      BY <1>4, <2>1
    <2> HIDE DEF x
    <2>5. NoSpace(WithHead(p, x), n) <=> p.tail + n > x + p.size
      BY DEF NoSpace, WithHead
    <2>6. CASE x < h
      <3>1. NoSpace(WithHead(p, x), n)
        BY <1>2, <2>2, <2>5, <2>6
      <3> QED
        BY <2>3, <2>4, <2>6, <3>1, PopHead
    <2>7. CASE x = h
      <3>1. ~ NoSpace(WithHead(p, x), n)
        BY <1>1, <1>2, <2>2, <2>5, <2>7
      <3> QED
        BY <2>2, <2>3, <2>4, <2>7, <3>1
    <2> QED
      BY <2>2, <2>3, <2>6, <2>7
  <1> HIDE DEF Once
  <1>8. ASSUME NEW f, IsPopped(f) PROVE f = w
    <2>1. \A i \in 0 .. p.size : f[i] = IF i = 0 THEN p ELSE Once(f[i-1])
      BY <1>8
    <2>2. \A i \in 0 .. p.size : f[i] = w[i]
      <3>1. SUFFICES ASSUME {i \in 0 .. p.size : f[i] # w[i]} # {} PROVE FALSE
        OBVIOUS
      <3>2. PICK i \in {i \in 0 .. p.size : f[i] # w[i]} :
              \A m \in {m \in 0 .. p.size : f[m] # w[m]} : i <= m
        <4>1. {i \in 0 .. p.size : f[i] # w[i]} \subseteq Nat
          OBVIOUS
        <4> QED
          BY <3>1, <4>1, Smallest
      <3>3. i # 0
        BY <1>1, <1>6, <2>1, <3>2
      <3>4. i-1 \in 0 .. p.size /\ i \in 1 .. p.size
        BY <1>1, <3>2, <3>3
      <3>5. f[i-1] = w[i-1]
        BY <3>2, <3>4
      <3> QED
        BY <1>7, <2>1, <3>2, <3>3, <3>4, <3>5
    <2> QED
      <3>1. f = [i \in 0 .. p.size |-> f[i]]
        BY <1>8
      <3> QED
        BY <1>5, <2>2, <3>1
  <1>9. IsPopped(w)
    <2>1. \A i \in 0 .. p.size : w[i] = IF i = 0 THEN p ELSE Once(w[i-1])
      <3>1. ASSUME NEW i \in 0 .. p.size, i # 0 PROVE w[i] = Once(w[i-1])
        <4>1. i \in 1 .. p.size
          BY <1>1, <3>1
        <4> QED
          BY <1>7, <4>1
      <3> QED
        BY <1>6, <3>1
    <2> QED
      BY <1>5, <2>1
  <1>10. popped = w
    <2>1. IsPopped(popped)
      BY <1>9, Zenon
    <2> HIDE DEF IsPopped, popped
    <2> QED
      BY <1>8, <2>1
  <1>11. MadeRoom(p, n) = popped[p.size]
    BY Zenon DEF MadeRoom, Once
  <1>12. w[p.size] = WithHead(p, h)
    BY <1>1, <1>3, <1>4
  <1> QED
    BY <1>2, <1>10, <1>11, <1>12

\* The words of the item at an address are what they were.
SameItem(p, q, s) == \A j \in 0 .. Word(p, s).item_size-1 : Word(q, s + j) = Word(p, s + j)

\* Every item that the new log q holds, but the one at w, is as it was in p.
Keeps(p, S, q, T, w) ==
  /\ q.size = p.size /\ p.tail <= q.tail
  /\ \A s \in S : s < p.tail /\ s # w /\ InLog(q, s) => s \in T /\ SameItem(p, q, s)

\* An item lies inside the log, and no two items share a place.
LEMMA ItemFacts ==
  ASSUME NEW p, IsLog(p), NEW S, TiledBy(p, S), NEW s \in S, s < p.tail
  PROVE  /\ s \in Nat /\ InLog(p, s)
         /\ Word(p, s).item_size \in 1 .. p.size
         /\ s + Word(p, s).item_size <= p.tail
         /\ \A w \in S : w < p.tail /\ w # s =>
              \A j \in 0 .. Word(p, s).item_size-1, k \in 0 .. Word(p, w).item_size-1 :
                (s + j) % p.size # (w + k) % p.size
  <1>1. /\ p.size \in Nat \ {0} /\ p.head \in Nat /\ p.tail \in Nat
        /\ S \subseteq p.head .. p.tail /\ p.tail - p.head <= p.size
    BY DEF IsLog, TiledBy
  <1>2. ASSUME NEW t \in S, t < p.tail
        PROVE  /\ t \in Nat /\ p.head <= t
               /\ Word(p, t).item_size \in Nat /\ Word(p, t).item_size >= 1
               /\ t + Word(p, t).item_size \in S /\ t + Word(p, t).item_size <= p.tail
    <2>1. t \in Nat /\ p.head <= t
      BY <1>1
    <2>2. Word(p, t).item_size >= 1 /\ t + Word(p, t).item_size \in S
      BY <1>2 DEF TiledBy
    <2>3. Word(p, t).item_size \in Nat
      BY <1>1, <2>1, DivBounds DEF IsLog, Word
    <2> QED
      BY <1>1, <2>1, <2>2, <2>3
  <1>3. Word(p, s).item_size \in 1 .. p.size /\ InLog(p, s)
    BY <1>1, <1>2 DEF InLog
  <1>4. ASSUME NEW w \in S, w < p.tail, w # s,
               NEW j \in 0 .. Word(p, s).item_size-1, NEW k \in 0 .. Word(p, w).item_size-1
        PROVE  (s + j) % p.size # (w + k) % p.size
    <2>1. \A t, o \in S : t < p.tail /\ t < o => t + Word(p, t).item_size <= o
      BY DEF TiledBy
    <2>2. /\ s \in Nat /\ w \in Nat /\ p.head <= s /\ p.head <= w
          /\ Word(p, s).item_size \in Nat /\ Word(p, w).item_size \in Nat
          /\ s + Word(p, s).item_size <= p.tail /\ w + Word(p, w).item_size <= p.tail
      BY <1>2, <1>4
    <2> DEFINE a == s + j  b == w + k
    <2>3. a \in Nat /\ b \in Nat /\ a < p.tail /\ b < p.tail /\ p.head <= a /\ p.head <= b
      BY <1>1, <2>2
    <2>4. a # b
      <3>1. CASE s < w
        BY <2>1, <2>2, <3>1
      <3>2. CASE w < s
        BY <1>4, <2>1, <2>2, <3>2
      <3> QED
        BY <1>4, <2>2, <3>1, <3>2
    <2> HIDE DEF a, b
    <2>5. CASE a < b
      <3>1. b - a < p.size
        BY <1>1, <2>3
      <3> QED
        BY <1>1, <2>3, <2>5, <3>1, PlacesDiffer DEF a, b
    <2>6. CASE b < a
      <3>1. a - b < p.size
        BY <1>1, <2>3
      <3> QED
        BY <1>1, <2>3, <2>6, <3>1, PlacesDiffer DEF a, b
    <2> QED
      BY <2>3, <2>4, <2>5, <2>6
  <1> QED
    BY <1>2, <1>3, <1>4

\* Pushing appends one item, and loses only items that the log then no longer
\* has room for.
LEMMA Pushed ==
  ASSUME NEW p, IsLog(p), NEW S, TiledBy(p, S), NEW n \in 1 .. p.size
  PROVE  \E q, T :
           /\ q = mehcached_pool_push_tail(p, n)
           /\ IsLog(q) /\ q.size = p.size /\ q.tail = p.tail + n
           /\ T \in SUBSET (q.head .. q.tail) /\ TiledBy(q, T)
           /\ p.tail \in T /\ Word(q, p.tail).item_size = n
           /\ \A w : Keeps(p, S, q, T, w)
  <1> DEFINE N == p.size  t == p.tail  i == p.tail % p.size
  <1>1. /\ N \in Nat \ {0} /\ p.head \in Nat /\ t \in Nat /\ n \in Nat /\ n >= 1 /\ n <= N
        /\ S \subseteq p.head .. t /\ p.head \in S /\ t \in S /\ t - p.head <= N
    BY DEF IsLog, TiledBy
  <1>2. PICK h \in S : /\ MadeRoom(p, n) = WithHead(p, h)
                       /\ t + n <= h + N
                       /\ \A s \in S : s < h => t + n > s + N
    BY MadeRoomIs
  <1>3. i \in 0 .. N-1
    BY <1>1, DivBounds
  <1>4. h \in Nat /\ h <= t
    BY <1>1
  <1> DEFINE d == [p.data EXCEPT ![i].item_size = n]
             q == [size |-> N, head |-> h, tail |-> t + n, data |-> d]
             T == {s \in S : h <= s} \union {t + n}
  <1>5. q = mehcached_pool_push_tail(p, n)
    <2>1. mehcached_pool_push_tail(p, n)
            = [WithHead(p, h) EXCEPT !.data[i].item_size = n, !.tail = @ + n]
      BY <1>2, Zenon DEF mehcached_pool_push_tail, Place
    <2> QED
      BY <2>1 DEF WithHead
  <1>6. /\ p.data = [x \in 0 .. N-1 |-> p.data[x]]
        /\ \A x \in 0 .. N-1 : DOMAIN p.data[x] = WordFields /\ p.data[x].item_size \in Nat
    BY DEF IsLog
  <1>7. /\ d = [x \in 0 .. N-1 |-> d[x]]
        /\ \A x \in 0 .. N-1 : x # i => d[x] = p.data[x]
        /\ DOMAIN d[i] = WordFields /\ d[i].item_size = n
    <2>1. DOMAIN p.data[i] = WordFields /\ "item_size" \in WordFields
      BY <1>3, <1>6 DEF WordFields
    <2> QED
      BY <1>3, <1>6, <2>1
  <1>8. q.size = N /\ q.head = h /\ q.tail = t + n /\ q.data = d
    OBVIOUS
  <1> HIDE DEF d
  <1>9. q = [size |-> q.size, head |-> q.head, tail |-> q.tail, data |-> q.data]
    BY <1>8
  <1> HIDE DEF q
  <1>10. IsLog(q)
    <2>1. q.size \in Nat \ {0} /\ q.head \in Nat /\ q.tail \in Nat
      BY <1>1, <1>4, <1>8
    <2>2. q.data = [x \in 0 .. q.size-1 |-> q.data[x]]
      BY <1>7, <1>8
    <2>3. ASSUME NEW x \in 0 .. q.size-1
          PROVE  DOMAIN q.data[x] = WordFields /\ q.data[x].item_size \in Nat
      BY <1>1, <1>6, <1>7, <1>8
    <2> QED
      BY <1>9, <2>1, <2>2, <2>3 DEF IsLog
  <1>11. Word(q, t).item_size = n
    BY <1>7, <1>8 DEF Word
  <1>12. ASSUME NEW a \in Nat, a < t, t < a + N PROVE Word(q, a) = Word(p, a)
    <2>1. a % N # i
      BY <1>1, <1>12, PlacesDiffer
    <2>2. a % N \in 0 .. N-1
      BY <1>1, DivBounds
    <2> QED
      BY <1>7, <1>8, <2>1, <2>2 DEF Word
  <1>13. T \in SUBSET (q.head .. q.tail) /\ q.head \in T /\ q.tail \in T /\ t \in T
    <2>1. ASSUME NEW s \in S, h <= s PROVE s \in q.head .. q.tail
      BY <1>1, <1>4, <1>8, <2>1
    <2>2. t + n \in q.head .. q.tail
      BY <1>1, <1>4, <1>8
    <2>3. T \subseteq q.head .. q.tail
      BY <2>1, <2>2
    <2> QED
      BY <1>1, <1>2, <1>4, <1>8, <2>3
  <1>14. ASSUME NEW s \in T, s < q.tail
         PROVE  /\ Word(q, s).item_size >= 1
                /\ s + Word(q, s).item_size \in T
                /\ \A o \in T : s < o => s + Word(q, s).item_size <= o
    <2>1. s \in S /\ h <= s /\ s <= t /\ s \in Nat
      BY <1>1, <1>4, <1>8, <1>14
    <2>2. CASE s = t
      <3>1. ASSUME NEW o \in T, s < o PROVE o = t + n
        <4>1. o \in S => o <= t
          BY <1>1
        <4> QED
          BY <1>1, <2>2, <3>1, <4>1
      <3> QED
        BY <1>1, <1>11, <2>2, <3>1
    <2>3. CASE s < t
      <3>1. Word(q, s) = Word(p, s)
        BY <1>1, <1>2, <1>4, <1>12, <2>1, <2>3
      <3>2. /\ Word(p, s).item_size >= 1
            /\ s + Word(p, s).item_size \in S
            /\ \A o \in S : s < o => s + Word(p, s).item_size <= o
        BY <2>1, <2>3 DEF TiledBy
      <3>3. s + Word(p, s).item_size <= t /\ h <= s + Word(p, s).item_size /\ Word(p, s).item_size \in Nat
        <4>1. Word(p, s).item_size \in Nat /\ s + Word(p, s).item_size <= t
          BY <2>1, <2>3, ItemFacts
        <4> QED
          BY <1>4, <2>1, <3>2, <4>1
      <3>4. ASSUME NEW o \in T, s < o PROVE s + Word(p, s).item_size <= o
        BY <1>1, <2>1, <3>2, <3>3, <3>4
      <3> QED
        BY <3>1, <3>2, <3>3, <3>4
    <2> QED
      BY <1>1, <2>1, <2>2, <2>3
  <1>15. TiledBy(q, T)
    <2>1. q.tail - q.head <= q.size
      BY <1>1, <1>2, <1>4, <1>8
    <2> HIDE DEF T
    <2> QED
      BY <1>13, <1>14, <2>1 DEF TiledBy
  <1>16. ASSUME NEW s \in S, s < t, InLog(q, s)
         PROVE  s \in T /\ SameItem(p, q, s)
    <2>1. s \in Nat /\ Word(p, s).item_size \in Nat /\ s + Word(p, s).item_size <= t
      BY <1>16, ItemFacts
    <2>2. t + n <= s + N
      BY <1>1, <1>8, <1>16, <2>1 DEF InLog
    <2>3. h <= s
      BY <1>1, <1>2, <1>4, <2>1, <2>2
    <2>4. ASSUME NEW j \in 0 .. Word(p, s).item_size-1 PROVE Word(q, s + j) = Word(p, s + j)
      <3>1. s + j \in Nat /\ s + j < t /\ t < (s + j) + N
        BY <1>1, <2>1, <2>2
      <3> QED
        BY <1>12, <3>1
    <2> QED
      BY <2>3, <2>4 DEF SameItem
  <1>17. \A w : Keeps(p, S, q, T, w)
    BY <1>1, <1>8, <1>16 DEF Keeps
  <1> HIDE DEF T
  <1> QED
    BY <1>5, <1>8, <1>10, <1>11, <1>13, <1>15, <1>17

\* q is p with another word at a place.
SetsWord(p, q, i, x) == q = [p EXCEPT !.data[i] = x]

\* Changing one word of an item changes no other item, nor where items start.
LEMMA WordChanged ==
  ASSUME NEW p, IsLog(p), NEW S, TiledBy(p, S), NEW w \in S, w < p.tail,
         NEW k \in 0 .. Word(p, w).item_size-1, NEW x, DOMAIN x = WordFields, x.item_size \in Nat,
         k = 0 => x.item_size = Word(p, w).item_size,
         NEW q, SetsWord(p, q, (w + k) % p.size, x)
  PROVE  /\ IsLog(q) /\ q.size = p.size /\ q.head = p.head /\ q.tail = p.tail
         /\ TiledBy(q, S) /\ Keeps(p, S, q, S, w)
         /\ Word(q, w + k) = x
         /\ \A j \in 0 .. Word(p, w).item_size-1 : j # k => Word(q, w + j) = Word(p, w + j)
  <1> DEFINE N == p.size  i == (w + k) % N  n == Word(p, w).item_size
  <1>1. /\ N \in Nat \ {0} /\ p.head \in Nat /\ p.tail \in Nat
        /\ p = [size |-> p.size, head |-> p.head, tail |-> p.tail, data |-> p.data]
        /\ p.data = [y \in 0 .. N-1 |-> p.data[y]]
        /\ \A y \in 0 .. N-1 : DOMAIN p.data[y] = WordFields /\ p.data[y].item_size \in Nat
    BY DEF IsLog
  <1>2. /\ w \in Nat /\ n \in 1 .. N /\ k \in Nat
        /\ \A s \in S : s < p.tail /\ s # w =>
             \A j \in 0 .. Word(p, s).item_size-1 : (s + j) % N # i
    <2>1. ASSUME NEW s \in S, s < p.tail, s # w, NEW j \in 0 .. Word(p, s).item_size-1
          PROVE  (s + j) % N # i
      BY <2>1, ItemFacts
    <2> QED
      BY <2>1, ItemFacts
  <1>3. i \in 0 .. N-1 /\ w + k \in Nat
    <2>1. w + k \in Nat
      BY <1>2
    <2> QED
      BY <1>1, <2>1, DivBounds
  <1> HIDE DEF i, n
  <1>4. /\ q.size = N /\ q.head = p.head /\ q.tail = p.tail /\ q.data = [p.data EXCEPT ![i] = x]
        /\ q = [size |-> q.size, head |-> q.head, tail |-> q.tail, data |-> q.data]
    <2>1. q = [p EXCEPT !.data[i] = x]
      BY DEF SetsWord, i
    <2>2. q = [size |-> p.size, head |-> p.head, tail |-> p.tail, data |-> [p.data EXCEPT ![i] = x]]
      BY <1>1, <2>1
    <2> QED
      BY <2>2
  <1>5. /\ q.data[i] = x /\ q.data = [y \in 0 .. N-1 |-> q.data[y]]
        /\ \A y \in 0 .. N-1 : y # i => q.data[y] = p.data[y]
    BY <1>1, <1>3, <1>4
  <1>6. IsLog(q)
    <2>1. \A y \in 0 .. N-1 : DOMAIN q.data[y] = WordFields /\ q.data[y].item_size \in Nat
      BY <1>1, <1>5
    <2> QED
      BY <1>1, <1>4, <1>5, <2>1 DEF IsLog
  <1>7. ASSUME NEW a \in Nat, a % N # i PROVE Word(q, a) = Word(p, a)
    <2>1. a % N \in 0 .. N-1
      BY <1>1, DivBounds
    <2> QED
      BY <1>4, <1>5, <1>7, <2>1 DEF Word
  <1>8. Word(q, w + k) = x
    BY <1>4, <1>5 DEF Word, i
  <1>9. ASSUME NEW j \in 0 .. n-1, j # k PROVE Word(q, w + j) = Word(p, w + j)
    <2>0. w \in Nat /\ j \in Nat /\ k \in Nat /\ N \in Nat /\ j < N /\ k < N
      <3>1. n \in Nat /\ n <= N /\ k \in 0 .. n-1
        BY <1>2 DEF n
      <3> QED
        BY <1>1, <1>2, <3>1
    <2>1. w + j \in Nat /\ w + k \in Nat
      BY <2>0
    <2>2. (w + j) % N # i
      <3>1. CASE j < k
        <4>1. w + j < w + k /\ (w + k) - (w + j) < N
          BY <2>0, <3>1
        <4> QED
          BY <1>1, <2>1, <4>1, PlacesDiffer DEF i
      <3>2. CASE k < j
        <4>1. w + k < w + j /\ (w + j) - (w + k) < N
          BY <2>0, <3>2
        <4> QED
          BY <1>1, <2>1, <4>1, PlacesDiffer DEF i
      <3> QED
        BY <1>9, <2>0, <3>1, <3>2
    <2> QED
      BY <1>7, <2>1, <2>2
  <1>10. ASSUME NEW s \in S, s < p.tail, s # w
         PROVE  SameItem(p, q, s)
    <2>1. s \in Nat /\ Word(p, s).item_size \in 1 .. N
      BY <1>10, ItemFacts
    <2>2. ASSUME NEW j \in 0 .. Word(p, s).item_size-1 PROVE Word(q, s + j) = Word(p, s + j)
      <3>1. s + j \in Nat
        BY <1>1, <2>1
      <3>2. (s + j) % N # i
        BY <1>2, <1>10
      <3> QED
        BY <1>7, <3>1, <3>2
    <2> QED
      BY <2>2 DEF SameItem
  <1>11. ASSUME NEW s \in S, s < p.tail PROVE Word(q, s).item_size = Word(p, s).item_size
    <2>1. CASE s # w
      <3>1. s \in Nat /\ 0 \in 0 .. Word(p, s).item_size-1
        BY SMTT(30), <1>1, <1>11, ItemFacts
      <3>2. Word(q, s + 0) = Word(p, s + 0)
        BY <1>10, <1>11, <2>1, <3>1 DEF SameItem
      <3> QED
        BY <3>1, <3>2
    <2>2. CASE s = w /\ k # 0
      <3>1. 0 \in 0 .. n-1
        BY <1>1, <1>2
      <3>2. Word(q, w + 0) = Word(p, w + 0)
        BY <1>9, <2>2, <3>1
      <3> QED
        BY <1>2, <2>2, <3>2
    <2>3. CASE s = w /\ k = 0
      BY <1>2, <1>8, <2>3 DEF n
    <2> QED
      BY <2>1, <2>2, <2>3
  <1>12. TiledBy(q, S)
    BY <1>4, <1>11 DEF TiledBy
  <1>13. Keeps(p, S, q, S, w)
    BY <1>1, <1>4, <1>10 DEF Keeps
  <1> QED
    BY <1>4, <1>6, <1>8, <1>9, <1>12, <1>13 DEF n

\* Writing the header of an item.
LEMMA WroteKey ==
  ASSUME NEW p, IsLog(p), NEW S, TiledBy(p, S), NEW w \in S, w < p.tail,
         Span \in Nat \ {0}, Span % p.size = 0, NEW key,
         NEW q, q = WriteKey(p, w % Span, key)
  PROVE  /\ IsLog(q) /\ q.size = p.size /\ q.head = p.head /\ q.tail = p.tail
         /\ TiledBy(q, S) /\ Keeps(p, S, q, S, w)
         /\ Word(q, w).item_size = Word(p, w).item_size /\ Word(q, w).key = key
  <1> DEFINE i == w % p.size  x == [p.data[i] EXCEPT !.key = key, !.val = None]
  <1>1. /\ p.size \in Nat \ {0} /\ w \in Nat /\ Word(p, w).item_size \in 1 .. p.size
        /\ p = [size |-> p.size, head |-> p.head, tail |-> p.tail, data |-> p.data]
        /\ p.data = [y \in 0 .. p.size-1 |-> p.data[y]]
    BY ItemFacts DEF IsLog
  <1>2. (w + 0) % p.size = i /\ (w % Span) % p.size = i
    <2>1. w + 0 = w
      BY <1>1
    <2>2. p.size \in Nat \ {0} /\ w \in Nat
      BY <1>1
    <2> QED
      BY <2>1, <2>2, OffsetPlaces
  <1>3. i \in 0 .. p.size-1
    BY <1>1, DivBounds
  <1>4. Word(p, w) = p.data[i] /\ DOMAIN p.data[i] = WordFields /\ p.data[i].item_size \in Nat
    BY <1>3 DEF Word, IsLog
  <1>5. q = [p EXCEPT !.data[i].key = key, !.data[i].val = None]
    BY <1>2 DEF WriteKey, Place
  <1> HIDE DEF i
  <1>6. q = [p EXCEPT !.data[i] = x]
    BY <1>1, <1>3, <1>5
  <1>7. DOMAIN x = WordFields /\ x.item_size = Word(p, w).item_size /\ x.key = key
    BY <1>4 DEF WordFields
  <1> HIDE DEF x
  <1>8. SetsWord(p, q, (w + 0) % p.size, x)
    BY <1>2, <1>6 DEF SetsWord
  <1>9. 0 \in 0 .. Word(p, w).item_size-1 /\ x.item_size \in Nat
    BY <1>1, <1>7
  <1>10. /\ IsLog(q) /\ q.size = p.size /\ q.head = p.head /\ q.tail = p.tail
         /\ TiledBy(q, S) /\ Keeps(p, S, q, S, w) /\ Word(q, w + 0) = x
    BY <1>7, <1>8, <1>9, WordChanged
  <1> QED
    BY <1>1, <1>7, <1>10

\* Writing a word of the value of an item.
LEMMA WroteValue ==
  ASSUME NEW p, IsLog(p), NEW S, TiledBy(p, S), NEW w \in S, w < p.tail,
         Span \in Nat \ {0}, Span % p.size = 0, NEW k \in 1 .. Word(p, w).item_size-1, NEW val,
         NEW q, q = WriteValue(p, w % Span, k, val)
  PROVE  /\ IsLog(q) /\ q.size = p.size /\ q.head = p.head /\ q.tail = p.tail
         /\ TiledBy(q, S) /\ Keeps(p, S, q, S, w)
         /\ Word(q, w) = Word(p, w) /\ Word(q, w + k).val = val
         /\ \A j \in 0 .. Word(p, w).item_size-1 : j # k => Word(q, w + j) = Word(p, w + j)
  <1> DEFINE x == [Blank EXCEPT !.val = val]
  <1>1. p.size \in Nat \ {0} /\ w \in Nat /\ Word(p, w).item_size \in 1 .. p.size /\ k \in Nat
    BY ItemFacts DEF IsLog
  <1>2. ((w % Span) + k) % p.size = (w + k) % p.size
    BY <1>1, OffsetPlaces
  <1>3. SetsWord(p, q, (w + k) % p.size, x)
    BY <1>2 DEF WriteValue, Place, SetsWord
  <1>4. DOMAIN x = WordFields /\ x.item_size = 0 /\ x.val = val
    BY DEF Blank, WordFields
  <1> HIDE DEF x
  <1>5. k \in 0 .. Word(p, w).item_size-1 /\ x.item_size \in Nat /\ k # 0 /\ 0 \in 0 .. Word(p, w).item_size-1
    BY <1>1, <1>4
  <1>6. /\ IsLog(q) /\ q.size = p.size /\ q.head = p.head /\ q.tail = p.tail
        /\ TiledBy(q, S) /\ Keeps(p, S, q, S, w) /\ Word(q, w + k) = x
        /\ \A j \in 0 .. Word(p, w).item_size-1 : j # k => Word(q, w + j) = Word(p, w + j)
    BY <1>3, <1>4, <1>5, WordChanged
  <1>7. Word(q, w + 0) = Word(p, w + 0)
    BY <1>5, <1>6
  <1> QED
    BY <1>1, <1>4, <1>6, <1>7

\* Two items of one length in a log, and the log with one copied over the other.
Copyable(p, S, a, t, n) ==
  /\ IsLog(p) /\ TiledBy(p, S) /\ a \in S /\ t \in S /\ a # t /\ a < p.tail /\ t < p.tail
  /\ Span \in Nat \ {0} /\ Span % p.size = 0
  /\ n = Word(p, a).item_size /\ n = Word(p, t).item_size

IsCopy(p, S, a, t, n, q) ==
  /\ IsLog(q) /\ q.size = p.size /\ q.head = p.head /\ q.tail = p.tail
  /\ TiledBy(q, S) /\ Keeps(p, S, q, S, t)
  /\ Word(q, t).item_size = n /\ Word(q, t).key = Word(p, a).key
  /\ \A j \in 1 .. n-1 : Word(q, t + j) = Word(p, a + j)

\* Copying does that.
LEMMA CopiedItem ==
  ASSUME NEW p, NEW S, NEW a, NEW t, NEW n, Copyable(p, S, a, t, n),
         NEW q, q = Copied(p, a % Span, t % Span, n)
  PROVE  IsCopy(p, S, a, t, n, q)
  <1> SUFFICES ASSUME IsLog(p), TiledBy(p, S), a \in S, t \in S, a # t, a < p.tail, t < p.tail,
                      Span \in Nat \ {0}, Span % p.size = 0,
                      n = Word(p, a).item_size, n = Word(p, t).item_size
               PROVE  /\ IsLog(q) /\ q.size = p.size /\ q.head = p.head /\ q.tail = p.tail
                      /\ TiledBy(q, S) /\ Keeps(p, S, q, S, t)
                      /\ Word(q, t).item_size = n /\ Word(q, t).key = Word(p, a).key
                      /\ \A j \in 1 .. n-1 : Word(q, t + j) = Word(p, a + j)
    BY DEF Copyable, IsCopy
  <1> DEFINE N == p.size
             Within(i) == \E k \in 0 .. n-1 : i = (t + k) % N
             Which(i) == CHOOSE k \in 0 .. n-1 : i = (t + k) % N
             head == [Word(p, a) EXCEPT !.item_size = n]
             Copy(k) == IF k = 0 THEN head ELSE Word(p, a + k)
             d == [i \in 0 .. N-1 |-> IF Within(i) THEN Copy(Which(i)) ELSE p.data[i]]
  <1>1. /\ N \in Nat \ {0} /\ p.head \in Nat /\ p.tail \in Nat
        /\ p = [size |-> p.size, head |-> p.head, tail |-> p.tail, data |-> p.data]
        /\ p.data = [y \in 0 .. N-1 |-> p.data[y]]
        /\ \A y \in 0 .. N-1 : DOMAIN p.data[y] = WordFields /\ p.data[y].item_size \in Nat
    BY DEF IsLog
  <1>2. /\ a \in Nat /\ t \in Nat /\ n \in 1 .. N
        /\ \A s \in S : s < p.tail /\ s # t =>
             \A j \in 0 .. Word(p, s).item_size-1, k \in 0 .. n-1 : (s + j) % N # (t + k) % N
    BY ItemFacts
  <1>3. /\ (a % Span) % N = a % N /\ \A k \in Nat : ((a % Span) + k) % N = (a + k) % N
        /\ (t % Span) % N = t % N /\ \A k \in Nat : ((t % Span) + k) % N = (t + k) % N
    BY <1>1, <1>2, OffsetPlaces
  <1>4. \A x \in Nat : x % N \in 0 .. N-1 /\ DOMAIN Word(p, x) = WordFields /\ Word(p, x).item_size \in Nat
    <2>1. \A x \in Nat : x % N \in 0 .. N-1
      BY <1>1, DivBounds
    <2> QED
      BY <1>1, <2>1 DEF Word
  <1>5. n \in Nat /\ \A k \in 0 .. n-1 : k \in Nat /\ t + k \in Nat /\ a + k \in Nat
    BY SMTT(30), <1>1, <1>2
  <1>6. \A j, k \in 0 .. n-1 : (t + j) % N = (t + k) % N => j = k
    <2>1. ASSUME NEW j \in 0 .. n-1, NEW k \in 0 .. n-1, j < k
          PROVE  (t + j) % N # (t + k) % N
      <3> DEFINE x == t + j  y == t + k
      <3>0. t \in Nat /\ n \in Nat /\ n <= N /\ N \in Nat
        BY <1>1, <1>2
      <3>1. x \in Nat /\ y \in Nat /\ x < y /\ y - x < N
        BY <3>0, <2>1
      <3> HIDE DEF x, y
      <3>2. x % N # y % N
        BY <1>1, <3>1, PlacesDiffer
      <3> QED
        BY <3>2 DEF x, y
    <2> QED
      BY <1>5, <2>1
  <1> HIDE DEF N
  <1>7. q = [p EXCEPT !.data = d]
    <2> DEFINE Body(i) ==
                 IF \E k \in 0 .. n-1 : i = Place(p, (t % Span) + k)
                   THEN LET k == CHOOSE k \in 0 .. n-1 : i = Place(p, (t % Span) + k)
                        IN  IF k = 0 THEN [p.data[Place(p, a % Span)] EXCEPT !.item_size = n]
                                     ELSE p.data[Place(p, (a % Span) + k)]
                   ELSE p.data[i]
    <2>1. q = [p EXCEPT !.data = [i \in 0 .. N-1 |-> Body(i)]]
      <3>1. DOMAIN p.data = 0 .. N-1
        BY <1>1
      <3> QED
        BY <3>1, Zenon DEF Copied
    <2>2. \A k \in 0 .. n-1 : Place(p, (t % Span) + k) = (t + k) % N /\ Place(p, (a % Span) + k) = (a + k) % N
      BY <1>3, <1>5 DEF Place, N
    <2>3. Place(p, a % Span) = a % N
      BY <1>3 DEF Place, N
    <2>4. ASSUME NEW i \in 0 .. N-1
          PROVE  Body(i) = d[i]
      <3>1. (\E k \in 0 .. n-1 : i = Place(p, (t % Span) + k)) <=> Within(i)
        BY <2>2
      <3>2. CASE Within(i)
        <4>1. (CHOOSE k \in 0 .. n-1 : i = Place(p, (t % Span) + k)) = Which(i)
          BY <2>2
        <4>2. Which(i) \in 0 .. n-1
          BY <3>2
        <4> HIDE DEF Which
        <4>3. Word(p, a) = p.data[Place(p, a % Span)] /\ Word(p, a + Which(i)) = p.data[Place(p, (a % Span) + Which(i))]
          BY <2>2, <2>3, <4>2 DEF Word, N
        <4> QED
          BY <3>1, <3>2, <4>1, <4>3
      <3>3. CASE ~ Within(i)
        BY <3>1, <3>3
      <3> QED
        BY <3>2, <3>3
    <2>5. [i \in 0 .. N-1 |-> Body(i)] = d
      <3>1. d = [i \in 0 .. N-1 |-> d[i]]
        OBVIOUS
      <3> HIDE DEF Body, d
      <3> QED
        BY <2>4, <3>1
    <2> HIDE DEF Body, d
    <2> QED
      BY <2>1, <2>5
  <1>8. ASSUME NEW k \in 0 .. n-1 PROVE d[(t + k) % N] = Copy(k)
    <2>1. (t + k) % N \in 0 .. N-1
      BY <1>4, <1>5
    <2>2. Within((t + k) % N)
      OBVIOUS
    <2>3. Which((t + k) % N) \in 0 .. n-1 /\ (t + k) % N = (t + Which((t + k) % N)) % N
      BY <2>2
    <2>4. Which((t + k) % N) = k
      BY <1>6, <2>3
    <2> QED
      BY <2>1, <2>2, <2>4
  <1>9. ASSUME NEW i \in 0 .. N-1, ~ Within(i) PROVE d[i] = p.data[i]
    BY <1>9
  <1>10. DOMAIN head = WordFields /\ head.item_size = n /\ head.key = Word(p, a).key
    <2>1. DOMAIN Word(p, a) = WordFields
      BY <1>2, <1>4
    <2> QED
      BY <2>1 DEF WordFields
  <1>11. \A i \in 0 .. N-1 : DOMAIN d[i] = WordFields /\ d[i].item_size \in Nat
    <2>1. ASSUME NEW i \in 0 .. N-1, Within(i) PROVE DOMAIN d[i] = WordFields /\ d[i].item_size \in Nat
      <3>1. PICK k \in 0 .. n-1 : i = (t + k) % N
        BY <2>1
      <3>2. d[i] = Copy(k)
        BY <1>8, <3>1
      <3>3. DOMAIN Word(p, a + k) = WordFields /\ Word(p, a + k).item_size \in Nat
        BY <1>4, <1>5
      <3> HIDE DEF d, head
      <3> QED
        BY <1>5, <1>10, <3>2, <3>3
    <2> HIDE DEF d
    <2> QED
      BY <1>1, <1>9, <2>1 DEF N
  <1>12. d = [i \in 0 .. N-1 |-> d[i]]
    OBVIOUS
  <1> HIDE DEF d, head
  <1>13. /\ q.size = N /\ q.head = p.head /\ q.tail = p.tail /\ q.data = d
         /\ q = [size |-> q.size, head |-> q.head, tail |-> q.tail, data |-> q.data]
    <2>1. q = [size |-> p.size, head |-> p.head, tail |-> p.tail, data |-> d]
      BY <1>1, <1>7
    <2> QED
      BY <2>1 DEF N
  <1>14. IsLog(q)
    <2>1. q.size \in Nat \ {0} /\ q.head \in Nat /\ q.tail \in Nat
      BY <1>1, <1>13 DEF N
    <2> QED
      BY <1>11, <1>12, <1>13, <2>1 DEF IsLog
  <1>15. \A k \in 0 .. n-1 : Word(q, t + k) = Copy(k)
    BY <1>8, <1>13 DEF Word
  <1>16. ASSUME NEW s \in S, s < p.tail, s # t
         PROVE  SameItem(p, q, s)
    <2>1. s \in Nat /\ Word(p, s).item_size \in 1 .. N
      BY <1>16, ItemFacts DEF N
    <2>2. ASSUME NEW j \in 0 .. Word(p, s).item_size-1 PROVE Word(q, s + j) = Word(p, s + j)
      <3>1. s + j \in Nat
        BY <2>1
      <3>2. (s + j) % N \in 0 .. N-1
        BY <1>4, <3>1
      <3>3. ~ Within((s + j) % N)
        BY <1>2, <1>16, <2>2 DEF N
      <3>4. d[(s + j) % N] = p.data[(s + j) % N]
        BY <1>9, <3>2, <3>3
      <3> QED
        BY <1>13, <3>4 DEF Word, N
    <2> QED
      BY <2>2 DEF SameItem
  <1>17. Word(q, t) = head
    <2>1. 0 \in 0 .. n-1 /\ t + 0 = t
      BY <1>1, <1>2, <1>5
    <2>2. Word(q, t + 0) = head
      BY <1>15, <2>1
    <2> QED
      BY <2>1, <2>2
  <1>18. ASSUME NEW s \in S, s < p.tail PROVE Word(q, s).item_size = Word(p, s).item_size
    <2>1. CASE s # t
      <3>1. s \in Nat /\ 0 \in 0 .. Word(p, s).item_size-1
        BY <1>1, <1>18, ItemFacts
      <3>2. Word(q, s + 0) = Word(p, s + 0)
        BY <1>16, <1>18, <2>1, <3>1 DEF SameItem
      <3> QED
        BY <3>1, <3>2
    <2>2. CASE s = t
      BY <1>10, <1>17, <2>2
    <2> QED
      BY <2>1, <2>2
  <1>19. TiledBy(q, S)
    BY <1>13, <1>18 DEF TiledBy, N
  <1>20. Keeps(p, S, q, S, t)
    BY <1>1, <1>13, <1>16 DEF Keeps, N
  <1>21. \A j \in 1 .. n-1 : Word(q, t + j) = Word(p, a + j)
    <2>1. \A j \in 1 .. n-1 : j \in 0 .. n-1 /\ j # 0
      BY <1>5
    <2> QED
      BY <1>15, <2>1
  <1> QED
    BY <1>10, <1>13, <1>14, <1>17, <1>19, <1>20, <1>21 DEF N

\* One change of the log after another.
LEMMA KeepsBoth ==
  ASSUME NEW p, IsLog(p), NEW S, TiledBy(p, S), NEW q, NEW T, NEW r, NEW w, IsLog(q), IsLog(r),
         Keeps(p, S, q, T, w), Keeps(q, T, r, T, p.tail), q.tail = r.tail
  PROVE  Keeps(p, S, r, T, w)
  <1>1. /\ q.size = p.size /\ p.tail <= q.tail /\ r.size = q.size
        /\ p.tail \in Nat /\ q.tail \in Nat /\ p.size \in Nat
    BY DEF Keeps, IsLog
  <1>2. ASSUME NEW s \in S, s < p.tail, s # w, InLog(r, s)
        PROVE  s \in T /\ SameItem(p, r, s)
    <2>1. InLog(q, s)
      BY <1>1, <1>2 DEF InLog
    <2>2. s \in T /\ SameItem(p, q, s)
      BY <1>2, <2>1 DEF Keeps
    <2>3. s \in Nat /\ s < q.tail /\ s # p.tail /\ Word(p, s).item_size \in 1 .. p.size
      <3>1. s \in Nat /\ Word(p, s).item_size \in 1 .. p.size
        BY <1>2, ItemFacts
      <3> QED
        BY <1>1, <1>2, <3>1
    <2>4. SameItem(q, r, s)
      BY <1>2, <2>2, <2>3 DEF Keeps
    <2>5. Word(q, s) = Word(p, s)
      <3>1. 0 \in 0 .. Word(p, s).item_size-1 /\ s + 0 = s
        BY <1>1, <2>3
      <3>2. Word(q, s + 0) = Word(p, s + 0)
        BY <2>2, <3>1 DEF SameItem
      <3> QED
        BY <3>1, <3>2
    <2> QED
      BY <2>2, <2>4, <2>5 DEF SameItem
  <1> QED
    BY <1>1, <1>2 DEF Keeps

-----------------------------------------------------------------------------
(***************************************************************************)
(* The inductive invariant.  Shape is about locks and item vectors, Stored *)
(* about what the log holds, given where its items start.                  *)
(***************************************************************************)
Entry(b, s) == item_vec[b][s]
Bucket(l)   == req[l].key.bucket

\* l has its bucket locked, has an item of its own, reads without a lock.
Holding(l) == pc[l] \in {"set_find", "set_allocate", "set_write", "set_publish"}
InHand(l)  == pc[l] \in {"set_write", "set_publish"}
Reading(l) == pc[l] \in {"get_find", "get_copy", "get_hit", "get_miss", "get_stale"}

Places == {"idle", "set_lock", "set_find", "set_allocate", "set_write", "set_publish", "cleanup", "get_version",
           "get_find", "get_copy", "get_hit", "get_miss", "get_stale", "remove", "move_to_head"}

Fields == {"op", "key", "pad", "val", "slot", "found", "offset", "at", "word", "version", "from", "to", "copy"}

IsRequest(r) ==
  /\ DOMAIN r = Fields
  /\ r.key \in build.keys /\ r.slot \in Slots /\ r.found \in BOOLEAN
  /\ r.at \in Nat /\ r.word \in Nat /\ r.version \in Nat

Tags == {0} \union {k.tag : k \in build.keys}

TableTypeOK ==
  /\ build \in Builds
  /\ version \in [Buckets -> Nat]
  /\ item_vec \in [Buckets -> [Slots -> [tag : Tags, offset : Nat, at : Nat]]]
  /\ IsLog(pool) /\ pool.size = build.pool_size
  /\ pc \in [Lcores -> Places]
  /\ DOMAIN req = Lcores
  /\ \A l \in Lcores : pc[l] # "idle" => IsRequest(req[l])
  /\ DOMAIN last = build.keys /\ DOMAIN result = Lcores

\* A locked bucket has an odd version, and one lcore that has it locked; what
\* a reader has read is an even version, and not a later one.
Locks ==
  /\ \A l \in Lcores : concurrent /\ Holding(l) => version[Bucket(l)] % 2 = 1
  /\ \A l, m \in Lcores : Holding(l) /\ Holding(m) /\ Bucket(l) = Bucket(m) => l = m
  /\ \A l \in Lcores : concurrent /\ pc[l] = "set_write" => plock = l
  /\ \A l \in Lcores : pc[l] = "move_to_head" => ~ concurrent
  /\ \A l \in Lcores : Reading(l) => req[l].version <= version[Bucket(l)]
  /\ \A l \in Lcores : concurrent /\ Reading(l) => req[l].version % 2 = 0

\* Item vectors and items in hand point below the tail, each at its own place.
Pointers ==
  /\ \A b \in Buckets, s \in Slots :
       IF Entry(b, s).tag = 0 THEN Entry(b, s) = Empty
       ELSE Entry(b, s).at < pool.tail /\ Entry(b, s).offset = Entry(b, s).at % Span
  /\ \A l \in Lcores : InHand(l) => req[l].at < pool.tail /\ req[l].offset = req[l].at % Span
  /\ \A b, c \in Buckets, s, t \in Slots :
       Entry(b, s).tag # 0 /\ Entry(c, t).tag # 0 /\ Entry(b, s).at = Entry(c, t).at => b = c /\ s = t
  /\ \A l \in Lcores, b \in Buckets, s \in Slots :
       InHand(l) /\ Entry(b, s).tag # 0 /\ Entry(b, s).at = req[l].at =>
         b = Bucket(l) /\ s = req[l].slot /\ Entry(b, s).tag = req[l].key.tag
  /\ \A l, m \in Lcores : InHand(l) /\ InHand(m) /\ req[l].at = req[m].at => l = m

\* The slot that a SET has chosen is the only one that may have its tag.
Chosen ==
  \A l \in Lcores : pc[l] \in {"set_allocate", "set_write", "set_publish"} =>
    /\ \A s \in Slots : Entry(Bucket(l), s).tag = req[l].key.tag => s = req[l].slot
    /\ req[l].found => Entry(Bucket(l), req[l].slot).tag = req[l].key.tag

Shape == TableTypeOK /\ Locks /\ Pointers /\ Chosen /\ OneItemPerTag

\* The slot is one that a SET is about to replace.
Replaced(b, s) == \E l \in Lcores : InHand(l) /\ Bucket(l) = b /\ req[l].slot = s

\* An item vector whose item is in the log has a whole item of its key, with
\* the value that was set last.
Live(S, b, s) ==
  LET a == Entry(b, s).at
      k == KeyAt(pool, a)
  IN  Entry(b, s).tag # 0 /\ InLog(pool, a) =>
        /\ a \in S
        /\ k \in build.keys /\ k.bucket = b /\ k.tag = Entry(b, s).tag
        /\ Word(pool, a).item_size = k.size
        /\ Replaced(b, s) \/ \A j \in 1 .. k.size-1 : Word(pool, a + j).val = last[k]

\* What a SET has written of its item.
Written(S, l) ==
  LET r == req[l]
  IN  InHand(l) =>
        /\ r.word <= r.key.size
        /\ pc[l] = "set_write" => InLog(pool, r.at)
        /\ pc[l] = "set_publish" => r.word = r.key.size
        /\ InLog(pool, r.at) =>
             /\ r.at \in S
             /\ Word(pool, r.at).item_size = r.key.size
             /\ r.word >= 1 => KeyAt(pool, r.at) = r.key
             /\ \A j \in 1 .. r.word-1 : Word(pool, r.at + j).val = r.val

\* The item that a SET has found is that of its key.
Found(l) ==
  LET a == Entry(Bucket(l), req[l].slot).at
  IN  pc[l] = "set_allocate" /\ req[l].found /\ InLog(pool, a) => KeyAt(pool, a) = req[l].key

\* As long as the version stands, what a GET has copied is the value.
Copies(l) ==
  LET r == req[l]
      e == Entry(Bucket(l), r.slot)
  IN  pc[l] = "get_copy" /\ ~ VersionMoved(l) =>
        /\ e.tag = r.key.tag /\ e.offset = r.offset
        /\ r.word \in 1 .. r.key.size
        /\ InLog(pool, e.at) =>
             /\ KeyAt(pool, e.at) = r.key
             /\ r.copy = IF r.word = 1 THEN {} ELSE {last[r.key]}

Hits(l) ==
  LET r == req[l]
      e == Entry(Bucket(l), r.slot)
  IN  pc[l] = "get_hit" /\ ~ VersionMoved(l) =>
        /\ r.copy = {last[r.key]}
        /\ e.tag = r.key.tag /\ e.offset = r.offset
        /\ ~ concurrent => InLog(pool, e.at) /\ KeyAt(pool, e.at) = r.key

\* With one lcore nothing happens between a hit and the move to the head.
Moves(l) ==
  LET r == req[l]
      e == Entry(Bucket(l), r.slot)
  IN  pc[l] = "move_to_head" =>
        /\ e.tag = r.key.tag /\ e.offset = r.offset
        /\ InLog(pool, e.at) /\ KeyAt(pool, e.at) = r.key

\* Nothing is written or copied before a slot has been found.
Fresh(l) ==
  /\ pc[l] \in {"set_lock", "set_find", "set_allocate"} => req[l].word = 0
  /\ pc[l] = "get_find" => req[l].word = 1 /\ req[l].copy = {}

Operations(S, l) == Fresh(l) /\ Written(S, l) /\ Found(l) /\ Copies(l) /\ Hits(l) /\ Moves(l)

Stored(S) ==
  /\ TiledBy(pool, S)
  /\ \A b \in Buckets, s \in Slots : Live(S, b, s)
  /\ \A l \in Lcores : Operations(S, l)

StoreInv == Shape /\ GetReturnsLastSet /\ \E S \in SUBSET (pool.head .. pool.tail) : Stored(S)

\* What the builds are assumed to be.
LEMMA BuildFacts ==
  ASSUME TableTypeOK
  PROVE  /\ Span \in Nat \ {0} /\ ItemsPerBucket \in Nat \ {0} /\ NumBuckets \in Nat \ {0}
         /\ pool.size \in Nat \ {0} /\ 4 * pool.size <= Span /\ Span % pool.size = 0
         /\ Lcores \subseteq Nat /\ IsFiniteSet(Lcores) /\ Lcores # {} /\ None \notin Lcores
         /\ build.default \subseteq build.keys
         /\ build.mth_threshold \in Nat /\ (concurrent => build.mth_threshold >= pool.size)
         /\ \A k \in build.keys : /\ k.bucket \in Buckets /\ k.tag # 0 /\ k.tag \in Tags
                                  /\ k.size \in 2 .. pool.size
         /\ concurrent \in BOOLEAN
  <1>1. build \in Builds /\ pool.size = build.pool_size /\ pool.size \in Nat \ {0}
    BY DEF TableTypeOK, IsLog
  <1>2. /\ IsFiniteSet(build.lcores) /\ build.lcores # {} /\ build.lcores \subseteq Nat /\ None \notin build.lcores
        /\ 4 * build.pool_size <= Span /\ Span % build.pool_size = 0
        /\ \A k \in build.keys : k.bucket \in 0 .. NumBuckets-1 /\ k.tag # 0 /\ k.size \in 2 .. build.pool_size
        /\ build.default \subseteq build.keys
        /\ build.mth_threshold \in Nat
        /\ Cardinality(build.lcores) > 1 => build.mth_threshold >= build.pool_size
    BY <1>1, MicaTableAssumption
  <1>3. Span \in Nat \ {0} /\ ItemsPerBucket \in Nat \ {0} /\ NumBuckets \in Nat \ {0}
    BY MicaTableAssumption
  <1> QED
    BY <1>1, <1>2, <1>3 DEF Lcores, concurrent, Buckets, Tags

\* Two lcores are only there in a concurrent build.
LEMMA Alone ==
  ASSUME TableTypeOK, NEW l \in Lcores, NEW m \in Lcores, l # m
  PROVE  concurrent
  <1>1. IsFiniteSet(Lcores) /\ Cardinality(Lcores) \in Nat
    BY BuildFacts, FS_CardinalityType
  <1>2. {l, m} \in SUBSET Lcores
    OBVIOUS
  <1>3. Cardinality({l, m}) <= Cardinality(Lcores) /\ IsFiniteSet({l, m})
    BY <1>1, <1>2, FS_Subset
  <1>4. Cardinality({l, m}) = 2
    <2>1. IsFiniteSet({l}) /\ Cardinality({l}) = 1
      BY FS_Singleton
    <2>2. {l, m} = {l} \union {m} /\ m \notin {l}
      OBVIOUS
    <2> QED
      BY <2>1, <2>2, FS_AddElement
  <1> QED
    BY <1>1, <1>3, <1>4 DEF concurrent

\* The locals of an operation.
LEMMA RequestFacts ==
  ASSUME TableTypeOK, NEW l \in Lcores, pc[l] # "idle"
  PROVE  /\ DOMAIN req[l] = Fields
         /\ req[l].key \in build.keys /\ Bucket(l) \in Buckets
         /\ req[l].key.tag # 0 /\ req[l].key.tag \in Tags /\ req[l].key.size \in 2 .. pool.size
         /\ req[l].slot \in Slots /\ req[l].found \in BOOLEAN
         /\ req[l].at \in Nat /\ req[l].word \in Nat /\ req[l].version \in Nat
  <1>1. IsRequest(req[l])
    BY DEF TableTypeOK
  <1> QED
    BY <1>1, BuildFacts DEF IsRequest, Bucket

\* An item vector.
LEMMA EntryFacts ==
  ASSUME TableTypeOK, NEW b \in Buckets, NEW s \in Slots
  PROVE  Entry(b, s).tag \in Tags /\ Entry(b, s).offset \in Nat /\ Entry(b, s).at \in Nat
  <1>1. Entry(b, s) \in [tag : Tags, offset : Nat, at : Nat]
    BY DEF TableTypeOK, Entry
  <1> QED
    BY <1>1

-----------------------------------------------------------------------------
(***************************************************************************)
(* What a step of one lcore leaves to the others.                          *)
(***************************************************************************)

\* A step of l that touches at most the bucket b, of which it has the lock or
\* takes it, and changes the end of the log only if no other lcore is writing.
Touches(l, b) ==
  /\ build' = build
  /\ \A m \in Lcores : m # l => pc'[m] = pc[m] /\ req'[m] = req[m]
  /\ \A c \in Buckets : c # b => version'[c] = version[c] /\ item_vec'[c] = item_vec[c]
  /\ \A k \in build.keys : k.bucket # b => last'[k] = last[k]
  /\ b \in Buckets => version[b] <= version'[b]
  /\ \A m \in Lcores : m # l /\ Bucket(m) = b => ~ Holding(m) /\ (Reading(m) => VersionMoved(m)')
  /\ \A m \in Lcores : m # l /\ pc[m] = "set_write" => pool'.tail = pool.tail /\ plock' = plock

\* Of two lcores that hold a bucket, one waits for the other.
LEMMA OthersWait ==
  ASSUME Shape, NEW l \in Lcores, NEW b \in Buckets, NEW m \in Lcores, m # l, Bucket(m) = b,
         req'[m] = req[m], version'[b] \in Nat, version[b] <= version'[b],
         concurrent => \/ Holding(l) /\ Bucket(l) = b
                       \/ version[b] % 2 = 0 /\ version[b] < version'[b]
  PROVE  ~ Holding(m) /\ (Reading(m) => VersionMoved(m)')
  <1>1. TableTypeOK /\ Locks
    BY DEF Shape
  <1>2. concurrent
    BY <1>1, Alone
  <1>3. version[b] \in Nat
    BY <1>1 DEF TableTypeOK
  <1>4. ASSUME Reading(m) PROVE req[m].version \in Nat /\ req[m].version <= version[b] /\ req[m].version % 2 = 0
    <2>1. pc[m] # "idle"
      BY <1>4 DEF Reading
    <2> QED
      BY <1>1, <1>2, <1>4, <2>1, RequestFacts DEF Locks
  <1>5. VersionMoved(m)' <=> req[m].version # version'[b]
    BY DEF VersionMoved, Bucket
  <1>6. CASE Holding(l) /\ Bucket(l) = b
    <2>1. version[b] % 2 = 1
      BY <1>1, <1>2, <1>6 DEF Locks
    <2>2. ~ Holding(m)
      BY <1>1, <1>6 DEF Locks
    <2>3. Reading(m) => req[m].version # version'[b]
      BY <1>3, <1>4, <2>1
    <2> QED
      BY <1>5, <2>2, <2>3
  <1>7. CASE version[b] % 2 = 0 /\ version[b] < version'[b]
    <2>1. ~ Holding(m)
      BY <1>1, <1>2, <1>7 DEF Locks
    <2>2. Reading(m) => req[m].version # version'[b]
      BY <1>3, <1>4, <1>7
    <2> QED
      BY <1>5, <2>1, <2>2
  <1> QED
    BY <1>2, <1>6, <1>7

LEMMA LocksKept ==
  ASSUME Shape, TableTypeOK', NEW l \in Lcores, NEW b, Touches(l, b),
         Holding(l)' => b \in Buckets /\ Bucket(l)' = b /\ (concurrent => version'[b] % 2 = 1),
         concurrent /\ pc'[l] = "set_write" => plock' = l,
         pc'[l] = "move_to_head" => ~ concurrent,
         Reading(l)' => req'[l].version <= version'[Bucket(l)'],
         concurrent /\ Reading(l)' => req'[l].version % 2 = 0
  PROVE  Locks'
  <1>1. TableTypeOK /\ Locks /\ build' = build
    BY DEF Shape, Touches
  <1>2. Lcores' = Lcores /\ concurrent' = concurrent
    BY <1>1 DEF Lcores, concurrent
  <1>3. ASSUME NEW m \in Lcores, m # l
        PROVE  /\ Holding(m)' <=> Holding(m)
               /\ Reading(m)' <=> Reading(m)
               /\ Bucket(m)' = Bucket(m) /\ pc'[m] = pc[m] /\ req'[m] = req[m]
               /\ pc[m] # "idle" => Bucket(m) \in Buckets
    <2>1. pc'[m] = pc[m] /\ req'[m] = req[m]
      BY <1>3 DEF Touches
    <2> QED
      BY <1>1, <2>1, RequestFacts DEF Holding, Reading, Bucket
  <1>4. ASSUME NEW m \in Lcores, m # l
        PROVE  (Holding(m) \/ Reading(m)) => pc[m] # "idle"
    BY DEF Holding, Reading
  <1>5. ASSUME NEW m \in Lcores, concurrent, Holding(m)' PROVE version'[Bucket(m)'] % 2 = 1
    <2>1. CASE m = l
      BY <1>5, <2>1
    <2>2. CASE m # l
      <3>1. Holding(m) /\ Bucket(m)' = Bucket(m) /\ Bucket(m) \in Buckets
        BY <1>3, <1>4, <1>5, <2>2
      <3>2. Bucket(m) # b
        BY <2>2, <3>1 DEF Touches
      <3>3. version'[Bucket(m)] = version[Bucket(m)]
        BY <3>1, <3>2 DEF Touches
      <3> QED
        BY <1>1, <1>5, <3>1, <3>3 DEF Locks
    <2> QED
      BY <2>1, <2>2
  <1>6. ASSUME NEW m \in Lcores, NEW n \in Lcores, Holding(m)', Holding(n)', Bucket(m)' = Bucket(n)'
        PROVE  m = n
    <2>1. CASE m # l /\ n # l
      <3>1. Holding(m) /\ Holding(n) /\ Bucket(m) = Bucket(n)
        BY <1>3, <1>6, <2>1
      <3> QED
        BY <1>1, <3>1 DEF Locks
    <2>2. CASE m = l /\ n # l
      <3>1. Holding(n) /\ Bucket(n) = b
        BY <1>3, <1>6, <2>2
      <3> QED
        BY <2>2, <3>1 DEF Touches
    <2>3. CASE n = l /\ m # l
      <3>1. Holding(m) /\ Bucket(m) = b
        BY <1>3, <1>6, <2>3
      <3> QED
        BY <2>3, <3>1 DEF Touches
    <2> QED
      BY <2>1, <2>2, <2>3
  <1>7. ASSUME NEW m \in Lcores, concurrent, pc'[m] = "set_write" PROVE plock' = m
    <2>1. CASE m # l
      <3>1. pc[m] = "set_write"
        BY <1>3, <1>7, <2>1
      <3>2. plock' = plock
        BY <2>1, <3>1 DEF Touches
      <3> QED
        BY <1>1, <1>7, <3>1, <3>2 DEF Locks
    <2> QED
      BY <1>7, <2>1
  <1>8. ASSUME NEW m \in Lcores, pc'[m] = "move_to_head" PROVE ~ concurrent
    <2>1. CASE m # l
      BY <1>1, <1>3, <1>8, <2>1 DEF Locks
    <2> QED
      BY <1>8, <2>1
  <1>9. ASSUME NEW m \in Lcores, Reading(m)'
        PROVE  req'[m].version <= version'[Bucket(m)'] /\ (concurrent => req'[m].version % 2 = 0)
    <2>1. CASE m # l
      <3>1. /\ Reading(m) /\ Bucket(m)' = Bucket(m) /\ Bucket(m) \in Buckets /\ req'[m] = req[m]
            /\ pc[m] # "idle"
        BY <1>3, <1>4, <1>9, <2>1
      <3>2. version[Bucket(m)] <= version'[Bucket(m)]
        <4>1. CASE Bucket(m) = b
          BY <3>1, <4>1 DEF Touches
        <4>2. CASE Bucket(m) # b
          <5>1. version'[Bucket(m)] = version[Bucket(m)]
            BY <3>1, <4>2 DEF Touches
          <5>2. version[Bucket(m)] \in Nat
            BY <1>1, <3>1 DEF TableTypeOK
          <5> QED
            BY <5>1, <5>2
        <4> QED
          BY <4>1, <4>2
      <3>3. req[m].version \in Nat /\ version[Bucket(m)] \in Nat /\ version'[Bucket(m)] \in Nat
        <4>1. req[m].version \in Nat /\ version[Bucket(m)] \in Nat
          BY <1>1, <3>1, RequestFacts DEF TableTypeOK
        <4>2. version' \in [Buckets -> Nat]
          BY DEF TableTypeOK, Buckets
        <4> QED
          BY <3>1, <4>1, <4>2
      <3>4. req[m].version <= version[Bucket(m)]
        BY <1>1, <3>1 DEF Locks
      <3>5. concurrent => req[m].version % 2 = 0
        BY <1>1, <3>1 DEF Locks
      <3> QED
        BY <3>1, <3>2, <3>3, <3>4, <3>5
    <2> QED
      BY <1>9, <2>1
  <1> QED
    BY <1>2, <1>5, <1>6, <1>7, <1>8, <1>9 DEF Locks

\* Entries that are as they were, or removed.
Shrinks == \A b \in Buckets, s \in Slots : Entry(b, s)' = Entry(b, s) \/ Entry(b, s)' = Empty

LEMMA PointersKept ==
  ASSUME Shape, TableTypeOK', NEW l \in Lcores, NEW b, Touches(l, b), Shrinks, pool.tail <= pool'.tail,
         InHand(l)' =>
           /\ req'[l].at < pool'.tail /\ req'[l].offset = req'[l].at % Span
           /\ \A c \in Buckets, s \in Slots :
                Entry(c, s).tag # 0 /\ Entry(c, s).at = req'[l].at =>
                  c = Bucket(l)' /\ s = req'[l].slot /\ Entry(c, s).tag = req'[l].key.tag
           /\ \A m \in Lcores : m # l /\ InHand(m) => req[m].at # req'[l].at
  PROVE  Pointers'
  <1>1. TableTypeOK /\ Pointers /\ build' = build /\ pool.tail \in Nat /\ pool'.tail \in Nat
    BY DEF Shape, Touches, TableTypeOK, IsLog
  <1>2. Lcores' = Lcores
    BY <1>1 DEF Lcores
  <1>3. ASSUME NEW m \in Lcores, m # l
        PROVE  (InHand(m)' <=> InHand(m)) /\ Bucket(m)' = Bucket(m) /\ req'[m] = req[m]
    <2>1. pc'[m] = pc[m] /\ req'[m] = req[m]
      BY <1>3 DEF Touches
    <2> QED
      BY <2>1 DEF InHand, Bucket
  <1>4. \A c \in Buckets, s \in Slots :
          /\ Entry(c, s).at \in Nat
          /\ Entry(c, s)'.tag # 0 => Entry(c, s)' = Entry(c, s)
          /\ Entry(c, s)'.tag = 0 => Entry(c, s)' = Empty
    <2>1. ASSUME NEW c \in Buckets, NEW s \in Slots
          PROVE  /\ Entry(c, s).at \in Nat
                 /\ Entry(c, s)'.tag # 0 => Entry(c, s)' = Entry(c, s)
                 /\ Entry(c, s)'.tag = 0 => Entry(c, s)' = Empty
      <3>1. Entry(c, s).at \in Nat
        BY <1>1, EntryFacts
      <3>2. Entry(c, s)' = Entry(c, s) \/ Entry(c, s)' = Empty
        BY DEF Shrinks
      <3>3. Empty.tag = 0
        BY DEF Empty
      <3>4. Entry(c, s).tag = 0 => Entry(c, s) = Empty
        BY <1>1 DEF Pointers
      <3> QED
        BY <3>1, <3>2, <3>3, <3>4
    <2> QED
      BY <2>1
  <1>5. ASSUME NEW c \in Buckets, NEW s \in Slots
        PROVE  IF Entry(c, s)'.tag = 0 THEN Entry(c, s)' = Empty
               ELSE Entry(c, s)'.at < pool'.tail /\ Entry(c, s)'.offset = Entry(c, s)'.at % Span
    <2>1. CASE Entry(c, s)'.tag # 0
      <3>1. Entry(c, s)' = Entry(c, s) /\ Entry(c, s).at \in Nat
        BY <1>4, <2>1
      <3>2. Entry(c, s).at < pool.tail /\ Entry(c, s).offset = Entry(c, s).at % Span
        BY <1>1, <2>1, <3>1 DEF Pointers
      <3> QED
        BY <1>1, <2>1, <3>1, <3>2
    <2> QED
      BY <1>4, <2>1
  <1>6. ASSUME NEW m \in Lcores, InHand(m)'
        PROVE  req'[m].at < pool'.tail /\ req'[m].offset = req'[m].at % Span
    <2>1. CASE m # l
      <3>1. InHand(m) /\ req'[m] = req[m]
        BY <1>3, <1>6, <2>1
      <3>2. req[m].at < pool.tail /\ req[m].offset = req[m].at % Span
        BY <1>1, <3>1 DEF Pointers
      <3>3. pc[m] # "idle"
        BY <3>1 DEF InHand
      <3>4. req[m].at \in Nat
        BY <1>1, <3>3, RequestFacts
      <3> QED
        BY <1>1, <3>1, <3>2, <3>4
    <2> QED
      BY <1>6, <2>1
  <1>7. ASSUME NEW c \in Buckets, NEW d \in Buckets, NEW s \in Slots, NEW t \in Slots,
               Entry(c, s)'.tag # 0, Entry(d, t)'.tag # 0, Entry(c, s)'.at = Entry(d, t)'.at
        PROVE  c = d /\ s = t
    <2>1. Entry(c, s)' = Entry(c, s) /\ Entry(d, t)' = Entry(d, t)
      BY <1>4, <1>7
    <2>2. Entry(c, s).tag # 0 /\ Entry(d, t).tag # 0 /\ Entry(c, s).at = Entry(d, t).at
      BY <1>7, <2>1
    <2> QED
      BY <1>1, <2>2 DEF Pointers
  <1>8. ASSUME NEW m \in Lcores, NEW c \in Buckets, NEW s \in Slots,
               InHand(m)', Entry(c, s)'.tag # 0, Entry(c, s)'.at = req'[m].at
        PROVE  c = Bucket(m)' /\ s = req'[m].slot /\ Entry(c, s)'.tag = req'[m].key.tag
    <2>1. Entry(c, s).tag # 0 /\ Entry(c, s).at = req'[m].at /\ Entry(c, s)' = Entry(c, s)
      BY <1>4, <1>8
    <2>2. CASE m # l
      <3>1. InHand(m) /\ Bucket(m)' = Bucket(m) /\ req'[m] = req[m]
        BY <1>3, <1>8, <2>2
      <3> QED
        BY <1>1, <2>1, <3>1 DEF Pointers
    <2> QED
      BY <1>8, <2>1, <2>2
  <1>9. ASSUME NEW m \in Lcores, NEW n \in Lcores, InHand(m)', InHand(n)', req'[m].at = req'[n].at
        PROVE  m = n
    <2>1. CASE m # l /\ n # l
      <3>1. InHand(m) /\ InHand(n) /\ req[m].at = req[n].at
        BY <1>3, <1>9, <2>1
      <3> QED
        BY <1>1, <3>1 DEF Pointers
    <2>2. CASE m = l /\ n # l
      BY <1>3, <1>9, <2>2
    <2>3. CASE n = l /\ m # l
      BY <1>3, <1>9, <2>3
    <2> QED
      BY <2>1, <2>2, <2>3
  <1> QED
    BY <1>2, <1>5, <1>6, <1>7, <1>8, <1>9 DEF Pointers, Buckets, Slots

\* A slot that another lcore has chosen stays the only one of its tag.
LEMMA ChosenKept ==
  ASSUME Shape, TableTypeOK', NEW l \in Lcores, NEW b, Touches(l, b), Shrinks,
         pc'[l] \in {"set_allocate", "set_write", "set_publish"} =>
           /\ \A s \in Slots : Entry(Bucket(l), s)'.tag = req'[l].key.tag => s = req'[l].slot
           /\ req'[l].found => Entry(Bucket(l), req[l].slot)'.tag = req'[l].key.tag
  PROVE  Chosen' /\ OneItemPerTag'
  <1>1. TableTypeOK /\ Chosen /\ OneItemPerTag /\ build' = build
    BY DEF Shape, Touches
  <1>2. Lcores' = Lcores /\ Empty.tag = 0
    BY <1>1 DEF Lcores, Empty
  <1>3. ASSUME NEW m \in Lcores, pc'[m] \in {"set_allocate", "set_write", "set_publish"}
        PROVE  /\ \A s \in Slots : Entry(Bucket(m), s)'.tag = req'[m].key.tag => s = req'[m].slot
               /\ req'[m].found => Entry(Bucket(m), req[m].slot)'.tag = req'[m].key.tag
    <2>1. CASE m # l
      <3>1. pc'[m] = pc[m] /\ req'[m] = req[m] /\ Bucket(m)' = Bucket(m)
        BY <2>1 DEF Touches, Bucket
      <3>2. Holding(m) /\ pc[m] # "idle"
        BY <1>3, <3>1 DEF Holding
      <3>3. Bucket(m) \in Buckets /\ Bucket(m) # b
        BY <1>1, <2>1, <3>2, RequestFacts DEF Touches
      <3>4. item_vec'[Bucket(m)] = item_vec[Bucket(m)]
        BY <3>3 DEF Touches
      <3>5. /\ \A s \in Slots : Entry(Bucket(m), s).tag = req[m].key.tag => s = req[m].slot
            /\ req[m].found => Entry(Bucket(m), req[m].slot).tag = req[m].key.tag
        BY <1>1, <1>3, <3>1 DEF Chosen
      <3>6. req[m].slot \in Slots
        BY <1>1, <3>2, RequestFacts
      <3>7. /\ \A s \in Slots : Entry(Bucket(m), s)' = Entry(Bucket(m), s)
            /\ Entry(Bucket(m), req[m].slot)' = Entry(Bucket(m), req[m].slot)
        BY <3>1, <3>4 DEF Entry, Bucket
      <3> QED
        BY <3>1, <3>5, <3>6, <3>7
    <2> QED
      BY <1>3, <2>1
  <1>4. ASSUME NEW c \in Buckets, NEW s \in Slots, NEW t \in Slots,
               item_vec'[c][s].tag = item_vec'[c][t].tag, item_vec'[c][s].tag # 0
        PROVE  s = t
    <2>1. Entry(c, s)' = Entry(c, s) /\ Entry(c, t)' = Entry(c, t)
      BY <1>2, <1>4 DEF Shrinks, Entry
    <2> QED
      BY <1>1, <1>4, <2>1 DEF OneItemPerTag, Entry
  <1>5. OneItemPerTag'
    BY <1>4 DEF OneItemPerTag, Buckets, Slots
  <1>6. Chosen'
    BY <1>2, <1>3 DEF Chosen, Slots, Bucket, Entry
  <1> QED
    BY <1>5, <1>6

-----------------------------------------------------------------------------
(***************************************************************************)
(* What a change of the log leaves of the items.                           *)
(***************************************************************************)

\* Items other than the one at w are what they were as long as the log has
\* them.
LEMMA ItemKept ==
  ASSUME NEW p, IsLog(p), NEW S, TiledBy(p, S), NEW q, NEW T, NEW w, Keeps(p, S, q, T, w),
         NEW a \in Nat, a < p.tail, a # w, IsLog(q), InLog(q, a)
  PROVE  /\ InLog(p, a)
         /\ a \in S => /\ a \in T
                       /\ Word(q, a) = Word(p, a) /\ KeyAt(q, a) = KeyAt(p, a)
                       /\ \A j \in 1 .. Word(p, a).item_size-1 : Word(q, a + j) = Word(p, a + j)
  <1>1. q.size = p.size /\ p.tail <= q.tail /\ p.tail \in Nat /\ q.tail \in Nat /\ p.size \in Nat
    BY DEF Keeps, IsLog
  <1>2. InLog(p, a)
    BY <1>1 DEF InLog
  <1>3. ASSUME a \in S
        PROVE  /\ a \in T
               /\ Word(q, a) = Word(p, a) /\ KeyAt(q, a) = KeyAt(p, a)
               /\ \A j \in 1 .. Word(p, a).item_size-1 : Word(q, a + j) = Word(p, a + j)
    <2>1. a \in T /\ SameItem(p, q, a)
      BY <1>3 DEF Keeps
    <2>2. Word(p, a).item_size \in 1 .. p.size
      BY <1>3, ItemFacts
    <2>3. 0 \in 0 .. Word(p, a).item_size-1 /\ a + 0 = a
      BY <1>1, <2>2
    <2>4. Word(q, a + 0) = Word(p, a + 0)
      BY <2>1, <2>3 DEF SameItem
    <2>5. \A j \in 1 .. Word(p, a).item_size-1 : j \in 0 .. Word(p, a).item_size-1
      BY <1>1, <2>2
    <2> QED
      BY <2>1, <2>3, <2>4, <2>5 DEF SameItem, KeyAt
  <1> QED
    BY <1>2, <1>3

\* An item vector that stays has its item, and the item its value.
LEMMA LiveKept ==
  ASSUME Shape, TableTypeOK', build' = build,
         NEW S, NEW T, NEW w, TiledBy(pool, S), Keeps(pool, S, pool', T, w),
         NEW b \in Buckets, NEW s \in Slots, Live(S, b, s),
         Entry(b, s)' = Entry(b, s),
         Entry(b, s).tag # 0 => Entry(b, s).at # w,
         Replaced(b, s) => Replaced(b, s)',
         \A k \in build.keys : k.bucket = b /\ k.tag = Entry(b, s).tag => last'[k] = last[k]
  PROVE  Live(T, b, s)'
  <1> DEFINE a == Entry(b, s).at
  <1>1. /\ TableTypeOK /\ Pointers /\ IsLog(pool) /\ IsLog(pool') /\ pool.size \in Nat /\ pool'.size = pool.size
    BY DEF Shape, TableTypeOK, IsLog, Keeps
  <1>2. a \in Nat
    BY <1>1, EntryFacts
  <1>3. SUFFICES ASSUME Entry(b, s).tag # 0, InLog(pool', a)
        PROVE  LET k == KeyAt(pool', a)
               IN  /\ a \in T
                   /\ k \in build.keys /\ k.bucket = b /\ k.tag = Entry(b, s).tag
                   /\ Word(pool', a).item_size = k.size
                   /\ Replaced(b, s)' \/ \A j \in 1 .. k.size-1 : Word(pool', a + j).val = last'[k]
    BY Zenon DEF Live
  <1>4. a < pool.tail /\ a # w
    BY <1>1, <1>3 DEF Pointers
  <1>5. InLog(pool, a)
    BY <1>1, <1>2, <1>3, <1>4, ItemKept
  <1> DEFINE k == KeyAt(pool, a)
  <1>6. /\ a \in S
        /\ k \in build.keys /\ k.bucket = b /\ k.tag = Entry(b, s).tag
        /\ Word(pool, a).item_size = k.size
        /\ Replaced(b, s) \/ \A j \in 1 .. k.size-1 : Word(pool, a + j).val = last[k]
    BY <1>3, <1>5 DEF Live
  <1>7. /\ a \in T
        /\ Word(pool', a) = Word(pool, a) /\ KeyAt(pool', a) = k
        /\ \A j \in 1 .. k.size-1 : Word(pool', a + j) = Word(pool, a + j)
    BY <1>1, <1>2, <1>3, <1>4, <1>6, ItemKept
  <1>8. last'[k] = last[k]
    BY <1>6
  <1> HIDE DEF a, k
  <1> QED
    BY <1>6, <1>7, <1>8

\* What another lcore has written, found or copied stays good.
LEMMA OperationsKept ==
  ASSUME Shape, TableTypeOK', NEW l \in Lcores, NEW b, Touches(l, b),
         NEW S, NEW T, NEW w, Stored(S), Keeps(pool, S, pool', T, w),
         \A c \in Buckets, s \in Slots : Entry(c, s).tag # 0 /\ Entry(c, s).at = w => c = b,
         NEW m \in Lcores, m # l, InHand(m) => req[m].at # w
  PROVE  Operations(T, m)'
  <1>1. /\ TableTypeOK /\ Pointers /\ Chosen /\ IsLog(pool) /\ IsLog(pool') /\ pool.size \in Nat
        /\ pool'.size = pool.size /\ TiledBy(pool, S) /\ Operations(S, m)
    BY DEF Shape, TableTypeOK, IsLog, Keeps, Stored
  <1>2. pc'[m] = pc[m] /\ req'[m] = req[m] /\ Bucket(m)' = Bucket(m)
    BY DEF Touches, Bucket
  <1>3. concurrent /\ pc[m] # "move_to_head"
    BY <1>1, Alone DEF Shape, Locks
  <1>4. ASSUME pc[m] # "idle", Bucket(m) # b
        PROVE  /\ Entry(Bucket(m), req[m].slot)' = Entry(Bucket(m), req[m].slot)
               /\ VersionMoved(m)' <=> VersionMoved(m)
               /\ last'[req[m].key] = last[req[m].key]
               /\ Entry(Bucket(m), req[m].slot).at \in Nat
               /\ Entry(Bucket(m), req[m].slot).tag # 0 =>
                    /\ Entry(Bucket(m), req[m].slot).at < pool.tail
                    /\ Entry(Bucket(m), req[m].slot).at # w
                    /\ InLog(pool, Entry(Bucket(m), req[m].slot).at) =>
                         Entry(Bucket(m), req[m].slot).at \in S
    <2>1. Bucket(m) \in Buckets /\ req[m].slot \in Slots /\ req[m].key \in build.keys
      BY <1>1, <1>4, RequestFacts
    <2>2. /\ version'[Bucket(m)] = version[Bucket(m)] /\ item_vec'[Bucket(m)] = item_vec[Bucket(m)]
          /\ last'[req[m].key] = last[req[m].key]
      BY <1>4, <2>1 DEF Touches, Bucket
    <2>3. Live(S, Bucket(m), req[m].slot)
      BY <2>1 DEF Stored
    <2> QED
      BY <1>1, <1>2, <1>4, <2>1, <2>2, <2>3, EntryFacts DEF Entry, Bucket, VersionMoved, Pointers, Live
  <1>5. Written(T, m)'
    <2>1. SUFFICES ASSUME InHand(m)
          PROVE  LET r == req[m]
                 IN  /\ r.word <= r.key.size
                     /\ pc[m] = "set_write" => InLog(pool', r.at)
                     /\ pc[m] = "set_publish" => r.word = r.key.size
                     /\ InLog(pool', r.at) =>
                          /\ r.at \in T
                          /\ Word(pool', r.at).item_size = r.key.size
                          /\ r.word >= 1 => KeyAt(pool', r.at) = r.key
                          /\ \A j \in 1 .. r.word-1 : Word(pool', r.at + j).val = r.val
      BY <1>2 DEF Written, InHand
    <2> DEFINE r == req[m]
    <2>2. /\ r.word <= r.key.size
          /\ pc[m] = "set_write" => InLog(pool, r.at)
          /\ pc[m] = "set_publish" => r.word = r.key.size
          /\ InLog(pool, r.at) =>
               /\ r.at \in S
               /\ Word(pool, r.at).item_size = r.key.size
               /\ r.word >= 1 => KeyAt(pool, r.at) = r.key
               /\ \A j \in 1 .. r.word-1 : Word(pool, r.at + j).val = r.val
      BY <1>1, <2>1 DEF Operations, Written
    <2>3. r.at \in Nat /\ r.at < pool.tail /\ r.at # w /\ r.word \in Nat /\ r.key.size \in Nat
      <3>1. pc[m] # "idle"
        BY <2>1 DEF InHand
      <3>2. r.at \in Nat /\ r.word \in Nat /\ r.key.size \in Nat
        BY <1>1, <3>1, RequestFacts
      <3> QED
        BY <1>1, <2>1, <3>2 DEF Pointers
    <2>4. pc[m] = "set_write" => InLog(pool', r.at)
      BY <1>1, <2>2 DEF Touches, InLog
    <2>5. ASSUME InLog(pool', r.at)
          PROVE  /\ r.at \in T
                 /\ Word(pool', r.at).item_size = r.key.size
                 /\ r.word >= 1 => KeyAt(pool', r.at) = r.key
                 /\ \A j \in 1 .. r.word-1 : Word(pool', r.at + j).val = r.val
      <3>1. /\ InLog(pool, r.at)
            /\ r.at \in S => /\ r.at \in T
                 /\ Word(pool', r.at) = Word(pool, r.at) /\ KeyAt(pool', r.at) = KeyAt(pool, r.at)
                 /\ \A j \in 1 .. Word(pool, r.at).item_size-1 : Word(pool', r.at + j) = Word(pool, r.at + j)
        BY <1>1, <2>3, <2>5, ItemKept
      <3>2. \A j \in 1 .. r.word-1 : j \in 1 .. r.key.size-1
        BY <2>2, <2>3
      <3> HIDE DEF r
      <3> QED
        BY <2>2, <3>1, <3>2
    <2> QED
      BY <2>2, <2>4, <2>5
  <1> DEFINE r == req[m]
             a == Entry(Bucket(m), req[m].slot).at
  <1>6. ASSUME pc[m] # "idle", Bucket(m) # b, Entry(Bucket(m), req[m].slot).tag # 0, InLog(pool', a)
        PROVE  InLog(pool, a) /\ KeyAt(pool', a) = KeyAt(pool, a)
    <2>1. a \in Nat /\ a < pool.tail /\ a # w /\ (InLog(pool, a) => a \in S)
      BY <1>4, <1>6
    <2> HIDE DEF a
    <2> QED
      BY <1>1, <1>6, <2>1, ItemKept
  <1>7. Found(m)'
    <2>1. SUFFICES ASSUME pc[m] = "set_allocate", r.found, InLog(pool', Entry(Bucket(m), r.slot)'.at)
          PROVE  KeyAt(pool', Entry(Bucket(m), r.slot)'.at) = r.key
      BY <1>2 DEF Found, Entry, Bucket
    <2>2. pc[m] # "idle" /\ Bucket(m) # b
      BY <2>1 DEF Touches, Holding
    <2>3. Entry(Bucket(m), r.slot)' = Entry(Bucket(m), r.slot)
      BY <1>4, <2>2
    <2>4. Entry(Bucket(m), r.slot).tag # 0
      BY <1>1, <2>1, <2>2, RequestFacts DEF Chosen
    <2>5. InLog(pool, a) /\ KeyAt(pool', a) = KeyAt(pool, a)
      BY <1>6, <2>1, <2>2, <2>3, <2>4
    <2>6. KeyAt(pool, a) = r.key
      BY <1>1, <2>1, <2>5 DEF Operations, Found
    <2> QED
      BY <2>3, <2>5, <2>6
  <1>8. ASSUME Reading(m), ~ VersionMoved(m)'
        PROVE  /\ pc[m] # "idle" /\ Bucket(m) # b /\ ~ VersionMoved(m)
               /\ last'[r.key] = last[r.key] /\ r.key.tag # 0
               /\ Entry(Bucket(m), r.slot)' = Entry(Bucket(m), r.slot)
    <2>1. pc[m] # "idle" /\ Bucket(m) # b
      BY <1>8 DEF Touches, Reading
    <2> QED
      BY <1>1, <1>4, <1>8, <2>1, RequestFacts
  <1>9. Copies(m)'
    <2>1. SUFFICES ASSUME pc[m] = "get_copy", ~ VersionMoved(m)'
          PROVE  LET e == Entry(Bucket(m), r.slot)'
                 IN  /\ e.tag = r.key.tag /\ e.offset = r.offset
                     /\ r.word \in 1 .. r.key.size
                     /\ InLog(pool', e.at) =>
                          /\ KeyAt(pool', e.at) = r.key
                          /\ r.copy = IF r.word = 1 THEN {} ELSE {last'[r.key]}
      BY <1>2 DEF Copies, Entry, Bucket
    <2>2. Reading(m)
      BY <2>1 DEF Reading
    <2>3. /\ pc[m] # "idle" /\ Bucket(m) # b /\ ~ VersionMoved(m)
          /\ last'[r.key] = last[r.key] /\ r.key.tag # 0
          /\ Entry(Bucket(m), r.slot)' = Entry(Bucket(m), r.slot)
      BY <1>8, <2>1, <2>2
    <2> DEFINE e == Entry(Bucket(m), r.slot)
    <2>4. /\ e.tag = r.key.tag /\ e.offset = r.offset
          /\ r.word \in 1 .. r.key.size
          /\ InLog(pool, e.at) =>
               /\ KeyAt(pool, e.at) = r.key
               /\ r.copy = IF r.word = 1 THEN {} ELSE {last[r.key]}
      BY <1>1, <2>1, <2>3 DEF Operations, Copies
    <2>5. InLog(pool', a) => InLog(pool, a) /\ KeyAt(pool', a) = KeyAt(pool, a)
      BY <1>6, <2>3, <2>4
    <2> QED
      BY <2>3, <2>4, <2>5
  <1>10. Hits(m)'
    <2>1. SUFFICES ASSUME pc[m] = "get_hit", ~ VersionMoved(m)'
          PROVE  LET e == Entry(Bucket(m), r.slot)'
                 IN  /\ r.copy = {last'[r.key]}
                     /\ e.tag = r.key.tag /\ e.offset = r.offset
      <3>1. concurrent'
        BY <1>3 DEF concurrent, Lcores, Touches
      <3> QED
        BY <1>2, <2>1, <3>1 DEF Hits, Entry, Bucket
    <2>2. Reading(m)
      BY <2>1 DEF Reading
    <2>3. /\ pc[m] # "idle" /\ Bucket(m) # b /\ ~ VersionMoved(m)
          /\ last'[r.key] = last[r.key] /\ r.key.tag # 0
          /\ Entry(Bucket(m), r.slot)' = Entry(Bucket(m), r.slot)
      BY <1>8, <2>1, <2>2
    <2> QED
      BY <1>1, <2>1, <2>3 DEF Operations, Hits
  <1>11. Moves(m)'
    BY <1>2, <1>3 DEF Moves
  <1>12. Fresh(m)'
    BY <1>1, <1>2 DEF Operations, Fresh
  <1> QED
    BY <1>5, <1>7, <1>9, <1>10, <1>11, <1>12 DEF Operations

\* The step of an lcore that leaves its own bucket in order.
LEMMA StoredKept ==
  ASSUME Shape, TableTypeOK', NEW l \in Lcores, NEW b, Touches(l, b),
         NEW S, NEW T, NEW w, Stored(S), Keeps(pool, S, pool', T, w), TiledBy(pool', T),
         InHand(l) => Bucket(l) = b,
         \A c \in Buckets, s \in Slots : Entry(c, s).tag # 0 /\ Entry(c, s).at = w => c = b,
         \A m \in Lcores : m # l /\ InHand(m) => req[m].at # w,
         b \in Buckets => \A s \in Slots : Live(T, b, s)',
         Operations(T, l)'
  PROVE  Stored(T)'
  <1>1. build' = build /\ TiledBy(pool, S)
    BY DEF Touches, Stored
  <1>2. Lcores' = Lcores
    BY <1>1 DEF Lcores
  <1>3. \A m \in Lcores : Operations(T, m)'
    BY OperationsKept
  <1>4. ASSUME NEW c \in Buckets, NEW s \in Slots, c # b PROVE Live(T, c, s)'
    <2>1. Entry(c, s)' = Entry(c, s)
      BY <1>4 DEF Touches, Entry
    <2>2. Live(S, c, s)
      BY DEF Stored
    <2>3. Replaced(c, s) => Replaced(c, s)'
      <3>1. ASSUME NEW m \in Lcores, InHand(m), Bucket(m) = c, req[m].slot = s PROVE Replaced(c, s)'
        <4>1. m # l
          BY <1>4, <3>1
        <4>2. pc'[m] = pc[m] /\ req'[m] = req[m]
          BY <4>1 DEF Touches
        <4> QED
          BY <1>2, <3>1, <4>2 DEF Replaced, InHand, Bucket
      <3> QED
        BY <3>1 DEF Replaced
    <2>4. \A k \in build.keys : k.bucket = c /\ k.tag = Entry(c, s).tag => last'[k] = last[k]
      BY <1>4 DEF Touches
    <2> QED
      BY <1>1, <1>4, <2>1, <2>2, <2>3, <2>4, LiveKept
  <1>5. \A c \in Buckets, s \in Slots : Live(T, c, s)'
    BY <1>4
  <1> QED
    BY <1>2, <1>3, <1>5 DEF Stored, Buckets, Slots

\* A bucket of which entries are only removed, while no value changes.
LEMMA BucketKept ==
  ASSUME Shape, TableTypeOK', NEW l \in Lcores, NEW b \in Buckets, Touches(l, b), Shrinks,
         NEW S, NEW T, NEW w, Stored(S), Keeps(pool, S, pool', T, w), NEW s \in Slots,
         Entry(b, s)'.tag # 0 => Entry(b, s).at # w,
         InHand(l) => InHand(l)' /\ Bucket(l)' = Bucket(l) /\ req'[l].slot = req[l].slot,
         \A k \in build.keys : last'[k] = last[k]
  PROVE  Live(T, b, s)'
  <1>1. build' = build /\ TiledBy(pool, S) /\ Live(S, b, s)
    BY DEF Touches, Stored
  <1>2. Lcores' = Lcores
    BY <1>1 DEF Lcores
  <1>3. Replaced(b, s) => Replaced(b, s)'
    <2>1. ASSUME NEW m \in Lcores, InHand(m), Bucket(m) = b, req[m].slot = s PROVE Replaced(b, s)'
      <3>1. CASE m = l
        BY <1>2, <2>1, <3>1 DEF Replaced
      <3>2. CASE m # l
        <4>1. pc'[m] = pc[m] /\ req'[m] = req[m]
          BY <3>2 DEF Touches
        <4> QED
          BY <1>2, <2>1, <4>1 DEF Replaced, InHand, Bucket
      <3> QED
        BY <3>1, <3>2
    <2> QED
      BY <2>1 DEF Replaced
  <1>4. CASE Entry(b, s)'.tag # 0
    <2>1. Entry(b, s)' = Entry(b, s)
      <3>1. Entry(b, s)' = Entry(b, s) \/ Entry(b, s)' = Empty
        BY DEF Shrinks
      <3> QED
        BY <1>4, <3>1 DEF Empty
    <2>2. Entry(b, s).tag # 0 => Entry(b, s).at # w
      BY <1>4
    <2> QED
      BY <1>1, <1>3, <2>1, <2>2, LiveKept
  <1>5. CASE Entry(b, s)'.tag = 0
    BY <1>5, Zenon DEF Live
  <1> QED
    BY <1>4, <1>5

\* A log that stays.
LEMMA KeepsSame ==
  ASSUME TableTypeOK, pool' = pool, NEW S, NEW w
  PROVE  Keeps(pool, S, pool', S, w)
  <1>1. pool.tail \in Nat
    BY DEF TableTypeOK, IsLog
  <1> QED
    BY <1>1 DEF Keeps, SameItem

\* Only one lcore at a time changes the log.
LEMMA PoolAlone ==
  ASSUME Shape, NEW l \in Lcores, NEW m \in Lcores, m # l, pc[m] = "set_write"
  PROVE  plock = m /\ pc[l] # "set_write" /\ ~ mehcached_pool_lock
  <1>1. TableTypeOK /\ Locks
    BY DEF Shape
  <1>2. concurrent
    BY <1>1, Alone
  <1>3. plock = m /\ (pc[l] = "set_write" => plock = l)
    BY <1>1, <1>2 DEF Locks
  <1>4. None \notin Lcores
    BY <1>1, BuildFacts
  <1> QED
    BY <1>2, <1>3, <1>4 DEF mehcached_pool_lock

\* A step of l alone, which changes its own place and locals.
StepOf(l) ==
  /\ build' = build
  /\ pc' \in [Lcores -> Places] /\ DOMAIN req' = Lcores
  /\ \A m \in Lcores : m # l => pc'[m] = pc[m] /\ req'[m] = req[m]

LEMMA TouchesBucket ==
  ASSUME Shape, NEW l \in Lcores, NEW b \in Buckets, StepOf(l), version' \in [Buckets -> Nat],
         \A c \in Buckets : c # b => version'[c] = version[c] /\ item_vec'[c] = item_vec[c],
         \A k \in build.keys : k.bucket # b => last'[k] = last[k],
         version[b] <= version'[b],
         concurrent => \/ Holding(l) /\ Bucket(l) = b
                       \/ version[b] % 2 = 0 /\ version[b] < version'[b],
         \/ pool'.tail = pool.tail /\ plock' = plock
         \/ pc[l] = "set_write"
         \/ mehcached_pool_lock
  PROVE  Touches(l, b)
  <1>1. ASSUME NEW m \in Lcores, m # l, Bucket(m) = b PROVE ~ Holding(m) /\ (Reading(m) => VersionMoved(m)')
    <2>1. req'[m] = req[m] /\ version'[b] \in Nat
      BY <1>1 DEF StepOf
    <2> QED
      BY <1>1, <2>1, OthersWait
  <1>2. ASSUME NEW m \in Lcores, m # l, pc[m] = "set_write" PROVE pool'.tail = pool.tail /\ plock' = plock
    BY <1>2, PoolAlone
  <1> QED
    BY <1>1, <1>2 DEF Touches, StepOf

\* No bucket is touched.
LEMMA TouchesNothing ==
  ASSUME Shape, NEW l \in Lcores, StepOf(l), UNCHANGED <<version, item_vec, last>>,
         (pool'.tail = pool.tail /\ plock' = plock) \/ pc[l] = "set_write"
  PROVE  Touches(l, -1)
  <1>1. ASSUME NEW m \in Lcores, Bucket(m) = -1 PROVE ~ Holding(m) /\ ~ Reading(m)
    <2>1. pc[m] # "idle" => Bucket(m) \in Buckets
      BY RequestFacts DEF Shape
    <2>2. -1 \notin Buckets
      BY BuildFacts DEF Buckets, Shape
    <2>3. pc[m] = "idle"
      BY <1>1, <2>1, <2>2
    <2> QED
      BY <2>3 DEF Holding, Reading
  <1>2. -1 \notin Buckets
    BY BuildFacts DEF Buckets, Shape
  <1>3. ASSUME NEW m \in Lcores, m # l, pc[m] = "set_write" PROVE pool'.tail = pool.tail /\ plock' = plock
    BY <1>3, PoolAlone
  <1> QED
    BY <1>1, <1>2, <1>3 DEF Touches, StepOf

\* A step that keeps the types.
LEMMA TypeKept ==
  ASSUME TableTypeOK, NEW l \in Lcores, StepOf(l), version' \in [Buckets -> Nat],
         item_vec' \in [Buckets -> [Slots -> [tag : Tags, offset : Nat, at : Nat]]],
         IsLog(pool'), pool'.size = pool.size,
         pc'[l] # "idle" => IsRequest(req'[l]),
         DOMAIN last' = DOMAIN last, DOMAIN result' = DOMAIN result
  PROVE  TableTypeOK'
  <1>1. build' = build
    BY DEF StepOf
  <1>2. Lcores' = Lcores /\ Tags' = Tags
    BY <1>1 DEF Lcores, Tags
  <1>3. ASSUME NEW m \in Lcores, pc'[m] # "idle" PROVE IsRequest(req'[m])
    <2>1. CASE m # l
      <3>1. pc[m] # "idle" /\ req'[m] = req[m]
        BY <1>3, <2>1 DEF StepOf
      <3> QED
        BY <3>1 DEF TableTypeOK
    <2> QED
      BY <1>3, <2>1
  <1>4. \A m \in Lcores : pc'[m] # "idle" => IsRequest(req[m])'
    BY <1>1, <1>3 DEF IsRequest, Slots
  <1> QED
    BY <1>1, <1>2, <1>4 DEF TableTypeOK, StepOf, Buckets, Slots

\* The version of a bucket.
LEMMA VersionsAre ==
  ASSUME TableTypeOK, NEW b \in Buckets, NEW n \in Nat, version' = Versions(b, n)
  PROVE  /\ version' \in [Buckets -> Nat]
         /\ \A c \in Buckets : c # b => version'[c] = version[c]
         /\ version'[b] = version[b] + IF concurrent THEN n ELSE 0
         /\ version[b] <= version'[b]
  <1>1. version \in [Buckets -> Nat]
    BY DEF TableTypeOK
  <1> QED
    BY <1>1 DEF Versions

\* A step that leaves log, buckets and values as they are.
LEMMA QuietStep ==
  ASSUME Shape, TableTypeOK', NEW l \in Lcores, NEW b, Touches(l, b), NEW S, Stored(S),
         UNCHANGED <<pool, item_vec, last>>,
         InHand(l)' <=> InHand(l), InHand(l) => req'[l] = req[l] /\ Bucket(l) = b,
         Holding(l)' => b \in Buckets /\ Bucket(l)' = b /\ (concurrent => version'[b] % 2 = 1),
         concurrent /\ pc'[l] = "set_write" => plock' = l,
         pc'[l] = "move_to_head" => ~ concurrent,
         Reading(l)' => req'[l].version <= version'[Bucket(l)'],
         concurrent /\ Reading(l)' => req'[l].version % 2 = 0,
         pc'[l] \in {"set_allocate", "set_write", "set_publish"} =>
           /\ \A s \in Slots : Entry(Bucket(l), s)'.tag = req'[l].key.tag => s = req'[l].slot
           /\ req'[l].found => Entry(Bucket(l), req[l].slot)'.tag = req'[l].key.tag,
         Operations(S, l)'
  PROVE  Shape' /\ Stored(S)'
  <1>1. TableTypeOK /\ Pointers /\ Chosen /\ OneItemPerTag /\ build' = build /\ pool.tail \in Nat
    BY DEF Shape, Touches, TableTypeOK, IsLog
  <1>2. Shrinks
    BY DEF Shrinks, Entry
  <1>3. Locks'
    BY LocksKept
  <1>4. Pointers'
    <2>1. ASSUME InHand(l)'
          PROVE  /\ req'[l].at < pool'.tail /\ req'[l].offset = req'[l].at % Span
                 /\ \A c \in Buckets, s \in Slots :
                      Entry(c, s).tag # 0 /\ Entry(c, s).at = req'[l].at =>
                        c = Bucket(l)' /\ s = req'[l].slot /\ Entry(c, s).tag = req'[l].key.tag
                 /\ \A m \in Lcores : m # l /\ InHand(m) => req[m].at # req'[l].at
      <3>1. InHand(l) /\ req'[l] = req[l] /\ Bucket(l)' = Bucket(l)
        BY <2>1 DEF Bucket
      <3> QED
        BY <1>1, <3>1 DEF Pointers
    <2>2. pool.tail <= pool'.tail
      BY <1>1
    <2> QED
      BY <1>2, <2>1, <2>2, PointersKept
  <1>5. Chosen' /\ OneItemPerTag'
    BY <1>2, ChosenKept
  <1>6. Keeps(pool, S, pool', S, -1)
    BY <1>1, KeepsSame
  <1>7. \A c \in Buckets, s \in Slots : Entry(c, s).at # -1
    BY <1>1, EntryFacts
  <1>8. \A m \in Lcores : InHand(m) => req[m].at # -1
    <2>1. \A m \in Lcores : InHand(m) => pc[m] # "idle"
      BY DEF InHand
    <2> QED
      BY <1>1, <2>1, RequestFacts
  <1>9. ASSUME b \in Buckets, NEW s \in Slots PROVE Live(S, b, s)'
    <2>1. InHand(l) => InHand(l)' /\ Bucket(l)' = Bucket(l) /\ req'[l].slot = req[l].slot
      BY DEF Bucket
    <2>2. \A k \in build.keys : last'[k] = last[k]
      OBVIOUS
    <2>3. \A t \in Slots : Entry(b, t)'.tag # 0 => Entry(b, t).at # -1
      BY <1>7, <1>9
    <2> QED
      BY <1>2, <1>6, <1>9, <2>1, <2>2, <2>3, BucketKept
  <1>10. TiledBy(pool', S)
    BY DEF Stored
  <1>11. Stored(S)'
    BY <1>6, <1>7, <1>8, <1>9, <1>10, StoredKept
  <1> QED
    BY <1>3, <1>4, <1>5, <1>11 DEF Shape

\* A step that is not about an item of its own.
LEMMA Aside ==
  ASSUME Shape, NEW l \in Lcores, StepOf(l), NEW S, Stored(S),
         UNCHANGED <<version, item_vec, pool, plock, last>>, DOMAIN result' = DOMAIN result,
         ~ InHand(l), ~ Holding(l)', pc'[l] # "idle" => IsRequest(req'[l]),
         pc'[l] = "move_to_head" => ~ concurrent,
         Reading(l)' => req'[l].version <= version[Bucket(l)'],
         concurrent /\ Reading(l)' => req'[l].version % 2 = 0,
         Fresh(l)', Copies(l)', Hits(l)', Moves(l)'
  PROVE  Shape' /\ Stored(S)'
  <1>1. TableTypeOK
    BY DEF Shape
  <1>2. TableTypeOK'
    <2>1. /\ version' \in [Buckets -> Nat]
          /\ item_vec' \in [Buckets -> [Slots -> [tag : Tags, offset : Nat, at : Nat]]]
          /\ IsLog(pool') /\ pool'.size = pool.size /\ DOMAIN last' = DOMAIN last
      BY <1>1 DEF TableTypeOK
    <2> QED
      BY <1>1, <2>1, TypeKept
  <1>3. Touches(l, -1)
    BY TouchesNothing
  <1>4. /\ ~ InHand(l)' /\ pc'[l] \notin {"set_find", "set_allocate", "set_write", "set_publish"}
        /\ version'[Bucket(l)'] = version[Bucket(l)']
    BY DEF Holding, InHand
  <1>5. Operations(S, l)'
    BY <1>4 DEF Operations, Written, Found
  <1> QED
    BY <1>2, <1>3, <1>4, <1>5, QuietStep

\* Goto leaves the lcore at a place, and the others where they are.
LEMMA GoesTo ==
  ASSUME TableTypeOK, NEW l \in Lcores, NEW where \in Places, Goto(l, where)
  PROVE  /\ pc' \in [Lcores -> Places] /\ pc'[l] = where
         /\ \A m \in Lcores : m # l => pc'[m] = pc[m]
  <1>1. pc \in [Lcores -> Places]
    BY DEF TableTypeOK
  <1> QED
    BY <1>1 DEF Goto

\* A request as it begins.
LEMMA Begins ==
  ASSUME TableTypeOK, NEW op, NEW key \in build.keys, NEW pad, NEW val
  PROVE  /\ IsRequest(Request(op, key, pad, val))
         /\ Request(op, key, pad, val).word = 0 /\ Request(op, key, pad, val).key = key
  <1>1. 0 \in Slots
    BY BuildFacts DEF Slots
  <1>2. DOMAIN Request(op, key, pad, val) = Fields
    BY DEF Request, Fields
  <1> QED
    BY <1>1, <1>2 DEF Request, IsRequest

\* The step with which an operation begins.
LEMMA BeginKept ==
  ASSUME Shape, NEW S, Stored(S), NEW l \in Lcores, pc[l] = "idle",
         NEW op, NEW key \in build.keys, NEW pad, NEW val, NEW where \in {"set_lock", "get_version"},
         req' = [req EXCEPT ![l] = Request(op, key, pad, val)], Goto(l, where),
         UNCHANGED <<build, version, item_vec, pool, plock, last, result>>
  PROVE  Shape' /\ Stored(S)'
  <1>1. TableTypeOK /\ DOMAIN req = Lcores /\ where \in Places
    BY DEF Shape, TableTypeOK, Places
  <1>2. /\ pc' \in [Lcores -> Places] /\ pc'[l] = where
        /\ \A m \in Lcores : m # l => pc'[m] = pc[m]
    BY <1>1, GoesTo
  <1>3. /\ req'[l] = Request(op, key, pad, val) /\ DOMAIN req' = Lcores
        /\ \A m \in Lcores : m # l => req'[m] = req[m]
    BY <1>1
  <1>4. StepOf(l)
    BY <1>2, <1>3 DEF StepOf
  <1>5. IsRequest(req'[l]) /\ req'[l].word = 0
    BY <1>1, <1>3, Begins
  <1>6. ~ InHand(l) /\ ~ Holding(l)' /\ ~ Reading(l)'
    BY <1>2 DEF InHand, Holding, Reading
  <1>7. Fresh(l)' /\ Copies(l)' /\ Hits(l)' /\ Moves(l)' /\ pc'[l] # "move_to_head"
    BY <1>2, <1>5 DEF Fresh, Copies, Hits, Moves
  <1> QED
    BY <1>4, <1>5, <1>6, <1>7, Aside

LEMMA MainLcore ==
  ASSUME TableTypeOK
  PROVE  main_lcore \in Lcores
  <1>1. \E x \in Lcores : \A y \in Lcores : x <= y
    BY BuildFacts, Smallest
  <1> QED
    BY <1>1 DEF main_lcore

LEMMA LoadKept ==
  ASSUME Shape, NEW S, Stored(S), NEW l \in Lcores, NEW key \in build.default, Load(l, key)
  PROVE  Shape' /\ Stored(S)'
  <1>1. key \in build.keys
    BY BuildFacts DEF Shape
  <1> QED
    BY <1>1, BeginKept DEF Load

LEMMA ProcessKept ==
  ASSUME Shape, NEW S, Stored(S), NEW l \in Lcores, NEW key \in build.keys, NEW pad, Process5tuple(l, key, pad)
  PROVE  Shape' /\ Stored(S)'
  <1> DEFINE op == IF flag[l] THEN "get" ELSE "set"
             val == [id |-> key.id, by |-> l, n |-> ops[l] + 1]
             where == IF flag[l] THEN "get_version" ELSE "set_lock"
  <1>1. where \in {"set_lock", "get_version"}
    OBVIOUS
  <1>2. /\ pc[l] = "idle" /\ req' = [req EXCEPT ![l] = Request(op, key, pad, val)] /\ Goto(l, where)
        /\ UNCHANGED <<build, version, item_vec, pool, plock, last, result>>
    BY DEF Process5tuple
  <1> HIDE DEF op, val, where
  <1> QED
    BY <1>1, <1>2, BeginKept

LEMMA ReturnKept ==
  ASSUME Shape, NEW S, Stored(S), NEW l \in Lcores, Return(l)
  PROVE  Shape' /\ Stored(S)'
  <1>1. TableTypeOK /\ DOMAIN req = Lcores /\ "idle" \in Places
    BY DEF Shape, TableTypeOK, Places
  <1>2. pc[l] = "cleanup" /\ Goto(l, "idle") /\ req' = [req EXCEPT ![l] = None]
    BY DEF Return
  <1>3. /\ pc' \in [Lcores -> Places] /\ pc'[l] = "idle"
        /\ \A m \in Lcores : m # l => pc'[m] = pc[m]
    BY <1>1, <1>2, GoesTo
  <1>4. StepOf(l)
    BY <1>1, <1>2, <1>3 DEF StepOf, Return
  <1>5. ~ InHand(l) /\ ~ Holding(l)' /\ ~ Reading(l)'
    BY <1>2, <1>3 DEF InHand, Holding, Reading
  <1>6. Fresh(l)' /\ Copies(l)' /\ Hits(l)' /\ Moves(l)' /\ pc'[l] # "move_to_head"
    BY <1>3 DEF Fresh, Copies, Hits, Moves
  <1>7. UNCHANGED <<version, item_vec, pool, plock, last, result>>
    BY DEF Return
  <1> QED
    BY <1>3, <1>4, <1>5, <1>6, <1>7, Aside

\* A step of a GET that changes none of its locals.
LEMMA GoOn ==
  ASSUME Shape, NEW S, Stored(S), NEW l \in Lcores, Reading(l),
         NEW where \in {"get_version", "get_hit", "get_stale", "remove", "cleanup", "move_to_head"}, Goto(l, where),
         UNCHANGED <<build, version, item_vec, pool, plock, req, last>>, DOMAIN result' = DOMAIN result,
         where = "get_hit" => Hits(l)',
         where = "move_to_head" => ~ concurrent /\ Moves(l)'
  PROVE  Shape' /\ Stored(S)'
  <1>1. TableTypeOK /\ Locks /\ DOMAIN req = Lcores /\ where \in Places
    BY DEF Shape, TableTypeOK, Places
  <1>2. /\ pc' \in [Lcores -> Places] /\ pc'[l] = where
        /\ \A m \in Lcores : m # l => pc'[m] = pc[m]
    BY <1>1, GoesTo
  <1>3. StepOf(l)
    BY <1>1, <1>2 DEF StepOf
  <1>4. ~ InHand(l) /\ ~ Holding(l)' /\ pc[l] # "idle"
    BY <1>2 DEF InHand, Holding, Reading
  <1>5. IsRequest(req'[l])
    BY <1>1, <1>4 DEF TableTypeOK
  <1>6. Fresh(l)' /\ Copies(l)' /\ (where # "get_hit" => Hits(l)') /\ (where # "move_to_head" => Moves(l)')
    BY <1>2 DEF Fresh, Copies, Hits, Moves
  <1>7. req'[l].version <= version[Bucket(l)'] /\ (concurrent => req'[l].version % 2 = 0)
    BY <1>1 DEF Locks, Bucket
  <1> QED
    BY <1>2, <1>3, <1>4, <1>5, <1>6, <1>7, Aside

LEMMA GetVersionKept ==
  ASSUME Shape, NEW S, Stored(S), NEW l \in Lcores, GetVersion(l)
  PROVE  Shape' /\ Stored(S)'
  <1>1. TableTypeOK /\ DOMAIN req = Lcores /\ "get_find" \in Places
    BY DEF Shape, TableTypeOK, Places
  <1>2. /\ pc[l] = "get_version" /\ Goto(l, "get_find") /\ mehcached_lock_bucket(Bucket(l))
        /\ req' = [req EXCEPT ![l].version = version[Bucket(l)], ![l].word = 1, ![l].copy = {}]
        /\ UNCHANGED <<build, version, item_vec, pool, plock, last, result>>
    BY DEF GetVersion, Bucket
  <1>3. /\ pc' \in [Lcores -> Places] /\ pc'[l] = "get_find"
        /\ \A m \in Lcores : m # l => pc'[m] = pc[m]
    BY <1>1, <1>2, GoesTo
  <1>4. IsRequest(req[l]) /\ DOMAIN req[l] = Fields /\ Bucket(l) \in Buckets
    BY <1>1, <1>2, RequestFacts DEF TableTypeOK
  <1>5. version[Bucket(l)] \in Nat /\ (concurrent => version[Bucket(l)] % 2 = 0)
    BY <1>1, <1>2, <1>4 DEF TableTypeOK, mehcached_lock_bucket
  <1>6. /\ DOMAIN req' = Lcores /\ \A m \in Lcores : m # l => req'[m] = req[m]
        /\ DOMAIN req'[l] = Fields /\ req'[l].key = req[l].key /\ req'[l].slot = req[l].slot
        /\ req'[l].found = req[l].found /\ req'[l].at = req[l].at
        /\ req'[l].version = version[Bucket(l)] /\ req'[l].word = 1 /\ req'[l].copy = {}
    BY <1>1, <1>2, <1>4 DEF Fields
  <1>7. StepOf(l)
    BY <1>2, <1>3, <1>6 DEF StepOf
  <1>8. IsRequest(req'[l])
    BY <1>4, <1>5, <1>6 DEF IsRequest
  <1>9. ~ InHand(l) /\ ~ Holding(l)'
    BY <1>2, <1>3 DEF InHand, Holding
  <1>10. Fresh(l)' /\ Copies(l)' /\ Hits(l)' /\ Moves(l)'
    BY <1>3, <1>6 DEF Fresh, Copies, Hits, Moves
  <1>11. Bucket(l)' = Bucket(l)
    BY <1>6 DEF Bucket
  <1>12. req'[l].version <= version[Bucket(l)'] /\ (concurrent => req'[l].version % 2 = 0)
    BY <1>5, <1>6, <1>11
  <1> QED
    BY <1>2, <1>3, <1>7, <1>8, <1>9, <1>10, <1>12, Aside

\* First finds one of the slots, if there is one.
LEMMA FirstFacts ==
  ASSUME NEW T, T \subseteq Slots, ItemsPerBucket \in Nat
  PROVE  /\ T = {} => First(T) = ItemsPerBucket
         /\ T # {} => First(T) \in T
         /\ First(T) # ItemsPerBucket => First(T) \in T /\ First(T) \in Slots
         /\ ItemsPerBucket \notin Slots
  <1>1. ASSUME T # {} PROVE First(T) \in T
    <2>1. \E x \in T : \A y \in T : x <= y
      <3>1. T \subseteq Nat
        BY DEF Slots
      <3> QED
        BY <1>1, <3>1, Smallest
    <2> QED
      BY <1>1, <2>1 DEF First
  <1>2. T = {} => First(T) = ItemsPerBucket
    BY DEF First
  <1>3. ItemsPerBucket \notin Slots
    BY DEF Slots
  <1> QED
    BY <1>1, <1>2, <1>3

\* The slot of a key that is found holds an item of the key.
LEMMA FindFacts ==
  ASSUME TableTypeOK, NEW b \in Buckets, NEW key, NEW pad,
         NEW s, s = mehcached_find_item_index(b, key, pad), s # ItemsPerBucket
  PROVE  /\ s \in Slots /\ Entry(b, s).tag = key.tag
         /\ Entry(b, s).offset = Entry(b, s).at % Span => KeyAt(pool, Entry(b, s).at) = key
  <1> DEFINE T == {t \in Slots :
                     /\ item_vec[b][t].tag = key.tag
                     /\ mehcached_pool_item(pool, item_vec[b][t].offset).key = [key |-> key, pad |-> pad]}
  <1>1. ItemsPerBucket \in Nat /\ s = First(T) /\ T \subseteq Slots
    BY BuildFacts DEF mehcached_find_item_index
  <1>2. s \in T
    <2> HIDE DEF T
    <2> QED
      BY <1>1, FirstFacts
  <1>3. s \in Slots /\ Entry(b, s).tag = key.tag
    BY <1>2 DEF Entry
  <1>4. ASSUME Entry(b, s).offset = Entry(b, s).at % Span PROVE KeyAt(pool, Entry(b, s).at) = key
    <2>1. Entry(b, s).at \in Nat
      BY <1>3, EntryFacts
    <2>2. (Entry(b, s).at % Span) % pool.size = Entry(b, s).at % pool.size
      BY <2>1, BuildFacts, OffsetPlaces
    <2>3. mehcached_pool_item(pool, Entry(b, s).offset) = Word(pool, Entry(b, s).at)
      BY <1>4, <2>2 DEF mehcached_pool_item, Place, Word
    <2>4. mehcached_pool_item(pool, Entry(b, s).offset).key = [key |-> key, pad |-> pad]
      BY <1>2 DEF Entry
    <2> QED
      BY <2>3, <2>4 DEF KeyAt
  <1> QED
    BY <1>3, <1>4

LEMMA GetFindKept ==
  ASSUME Shape, NEW S, Stored(S), NEW l \in Lcores, GetFind(l)
  PROVE  Shape' /\ Stored(S)'
  <1> DEFINE slot == mehcached_find_item_index(Bucket(l), req[l].key, req[l].pad)
             where == IF slot = ItemsPerBucket THEN "get_miss" ELSE "get_copy"
  <1>1. TableTypeOK /\ Locks /\ Pointers /\ DOMAIN req = Lcores /\ where \in Places
    BY DEF Shape, TableTypeOK, Places
  <1>2. /\ pc[l] = "get_find" /\ Goto(l, where)
        /\ slot = ItemsPerBucket => req' = req
        /\ slot # ItemsPerBucket =>
             req' = [req EXCEPT ![l].slot = slot, ![l].offset = item_vec[Bucket(l)][slot].offset]
        /\ UNCHANGED <<build, version, item_vec, pool, plock, last, result>>
    BY DEF GetFind, Bucket
  <1>3. /\ pc' \in [Lcores -> Places] /\ pc'[l] = where
        /\ \A m \in Lcores : m # l => pc'[m] = pc[m]
    BY <1>1, <1>2, GoesTo
  <1>4. /\ IsRequest(req[l]) /\ DOMAIN req[l] = Fields /\ Bucket(l) \in Buckets
        /\ req[l].key.size \in 2 .. pool.size /\ req[l].key.tag # 0
    BY <1>1, <1>2, RequestFacts DEF TableTypeOK
  <1>5. slot # ItemsPerBucket =>
          /\ slot \in Slots /\ Entry(Bucket(l), slot).tag = req[l].key.tag
          /\ KeyAt(pool, Entry(Bucket(l), slot).at) = req[l].key
    <2>1. ASSUME slot # ItemsPerBucket
          PROVE  /\ slot \in Slots /\ Entry(Bucket(l), slot).tag = req[l].key.tag
                 /\ Entry(Bucket(l), slot).offset = Entry(Bucket(l), slot).at % Span =>
                      KeyAt(pool, Entry(Bucket(l), slot).at) = req[l].key
      BY <1>1, <1>4, <2>1, FindFacts
    <2> HIDE DEF slot
    <2> QED
      BY <1>1, <1>4, <2>1 DEF Pointers
  <1> HIDE DEF slot
  <1>6. /\ DOMAIN req' = Lcores /\ \A m \in Lcores : m # l => req'[m] = req[m]
        /\ DOMAIN req'[l] = Fields /\ req'[l].key = req[l].key
        /\ req'[l].found = req[l].found /\ req'[l].at = req[l].at
        /\ req'[l].version = req[l].version /\ req'[l].word = req[l].word /\ req'[l].copy = req[l].copy
    BY <1>1, <1>2, <1>4 DEF Fields
  <1>7. IF slot = ItemsPerBucket THEN req'[l].slot = req[l].slot
        ELSE req'[l].slot = slot /\ req'[l].offset = Entry(Bucket(l), slot).offset
    BY <1>1, <1>2, <1>4 DEF Fields, Entry
  <1>8. StepOf(l)
    BY <1>2, <1>3, <1>6 DEF StepOf
  <1>9. IsRequest(req'[l])
    BY <1>4, <1>5, <1>6, <1>7 DEF IsRequest
  <1>10. ~ InHand(l) /\ ~ Holding(l)' /\ pc'[l] # "move_to_head" /\ Reading(l)
    BY <1>2, <1>3 DEF InHand, Holding, Reading
  <1>11. Bucket(l)' = Bucket(l)
    BY <1>6 DEF Bucket
  <1>12. req'[l].version <= version[Bucket(l)'] /\ (concurrent => req'[l].version % 2 = 0)
    BY <1>1, <1>6, <1>10, <1>11 DEF Locks
  <1>13. Fresh(l)' /\ Hits(l)' /\ Moves(l)'
    BY <1>3 DEF Fresh, Hits, Moves
  <1>14. Copies(l)'
    <2>1. req[l].word = 1 /\ req[l].copy = {}
      BY <1>2 DEF Stored, Operations, Fresh
    <2>2. SUFFICES ASSUME slot # ItemsPerBucket PROVE Copies(l)'
      BY <1>3 DEF Copies
    <2>3. Entry(Bucket(l), req[l].slot)' = Entry(Bucket(l), slot)
      BY <1>2, <1>7, <1>11, <2>2 DEF Entry
    <2>4. 1 \in 1 .. req[l].key.size
      BY <1>4
    <2>5. pool' = pool
      BY <1>2
    <2> QED
      BY <1>5, <1>6, <1>7, <2>1, <2>2, <2>3, <2>4, <2>5 DEF Copies
  <1> QED
    BY <1>2, <1>3, <1>8, <1>9, <1>10, <1>12, <1>13, <1>14, Aside

\* As long as the version stands, nobody is replacing what a GET copies.
LEMMA CopyIsValue ==
  ASSUME Shape, NEW S, Stored(S), NEW l \in Lcores, pc[l] = "get_copy", ~ VersionMoved(l),
         InLog(pool, Entry(Bucket(l), req[l].slot).at)
  PROVE  \A j \in 1 .. req[l].key.size-1 : Word(pool, Entry(Bucket(l), req[l].slot).at + j).val = last[req[l].key]
  <1> DEFINE b == Bucket(l)  s == req[l].slot  a == Entry(b, s).at
  <1>1. TableTypeOK /\ Locks
    BY DEF Shape
  <1>2. b \in Buckets /\ s \in Slots /\ req[l].key.tag # 0 /\ Reading(l)
    BY <1>1, RequestFacts DEF Reading
  <1>3. Live(S, b, s) /\ Copies(l)
    BY <1>2 DEF Stored, Operations
  <1>4. Entry(b, s).tag # 0 /\ KeyAt(pool, a) = req[l].key
    BY <1>2, <1>3 DEF Copies
  <1>5. ~ Replaced(b, s)
    <2>1. SUFFICES ASSUME NEW m \in Lcores, Holding(m), Bucket(m) = b PROVE FALSE
      BY DEF Replaced, InHand, Holding
    <2>2. m # l
      BY <2>1 DEF Holding
    <2>3. concurrent
      BY <1>1, <2>2, Alone
    <2>4. version[b] % 2 = 1 /\ req[l].version % 2 = 0
      BY <1>1, <1>2, <2>1, <2>3 DEF Locks
    <2>5. req[l].version = version[b]
      BY DEF VersionMoved, Bucket
    <2> QED
      BY <2>4, <2>5
  <1> QED
    BY <1>3, <1>4, <1>5 DEF Live

LEMMA GetCopyKept ==
  ASSUME Shape, NEW S, Stored(S), NEW l \in Lcores, GetCopy(l)
  PROVE  Shape' /\ Stored(S)'
  <1> DEFINE r == req[l]
             e == Entry(Bucket(l), r.slot)
             val == mehcached_pool_item(pool, r.offset + r.word).val
  <1>1. TableTypeOK /\ Locks /\ Pointers /\ DOMAIN req = Lcores /\ pc \in [Lcores -> Places]
    BY DEF Shape, TableTypeOK
  <1>2. /\ pc[l] = "get_copy" /\ r.word < r.key.size
        /\ req' = [req EXCEPT ![l].copy = @ \union {val}, ![l].word = @ + 1]
        /\ UNCHANGED <<build, version, item_vec, pool, plock, pc, last, result>>
    BY DEF GetCopy
  <1>3. /\ IsRequest(r) /\ DOMAIN r = Fields /\ Bucket(l) \in Buckets /\ r.slot \in Slots
        /\ r.key.size \in 2 .. pool.size /\ r.key.tag # 0 /\ r.word \in Nat
    BY <1>1, <1>2, RequestFacts DEF TableTypeOK
  <1>4. /\ DOMAIN req' = Lcores /\ \A m \in Lcores : m # l => req'[m] = req[m]
        /\ DOMAIN req'[l] = Fields /\ req'[l].key = r.key /\ req'[l].slot = r.slot /\ req'[l].offset = r.offset
        /\ req'[l].found = r.found /\ req'[l].at = r.at /\ req'[l].version = r.version
        /\ req'[l].word = r.word + 1 /\ req'[l].copy = r.copy \union {val}
    BY <1>1, <1>2, <1>3 DEF Fields
  <1> HIDE DEF val
  <1>5. StepOf(l)
    BY <1>1, <1>2, <1>4 DEF StepOf
  <1>6. IsRequest(req'[l])
    BY <1>3, <1>4 DEF IsRequest
  <1>7. ~ InHand(l) /\ ~ Holding(l)' /\ pc'[l] = "get_copy" /\ Reading(l)
    BY <1>2 DEF InHand, Holding, Reading
  <1>8. Bucket(l)' = Bucket(l)
    BY <1>4 DEF Bucket
  <1>9. req'[l].version <= version[Bucket(l)'] /\ (concurrent => req'[l].version % 2 = 0)
    BY <1>1, <1>4, <1>7, <1>8 DEF Locks
  <1>10. Fresh(l)' /\ Hits(l)' /\ Moves(l)'
    BY <1>7 DEF Fresh, Hits, Moves
  <1>11. Copies(l)'
    <2>1. SUFFICES ASSUME ~ VersionMoved(l)' PROVE Copies(l)'
      BY DEF Copies
    <2>2. ~ VersionMoved(l)
      BY <1>2, <1>4, <2>1 DEF VersionMoved
    <2>3. /\ e.tag = r.key.tag /\ e.offset = r.offset
          /\ r.word \in 1 .. r.key.size
          /\ InLog(pool, e.at) =>
               /\ KeyAt(pool, e.at) = r.key
               /\ r.copy = IF r.word = 1 THEN {} ELSE {last[r.key]}
      <3>1. Copies(l)
        BY DEF Stored, Operations
      <3> QED
        BY <1>2, <2>2, <3>1 DEF Copies
    <2>4. ASSUME InLog(pool, e.at) PROVE r.copy \union {val} = {last[r.key]}
      <3>1. r.word \in 1 .. r.key.size-1
        BY <1>2, <1>3, <2>3
      <3>2. Word(pool, e.at + r.word).val = last[r.key]
        BY <1>2, <2>2, <2>4, <3>1, CopyIsValue
      <3>3. e.at \in Nat /\ r.offset = e.at % Span
        BY <1>1, <1>3, <2>3, EntryFacts DEF Pointers
      <3>4. ((e.at % Span) + r.word) % pool.size = (e.at + r.word) % pool.size
        BY <1>1, <1>3, <3>3, BuildFacts, OffsetPlaces
      <3>5. val = last[r.key]
        BY <3>2, <3>3, <3>4 DEF val, mehcached_pool_item, Place, Word
      <3> QED
        BY <2>3, <2>4, <3>5
    <2>5. Entry(Bucket(l), req[l].slot)' = e /\ pool' = pool /\ last' = last
      BY <1>2, <1>4, <1>8 DEF Entry
    <2>6. r.word + 1 \in 1 .. r.key.size /\ r.word + 1 # 1
      BY <1>2, <1>3, <2>3
    <2> QED
      BY <1>4, <2>3, <2>4, <2>5, <2>6 DEF Copies
  <1> QED
    BY <1>2, <1>5, <1>6, <1>7, <1>9, <1>10, <1>11, Aside

LEMMA GetIsValidKept ==
  ASSUME Shape, NoItemRevives, NEW S, Stored(S), NEW l \in Lcores, GetIsValid(l)
  PROVE  Shape' /\ Stored(S)'
  <1> DEFINE r == req[l]
             e == Entry(Bucket(l), r.slot)
             where == IF mehcached_pool_is_valid(pool, r.offset) THEN "get_hit" ELSE "get_stale"
  <1>1. TableTypeOK /\ pc \in [Lcores -> Places]
    BY DEF Shape, TableTypeOK
  <1>2. /\ pc[l] = "get_copy" /\ r.word = r.key.size /\ Goto(l, where) /\ Reading(l)
        /\ UNCHANGED <<build, version, item_vec, pool, plock, req, last, result>>
    BY DEF GetIsValid, Reading
  <1>3. where = "get_hit" => mehcached_pool_is_valid(pool, r.offset)
    OBVIOUS
  <1>4. where \in {"get_hit", "get_stale"}
    OBVIOUS
  <1>5. Bucket(l) \in Buckets /\ r.slot \in Slots /\ r.key.size \in 2 .. pool.size /\ r.key.tag # 0
    BY <1>1, <1>2, RequestFacts
  <1>6. ASSUME where = "get_hit" PROVE Hits(l)'
    <2>1. SUFFICES ASSUME ~ VersionMoved(l)' PROVE Hits(l)'
      BY DEF Hits
    <2>2. ~ VersionMoved(l)
      BY <1>2, <2>1 DEF VersionMoved
    <2>3. /\ e.tag = r.key.tag /\ e.offset = r.offset
          /\ InLog(pool, e.at) =>
               /\ KeyAt(pool, e.at) = r.key
               /\ r.copy = IF r.word = 1 THEN {} ELSE {last[r.key]}
      <3>1. Copies(l)
        BY DEF Stored, Operations
      <3> QED
        BY <1>2, <2>2, <3>1 DEF Copies
    <2>4. InLog(pool, e.at)
      <3>1. e # Empty
        BY <1>5, <2>3 DEF Empty
      <3> QED
        BY <1>3, <1>5, <1>6, <2>3, <3>1 DEF NoItemRevives, Entry, InLog
    <2>5. r.word # 1
      BY <1>2, <1>5
    <2>6. Entry(Bucket(l), req[l].slot)' = e /\ pool' = pool /\ last' = last /\ req' = req
      BY <1>2 DEF Entry, Bucket
    <2> QED
      BY <2>3, <2>4, <2>5, <2>6 DEF Hits
  <1> HIDE DEF where
  <1> QED
    BY <1>2, <1>4, <1>6, GoOn

LEMMA GetRetryKept ==
  ASSUME Shape, NEW S, Stored(S), NEW l \in Lcores, GetRetry(l)
  PROVE  Shape' /\ Stored(S)'
  <1>1. /\ Reading(l) /\ Goto(l, "get_version")
        /\ UNCHANGED <<build, version, item_vec, pool, plock, req, last, result>>
    BY DEF GetRetry, Reading
  <1> QED
    BY <1>1, GoOn

\* What a GET returns: the value, when it has found one.
LEMMA GetReturnsKept ==
  ASSUME Shape, GetReturnsLastSet, NEW l \in Lcores, NEW found, NEW where, GetReturns(l, found, where),
         build' = build, found => req[l].copy = {last[req[l].key]}
  PROVE  GetReturnsLastSet' /\ DOMAIN result' = DOMAIN result
  <1>1. result' = [result EXCEPT ![l] = [found |-> found, copy |-> req[l].copy, latest |-> last[req[l].key]]]
    BY DEF GetReturns
  <1>2. DOMAIN result = Lcores
    BY DEF Shape, TableTypeOK
  <1>3. Lcores' = Lcores
    BY DEF Lcores
  <1> QED
    BY <1>1, <1>2, <1>3 DEF GetReturnsLastSet

LEMMA GetHitKept ==
  ASSUME Shape, GetReturnsLastSet, NEW S, Stored(S), NEW l \in Lcores, GetHit(l)
  PROVE  Shape' /\ Stored(S)' /\ GetReturnsLastSet'
  <1> DEFINE where == IF MovesToHead(l) THEN "move_to_head" ELSE "cleanup"
  <1>1. TableTypeOK
    BY DEF Shape
  <1>2. /\ pc[l] = "get_hit" /\ ~ VersionMoved(l) /\ GetReturns(l, TRUE, where) /\ Reading(l)
        /\ UNCHANGED <<build, version, item_vec, pool, plock, req, last>>
    BY DEF GetHit, Reading
  <1>3. Hits(l)
    BY DEF Stored, Operations
  <1>4. req[l].copy = {last[req[l].key]}
    BY <1>2, <1>3 DEF Hits
  <1>5. GetReturnsLastSet' /\ DOMAIN result' = DOMAIN result
    BY <1>2, <1>4, GetReturnsKept
  <1>6. ASSUME where = "move_to_head" PROVE ~ concurrent /\ Moves(l)'
    <2>1. MovesToHead(l)
      BY <1>6
    <2>2. ~ concurrent
      <3>1. /\ build.mth_threshold \in Nat /\ (concurrent => build.mth_threshold >= pool.size)
            /\ pool.size \in Nat \ {0} /\ pool.tail \in Nat
        BY <1>1, BuildFacts DEF TableTypeOK, IsLog
      <3>2. req[l].offset \in Nat
        <4>1. Bucket(l) \in Buckets /\ req[l].slot \in Slots
          BY <1>1, <1>2, RequestFacts
        <4> QED
          BY <1>1, <1>2, <1>3, <4>1, EntryFacts DEF Hits
      <3>3. (pool.tail - req[l].offset) % pool.size < pool.size
        BY <3>1, <3>2
      <3>4. (pool.tail - req[l].offset) % pool.size > build.mth_threshold
        BY <2>1 DEF MovesToHead
      <3>5. (pool.tail - req[l].offset) % pool.size \in Int
        BY <3>1, <3>2
      <3> HIDE DEF where
      <3> QED
        BY <3>1, <3>3, <3>4, <3>5
    <2>3. Entry(Bucket(l), req[l].slot)' = Entry(Bucket(l), req[l].slot) /\ pool' = pool /\ req' = req
      BY <1>2 DEF Entry, Bucket
    <2> QED
      BY <1>2, <1>3, <2>2, <2>3 DEF Hits, Moves
  <1>7. where \in {"cleanup", "move_to_head"} /\ Goto(l, where)
    BY <1>2 DEF GetReturns
  <1> HIDE DEF where
  <1> QED
    BY <1>2, <1>5, <1>6, <1>7, GoOn

LEMMA GetMissKept ==
  ASSUME Shape, GetReturnsLastSet, NEW S, Stored(S), NEW l \in Lcores, GetMiss(l)
  PROVE  Shape' /\ Stored(S)' /\ GetReturnsLastSet'
  <1>1. /\ GetReturns(l, FALSE, "cleanup") /\ Reading(l)
        /\ UNCHANGED <<build, version, item_vec, pool, plock, req, last>>
    BY DEF GetMiss, Reading
  <1>2. GetReturnsLastSet' /\ DOMAIN result' = DOMAIN result
    BY <1>1, GetReturnsKept
  <1>3. Goto(l, "cleanup")
    BY <1>1 DEF GetReturns
  <1> QED
    BY <1>1, <1>2, <1>3, GoOn

LEMMA GetStaleKept ==
  ASSUME Shape, GetReturnsLastSet, NEW S, Stored(S), NEW l \in Lcores, GetStale(l)
  PROVE  Shape' /\ Stored(S)' /\ GetReturnsLastSet'
  <1>1. /\ GetReturns(l, FALSE, "remove") /\ Reading(l)
        /\ UNCHANGED <<build, version, item_vec, pool, plock, req, last>>
    BY DEF GetStale, Reading
  <1>2. GetReturnsLastSet' /\ DOMAIN result' = DOMAIN result
    BY <1>1, GetReturnsKept
  <1>3. Goto(l, "remove")
    BY <1>1 DEF GetReturns
  <1> QED
    BY <1>1, <1>2, <1>3, GoOn

LEMMA SetLockKept ==
  ASSUME Shape, NEW S, Stored(S), NEW l \in Lcores, SetLock(l)
  PROVE  Shape' /\ Stored(S)'
  <1> DEFINE b == Bucket(l)
  <1>1. TableTypeOK /\ Locks /\ DOMAIN req = Lcores /\ "set_find" \in Places
    BY DEF Shape, TableTypeOK, Places
  <1>2. /\ pc[l] = "set_lock" /\ Goto(l, "set_find") /\ mehcached_lock_bucket(b) /\ version' = Versions(b, 1)
        /\ UNCHANGED <<build, item_vec, pool, plock, req, last, result>>
    BY DEF SetLock, Bucket
  <1>3. /\ pc' \in [Lcores -> Places] /\ pc'[l] = "set_find"
        /\ \A m \in Lcores : m # l => pc'[m] = pc[m]
    BY <1>1, <1>2, GoesTo
  <1>4. b \in Buckets /\ IsRequest(req[l])
    BY <1>1, <1>2, RequestFacts DEF TableTypeOK
  <1>5. version[b] \in Nat /\ (concurrent => version[b] % 2 = 0)
    BY <1>1, <1>2, <1>4 DEF TableTypeOK, mehcached_lock_bucket
  <1>6. /\ version' \in [Buckets -> Nat]
        /\ \A c \in Buckets : c # b => version'[c] = version[c]
        /\ version'[b] = version[b] + IF concurrent THEN 1 ELSE 0
        /\ version[b] <= version'[b]
    BY <1>1, <1>2, <1>4, VersionsAre
  <1>7. StepOf(l)
    BY <1>1, <1>2, <1>3 DEF StepOf
  <1>8. TableTypeOK'
    <2>1. /\ item_vec' \in [Buckets -> [Slots -> [tag : Tags, offset : Nat, at : Nat]]]
          /\ IsLog(pool') /\ pool'.size = pool.size /\ DOMAIN last' = DOMAIN last /\ DOMAIN result' = DOMAIN result
          /\ IsRequest(req'[l])
      BY <1>1, <1>2, <1>4 DEF TableTypeOK
    <2> QED
      BY <1>1, <1>6, <1>7, <2>1, TypeKept
  <1>9. concurrent => version[b] < version'[b] /\ version'[b] % 2 = 1
    BY <1>5, <1>6
  <1>10. Touches(l, b)
    <2>1. /\ \A c \in Buckets : c # b => version'[c] = version[c] /\ item_vec'[c] = item_vec[c]
          /\ \A k \in build.keys : k.bucket # b => last'[k] = last[k]
      BY <1>2, <1>6
    <2>2. pool'.tail = pool.tail /\ plock' = plock
      BY <1>2
    <2> HIDE DEF b
    <2> QED
      BY <1>4, <1>5, <1>6, <1>7, <1>9, <2>1, <2>2, TouchesBucket
  <1>11. /\ ~ InHand(l) /\ ~ InHand(l)' /\ ~ Reading(l)' /\ Bucket(l)' = b
         /\ pc'[l] \notin {"set_allocate", "set_write", "set_publish", "move_to_head"}
    BY <1>2, <1>3 DEF InHand, Reading, Bucket
  <1>12. Operations(S, l)'
    <2>1. Fresh(l)
      BY DEF Stored, Operations
    <2>2. Fresh(l)'
      BY <1>2, <1>3, <2>1 DEF Fresh
    <2> QED
      BY <1>3, <1>11, <2>2 DEF Operations, Written, Found, Copies, Hits, Moves
  <1> HIDE DEF b
  <1>13. UNCHANGED <<pool, item_vec, last>>
    BY <1>2
  <1>14. Holding(l)' => b \in Buckets /\ Bucket(l)' = b /\ (concurrent => version'[b] % 2 = 1)
    BY <1>4, <1>9, <1>11
  <1> QED
    BY <1>8, <1>10, <1>11, <1>12, <1>13, <1>14, QuietStep

\* The slot for a key that was not found is the one that has its tag, if any.
LEMMA SlotForFacts ==
  ASSUME TableTypeOK, OneItemPerTag, NEW b \in Buckets, NEW tag, tag # 0
  PROVE  /\ SlotFor(b, tag) \in Slots
         /\ \A s \in Slots : Entry(b, s).tag = tag => s = SlotFor(b, tag)
  <1> DEFINE T == {s \in Slots : item_vec[b][s].tag = tag}
             U == {s \in Slots : item_vec[b][s] = Empty}
             distance(s) == (pool.tail - item_vec[b][s].offset) % Span
             V == {s \in Slots : \A t \in Slots : distance(s) <= distance(t)}
             D == {distance(s) : s \in Slots}
  <1>1. /\ ItemsPerBucket \in Nat /\ Span \in Nat \ {0} /\ 0 \in Slots /\ pool.tail \in Nat
        /\ \A s \in Slots : item_vec[b][s].offset \in Nat
    <2>1. ItemsPerBucket \in Nat \ {0} /\ Span \in Nat \ {0} /\ pool.tail \in Nat
      BY BuildFacts DEF TableTypeOK, IsLog
    <2>2. \A s \in Slots : item_vec[b][s].offset \in Nat
      BY EntryFacts DEF Entry
    <2> QED
      BY <2>1, <2>2 DEF Slots
  <1>2. \A s \in Slots : distance(s) \in Nat
    BY <1>1
  <1>3. V # {}
    <2>1. D \subseteq Nat /\ D # {}
      BY <1>1, <1>2
    <2>2. PICK x \in D : \A y \in D : x <= y
      <3> HIDE DEF D
      <3> QED
        BY <2>1, Smallest
    <2>3. PICK s \in Slots : x = distance(s)
      BY <2>2
    <2>4. \A t \in Slots : distance(t) \in D
      OBVIOUS
    <2> HIDE DEF D, distance
    <2>5. \A t \in Slots : distance(s) <= distance(t)
      BY <2>2, <2>3, <2>4
    <2> QED
      BY <2>5
  <1>4. mehcached_find_same_tag(b, tag) = First(T)
    BY DEF mehcached_find_same_tag
  <1>5. mehcached_find_empty_or_oldest(b) = IF U # {} THEN First(U) ELSE First(V)
    BY DEF mehcached_find_empty_or_oldest
  <1>6. T \subseteq Slots /\ U \subseteq Slots /\ V \subseteq Slots
    OBVIOUS
  <1>7. mehcached_find_empty_or_oldest(b) \in Slots
    <2> HIDE DEF U, V
    <2>1. U # {} => First(U) \in U
      BY <1>1, <1>6, FirstFacts
    <2>2. First(V) \in V
      BY <1>1, <1>3, <1>6, FirstFacts
    <2> QED
      BY <1>5, <1>6, <2>1, <2>2
  <1>8. CASE T = {}
    <2>1. First(T) = ItemsPerBucket
      BY <1>1, <1>8, FirstFacts
    <2>2. \A s \in Slots : Entry(b, s).tag # tag
      BY <1>8 DEF Entry
    <2> HIDE DEF T
    <2> QED
      BY <1>4, <1>7, <2>1, <2>2 DEF SlotFor
  <1>9. CASE T # {}
    <2>1. First(T) \in T /\ First(T) # ItemsPerBucket
      <3> HIDE DEF T
      <3> QED
        BY <1>1, <1>6, <1>9, FirstFacts
    <2>2. First(T) \in Slots /\ Entry(b, First(T)).tag = tag
      BY <2>1 DEF Entry
    <2> HIDE DEF T
    <2>3. \A s \in Slots : Entry(b, s).tag = tag => s = First(T)
      BY <2>2 DEF OneItemPerTag, Entry
    <2> QED
      BY <1>4, <2>1, <2>2, <2>3 DEF SlotFor
  <1> QED
    BY <1>8, <1>9

\* The default key is there already.
LEMMA SetFindAdd ==
  ASSUME Shape, NEW S, Stored(S), NEW l \in Lcores, pc[l] = "set_find", Goto(l, "idle"),
         version' = Versions(Bucket(l), 1), UNCHANGED <<build, item_vec, pool, plock, req, last, result>>
  PROVE  Shape' /\ Stored(S)'
  <1> DEFINE b == Bucket(l)
  <1>1. TableTypeOK /\ Locks /\ DOMAIN req = Lcores /\ "idle" \in Places
    BY DEF Shape, TableTypeOK, Places
  <1>2. /\ pc' \in [Lcores -> Places] /\ pc'[l] = "idle"
        /\ \A m \in Lcores : m # l => pc'[m] = pc[m]
    BY <1>1, GoesTo
  <1>3. b \in Buckets
    BY <1>1, RequestFacts
  <1>4. /\ version' \in [Buckets -> Nat]
        /\ \A c \in Buckets : c # b => version'[c] = version[c]
        /\ version[b] <= version'[b]
    BY <1>1, <1>3, VersionsAre
  <1>5. StepOf(l)
    BY <1>1, <1>2 DEF StepOf
  <1>6. TableTypeOK'
    <2>1. /\ item_vec' \in [Buckets -> [Slots -> [tag : Tags, offset : Nat, at : Nat]]]
          /\ IsLog(pool') /\ pool'.size = pool.size /\ DOMAIN last' = DOMAIN last /\ DOMAIN result' = DOMAIN result
      BY <1>1 DEF TableTypeOK
    <2> QED
      BY <1>1, <1>2, <1>4, <1>5, <2>1, TypeKept
  <1>7. Holding(l) /\ ~ InHand(l) /\ ~ InHand(l)' /\ ~ Holding(l)' /\ ~ Reading(l)'
    BY <1>2 DEF InHand, Reading, Holding
  <1>8. Touches(l, b)
    <2>1. /\ \A c \in Buckets : c # b => version'[c] = version[c] /\ item_vec'[c] = item_vec[c]
          /\ \A k \in build.keys : k.bucket # b => last'[k] = last[k]
      BY <1>4
    <2>2. pool'.tail = pool.tail /\ plock' = plock /\ Bucket(l) = b
      OBVIOUS
    <2> HIDE DEF b
    <2> QED
      BY <1>3, <1>4, <1>5, <1>7, <2>1, <2>2, TouchesBucket
  <1>9. Operations(S, l)'
    BY <1>2, <1>7 DEF Operations, Fresh, Written, Found, Copies, Hits, Moves
  <1> HIDE DEF b
  <1>10. pc'[l] \notin {"set_allocate", "set_write", "set_publish", "move_to_head"}
    BY <1>2
  <1> QED
    BY <1>6, <1>7, <1>8, <1>9, <1>10, QuietStep

\* A slot has been found, or chosen.
LEMMA SetFindSlot ==
  ASSUME Shape, NEW S, Stored(S), NEW l \in Lcores, pc[l] = "set_find", Goto(l, "set_allocate"),
         NEW slot, slot = mehcached_find_item_index(Bucket(l), req[l].key, req[l].pad),
         req' = [req EXCEPT ![l].slot = IF slot # ItemsPerBucket THEN slot ELSE SlotFor(Bucket(l), req[l].key.tag),
                            ![l].found = slot # ItemsPerBucket],
         UNCHANGED <<build, version, item_vec, pool, plock, last, result>>
  PROVE  Shape' /\ Stored(S)'
  <1> DEFINE b == Bucket(l)
             new == IF slot # ItemsPerBucket THEN slot ELSE SlotFor(b, req[l].key.tag)
  <1>1. /\ TableTypeOK /\ Locks /\ Pointers /\ OneItemPerTag
        /\ DOMAIN req = Lcores /\ "set_allocate" \in Places
    BY DEF Shape, TableTypeOK, Places
  <1>2. /\ pc' \in [Lcores -> Places] /\ pc'[l] = "set_allocate"
        /\ \A m \in Lcores : m # l => pc'[m] = pc[m]
    BY <1>1, GoesTo
  <1>3. b \in Buckets /\ IsRequest(req[l]) /\ DOMAIN req[l] = Fields /\ req[l].key.tag # 0
    BY <1>1, RequestFacts DEF TableTypeOK
  <1>4. slot # ItemsPerBucket =>
          /\ slot \in Slots /\ Entry(b, slot).tag = req[l].key.tag
          /\ KeyAt(pool, Entry(b, slot).at) = req[l].key
    <2>1. ASSUME slot # ItemsPerBucket
          PROVE  /\ slot \in Slots /\ Entry(b, slot).tag = req[l].key.tag
                 /\ Entry(b, slot).offset = Entry(b, slot).at % Span =>
                      KeyAt(pool, Entry(b, slot).at) = req[l].key
      BY <1>1, <1>3, <2>1, FindFacts
    <2> QED
      BY <1>1, <1>3, <2>1 DEF Pointers
  <1>5. new \in Slots /\ \A s \in Slots : Entry(b, s).tag = req[l].key.tag => s = new
    <2>1. CASE slot # ItemsPerBucket
      <3>1. new = slot
        BY <2>1
      <3>2. \A s \in Slots : Entry(b, s).tag = req[l].key.tag => s = slot
        BY <1>1, <1>3, <1>4, <2>1 DEF OneItemPerTag, Entry
      <3> QED
        BY <1>4, <2>1, <3>1, <3>2
    <2>2. CASE slot = ItemsPerBucket
      <3>1. new = SlotFor(b, req[l].key.tag)
        BY <2>2
      <3> QED
        BY <1>1, <1>3, <3>1, SlotForFacts
    <2> QED
      BY <2>1, <2>2
  <1>6. slot # ItemsPerBucket => new = slot
    OBVIOUS
  <1>7. /\ DOMAIN req' = Lcores /\ \A m \in Lcores : m # l => req'[m] = req[m]
        /\ DOMAIN req'[l] = Fields /\ req'[l].key = req[l].key /\ req'[l].slot = new
        /\ req'[l].found = (slot # ItemsPerBucket) /\ req'[l].at = req[l].at
        /\ req'[l].version = req[l].version /\ req'[l].word = req[l].word
    BY <1>1, <1>3 DEF Fields
  <1> HIDE DEF new
  <1>8. StepOf(l)
    BY <1>2, <1>7 DEF StepOf
  <1>9. TableTypeOK'
    <2>1. /\ item_vec' \in [Buckets -> [Slots -> [tag : Tags, offset : Nat, at : Nat]]]
          /\ IsLog(pool') /\ pool'.size = pool.size /\ DOMAIN last' = DOMAIN last /\ DOMAIN result' = DOMAIN result
          /\ version' \in [Buckets -> Nat]
      BY <1>1 DEF TableTypeOK
    <2>2. IsRequest(req'[l])
      BY <1>3, <1>5, <1>7 DEF IsRequest
    <2> QED
      BY <1>1, <1>8, <2>1, <2>2, TypeKept
  <1>10. /\ Holding(l) /\ ~ InHand(l) /\ ~ InHand(l)' /\ ~ Reading(l)' /\ Bucket(l)' = b
         /\ pc'[l] \notin {"set_write", "set_publish", "move_to_head"}
    BY <1>2, <1>7 DEF InHand, Reading, Holding, Bucket
  <1>11. Touches(l, b)
    <2>1. /\ \A c \in Buckets : c # b => version'[c] = version[c] /\ item_vec'[c] = item_vec[c]
          /\ \A k \in build.keys : k.bucket # b => last'[k] = last[k]
          /\ version' \in [Buckets -> Nat]
      BY <1>1 DEF TableTypeOK
    <2>2. pool'.tail = pool.tail /\ plock' = plock /\ Bucket(l) = b
      OBVIOUS
    <2>3. version[b] \in Nat /\ version'[b] = version[b]
      BY <1>1, <1>3 DEF TableTypeOK
    <2> HIDE DEF b
    <2>4. version[b] <= version'[b]
      BY <2>3
    <2> QED
      BY <1>3, <1>8, <1>10, <2>1, <2>2, <2>4, TouchesBucket
  <1>12. \A s \in Slots : Entry(Bucket(l), s)' = Entry(b, s)
    BY <1>10 DEF Entry
  <1>13. Entry(Bucket(l), req[l].slot)' = Entry(b, new)
    BY <1>7, <1>10 DEF Entry
  <1>14. Operations(S, l)'
    <2>1. Fresh(l)
      BY DEF Stored, Operations
    <2>2. Fresh(l)'
      BY <1>2, <1>7, <2>1 DEF Fresh
    <2>3. Found(l)'
      <3>1. pool' = pool
        OBVIOUS
      <3> QED
        BY <1>4, <1>6, <1>7, <1>13, <3>1 DEF Found
    <2> QED
      BY <1>2, <1>10, <2>2, <2>3 DEF Operations, Written, Copies, Hits, Moves
  <1>15. Holding(l)' => b \in Buckets /\ Bucket(l)' = b /\ (concurrent => version'[b] % 2 = 1)
    BY <1>1, <1>3, <1>10 DEF Locks
  <1>16. /\ \A s \in Slots : Entry(Bucket(l), s)'.tag = req'[l].key.tag => s = req'[l].slot
         /\ req'[l].found => Entry(Bucket(l), req[l].slot)'.tag = req'[l].key.tag
    <2>1. \A s \in Slots : Entry(Bucket(l), s)'.tag = req'[l].key.tag => s = req'[l].slot
      BY <1>5, <1>7, <1>12
    <2>2. req'[l].found => Entry(b, new).tag = req'[l].key.tag
      BY <1>4, <1>6, <1>7
    <2> QED
      BY <1>13, <2>1, <2>2
  <1>17. UNCHANGED <<pool, item_vec, last>>
    OBVIOUS
  <1> HIDE DEF b
  <1> QED
    BY <1>9, <1>10, <1>11, <1>14, <1>15, <1>16, <1>17, QuietStep

LEMMA SetFindKept ==
  ASSUME Shape, NEW S, Stored(S), NEW l \in Lcores, SetFind(l)
  PROVE  Shape' /\ Stored(S)'
  <1> DEFINE slot == mehcached_find_item_index(Bucket(l), req[l].key, req[l].pad)
  <1>1. /\ pc[l] = "set_find" /\ UNCHANGED <<build, item_vec, pool, plock, last, result>>
        /\ \/ version' = Versions(Bucket(l), 1) /\ Goto(l, "idle") /\ req' = req
           \/ /\ req' = [req EXCEPT ![l].slot = IF slot # ItemsPerBucket THEN slot
                                                ELSE SlotFor(Bucket(l), req[l].key.tag),
                                    ![l].found = slot # ItemsPerBucket]
              /\ Goto(l, "set_allocate") /\ version' = version
    BY DEF SetFind, Bucket
  <1>2. CASE version' = Versions(Bucket(l), 1) /\ Goto(l, "idle") /\ req' = req
    BY <1>1, <1>2, SetFindAdd
  <1>3. CASE /\ req' = [req EXCEPT ![l].slot = IF slot # ItemsPerBucket THEN slot
                                               ELSE SlotFor(Bucket(l), req[l].key.tag),
                                   ![l].found = slot # ItemsPerBucket]
             /\ Goto(l, "set_allocate") /\ version' = version
    BY <1>1, <1>3, SetFindSlot
  <1> QED
    BY <1>1, <1>2, <1>3

\* A SET has got its item, in place of the old one or at the tail.
LEMMA ItemTaken ==
  ASSUME Shape, NEW S, Stored(S), NEW l \in Lcores, pc[l] = "set_allocate", Goto(l, "set_write"),
         mehcached_pool_lock, plock' = IF concurrent THEN l ELSE None,
         UNCHANGED <<build, version, item_vec, last, result>>,
         IsLog(pool'), NEW T, TiledBy(pool', T), Keeps(pool, S, pool', T, -1),
         DOMAIN req' = Lcores, \A m \in Lcores : m # l => req'[m] = req[m],
         IsRequest(req'[l]), req'[l].key = req[l].key, req'[l].slot = req[l].slot, req'[l].found = req[l].found,
         req'[l].at < pool'.tail, req'[l].offset = req'[l].at % Span,
         \A c \in Buckets, s \in Slots : Entry(c, s).tag # 0 /\ Entry(c, s).at = req'[l].at =>
           c = Bucket(l) /\ s = req[l].slot /\ Entry(c, s).tag = req[l].key.tag,
         \A m \in Lcores : m # l /\ InHand(m) => req[m].at # req'[l].at,
         Written(T, l)'
  PROVE  Shape' /\ Stored(T)'
  <1> PICK b : b = Bucket(l)
    OBVIOUS
  <1>1. /\ TableTypeOK /\ Locks /\ Pointers /\ Chosen /\ OneItemPerTag /\ "set_write" \in Places
        /\ IsLog(pool) /\ pool'.size = pool.size /\ pool.tail <= pool'.tail
    BY DEF Shape, TableTypeOK, Places, Keeps
  <1>2. /\ pc' \in [Lcores -> Places] /\ pc'[l] = "set_write"
        /\ \A m \in Lcores : m # l => pc'[m] = pc[m]
    BY <1>1, GoesTo
  <1>3. b \in Buckets /\ req[l].slot \in Slots
    BY <1>1, RequestFacts
  <1>4. StepOf(l)
    BY <1>2 DEF StepOf
  <1>5. TableTypeOK'
    <2>1. /\ item_vec' \in [Buckets -> [Slots -> [tag : Tags, offset : Nat, at : Nat]]]
          /\ DOMAIN last' = DOMAIN last /\ DOMAIN result' = DOMAIN result
          /\ version' \in [Buckets -> Nat]
      BY <1>1 DEF TableTypeOK
    <2> QED
      BY <1>1, <1>4, <2>1, TypeKept
  <1>6. /\ Holding(l) /\ ~ InHand(l) /\ InHand(l)' /\ ~ Reading(l)' /\ Bucket(l)' = b
        /\ pc'[l] \notin {"set_lock", "set_find", "set_allocate", "get_find", "get_copy", "get_hit", "move_to_head"}
    BY <1>2 DEF InHand, Reading, Holding, Bucket
  <1>7. Touches(l, b)
    <2>1. /\ \A c \in Buckets : c # b => version'[c] = version[c] /\ item_vec'[c] = item_vec[c]
          /\ \A k \in build.keys : k.bucket # b => last'[k] = last[k]
          /\ version' \in [Buckets -> Nat]
      BY <1>1 DEF TableTypeOK
    <2>2. Bucket(l) = b
      OBVIOUS
    <2>3. version[b] \in Nat /\ version'[b] = version[b]
      BY <1>1, <1>3 DEF TableTypeOK
    <2>4. version[b] <= version'[b]
      BY <2>3
    <2> QED
      BY <1>3, <1>4, <1>6, <2>1, <2>2, <2>4, TouchesBucket
  <1>8. Shrinks
    BY DEF Shrinks, Entry
  <1>9. Locks'
    <2>1. Holding(l)' => b \in Buckets /\ Bucket(l)' = b /\ (concurrent => version'[b] % 2 = 1)
      BY <1>1, <1>3, <1>6 DEF Locks
    <2> QED
      BY <1>5, <1>6, <1>7, <2>1, LocksKept
  <1>10. Pointers'
    <2>1. /\ \A c \in Buckets, s \in Slots :
               Entry(c, s).tag # 0 /\ Entry(c, s).at = req'[l].at =>
                 c = Bucket(l)' /\ s = req'[l].slot /\ Entry(c, s).tag = req'[l].key.tag
      BY <1>6
    <2> QED
      BY <1>1, <1>5, <1>7, <1>8, <2>1, PointersKept
  <1>11. Chosen' /\ OneItemPerTag'
    <2>1. /\ \A s \in Slots : Entry(b, s).tag = req[l].key.tag => s = req[l].slot
          /\ req[l].found => Entry(b, req[l].slot).tag = req[l].key.tag
      BY <1>1 DEF Chosen
    <2>2. /\ \A s \in Slots : Entry(Bucket(l), s)' = Entry(b, s)
          /\ Entry(Bucket(l), req[l].slot)' = Entry(b, req[l].slot)
      BY <1>6 DEF Entry
    <2>3. /\ \A s \in Slots : Entry(Bucket(l), s)'.tag = req'[l].key.tag => s = req'[l].slot
          /\ req'[l].found => Entry(Bucket(l), req[l].slot)'.tag = req'[l].key.tag
      BY <2>1, <2>2
    <2> QED
      BY <1>5, <1>7, <1>8, <2>3, ChosenKept
  <1>12. \A c \in Buckets, s \in Slots : Entry(c, s).at # -1
    BY <1>1, EntryFacts
  <1>13. \A m \in Lcores : InHand(m) => req[m].at # -1
    <2>1. \A m \in Lcores : InHand(m) => pc[m] # "idle"
      BY DEF InHand
    <2> QED
      BY <1>1, <2>1, RequestFacts
  <1>14. ASSUME NEW s \in Slots PROVE Live(T, b, s)'
    <2>1. \A k \in build.keys : last'[k] = last[k]
      OBVIOUS
    <2>2. Entry(b, s)'.tag # 0 => Entry(b, s).at # -1
      BY <1>3, <1>12
    <2>3. InHand(l) => InHand(l)' /\ Bucket(l)' = Bucket(l) /\ req'[l].slot = req[l].slot
      BY <1>6
    <2> QED
      BY <1>3, <1>5, <1>7, <1>8, <2>1, <2>2, <2>3, BucketKept
  <1>15. Operations(T, l)'
    BY <1>2, <1>6 DEF Operations, Fresh, Found, Copies, Hits, Moves
  <1>16. Stored(T)'
    <2>1. InHand(l) => Bucket(l) = b
      OBVIOUS
    <2>2. b \in Buckets => \A s \in Slots : Live(T, b, s)'
      BY <1>14
    <2>3. \A c \in Buckets, s \in Slots : Entry(c, s).tag # 0 /\ Entry(c, s).at = -1 => c = b
      BY <1>12
    <2>4. \A m \in Lcores : m # l /\ InHand(m) => req[m].at # -1
      BY <1>13
    <2> QED
      BY <1>5, <1>7, <1>15, <2>1, <2>2, <2>3, <2>4, StoredKept
  <1> QED
    BY <1>5, <1>9, <1>10, <1>11, <1>16 DEF Shape

LEMMA SetAllocateKept ==
  ASSUME Shape, NoItemRevives, NEW S, Stored(S), NEW l \in Lcores, SetAllocate(l)
  PROVE  Shape' /\ \E T : Stored(T)'
  <1> DEFINE b == Bucket(l)
             r == req[l]
             e == Entry(b, r.slot)
  <1>1. /\ TableTypeOK /\ Pointers /\ Chosen /\ Locks /\ IsLog(pool) /\ pool.tail \in Nat /\ pool.size \in Nat
        /\ DOMAIN req = Lcores /\ TiledBy(pool, S)
    BY DEF Shape, TableTypeOK, Stored, IsLog
  <1>2. /\ pc[l] = "set_allocate" /\ Goto(l, "set_write")
        /\ mehcached_pool_lock /\ plock' = IF concurrent THEN l ELSE None
        /\ UNCHANGED <<build, version, item_vec, last, result>>
    BY DEF SetAllocate
  <1>3. /\ b \in Buckets /\ r.slot \in Slots /\ IsRequest(r) /\ DOMAIN r = Fields
        /\ r.key \in build.keys /\ r.key.tag # 0 /\ r.key.size \in 2 .. pool.size
    BY <1>1, <1>2, RequestFacts DEF TableTypeOK
  <1>4. pc'[l] = "set_write"
    BY <1>1, <1>2 DEF Goto, TableTypeOK
  <1>5. r.word = 0 /\ Found(l)
    BY <1>2 DEF Stored, Operations, Fresh
  <1>6. CASE InPlace(l)
    <2>1. /\ req' = [req EXCEPT ![l].offset = e.offset, ![l].at = e.at, ![l].word = 1]
          /\ pool' = pool
      BY <1>6 DEF SetAllocate, Entry, Bucket
    <2>2. r.found /\ mehcached_pool_is_valid(pool, e.offset)
      BY <1>6 DEF InPlace, Entry, Bucket
    <2>3. e.tag = r.key.tag /\ e.at \in Nat /\ e.at < pool.tail /\ e.offset = e.at % Span
      <3>1. e.tag = r.key.tag
        BY <1>1, <1>2, <2>2 DEF Chosen
      <3> QED
        BY <1>1, <1>3, <3>1, EntryFacts DEF Pointers
    <2>4. InLog(pool, e.at)
      <3>1. e # Empty
        BY <1>3, <2>3 DEF Empty
      <3> QED
        BY <1>3, <2>2, <3>1 DEF NoItemRevives, Entry, InLog
    <2>5. e.at \in S /\ KeyAt(pool, e.at) = r.key /\ Word(pool, e.at).item_size = r.key.size
      <3>1. Live(S, b, r.slot)
        BY <1>3 DEF Stored
      <3>2. KeyAt(pool, e.at) = r.key
        BY <1>2, <1>5, <2>2, <2>4 DEF Found
      <3> QED
        BY <1>3, <2>3, <2>4, <3>1, <3>2 DEF Live
    <2> HIDE DEF e
    <2>6. /\ DOMAIN req' = Lcores /\ \A m \in Lcores : m # l => req'[m] = req[m]
          /\ DOMAIN req'[l] = Fields /\ req'[l].key = r.key /\ req'[l].slot = r.slot /\ req'[l].found = r.found
          /\ req'[l].version = r.version /\ req'[l].offset = e.offset /\ req'[l].at = e.at /\ req'[l].word = 1
      BY <1>1, <1>3, <2>1 DEF Fields
    <2>7. IsRequest(req'[l])
      BY <1>3, <2>3, <2>6 DEF IsRequest
    <2>8. ASSUME NEW c \in Buckets, NEW s \in Slots, Entry(c, s).tag # 0, Entry(c, s).at = e.at
          PROVE  c = b /\ s = r.slot /\ Entry(c, s).tag = r.key.tag
      BY <1>1, <1>3, <2>3, <2>8 DEF Pointers, e
    <2>9. ASSUME NEW m \in Lcores, m # l, InHand(m) PROVE req[m].at # e.at
      <3>1. SUFFICES ASSUME req[m].at = e.at PROVE FALSE
        OBVIOUS
      <3>2. b = Bucket(m)
        BY <1>1, <1>3, <2>3, <2>9, <3>1 DEF Pointers, e
      <3>3. Holding(m) /\ Holding(l)
        BY <1>2, <2>9 DEF Holding, InHand
      <3> QED
        BY <1>1, <2>9, <3>2, <3>3 DEF Locks
    <2>10. Written(S, l)'
      BY <1>3, <1>4, <2>1, <2>4, <2>5, <2>6 DEF Written
    <2>11. Keeps(pool, S, pool', S, -1)
      BY <1>1, <2>1, KeepsSame
    <2>12. IsLog(pool') /\ TiledBy(pool', S) /\ req'[l].at < pool'.tail /\ req'[l].offset = req'[l].at % Span
      BY <1>1, <2>1, <2>3, <2>6
    <2> QED
      BY <1>2, <2>6, <2>7, <2>8, <2>9, <2>10, <2>11, <2>12, ItemTaken
  <1>7. CASE ~ InPlace(l)
    <2>1. /\ pool' = mehcached_pool_push_tail(pool, r.key.size)
          /\ req' = [req EXCEPT ![l].offset = NewOffset(pool), ![l].at = pool.tail,
                                ![l].from = NewOffset(pool), ![l].to = pool'.tail]
      BY <1>7 DEF SetAllocate
    <2>2. r.key.size \in 1 .. pool.size
      BY <1>1, <1>3
    <2>3. PICK q, T :
            /\ q = mehcached_pool_push_tail(pool, r.key.size)
            /\ IsLog(q) /\ q.size = pool.size /\ q.tail = pool.tail + r.key.size
            /\ T \in SUBSET (q.head .. q.tail) /\ TiledBy(q, T)
            /\ pool.tail \in T /\ Word(q, pool.tail).item_size = r.key.size
            /\ \A w : Keeps(pool, S, q, T, w)
      BY <1>1, <2>2, Pushed
    <2>4. q = pool'
      BY <2>1, <2>3
    <2>5. /\ DOMAIN req' = Lcores /\ \A m \in Lcores : m # l => req'[m] = req[m]
          /\ DOMAIN req'[l] = Fields /\ req'[l].key = r.key /\ req'[l].slot = r.slot /\ req'[l].found = r.found
          /\ req'[l].version = r.version /\ req'[l].offset = pool.tail % Span /\ req'[l].at = pool.tail
          /\ req'[l].word = r.word
      BY <1>1, <1>3, <2>1 DEF Fields, NewOffset
    <2>6. IsRequest(req'[l])
      BY <1>1, <1>3, <2>5 DEF IsRequest
    <2>7. \A c \in Buckets, s \in Slots : Entry(c, s).tag # 0 => Entry(c, s).at # pool.tail
      BY <1>1, EntryFacts DEF Pointers
    <2>8. \A m \in Lcores : InHand(m) => req[m].at # pool.tail
      <3>1. ASSUME NEW m \in Lcores, InHand(m) PROVE req[m].at # pool.tail
        <4>1. pc[m] # "idle" /\ req[m].at < pool.tail
          BY <1>1, <3>1 DEF InHand, Pointers
        <4> QED
          BY <1>1, <4>1, RequestFacts
      <3> QED
        BY <3>1
    <2>9. Written(T, l)'
      <3>1. InLog(pool', pool.tail) /\ r.key.size \in Nat /\ 0 <= r.key.size
        BY <1>1, <1>3, <2>3, <2>4 DEF InLog
      <3>2. \A j \in 1 .. (0 - 1) : FALSE
        OBVIOUS
      <3> QED
        BY <1>4, <1>5, <2>3, <2>4, <2>5, <3>1, <3>2 DEF Written
    <2>10. req'[l].at < pool'.tail /\ req'[l].offset = req'[l].at % Span
      BY <1>1, <1>3, <2>3, <2>4, <2>5
    <2>11. IsLog(pool') /\ TiledBy(pool', T) /\ Keeps(pool, S, pool', T, -1)
      BY <2>3, <2>4
    <2> QED
      BY <1>2, <2>5, <2>6, <2>7, <2>8, <2>9, <2>10, <2>11, ItemTaken
  <1> QED
    BY <1>6, <1>7

\* A word of the item has been written, with what was written before kept.
LEMMA WordWritten ==
  ASSUME Shape, NEW S, Stored(S), NEW l \in Lcores, SetWrite(l)
  PROVE  LET r == req[l]
             w == r.at
         IN  /\ IsLog(pool') /\ pool'.size = pool.size /\ pool'.tail = pool.tail
             /\ TiledBy(pool', S) /\ Keeps(pool, S, pool', S, w)
             /\ w \in S /\ InLog(pool', w)
             /\ Word(pool', w).item_size = r.key.size /\ KeyAt(pool', w) = r.key
             /\ r.word \in 0 .. r.key.size-1
             /\ \A j \in 1 .. r.word : Word(pool', w + j).val = r.val
  <1> DEFINE r == req[l]  w == r.at
  <1>1. /\ TableTypeOK /\ Pointers /\ IsLog(pool) /\ TiledBy(pool, S) /\ Written(S, l) /\ pool.size \in Nat \ {0}
    BY DEF Shape, TableTypeOK, Stored, Operations, IsLog
  <1>2. /\ pc[l] = "set_write" /\ r.word < r.key.size
        /\ pool' = IF r.word = 0 THEN WriteKey(pool, r.offset, [key |-> r.key, pad |-> r.pad])
                                 ELSE WriteValue(pool, r.offset, r.word, r.val)
    BY DEF SetWrite
  <1>3. r.key.size \in 2 .. pool.size /\ r.word \in Nat /\ w \in Nat
    BY <1>1, <1>2, RequestFacts
  <1>4. w < pool.tail /\ r.offset = w % Span
    BY <1>1, <1>2 DEF Pointers, InHand
  <1>5. /\ InLog(pool, w) /\ w \in S
        /\ Word(pool, w).item_size = r.key.size
        /\ r.word >= 1 => KeyAt(pool, w) = r.key
        /\ \A j \in 1 .. r.word-1 : Word(pool, w + j).val = r.val
    BY <1>1, <1>2 DEF Written, InHand
  <1>6. Span \in Nat \ {0} /\ Span % pool.size = 0
    BY <1>1, BuildFacts
  <1>7. CASE r.word = 0
    <2> DEFINE key == [key |-> r.key, pad |-> r.pad]
    <2>1. pool' = WriteKey(pool, w % Span, key)
      BY <1>2, <1>4, <1>7
    <2>2. key.key = r.key
      OBVIOUS
    <2> HIDE DEF key, w
    <2>3. /\ IsLog(pool') /\ pool'.size = pool.size /\ pool'.tail = pool.tail
          /\ TiledBy(pool', S) /\ Keeps(pool, S, pool', S, w)
          /\ Word(pool', w).item_size = Word(pool, w).item_size /\ Word(pool', w).key = key
      BY <1>1, <1>4, <1>5, <1>6, <2>1, WroteKey
    <2>4. KeyAt(pool', w) = r.key
      BY <2>2, <2>3 DEF KeyAt
    <2>5. InLog(pool', w)
      BY <1>5, <2>3 DEF InLog
    <2>6. \A j \in 1 .. 0 : FALSE
      OBVIOUS
    <2>7. r.word \in 0 .. r.key.size-1
      BY <1>2, <1>3
    <2> QED
      BY <1>5, <1>7, <2>3, <2>4, <2>5, <2>6, <2>7 DEF w
  <1>8. CASE r.word # 0
    <2>1. pool' = WriteValue(pool, w % Span, r.word, r.val)
      BY <1>2, <1>4, <1>8
    <2>2. r.word \in 1 .. Word(pool, w).item_size-1
      BY <1>2, <1>3, <1>5, <1>8
    <2> HIDE DEF w
    <2>3. /\ IsLog(pool') /\ pool'.size = pool.size /\ pool'.tail = pool.tail
          /\ TiledBy(pool', S) /\ Keeps(pool, S, pool', S, w)
          /\ Word(pool', w) = Word(pool, w) /\ Word(pool', w + r.word).val = r.val
          /\ \A j \in 0 .. Word(pool, w).item_size-1 : j # r.word => Word(pool', w + j) = Word(pool, w + j)
      BY <1>1, <1>4, <1>5, <1>6, <2>1, <2>2, WroteValue
    <2>4. KeyAt(pool', w) = r.key
      BY <1>3, <1>5, <1>8, <2>3 DEF KeyAt
    <2>5. InLog(pool', w)
      BY <1>5, <2>3 DEF InLog
    <2>6. ASSUME NEW j \in 1 .. r.word PROVE Word(pool', w + j).val = r.val
      <3>1. CASE j = r.word
        BY <2>3, <3>1
      <3>2. CASE j # r.word
        <4>1. j \in 1 .. r.word-1 /\ j \in 0 .. Word(pool, w).item_size-1
          BY <1>2, <1>3, <1>5, <2>6, <3>2
        <4> QED
          BY <1>5, <2>3, <3>2, <4>1
      <3> QED
        BY <3>1, <3>2
    <2>7. r.word \in 0 .. r.key.size-1
      BY <1>2, <1>3
    <2> QED
      BY <1>5, <2>3, <2>4, <2>5, <2>6, <2>7 DEF w
  <1> QED
    BY <1>7, <1>8

LEMMA SetWriteKept ==
  ASSUME Shape, NEW S, Stored(S), NEW l \in Lcores, SetWrite(l)
  PROVE  Shape' /\ Stored(S)'
  <1> PICK b : b = Bucket(l)
    OBVIOUS
  <1> PICK w : w = req[l].at
    OBVIOUS
  <1> DEFINE r == req[l]
  <1>1. /\ TableTypeOK /\ Locks /\ Pointers /\ Chosen /\ OneItemPerTag /\ IsLog(pool)
        /\ DOMAIN req = Lcores /\ pc \in [Lcores -> Places] /\ pool.tail \in Nat
    BY DEF Shape, TableTypeOK, IsLog
  <1>2. /\ pc[l] = "set_write" /\ req' = [req EXCEPT ![l].word = @ + 1]
        /\ UNCHANGED <<build, version, item_vec, plock, pc, last, result>>
    BY DEF SetWrite
  <1>3. b \in Buckets /\ r.slot \in Slots /\ IsRequest(r) /\ DOMAIN r = Fields /\ r.word \in Nat /\ r.key \in build.keys
    BY <1>1, <1>2, RequestFacts DEF TableTypeOK
  <1>4. /\ IsLog(pool') /\ pool'.size = pool.size /\ pool'.tail = pool.tail
        /\ TiledBy(pool', S) /\ Keeps(pool, S, pool', S, w)
        /\ w \in S /\ InLog(pool', w)
        /\ Word(pool', w).item_size = r.key.size /\ KeyAt(pool', w) = r.key
        /\ r.word \in 0 .. r.key.size-1
        /\ \A j \in 1 .. r.word : Word(pool', w + j).val = r.val
    BY WordWritten
  <1>5. /\ DOMAIN req' = Lcores /\ \A m \in Lcores : m # l => req'[m] = req[m]
        /\ DOMAIN req'[l] = Fields /\ req'[l].key = r.key /\ req'[l].slot = r.slot /\ req'[l].found = r.found
        /\ req'[l].version = r.version /\ req'[l].offset = r.offset /\ req'[l].at = r.at /\ req'[l].val = r.val
        /\ req'[l].word = r.word + 1
    BY <1>1, <1>2, <1>3 DEF Fields
  <1>6. IsRequest(req'[l])
    BY <1>3, <1>5 DEF IsRequest
  <1>7. StepOf(l)
    BY <1>1, <1>2, <1>5 DEF StepOf
  <1>8. TableTypeOK'
    <2>1. /\ item_vec' \in [Buckets -> [Slots -> [tag : Tags, offset : Nat, at : Nat]]]
          /\ DOMAIN last' = DOMAIN last /\ DOMAIN result' = DOMAIN result
          /\ version' \in [Buckets -> Nat]
      BY <1>1, <1>2 DEF TableTypeOK
    <2> QED
      BY <1>1, <1>4, <1>6, <1>7, <2>1, TypeKept
  <1>9. /\ Holding(l) /\ InHand(l) /\ InHand(l)' /\ ~ Reading(l)' /\ Bucket(l)' = b
        /\ pc'[l] = "set_write"
    BY <1>2, <1>5 DEF InHand, Reading, Holding, Bucket
  <1>10. Touches(l, b)
    <2>1. /\ \A c \in Buckets : c # b => version'[c] = version[c] /\ item_vec'[c] = item_vec[c]
          /\ \A k \in build.keys : k.bucket # b => last'[k] = last[k]
          /\ version' \in [Buckets -> Nat]
      BY <1>1, <1>2 DEF TableTypeOK
    <2>2. version[b] \in Nat /\ version'[b] = version[b]
      BY <1>1, <1>2, <1>3 DEF TableTypeOK
    <2>3. version[b] <= version'[b]
      BY <2>2
    <2> QED
      BY <1>2, <1>3, <1>7, <1>9, <2>1, <2>3, TouchesBucket
  <1>11. Shrinks
    BY <1>2 DEF Shrinks, Entry
  <1>12. Locks'
    <2>1. Holding(l)' => b \in Buckets /\ Bucket(l)' = b /\ (concurrent => version'[b] % 2 = 1)
      BY <1>1, <1>2, <1>3, <1>9 DEF Locks
    <2>2. concurrent => plock' = l
      BY <1>1, <1>2 DEF Locks
    <2> QED
      BY <1>8, <1>9, <1>10, <2>1, <2>2, LocksKept
  <1>13. Pointers'
    <2>1. /\ req'[l].at < pool'.tail /\ req'[l].offset = req'[l].at % Span
          /\ \A c \in Buckets, s \in Slots :
               Entry(c, s).tag # 0 /\ Entry(c, s).at = req'[l].at =>
                 c = Bucket(l)' /\ s = req'[l].slot /\ Entry(c, s).tag = req'[l].key.tag
          /\ \A m \in Lcores : m # l /\ InHand(m) => req[m].at # req'[l].at
      BY <1>1, <1>4, <1>5, <1>9 DEF Pointers
    <2>2. pool.tail <= pool'.tail
      BY <1>1, <1>4
    <2> QED
      BY <1>8, <1>10, <1>11, <2>1, <2>2, PointersKept
  <1>14. Chosen' /\ OneItemPerTag'
    <2>1. /\ \A s \in Slots : Entry(b, s).tag = r.key.tag => s = r.slot
          /\ r.found => Entry(b, r.slot).tag = r.key.tag
      BY <1>1, <1>2 DEF Chosen
    <2>2. /\ \A s \in Slots : Entry(Bucket(l), s)' = Entry(b, s)
          /\ Entry(Bucket(l), req[l].slot)' = Entry(b, r.slot)
      BY <1>2, <1>5, <1>9 DEF Entry
    <2>3. /\ \A s \in Slots : Entry(Bucket(l), s)'.tag = req'[l].key.tag => s = req'[l].slot
          /\ req'[l].found => Entry(Bucket(l), req[l].slot)'.tag = req'[l].key.tag
      BY <1>5, <2>1, <2>2
    <2> QED
      BY <1>8, <1>10, <1>11, <2>3, ChosenKept
  <1>15. /\ \A c \in Buckets, s \in Slots : Entry(c, s).tag # 0 /\ Entry(c, s).at = w =>
              c = b /\ s = r.slot /\ Entry(c, s).tag = r.key.tag
         /\ \A m \in Lcores : m # l /\ InHand(m) => req[m].at # w
    BY <1>1, <1>9 DEF Pointers
  <1>16. ASSUME NEW s \in Slots PROVE Live(S, b, s)'
    <2>1. CASE Entry(b, s).tag # 0 /\ Entry(b, s).at = w
      <3>1. s = r.slot /\ Entry(b, s).tag = r.key.tag
        BY <1>3, <1>15, <2>1
      <3>2. Entry(b, s)' = Entry(b, s) /\ Lcores' = Lcores
        BY <1>2 DEF Entry, Lcores
      <3>3. Replaced(b, s)'
        BY <1>5, <1>9, <3>1, <3>2 DEF Replaced
      <3>4. r.key.bucket = b /\ build' = build
        BY <1>2 DEF Bucket
      <3> QED
        BY <1>3, <1>4, <2>1, <3>1, <3>2, <3>3, <3>4 DEF Live
    <2>2. CASE ~ (Entry(b, s).tag # 0 /\ Entry(b, s).at = w)
      <3>1. Entry(b, s)'.tag # 0 => Entry(b, s).at # w
        BY <1>2, <2>2 DEF Entry
      <3>2. InHand(l) => InHand(l)' /\ Bucket(l)' = Bucket(l) /\ req'[l].slot = req[l].slot
        BY <1>5, <1>9
      <3>3. \A k \in build.keys : last'[k] = last[k]
        BY <1>2
      <3> QED
        BY <1>3, <1>4, <1>8, <1>10, <1>11, <3>1, <3>2, <3>3, BucketKept
    <2> QED
      BY <2>1, <2>2
  <1>17. Written(S, l)'
    <2>1. r.word + 1 <= r.key.size /\ r.word + 1 >= 1 /\ (r.word + 1) - 1 = r.word
      BY <1>3, <1>4, RequestFacts, <1>1, <1>2
    <2> QED
      BY <1>4, <1>5, <1>9, <2>1 DEF Written
  <1>18. Operations(S, l)'
    BY <1>9, <1>17 DEF Operations, Fresh, Found, Copies, Hits, Moves
  <1>19. Stored(S)'
    <2>1. InHand(l) => Bucket(l) = b
      OBVIOUS
    <2>2. b \in Buckets => \A s \in Slots : Live(S, b, s)'
      BY <1>16
    <2>3. \A c \in Buckets, s \in Slots : Entry(c, s).tag # 0 /\ Entry(c, s).at = w => c = b
      BY <1>15
    <2>4. \A m \in Lcores : m # l /\ InHand(m) => req[m].at # w
      BY <1>15
    <2> QED
      BY <1>4, <1>8, <1>10, <1>18, <2>1, <2>2, <2>3, <2>4, StoredKept
  <1> QED
    BY <1>8, <1>12, <1>13, <1>14, <1>19 DEF Shape

LEMMA SetPoolUnlockKept ==
  ASSUME Shape, NEW S, Stored(S), NEW l \in Lcores, SetPoolUnlock(l)
  PROVE  Shape' /\ Stored(S)'
  <1> PICK b : b = Bucket(l)
    OBVIOUS
  <1>1. TableTypeOK /\ Locks /\ Chosen /\ DOMAIN req = Lcores /\ "set_publish" \in Places
    BY DEF Shape, TableTypeOK, Places
  <1>2. /\ pc[l] = "set_write" /\ req[l].word = req[l].key.size /\ Goto(l, "set_publish")
        /\ UNCHANGED <<build, version, item_vec, pool, req, last, result>>
    BY DEF SetPoolUnlock
  <1>3. /\ pc' \in [Lcores -> Places] /\ pc'[l] = "set_publish"
        /\ \A m \in Lcores : m # l => pc'[m] = pc[m]
    BY <1>1, <1>2, GoesTo
  <1>4. b \in Buckets /\ IsRequest(req[l])
    BY <1>1, <1>2, RequestFacts DEF TableTypeOK
  <1>5. StepOf(l)
    BY <1>1, <1>2, <1>3 DEF StepOf
  <1>6. TableTypeOK'
    <2>1. /\ item_vec' \in [Buckets -> [Slots -> [tag : Tags, offset : Nat, at : Nat]]]
          /\ IsLog(pool') /\ pool'.size = pool.size /\ DOMAIN last' = DOMAIN last /\ DOMAIN result' = DOMAIN result
          /\ version' \in [Buckets -> Nat] /\ IsRequest(req'[l])
      BY <1>1, <1>2, <1>4 DEF TableTypeOK
    <2> QED
      BY <1>1, <1>5, <2>1, TypeKept
  <1>7. /\ Holding(l) /\ InHand(l) /\ InHand(l)' /\ ~ Reading(l)' /\ Bucket(l)' = b
        /\ pc'[l] \notin {"set_lock", "set_find", "set_allocate", "set_write", "get_find", "get_copy", "get_hit",
                          "move_to_head"}
    BY <1>2, <1>3 DEF InHand, Reading, Holding, Bucket
  <1>8. Touches(l, b)
    <2>1. /\ \A c \in Buckets : c # b => version'[c] = version[c] /\ item_vec'[c] = item_vec[c]
          /\ \A k \in build.keys : k.bucket # b => last'[k] = last[k]
          /\ version' \in [Buckets -> Nat]
      BY <1>1, <1>2 DEF TableTypeOK
    <2>2. version[b] \in Nat /\ version'[b] = version[b]
      BY <1>1, <1>2, <1>4 DEF TableTypeOK
    <2>3. version[b] <= version'[b]
      BY <2>2
    <2> QED
      BY <1>2, <1>4, <1>5, <1>7, <2>1, <2>3, TouchesBucket
  <1>9. Operations(S, l)'
    <2>1. Written(S, l)
      BY DEF Stored, Operations
    <2>2. Written(S, l)'
      BY <1>2, <1>3, <1>7, <2>1 DEF Written
    <2> QED
      BY <1>7, <2>2 DEF Operations, Fresh, Found, Copies, Hits, Moves
  <1>10. Holding(l)' => b \in Buckets /\ Bucket(l)' = b /\ (concurrent => version'[b] % 2 = 1)
    BY <1>1, <1>2, <1>4, <1>7 DEF Locks
  <1>11. /\ \A s \in Slots : Entry(Bucket(l), s)'.tag = req'[l].key.tag => s = req'[l].slot
         /\ req'[l].found => Entry(Bucket(l), req[l].slot)'.tag = req'[l].key.tag
    <2>1. /\ \A s \in Slots : Entry(b, s).tag = req[l].key.tag => s = req[l].slot
          /\ req[l].found => Entry(b, req[l].slot).tag = req[l].key.tag
      BY <1>1, <1>2 DEF Chosen
    <2> QED
      BY <1>2, <1>7, <2>1 DEF Entry
  <1>12. UNCHANGED <<pool, item_vec, last>> /\ (InHand(l) => req'[l] = req[l] /\ Bucket(l) = b)
    BY <1>2
  <1> QED
    BY <1>6, <1>7, <1>8, <1>9, <1>10, <1>11, <1>12, QuietStep

LEMMA SetPublishKept ==
  ASSUME Shape, NEW S, Stored(S), NEW l \in Lcores, SetPublish(l)
  PROVE  Shape' /\ Stored(S)'
  <1> PICK b : b = Bucket(l)
    OBVIOUS
  <1> PICK slot : slot = req[l].slot
    OBVIOUS
  <1> DEFINE r == req[l]
             new == [tag |-> r.key.tag, offset |-> r.offset, at |-> r.at]
  <1>1. /\ TableTypeOK /\ Locks /\ Pointers /\ Chosen /\ OneItemPerTag /\ IsLog(pool) /\ pool.tail \in Nat
        /\ DOMAIN req = Lcores /\ "cleanup" \in Places /\ DOMAIN last = build.keys
        /\ item_vec \in [Buckets -> [Slots -> [tag : Tags, offset : Nat, at : Nat]]]
    BY DEF Shape, TableTypeOK, Places, IsLog
  <1>2. /\ pc[l] = "set_publish" /\ Goto(l, "cleanup") /\ version' = Versions(b, 1)
        /\ item_vec' = [item_vec EXCEPT ![b][slot] = new]
        /\ last' = [last EXCEPT ![r.key] = r.val]
        /\ UNCHANGED <<build, pool, plock, req, result>>
    BY DEF SetPublish, Bucket
  <1>3. /\ pc' \in [Lcores -> Places] /\ pc'[l] = "cleanup"
        /\ \A m \in Lcores : m # l => pc'[m] = pc[m]
    BY <1>1, <1>2, GoesTo
  <1>4. /\ b \in Buckets /\ IsRequest(r) /\ slot \in Slots /\ r.key \in build.keys /\ r.key.tag \in Tags
        /\ r.key.tag # 0 /\ r.at \in Nat /\ r.key.bucket = b /\ r.key.size \in 2 .. pool.size
    BY <1>1, <1>2, RequestFacts DEF TableTypeOK, Bucket
  <1>5. /\ version' \in [Buckets -> Nat]
        /\ \A c \in Buckets : c # b => version'[c] = version[c]
        /\ version[b] <= version'[b]
    BY <1>1, <1>2, <1>4, VersionsAre
  <1>6. StepOf(l)
    BY <1>1, <1>2, <1>3 DEF StepOf
  <1>7. /\ Holding(l) /\ InHand(l) /\ ~ InHand(l)' /\ ~ Holding(l)' /\ ~ Reading(l)'
    BY <1>2, <1>3 DEF InHand, Reading, Holding
  <1>8. /\ r.at < pool.tail /\ r.offset = r.at % Span /\ r.offset \in Nat
        /\ \A c \in Buckets, s \in Slots : Entry(c, s).tag # 0 /\ Entry(c, s).at = r.at => c = b /\ s = slot
        /\ \A m \in Lcores : m # l /\ InHand(m) => req[m].at # r.at
        /\ \A s \in Slots : Entry(b, s).tag = r.key.tag => s = slot
    <2>1. r.offset \in Nat
      <3>1. r.offset = r.at % Span
        BY <1>1, <1>7 DEF Pointers
      <3> QED
        BY <1>1, <1>4, <3>1, BuildFacts
    <2> QED
      BY <1>1, <1>2, <1>7, <2>1 DEF Pointers, Chosen
  <1>9. /\ Entry(b, slot)' = new
        /\ \A c \in Buckets, s \in Slots : ~ (c = b /\ s = slot) => Entry(c, s)' = Entry(c, s)
        /\ \A c \in Buckets : c # b => item_vec'[c] = item_vec[c]
        /\ item_vec' \in [Buckets -> [Slots -> [tag : Tags, offset : Nat, at : Nat]]]
    <2>1. new \in [tag : Tags, offset : Nat, at : Nat]
      BY <1>4, <1>8
    <2>2. Entry(b, slot)' = item_vec'[b][slot]
      BY <1>2 DEF Entry
    <2>3. \A c \in Buckets, s \in Slots : Entry(c, s)' = item_vec'[c][s]
      BY DEF Entry
    <2> HIDE DEF new
    <2> QED
      BY <1>1, <1>2, <1>4, <2>1, <2>2, <2>3 DEF Entry
  <1>10. last'[r.key] = r.val /\ DOMAIN last' = DOMAIN last /\ \A k \in build.keys : k # r.key => last'[k] = last[k]
    BY <1>1, <1>2, <1>4
  <1>11. new.tag = r.key.tag /\ new.offset = r.offset /\ new.at = r.at
    OBVIOUS
  <1> HIDE DEF new
  <1>12. TableTypeOK'
    <2>1. /\ IsLog(pool') /\ pool'.size = pool.size /\ DOMAIN result' = DOMAIN result
          /\ IsRequest(req'[l])
      BY <1>1, <1>2, <1>4 DEF TableTypeOK
    <2> QED
      BY <1>1, <1>5, <1>6, <1>9, <1>10, <2>1, TypeKept
  <1>13. Touches(l, b)
    <2>1. \A k \in build.keys : k.bucket # b => last'[k] = last[k]
      BY <1>4, <1>10
    <2> QED
      BY <1>2, <1>4, <1>5, <1>6, <1>7, <1>9, <2>1, TouchesBucket
  <1>14. Locks'
    BY <1>3, <1>7, <1>12, <1>13, LocksKept
  <1>15. Lcores' = Lcores /\ \A m \in Lcores : (InHand(m)' <=> InHand(m) /\ m # l) /\ Bucket(m)' = Bucket(m)
    BY <1>2, <1>3, <1>7 DEF Lcores, InHand, Bucket
  <1>16. Pointers'
    <2>1. ASSUME NEW c \in Buckets, NEW s \in Slots
          PROVE  IF Entry(c, s)'.tag = 0 THEN Entry(c, s)' = Empty
                 ELSE Entry(c, s)'.at < pool'.tail /\ Entry(c, s)'.offset = Entry(c, s)'.at % Span
      <3>1. CASE c = b /\ s = slot
        BY <1>2, <1>4, <1>8, <1>9, <1>11, <3>1
      <3>2. CASE ~ (c = b /\ s = slot)
        <4>1. Entry(c, s)' = Entry(c, s)
          BY <1>9, <3>2
        <4> QED
          BY <1>1, <1>2, <4>1 DEF Pointers
      <3> QED
        BY <3>1, <3>2
    <2>2. ASSUME NEW m \in Lcores, InHand(m)' PROVE req'[m].at < pool'.tail /\ req'[m].offset = req'[m].at % Span
      BY <1>1, <1>2, <1>15, <2>2 DEF Pointers
    <2>3. ASSUME NEW c \in Buckets, NEW d \in Buckets, NEW s \in Slots, NEW t \in Slots,
                 Entry(c, s)'.tag # 0, Entry(d, t)'.tag # 0, Entry(c, s)'.at = Entry(d, t)'.at
          PROVE  c = d /\ s = t
      <3>1. CASE ~ (c = b /\ s = slot) /\ ~ (d = b /\ t = slot)
        <4>1. Entry(c, s)' = Entry(c, s) /\ Entry(d, t)' = Entry(d, t)
          BY <1>9, <3>1
        <4> QED
          BY <1>1, <2>3, <4>1 DEF Pointers
      <3>2. CASE c = b /\ s = slot /\ ~ (d = b /\ t = slot)
        <4>1. Entry(d, t)' = Entry(d, t) /\ Entry(c, s)'.at = r.at
          BY <1>9, <1>11, <3>2
        <4> QED
          BY <1>8, <2>3, <3>2, <4>1
      <3>3. CASE d = b /\ t = slot /\ ~ (c = b /\ s = slot)
        <4>1. Entry(c, s)' = Entry(c, s) /\ Entry(d, t)'.at = r.at
          BY <1>9, <1>11, <3>3
        <4> QED
          BY <1>8, <2>3, <3>3, <4>1
      <3> QED
        BY <3>1, <3>2, <3>3
    <2>4. ASSUME NEW m \in Lcores, NEW c \in Buckets, NEW s \in Slots,
                 InHand(m)', Entry(c, s)'.tag # 0, Entry(c, s)'.at = req'[m].at
          PROVE  c = Bucket(m)' /\ s = req'[m].slot /\ Entry(c, s)'.tag = req'[m].key.tag
      <3>1. InHand(m) /\ m # l /\ req'[m] = req[m] /\ Bucket(m)' = Bucket(m)
        BY <1>2, <1>15, <2>4
      <3>2. CASE c = b /\ s = slot
        BY <1>8, <1>9, <1>11, <2>4, <3>1, <3>2
      <3>3. CASE ~ (c = b /\ s = slot)
        <4>1. Entry(c, s)' = Entry(c, s)
          BY <1>9, <3>3
        <4> QED
          BY <1>1, <2>4, <3>1, <4>1 DEF Pointers
      <3> QED
        BY <3>2, <3>3
    <2>5. ASSUME NEW m \in Lcores, NEW n \in Lcores, InHand(m)', InHand(n)', req'[m].at = req'[n].at
          PROVE  m = n
      BY <1>1, <1>2, <1>15, <2>5 DEF Pointers
    <2> QED
      BY <1>15, <2>1, <2>2, <2>3, <2>4, <2>5 DEF Pointers, Buckets, Slots
  <1>17. Chosen'
    <2>1. ASSUME NEW m \in Lcores, pc'[m] \in {"set_allocate", "set_write", "set_publish"}
          PROVE  /\ \A s \in Slots : Entry(Bucket(m), s)'.tag = req'[m].key.tag => s = req'[m].slot
                 /\ req'[m].found => Entry(Bucket(m), req[m].slot)'.tag = req'[m].key.tag
      <3>1. m # l /\ pc'[m] = pc[m]
        BY <1>3, <2>1
      <3>2. Holding(m) /\ pc[m] # "idle"
        BY <2>1, <3>1 DEF Holding
      <3>3. Bucket(m) \in Buckets /\ Bucket(m) # b /\ req[m].slot \in Slots
        BY <1>1, <1>13, <3>1, <3>2, RequestFacts DEF Touches
      <3>4. item_vec'[Bucket(m)] = item_vec[Bucket(m)]
        BY <1>9, <3>3
      <3>5. /\ \A s \in Slots : Entry(Bucket(m), s).tag = req[m].key.tag => s = req[m].slot
            /\ req[m].found => Entry(Bucket(m), req[m].slot).tag = req[m].key.tag
        BY <1>1, <2>1, <3>1 DEF Chosen
      <3>6. /\ \A s \in Slots : Entry(Bucket(m), s)' = Entry(Bucket(m), s)
            /\ Entry(Bucket(m), req[m].slot)' = Entry(Bucket(m), req[m].slot)
        BY <1>2, <3>4 DEF Entry, Bucket
      <3> QED
        BY <1>2, <3>5, <3>6
    <2> QED
      BY <1>15, <2>1 DEF Chosen, Slots
  <1>18. OneItemPerTag'
    <2>1. ASSUME NEW c \in Buckets, NEW s \in Slots, NEW t \in Slots,
                 Entry(c, s)'.tag = Entry(c, t)'.tag, Entry(c, s)'.tag # 0
          PROVE  s = t
      <3>1. CASE ~ (c = b /\ s = slot) /\ ~ (c = b /\ t = slot)
        <4>1. Entry(c, s)' = Entry(c, s) /\ Entry(c, t)' = Entry(c, t)
          BY <1>9, <3>1
        <4> QED
          BY <1>1, <2>1, <4>1 DEF OneItemPerTag, Entry
      <3>2. CASE c = b /\ s = slot /\ t # slot
        <4>1. Entry(c, t)' = Entry(c, t) /\ Entry(c, s)'.tag = r.key.tag
          BY <1>9, <1>11, <3>2
        <4> QED
          BY <1>8, <2>1, <3>2, <4>1
      <3>3. CASE c = b /\ t = slot /\ s # slot
        <4>1. Entry(c, s)' = Entry(c, s) /\ Entry(c, t)'.tag = r.key.tag
          BY <1>9, <1>11, <3>3
        <4> QED
          BY <1>8, <2>1, <3>3, <4>1
      <3> QED
        BY <3>1, <3>2, <3>3
    <2>2. \A c \in Buckets, s \in Slots : Entry(c, s)' = item_vec'[c][s]
      BY DEF Entry
    <2>3. \A c \in Buckets : \A s, t \in Slots :
            item_vec'[c][s].tag = item_vec'[c][t].tag /\ item_vec'[c][s].tag # 0 => s = t
      BY <2>1, <2>2
    <2> QED
      BY <2>3 DEF OneItemPerTag, Buckets, Slots
  <1>19. Keeps(pool, S, pool', S, -1)
    BY <1>1, <1>2, KeepsSame
  <1>20. ASSUME NEW s \in Slots PROVE Live(S, b, s)'
    <2>1. CASE s = slot
      <3>1. /\ r.word = r.key.size
            /\ InLog(pool, r.at) =>
                 /\ r.at \in S
                 /\ Word(pool, r.at).item_size = r.key.size
                 /\ r.word >= 1 => KeyAt(pool, r.at) = r.key
                 /\ \A j \in 1 .. r.word-1 : Word(pool, r.at + j).val = r.val
        <4>1. Written(S, l)
          BY DEF Stored, Operations
        <4> QED
          BY <1>2, <1>7, <4>1 DEF Written
      <3>2. r.word >= 1
        BY <1>1, <1>4, <3>1
      <3>3. Entry(b, s)' = new /\ pool' = pool /\ build' = build
        BY <1>2, <1>9, <2>1
      <3> QED
        BY <1>4, <1>10, <1>11, <3>1, <3>2, <3>3 DEF Live
    <2>2. CASE s # slot
      <3>1. Entry(b, s)' = Entry(b, s) /\ Entry(b, s).tag # r.key.tag
        BY <1>4, <1>8, <1>9, <2>2
      <3>2. ~ Replaced(b, s)
        BY <1>1, <1>7, <2>2 DEF Replaced, InHand, Holding, Locks
      <3>3. \A k \in build.keys : k.bucket = b /\ k.tag = Entry(b, s).tag => last'[k] = last[k]
        BY <1>10, <3>1
      <3>4. Entry(b, s).at # -1
        BY <1>1, <1>4, EntryFacts
      <3>5. TiledBy(pool, S) /\ Live(S, b, s) /\ build' = build
        BY <1>2, <1>4 DEF Stored
      <3> QED
        BY <1>4, <1>12, <1>19, <3>1, <3>2, <3>3, <3>4, <3>5, LiveKept
    <2> QED
      BY <2>1, <2>2
  <1>21. Operations(S, l)'
    BY <1>3, <1>7 DEF Operations, Fresh, Written, Found, Copies, Hits, Moves
  <1>22. Stored(S)'
    <2>1. InHand(l) => Bucket(l) = b
      OBVIOUS
    <2>2. b \in Buckets => \A s \in Slots : Live(S, b, s)'
      BY <1>20
    <2>3. \A c \in Buckets, s \in Slots : Entry(c, s).tag # 0 /\ Entry(c, s).at = -1 => c = b
      BY <1>1, EntryFacts
    <2>4. \A m \in Lcores : m # l /\ InHand(m) => req[m].at # -1
      <3>1. \A m \in Lcores : InHand(m) => pc[m] # "idle"
        BY DEF InHand
      <3> QED
        BY <1>1, <3>1, RequestFacts
    <2>5. TiledBy(pool', S)
      BY <1>2 DEF Stored
    <2> QED
      BY <1>12, <1>13, <1>19, <1>21, <2>1, <2>2, <2>3, <2>4, <2>5, StoredKept
  <1> QED
    BY <1>12, <1>14, <1>16, <1>17, <1>18, <1>22 DEF Shape

\* A step that takes the lock of a bucket and gives it back.
LEMMA BucketStep ==
  ASSUME Shape, TableTypeOK', NEW S, Stored(S), NEW l \in Lcores, StepOf(l),
         ~ Holding(l), pc'[l] \in {"idle", "cleanup"},
         NEW b \in Buckets, mehcached_lock_bucket(b), version' = Versions(b, 2),
         \A c \in Buckets : c # b => item_vec'[c] = item_vec[c], Shrinks,
         \A k \in build.keys : k.bucket # b => last'[k] = last[k],
         pool'.tail = pool.tail, plock' = plock, TiledBy(pool', S), NEW w, Keeps(pool, S, pool', S, w),
         \A c \in Buckets, s \in Slots : Entry(c, s).tag # 0 /\ Entry(c, s).at = w => c = b,
         \A m \in Lcores : m # l /\ InHand(m) => req[m].at # w,
         \A s \in Slots : Live(S, b, s)'
  PROVE  Shape' /\ Stored(S)'
  <1>1. TableTypeOK /\ pool.tail \in Nat
    BY DEF Shape, TableTypeOK, IsLog
  <1>2. ~ InHand(l) /\ ~ InHand(l)' /\ ~ Holding(l)' /\ ~ Reading(l)'
    BY DEF InHand, Holding, Reading
  <1>3. version[b] \in Nat /\ (concurrent => version[b] % 2 = 0)
    BY <1>1 DEF TableTypeOK, mehcached_lock_bucket
  <1>4. /\ version' \in [Buckets -> Nat]
        /\ \A c \in Buckets : c # b => version'[c] = version[c]
        /\ version'[b] = version[b] + IF concurrent THEN 2 ELSE 0
        /\ version[b] <= version'[b]
    BY <1>1, VersionsAre
  <1>5. concurrent => version[b] % 2 = 0 /\ version[b] < version'[b]
    BY <1>3, <1>4
  <1>6. Touches(l, b)
    BY <1>4, <1>5, TouchesBucket
  <1>7. Locks'
    BY <1>2, <1>6, LocksKept
  <1>8. pool.tail <= pool'.tail
    BY <1>1
  <1>9. Pointers'
    BY <1>2, <1>6, <1>8, PointersKept
  <1>10. Chosen' /\ OneItemPerTag'
    <2>1. pc'[l] \notin {"set_allocate", "set_write", "set_publish"}
      OBVIOUS
    <2> QED
      BY <1>6, <2>1, ChosenKept
  <1>11. Operations(S, l)'
    BY <1>2 DEF Operations, Fresh, Written, Found, Copies, Hits, Moves
  <1>12. Stored(S)'
    <2>1. InHand(l) => Bucket(l) = b
      BY <1>2
    <2> QED
      BY <1>6, <1>11, <2>1, StoredKept
  <1> QED
    BY <1>7, <1>9, <1>10, <1>12 DEF Shape

\* Entries are removed, and no value of a key that is still there changes.
LEMMA EntriesRemoved ==
  ASSUME Shape, NEW S, Stored(S), NEW l \in Lcores, StepOf(l),
         ~ Holding(l), pc'[l] \in {"idle", "cleanup"}, pc'[l] # "idle" => IsRequest(req'[l]),
         NEW b \in Buckets, mehcached_lock_bucket(b), version' = Versions(b, 2),
         item_vec' \in [Buckets -> [Slots -> [tag : Tags, offset : Nat, at : Nat]]],
         \A c \in Buckets : c # b => item_vec'[c] = item_vec[c], Shrinks,
         UNCHANGED <<pool, plock, result>>, DOMAIN last' = DOMAIN last,
         \A k \in build.keys : last'[k] = last[k] \/ (k.bucket = b /\ \A s \in Slots : Entry(b, s)'.tag # k.tag)
  PROVE  Shape' /\ Stored(S)'
  <1>1. TableTypeOK /\ build' = build /\ TiledBy(pool, S)
    BY DEF Shape, StepOf, Stored
  <1>2. version' \in [Buckets -> Nat]
    BY <1>1, VersionsAre
  <1>3. TableTypeOK'
    <2>1. IsLog(pool') /\ pool'.size = pool.size /\ DOMAIN result' = DOMAIN result
      BY <1>1 DEF TableTypeOK
    <2> QED
      BY <1>1, <1>2, <2>1, TypeKept
  <1>4. Keeps(pool, S, pool', S, -1)
    BY <1>1, KeepsSame
  <1>5. \A c \in Buckets, s \in Slots : Entry(c, s).at # -1
    BY <1>1, EntryFacts
  <1>6. \A m \in Lcores : InHand(m) => req[m].at # -1 /\ m # l /\ pc[m] # "idle"
    <2>1. \A m \in Lcores : InHand(m) => m # l /\ pc[m] # "idle"
      BY DEF InHand, Holding
    <2> QED
      BY <1>1, <2>1, RequestFacts
  <1>7. ASSUME NEW s \in Slots PROVE Live(S, b, s)'
    <2>1. CASE Entry(b, s)'.tag = 0
      BY <2>1, Zenon DEF Live
    <2>2. CASE Entry(b, s)'.tag # 0
      <3>1. Entry(b, s)' = Entry(b, s)
        <4>1. Entry(b, s)' = Entry(b, s) \/ Entry(b, s)' = Empty
          BY DEF Shrinks
        <4> QED
          BY <2>2, <4>1 DEF Empty
      <3>2. Replaced(b, s) => Replaced(b, s)'
        <4>1. ASSUME NEW m \in Lcores, InHand(m), Bucket(m) = b, req[m].slot = s PROVE Replaced(b, s)'
          <5>1. pc'[m] = pc[m] /\ req'[m] = req[m] /\ Lcores' = Lcores
            BY <1>1, <1>6, <4>1 DEF StepOf, Lcores
          <5> QED
            BY <4>1, <5>1 DEF Replaced, InHand, Bucket
        <4> QED
          BY <4>1 DEF Replaced
      <3>3. \A k \in build.keys : k.bucket = b /\ k.tag = Entry(b, s).tag => last'[k] = last[k]
        BY <3>1
      <3>4. Live(S, b, s)
        BY DEF Stored
      <3>5. Entry(b, s).tag # 0 => Entry(b, s).at # -1
        BY <1>5
      <3> QED
        BY <1>1, <1>3, <1>4, <3>1, <3>2, <3>3, <3>4, <3>5, LiveKept
    <2> QED
      BY <2>1, <2>2
  <1>8. /\ \A k \in build.keys : k.bucket # b => last'[k] = last[k]
        /\ \A c \in Buckets, s \in Slots : Entry(c, s).tag # 0 /\ Entry(c, s).at = -1 => c = b
        /\ \A m \in Lcores : m # l /\ InHand(m) => req[m].at # -1
        /\ pool'.tail = pool.tail /\ plock' = plock /\ TiledBy(pool', S)
    BY <1>1, <1>5, <1>6
  <1>9. \A s \in Slots : Live(S, b, s)'
    BY <1>7
  <1> QED
    BY ZenonT(40), <1>3, <1>4, <1>8, <1>9, BucketStep

LEMMA CleanupKept ==
  ASSUME Shape, NEW S, Stored(S), NEW l \in Lcores, mehcached_cleanup_bucket(l)
  PROVE  Shape' /\ Stored(S)'
  <1> PICK b : b = bucket_index(req[l].from)
    OBVIOUS
  <1>1. /\ TableTypeOK /\ DOMAIN req = Lcores /\ pc \in [Lcores -> Places]
        /\ item_vec \in [Buckets -> [Slots -> [tag : Tags, offset : Nat, at : Nat]]]
    BY DEF Shape, TableTypeOK
  <1>2. /\ pc[l] = "cleanup" /\ mehcached_lock_bucket(b)
        /\ item_vec' = [item_vec EXCEPT ![b] = Cleaned(@)]
        /\ version' = Versions(b, 2)
        /\ req' = [req EXCEPT ![l].from = (b + 1) * 2^rshift]
        /\ UNCHANGED <<build, pool, plock, pc, last, result>>
    BY DEF mehcached_cleanup_bucket
  <1>3. IsRequest(req[l]) /\ DOMAIN req[l] = Fields
    BY <1>1, <1>2, RequestFacts DEF TableTypeOK
  <1>4. /\ DOMAIN req' = Lcores /\ \A m \in Lcores : m # l => req'[m] = req[m]
        /\ DOMAIN req'[l] = Fields /\ req'[l].key = req[l].key /\ req'[l].slot = req[l].slot
        /\ req'[l].found = req[l].found /\ req'[l].version = req[l].version
        /\ req'[l].at = req[l].at /\ req'[l].word = req[l].word
    BY <1>1, <1>2, <1>3 DEF Fields
  <1>5. IsRequest(req'[l])
    BY <1>3, <1>4 DEF IsRequest
  <1>6. StepOf(l)
    BY <1>1, <1>2, <1>4 DEF StepOf
  <1>7. ~ Holding(l) /\ ~ InHand(l) /\ pc'[l] = "cleanup"
    BY <1>2 DEF Holding, InHand
  <1>8. CASE b \in Buckets
    <2>1. \A s \in Slots : \/ Cleaned(item_vec[b])[s] = item_vec[b][s]
                           \/ Cleaned(item_vec[b])[s] = Empty
      BY DEF Cleaned
    <2>2. Empty \in [tag : Tags, offset : Nat, at : Nat]
      BY DEF Empty, Tags
    <2>3. \A s \in Slots : item_vec[b][s] \in [tag : Tags, offset : Nat, at : Nat]
      BY <1>1, <1>8
    <2>4. Cleaned(item_vec[b]) = [s \in Slots |-> Cleaned(item_vec[b])[s]]
      BY DEF Cleaned
    <2>5. Cleaned(item_vec[b]) \in [Slots -> [tag : Tags, offset : Nat, at : Nat]]
      <3>1. \A s \in Slots : Cleaned(item_vec[b])[s] \in [tag : Tags, offset : Nat, at : Nat]
        BY <2>1, <2>2, <2>3
      <3> QED
        BY <2>4, <3>1
    <2>6. /\ item_vec' \in [Buckets -> [Slots -> [tag : Tags, offset : Nat, at : Nat]]]
          /\ \A c \in Buckets : c # b => item_vec'[c] = item_vec[c]
          /\ item_vec'[b] = Cleaned(item_vec[b])
      BY <1>1, <1>2, <1>8, <2>5
    <2>7. Shrinks
      BY <2>1, <2>6 DEF Shrinks, Entry
    <2> QED
      BY <1>2, <1>5, <1>6, <1>7, <1>8, <2>6, <2>7, EntriesRemoved
  <1>9. CASE b \notin Buckets
    <2>1. item_vec' = item_vec
      BY <1>1, <1>2, <1>9
    <2>2. version' = version
      <3>1. version \in [Buckets -> Nat]
        BY <1>1 DEF TableTypeOK
      <3> QED
        BY <1>2, <1>9, <3>1 DEF Versions
    <2>3. ~ Holding(l)' /\ ~ Reading(l)'
      BY <1>7 DEF Holding, Reading
    <2>4. Fresh(l)' /\ Copies(l)' /\ Hits(l)' /\ Moves(l)' /\ pc'[l] # "move_to_head"
      BY <1>7 DEF Fresh, Copies, Hits, Moves
    <2>5. UNCHANGED <<version, item_vec, pool, plock, last>> /\ DOMAIN result' = DOMAIN result
      BY <1>2, <2>1, <2>2
    <2> QED
      BY <1>5, <1>6, <1>7, <2>3, <2>4, <2>5, Aside
  <1> QED
    BY <1>8, <1>9

\* An entry that is taken out of its bucket.
LEMMA EntryCleared ==
  ASSUME TableTypeOK, NEW b \in Buckets, NEW s \in Slots, item_vec' = [item_vec EXCEPT ![b][s] = Empty]
  PROVE  /\ item_vec' \in [Buckets -> [Slots -> [tag : Tags, offset : Nat, at : Nat]]]
         /\ \A c \in Buckets : c # b => item_vec'[c] = item_vec[c]
         /\ \A t \in Slots : t # s => Entry(b, t)' = Entry(b, t)
         /\ Entry(b, s)' = Empty
         /\ Shrinks
  <1>1. item_vec \in [Buckets -> [Slots -> [tag : Tags, offset : Nat, at : Nat]]]
    BY DEF TableTypeOK
  <1>2. Empty \in [tag : Tags, offset : Nat, at : Nat]
    BY DEF Empty, Tags
  <1> HIDE DEF Empty
  <1>3. /\ item_vec' \in [Buckets -> [Slots -> [tag : Tags, offset : Nat, at : Nat]]]
        /\ \A c \in Buckets : c # b => item_vec'[c] = item_vec[c]
        /\ \A t \in Slots : t # s => item_vec'[b][t] = item_vec[b][t]
        /\ item_vec'[b][s] = Empty
    BY <1>1, <1>2
  <1> QED
    BY <1>3 DEF Shrinks, Entry

LEMMA RemoveStaleKept ==
  ASSUME Shape, NEW S, Stored(S), NEW l \in Lcores, RemoveStale(l)
  PROVE  Shape' /\ Stored(S)'
  <1> PICK b, s : b = Bucket(l) /\ s = req[l].slot
    OBVIOUS
  <1>1. TableTypeOK /\ DOMAIN req = Lcores /\ "cleanup" \in Places
    BY DEF Shape, TableTypeOK, Places
  <1>2. /\ pc[l] = "remove" /\ Goto(l, "cleanup") /\ mehcached_lock_bucket(b)
        /\ item_vec' = [item_vec EXCEPT ![b][s] = Empty]
        /\ version' = Versions(b, 2)
        /\ UNCHANGED <<build, pool, plock, req, last, result>>
    BY DEF RemoveStale, Bucket
  <1>3. /\ pc' \in [Lcores -> Places] /\ pc'[l] = "cleanup"
        /\ \A m \in Lcores : m # l => pc'[m] = pc[m]
    BY <1>1, <1>2, GoesTo
  <1>4. IsRequest(req'[l]) /\ b \in Buckets /\ s \in Slots
    BY <1>1, <1>2, RequestFacts DEF TableTypeOK
  <1>5. StepOf(l) /\ ~ Holding(l)
    BY <1>1, <1>2, <1>3 DEF StepOf, Holding
  <1>6. /\ item_vec' \in [Buckets -> [Slots -> [tag : Tags, offset : Nat, at : Nat]]]
        /\ \A c \in Buckets : c # b => item_vec'[c] = item_vec[c]
        /\ Shrinks
    BY <1>1, <1>2, <1>4, EntryCleared
  <1>7. UNCHANGED <<pool, plock, result>> /\ DOMAIN last' = DOMAIN last /\ \A k \in build.keys : last'[k] = last[k]
    BY <1>2
  <1> QED
    BY <1>2, <1>3, <1>4, <1>5, <1>6, <1>7, EntriesRemoved

LEMMA DeleteKept ==
  ASSUME Shape, NEW S, Stored(S), NEW l \in Lcores, NEW key \in build.keys, NEW pad, Delete(l, key, pad)
  PROVE  Shape' /\ Stored(S)'
  <1> PICK b, s : b = key.bucket /\ s = mehcached_find_item_index(key.bucket, key, pad)
    OBVIOUS
  <1>1. TableTypeOK /\ OneItemPerTag /\ DOMAIN req = Lcores /\ pc \in [Lcores -> Places] /\ DOMAIN last = build.keys
    BY DEF Shape, TableTypeOK
  <1>2. /\ pc[l] = "idle" /\ mehcached_lock_bucket(b) /\ s # ItemsPerBucket
        /\ item_vec' = [item_vec EXCEPT ![b][s] = Empty]
        /\ version' = Versions(b, 2)
        /\ last' = [last EXCEPT ![key] = None]
        /\ UNCHANGED <<build, pool, plock, pc, req, result>>
    BY DEF Delete, Library
  <1>3. b \in Buckets /\ key.tag # 0
    BY <1>1, BuildFacts
  <1>4. s \in Slots /\ Entry(b, s).tag = key.tag
    BY <1>1, <1>2, <1>3, FindFacts
  <1>5. StepOf(l) /\ ~ Holding(l)
    BY <1>1, <1>2 DEF StepOf, Holding
  <1>6. /\ item_vec' \in [Buckets -> [Slots -> [tag : Tags, offset : Nat, at : Nat]]]
        /\ \A c \in Buckets : c # b => item_vec'[c] = item_vec[c]
        /\ \A t \in Slots : t # s => Entry(b, t)' = Entry(b, t)
        /\ Entry(b, s)' = Empty
        /\ Shrinks
    BY <1>1, <1>2, <1>3, <1>4, EntryCleared
  <1>7. DOMAIN last' = DOMAIN last /\ \A k \in build.keys : k # key => last'[k] = last[k]
    BY <1>1, <1>2
  <1>8. \A t \in Slots : Entry(b, t)'.tag # key.tag
    <2>1. ASSUME NEW t \in Slots, t # s PROVE Entry(b, t)'.tag # key.tag
      <3>1. Entry(b, t).tag # key.tag
        BY <1>1, <1>3, <1>4, <2>1 DEF OneItemPerTag, Entry
      <3> QED
        BY <1>6, <2>1, <3>1
    <2>2. Entry(b, s)'.tag # key.tag
      BY <1>3, <1>6 DEF Empty
    <2> QED
      BY <2>1, <2>2
  <1>9. \A k \in build.keys : last'[k] = last[k] \/ (k.bucket = b /\ \A t \in Slots : Entry(b, t)'.tag # k.tag)
    BY <1>7, <1>8
  <1>10. UNCHANGED <<pool, plock, result>> /\ pc'[l] = "idle"
    BY <1>2
  <1> QED
    BY <1>2, <1>3, <1>5, <1>6, <1>7, <1>9, <1>10, EntriesRemoved

LEMMA IncrementKept ==
  ASSUME Shape, NoItemRevives, NEW S, Stored(S), NEW l \in Lcores, NEW key \in build.keys, NEW pad,
         Increment(l, key, pad)
  PROVE  Shape' /\ Stored(S)'
  <1> PICK b, s : b = key.bucket /\ s = mehcached_find_item_index(key.bucket, key, pad)
    OBVIOUS
  <1> PICK w, new : /\ w = Entry(b, s).at
                    /\ new = [mehcached_pool_item(pool, Entry(b, s).offset + 1).val EXCEPT !.n = @ + 1]
    OBVIOUS
  <1>1. /\ TableTypeOK /\ OneItemPerTag /\ Pointers /\ Locks /\ IsLog(pool) /\ TiledBy(pool, S)
        /\ DOMAIN req = Lcores /\ pc \in [Lcores -> Places] /\ DOMAIN last = build.keys
        /\ pool.tail \in Nat /\ pool.size \in Nat \ {0}
    BY DEF Shape, TableTypeOK, IsLog, Stored
  <1>2. /\ pc[l] = "idle" /\ mehcached_lock_bucket(b) /\ s # ItemsPerBucket /\ mehcached_pool_lock
        /\ mehcached_pool_is_valid(pool, Entry(b, s).offset) /\ key.size = 2
        /\ pool' = WriteValue(pool, Entry(b, s).offset, 1, new)
        /\ version' = Versions(b, 2)
        /\ last' = [last EXCEPT ![key] = new]
        /\ UNCHANGED <<build, item_vec, plock, pc, req, result>>
    BY DEF Increment, Library, Entry
  <1>3. b \in Buckets /\ key.tag # 0 /\ Span \in Nat \ {0} /\ Span % pool.size = 0
    BY <1>1, BuildFacts
  <1>4. /\ s \in Slots /\ Entry(b, s).tag = key.tag
        /\ Entry(b, s).offset = Entry(b, s).at % Span => KeyAt(pool, Entry(b, s).at) = key
    BY <1>1, <1>2, <1>3, FindFacts
  <1>5. w \in Nat /\ w < pool.tail /\ Entry(b, s).offset = w % Span /\ KeyAt(pool, w) = key
    BY <1>1, <1>3, <1>4, EntryFacts DEF Pointers
  <1>6. InLog(pool, w)
    <2>1. Entry(b, s) # Empty
      BY <1>3, <1>4 DEF Empty
    <2> QED
      BY <1>2, <1>3, <1>4, <2>1 DEF NoItemRevives, Entry, InLog
  <1>7. w \in S /\ Word(pool, w).item_size = 2
    <2>1. Live(S, b, s)
      BY <1>3, <1>4 DEF Stored
    <2> QED
      BY <1>2, <1>3, <1>4, <1>5, <1>6, <2>1 DEF Live
  <1>8. /\ IsLog(pool') /\ pool'.size = pool.size /\ pool'.tail = pool.tail
        /\ TiledBy(pool', S) /\ Keeps(pool, S, pool', S, w)
        /\ Word(pool', w) = Word(pool, w) /\ Word(pool', w + 1).val = new
    <2>1. PICK k \in 1 .. Word(pool, w).item_size-1 : k = 1
      BY <1>7
    <2>2. pool' = WriteValue(pool, w % Span, k, new)
      BY <1>2, <1>5, <2>1
    <2>3. IsLog(pool) /\ TiledBy(pool, S) /\ w \in S /\ w < pool.tail
      BY <1>1, <1>5, <1>7
    <2>4. /\ IsLog(pool') /\ pool'.size = pool.size /\ pool'.tail = pool.tail
          /\ TiledBy(pool', S) /\ Keeps(pool, S, pool', S, w)
          /\ Word(pool', w) = Word(pool, w) /\ Word(pool', w + k).val = new
      BY <1>3, <2>2, <2>3, WroteValue
    <2> QED
      BY <2>1, <2>4
  <1>9. StepOf(l) /\ ~ Holding(l)
    BY <1>1, <1>2 DEF StepOf, Holding
  <1>10. TableTypeOK'
    <2>1. version' \in [Buckets -> Nat]
      BY <1>1, <1>2, <1>3, VersionsAre
    <2>2. /\ item_vec' \in [Buckets -> [Slots -> [tag : Tags, offset : Nat, at : Nat]]]
          /\ DOMAIN last' = DOMAIN last /\ DOMAIN result' = DOMAIN result /\ pc'[l] = "idle"
      BY <1>1, <1>2 DEF TableTypeOK
    <2> QED
      BY <1>1, <1>8, <1>9, <2>1, <2>2, TypeKept
  <1>11. /\ last'[key] = new /\ \A k \in build.keys : k # key => last'[k] = last[k]
         /\ \A c \in Buckets, t \in Slots : Entry(c, t)' = Entry(c, t)
    BY <1>1, <1>2 DEF Entry
  <1>12. \A c \in Buckets, t \in Slots : Entry(c, t).tag # 0 /\ Entry(c, t).at = w => c = b /\ t = s
    BY <1>1, <1>3, <1>4 DEF Pointers
  <1>13. \A m \in Lcores : m # l /\ InHand(m) => req[m].at # w
    <2>1. SUFFICES ASSUME NEW m \in Lcores, m # l, InHand(m), req[m].at = w PROVE FALSE
      OBVIOUS
    <2>2. b = Bucket(m) /\ Holding(m)
      BY <1>1, <1>3, <1>4, <2>1 DEF Pointers, InHand, Holding
    <2>3. concurrent
      BY <1>1, <2>1, Alone
    <2> QED
      BY <1>1, <1>2, <2>2, <2>3 DEF Locks, mehcached_lock_bucket
  <1>14. ASSUME NEW t \in Slots PROVE Live(S, b, t)'
    <2>1. CASE t = s
      <3>1. Entry(b, s)' = Entry(b, s) /\ build' = build
        BY <1>2, <1>3, <1>4, <1>11
      <3>2. KeyAt(pool', w) = key
        BY <1>5, <1>8 DEF KeyAt
      <3>3. \A j \in 1 .. key.size-1 : Word(pool', w + j).val = last'[key]
        <4>1. \A j \in 1 .. key.size-1 : j = 1
          BY <1>2
        <4> QED
          BY <1>8, <1>11, <4>1
      <3>4. w \in S /\ Word(pool', w).item_size = key.size
        BY <1>2, <1>7, <1>8
      <3>5. Entry(b, t)'.at = w /\ Entry(b, t)'.tag = key.tag /\ key \in build'.keys /\ key.bucket = b
        BY <1>4, <2>1, <3>1
      <3> QED
        BY <3>2, <3>3, <3>4, <3>5 DEF Live
    <2>2. CASE t # s
      <3>1. Entry(b, t)' = Entry(b, t) /\ Entry(b, t).tag # key.tag
        <4>1. \A x, y \in Slots : Entry(b, x).tag = Entry(b, y).tag /\ Entry(b, x).tag # 0 => x = y
          BY <1>1, <1>3 DEF OneItemPerTag, Entry
        <4> QED
          BY <1>3, <1>4, <1>11, <2>2, <4>1
      <3>2. Entry(b, t).tag # 0 => Entry(b, t).at # w
        BY <1>3, <1>12, <2>2
      <3>3. Replaced(b, t) => Replaced(b, t)'
        BY <1>2 DEF Replaced, InHand, Bucket, Lcores
      <3>4. \A k \in build.keys : k.bucket = b /\ k.tag = Entry(b, t).tag => last'[k] = last[k]
        BY <1>11, <3>1
      <3>5. Live(S, b, t) /\ build' = build
        BY <1>2, <1>3 DEF Stored
      <3> QED
        BY <1>1, <1>3, <1>8, <1>10, <3>1, <3>2, <3>3, <3>4, <3>5, LiveKept
    <2> QED
      BY <2>1, <2>2
  <1>15. /\ \A c \in Buckets : c # b => item_vec'[c] = item_vec[c]
         /\ \A k \in build.keys : k.bucket # b => last'[k] = last[k]
         /\ plock' = plock /\ pc'[l] = "idle" /\ Shrinks
    BY <1>2, <1>11 DEF Shrinks
  <1>16. \A c \in Buckets, t \in Slots : Entry(c, t).tag # 0 /\ Entry(c, t).at = w => c = b
    BY <1>12
  <1>17. \A t \in Slots : Live(S, b, t)'
    BY <1>14
  <1>18. pc'[l] \in {"idle", "cleanup"} /\ pool'.tail = pool.tail
    BY <1>8, <1>15
  <1> QED
    <2>1. mehcached_lock_bucket(b) /\ version' = Versions(b, 2) /\ b \in Buckets
      BY <1>2, <1>3
    <2>2. TiledBy(pool', S) /\ Keeps(pool, S, pool', S, w)
      BY <1>8
    <2> QED
      BY <1>9, <1>10, <1>13, <1>15, <1>16, <1>17, <1>18, <2>1, <2>2, BucketStep

\* A step that changes nothing that the invariant is about.
LEMMA StillKept ==
  ASSUME StoreInv, UNCHANGED <<build, version, item_vec, pool, plock, pc, req, last, result>>
  PROVE  StoreInv'
  <1>1. Lcores' = Lcores /\ concurrent' = concurrent /\ Tags' = Tags
    BY DEF Lcores, concurrent, Tags
  <1>2. TableTypeOK'
    BY <1>1 DEF StoreInv, Shape, TableTypeOK, Buckets, Slots, IsRequest
  <1>3. Locks'
    BY <1>1 DEF StoreInv, Shape, Locks, Holding, Reading, Bucket
  <1>4. Pointers'
    BY <1>1 DEF StoreInv, Shape, Pointers, InHand, Bucket, Entry, Buckets, Slots
  <1>5. Chosen' /\ OneItemPerTag'
    BY <1>1 DEF StoreInv, Shape, Chosen, OneItemPerTag, Bucket, Entry, Buckets, Slots
  <1>6. GetReturnsLastSet'
    BY <1>1 DEF StoreInv, GetReturnsLastSet
  <1>7. PICK S \in SUBSET (pool.head .. pool.tail) : Stored(S)
    BY DEF StoreInv
  <1>8. Stored(S)'
    <2>1. ASSUME NEW b \in Buckets, NEW s \in Slots PROVE Live(S, b, s)'
      <3>1. Live(S, b, s)
        BY <1>7 DEF Stored
      <3>2. Replaced(b, s)' <=> Replaced(b, s)
        BY <1>1 DEF Replaced, InHand, Bucket
      <3> QED
        BY <3>1, <3>2 DEF Live, Entry
    <2>2. ASSUME NEW l \in Lcores PROVE Operations(S, l)'
      <3>1. Operations(S, l)
        BY <1>7 DEF Stored
      <3>2. VersionMoved(l)' <=> VersionMoved(l)
        BY DEF VersionMoved
      <3>3. /\ InHand(l)' <=> InHand(l)
            /\ Bucket(l)' = Bucket(l) /\ Entry(Bucket(l), req[l].slot)' = Entry(Bucket(l), req[l].slot)
        BY DEF InHand, Bucket, Entry
      <3>4. Fresh(l)' /\ Written(S, l)' /\ Found(l)'
        BY <3>1, <3>3 DEF Operations, Fresh, Written, Found
      <3>5. Copies(l)' /\ Hits(l)' /\ Moves(l)'
        BY <1>1, <3>1, <3>2, <3>3 DEF Operations, Copies, Hits, Moves
      <3> QED
        BY <3>4, <3>5 DEF Operations
    <2>3. TiledBy(pool', S)
      BY <1>7 DEF Stored
    <2> QED
      BY <1>1, <2>1, <2>2, <2>3 DEF Stored, Buckets, Slots
  <1> QED
    BY <1>2, <1>3, <1>4, <1>5, <1>6, <1>7, <1>8 DEF StoreInv, Shape

\* A table with nothing in it.
LEMMA NothingStored ==
  ASSUME TableTypeOK, \A l \in Lcores : pc[l] = "idle", \A b \in Buckets, s \in Slots : Entry(b, s) = Empty,
         pool.head = 0, pool.tail = 0
  PROVE  Shape /\ Stored({0})
  <1>1. Empty.tag = 0 /\ pool.size \in Nat
    BY BuildFacts DEF Empty
  <1>2. \A l \in Lcores : ~ Holding(l) /\ ~ InHand(l) /\ ~ Reading(l) /\ pc[l] # "move_to_head"
    BY DEF Holding, InHand, Reading
  <1>3. Locks
    BY <1>2 DEF Locks, InHand
  <1>4. Pointers
    BY <1>1, <1>2 DEF Pointers
  <1>5. Chosen
    BY DEF Chosen
  <1>6. OneItemPerTag
    BY <1>1 DEF OneItemPerTag, Entry
  <1>7. TiledBy(pool, {0})
    BY <1>1 DEF TiledBy
  <1>8. \A b \in Buckets, s \in Slots : Live({0}, b, s)
    BY <1>1, Zenon DEF Live
  <1>9. \A l \in Lcores : Operations({0}, l)
    <2>1. ASSUME NEW l \in Lcores PROVE Operations({0}, l)
      <3>1. pc[l] = "idle" /\ ~ InHand(l)
        BY <1>2
      <3> QED
        BY <3>1 DEF Operations, Fresh, Written, Found, Copies, Hits, Moves
    <2> QED
      BY <2>1
  <1> QED
    BY <1>3, <1>4, <1>5, <1>6, <1>7, <1>8, <1>9 DEF Shape, Stored

LEMMA TableInit ==
  ASSUME Init
  PROVE  StoreInv
  <1>1. build \in Builds /\ build.pool_size \in Nat \ {0}
    BY MicaTableAssumption DEF Init
  <1>2. pool = mehcached_pool_init(build.pool_size)
    BY DEF Init
  <1>3. IsLog(pool) /\ pool.size = build.pool_size /\ pool.head = 0 /\ pool.tail = 0
    <2>1. /\ pool = [size |-> pool.size, head |-> pool.head, tail |-> pool.tail, data |-> pool.data]
          /\ pool.size = build.pool_size /\ pool.head = 0 /\ pool.tail = 0
          /\ pool.data = [i \in 0 .. build.pool_size-1 |-> Blank]
      BY <1>2 DEF mehcached_pool_init
    <2>2. \A i \in 0 .. pool.size-1 : DOMAIN pool.data[i] = WordFields /\ pool.data[i].item_size \in Nat
      BY <2>1 DEF Blank, WordFields
    <2>3. pool.data = [i \in 0 .. pool.size-1 |-> pool.data[i]]
      BY <2>1
    <2> QED
      BY <1>1, <2>1, <2>2, <2>3 DEF IsLog
  <1>4. TableTypeOK
    <2>1. version \in [Buckets -> Nat] /\ pc \in [Lcores -> Places] /\ DOMAIN req = Lcores
      BY DEF Init, Places
    <2>2. item_vec \in [Buckets -> [Slots -> [tag : Tags, offset : Nat, at : Nat]]]
      BY DEF Init, Empty, Tags
    <2>3. \A l \in Lcores : pc[l] = "idle"
      BY DEF Init
    <2>4. DOMAIN last = build.keys /\ DOMAIN result = Lcores
      BY DEF Init
    <2> QED
      BY <1>1, <1>3, <2>1, <2>2, <2>3, <2>4 DEF TableTypeOK
  <1>5. /\ \A l \in Lcores : pc[l] = "idle"
        /\ \A b \in Buckets, s \in Slots : Entry(b, s) = Empty
    BY DEF Init, Entry
  <1>6. Shape /\ Stored({0})
    BY <1>3, <1>4, <1>5, NothingStored
  <1>7. GetReturnsLastSet
    BY DEF Init, GetReturnsLastSet
  <1>8. {0} \in SUBSET (pool.head .. pool.tail)
    BY <1>3
  <1> QED
    BY <1>6, <1>7, <1>8 DEF StoreInv

LEMMA FreeKept ==
  ASSUME StoreInv, Free
  PROVE  StoreInv'
  <1>1. TableTypeOK /\ IsLog(pool) /\ GetReturnsLastSet
    BY DEF StoreInv, Shape, TableTypeOK
  <1>2. /\ \A l \in Lcores : pc[l] = "idle"
        /\ version' = [b \in Buckets |-> 0]
        /\ item_vec' = [b \in Buckets |-> [s \in Slots |-> Empty]]
        /\ pool' = [pool EXCEPT !.head = 0, !.tail = 0]
        /\ UNCHANGED <<build, pc, req, last, result>>
    BY DEF Free, mehcached_pool_reset
  <1>3. Lcores' = Lcores /\ Tags' = Tags
    BY <1>2 DEF Lcores, Tags
  <1>4. /\ pool'.size = pool.size /\ pool'.head = 0 /\ pool'.tail = 0 /\ pool'.data = pool.data
        /\ pool' = [size |-> pool'.size, head |-> pool'.head, tail |-> pool'.tail, data |-> pool'.data]
    <2>1. pool = [size |-> pool.size, head |-> pool.head, tail |-> pool.tail, data |-> pool.data]
      BY <1>1 DEF IsLog
    <2> QED
      BY <1>2, <2>1
  <1>5. IsLog(pool')
    BY <1>1, <1>4 DEF IsLog
  <1>6. item_vec' \in [Buckets -> [Slots -> [tag : Tags, offset : Nat, at : Nat]]]
    BY <1>2 DEF Empty, Tags
  <1>7. TableTypeOK'
    BY <1>1, <1>2, <1>3, <1>4, <1>5, <1>6 DEF TableTypeOK, Buckets, Slots
  <1>8. \A b \in Buckets, s \in Slots : Entry(b, s)' = Empty
    BY <1>2 DEF Entry
  <1>9. Shape' /\ Stored({0})'
    <2>1. /\ \A l \in Lcores' : pc'[l] = "idle"
          /\ \A b \in Buckets', s \in Slots' : Entry(b, s)' = Empty'
          /\ pool'.head = 0 /\ pool'.tail = 0
      BY <1>2, <1>3, <1>4, <1>8 DEF Buckets, Slots, Empty
    <2>2. /\ Empty.tag = 0 /\ pool'.size \in Nat /\ Lcores' = Lcores
      BY <1>3, <1>5 DEF Empty, IsLog
    <2>3. \A l \in Lcores : /\ ~ Holding(l)' /\ ~ InHand(l)' /\ ~ Reading(l)' /\ pc'[l] = "idle"
      BY <1>2 DEF Holding, InHand, Reading
    <2>4. Locks'
      BY <2>2, <2>3 DEF Locks, InHand
    <2>5. Pointers'
      BY <1>8, <2>2, <2>3 DEF Pointers, Buckets, Slots
    <2>6. Chosen'
      BY <2>2, <2>3 DEF Chosen
    <2>7. OneItemPerTag'
      BY <1>8, <2>2 DEF OneItemPerTag, Entry, Buckets, Slots
    <2>8. TiledBy(pool', {0})
      BY <1>4, <2>2 DEF TiledBy
    <2>9. \A b \in Buckets, s \in Slots : Live({0}, b, s)'
      BY <1>8, <2>2, Zenon DEF Live
    <2>10. \A l \in Lcores : Operations({0}, l)'
      BY <2>3 DEF Operations, Fresh, Written, Found, Copies, Hits, Moves
    <2> QED
      BY <1>7, <2>2, <2>4, <2>5, <2>6, <2>7, <2>8, <2>9, <2>10 DEF Shape, Stored, Buckets, Slots
  <1>10. GetReturnsLastSet'
    BY <1>1, <1>2, <1>3 DEF GetReturnsLastSet
  <1>11. {0} \in SUBSET (pool'.head .. pool'.tail)
    BY <1>4
  <1> QED
    BY <1>9, <1>10, <1>11 DEF StoreInv

\* An item of the log is copied to the tail, and its vector points there, or
\* making room for it costs it its place and only the vector is left.
Relocates(S, T, l) ==
  LET b == Bucket(l)
      k == req[l].key
      t == pool.tail
  IN  /\ IsLog(pool') /\ pool'.size = pool.size /\ t < pool'.tail
      /\ TiledBy(pool', T) /\ Keeps(pool, S, pool', T, -1)
      /\ \/ item_vec' = item_vec
         \/ /\ item_vec' = [item_vec EXCEPT ![b][req[l].slot].offset = t % Span, ![b][req[l].slot].at = t]
            /\ t \in T /\ KeyAt(pool', t) = k
            /\ Word(pool', t).item_size = k.size
            /\ \A j \in 1 .. k.size-1 : Word(pool', t + j).val = last[k]

LEMMA ItemMoved ==
  ASSUME Shape, NEW S, Stored(S), NEW l \in Lcores, MoveToHead(l)
  PROVE  \E T : Relocates(S, T, l)
  <1> PICK b, s : b = Bucket(l) /\ s = req[l].slot
    OBVIOUS
  <1> PICK a : a = Entry(b, s).at
    OBVIOUS
  <1> DEFINE k == req[l].key
  <1> PICK t : t = pool.tail
    OBVIOUS
  <1> PICK n : n = k.size
    OBVIOUS
  <1>1. /\ TableTypeOK /\ Pointers /\ IsLog(pool) /\ TiledBy(pool, S) /\ Locks
        /\ t \in Nat /\ pool.size \in Nat \ {0} /\ pc[l] = "move_to_head" /\ ~ concurrent
    BY DEF Shape, TableTypeOK, IsLog, Stored, MoveToHead, Locks
  <1>2. b \in Buckets /\ s \in Slots /\ k \in build.keys /\ k.tag # 0 /\ n \in 2 .. pool.size
    BY <1>1, RequestFacts
  <1>3. /\ Entry(b, s).tag = k.tag /\ Entry(b, s).offset = req[l].offset
        /\ InLog(pool, a) /\ KeyAt(pool, a) = k
    <2>1. Moves(l)
      BY DEF Stored, Operations
    <2> QED
      BY <1>1, <2>1 DEF Moves
  <1>4. a \in Nat /\ a < t /\ req[l].offset = a % Span
    BY <1>1, <1>2, <1>3, EntryFacts DEF Pointers
  <1>5. a \in S /\ Word(pool, a).item_size = n /\ \A j \in 1 .. n-1 : Word(pool, a + j).val = last[k]
    <2>1. Live(S, b, s)
      BY <1>2 DEF Stored
    <2>2. ~ Replaced(b, s)
      <3>1. SUFFICES ASSUME NEW m \in Lcores, InHand(m) PROVE FALSE
        BY DEF Replaced
      <3>2. m # l
        BY <1>1, <3>1 DEF InHand
      <3> QED
        BY <1>1, <3>2, Alone
    <2> QED
      BY <1>2, <1>3, <2>1, <2>2 DEF Live
  <1>6. n \in 1 .. pool.size
    BY <1>1, <1>2
  <1>7. PICK q, T :
          /\ q = mehcached_pool_push_tail(pool, n)
          /\ IsLog(q) /\ q.size = pool.size /\ q.tail = t + n
          /\ T \in SUBSET (q.head .. q.tail) /\ TiledBy(q, T)
          /\ t \in T /\ Word(q, t).item_size = n
          /\ \A w : Keeps(pool, S, q, T, w)
    BY <1>1, <1>6, Pushed
  <1>8. /\ Span \in Nat \ {0} /\ 4 * pool.size <= Span /\ Span % pool.size = 0
    BY <1>1, BuildFacts
  <1>9. IF mehcached_pool_is_valid(q, a % Span)
          THEN /\ pool' = Copied(q, a % Span, t % Span, n)
               /\ item_vec' = [item_vec EXCEPT ![b][s].offset = t % Span, ![b][s].at = t]
          ELSE pool' = q /\ item_vec' = item_vec
    BY <1>3, <1>4, <1>7 DEF MoveToHead, Entry, Bucket, NewOffset
  <1>10. CASE ~ mehcached_pool_is_valid(q, a % Span)
    <2>1. pool' = q /\ item_vec' = item_vec
      BY <1>9, <1>10
    <2>2. t < t + n
      BY <1>1, <1>2
    <2>3. Relocates(S, T, l)
      BY <1>7, <2>1, <2>2 DEF Relocates
    <2> QED
      BY <2>3
  <1>11. CASE mehcached_pool_is_valid(q, a % Span)
    <2>1. InLog(q, a)
      <3>1. t + n \in Nat /\ a <= t + n /\ (t + n) - a < Span
        BY <1>1, <1>2, <1>3, <1>4, <1>8 DEF InLog
      <3>2. ((t + n) - (a % Span)) % Span = (t + n) - a
        <4> DEFINE u == t + n
        <4>1. u \in Nat /\ a <= u /\ u - a < Span
          BY <3>1
        <4> HIDE DEF u
        <4>2. (u - (a % Span)) % Span = u - a
          BY <1>4, <1>8, <4>1, OffsetDistance
        <4> QED
          BY <4>2 DEF u
      <3> QED
        BY <1>7, <1>11, <3>2 DEF mehcached_pool_is_valid, InLog
    <2>2. a \in T /\ SameItem(pool, q, a)
      <3>1. Keeps(pool, S, q, T, -1)
        BY <1>7
      <3>2. a # -1
        BY <1>4
      <3> QED
        BY <1>4, <1>5, <2>1, <3>1, <3>2 DEF Keeps
    <2>3. Word(q, a) = Word(pool, a) /\ \A j \in 1 .. n-1 : Word(q, a + j) = Word(pool, a + j)
      <3>1. 0 \in 0 .. n-1 /\ a + 0 = a /\ \A j \in 1 .. n-1 : j \in 0 .. n-1
        BY <1>1, <1>2, <1>4
      <3>2. \A j \in 0 .. n-1 : Word(q, a + j) = Word(pool, a + j)
        BY <1>5, <2>2 DEF SameItem
      <3>3. Word(q, a + 0) = Word(pool, a + 0)
        BY <3>1, <3>2
      <3> QED
        BY <3>1, <3>2, <3>3
    <2>4. a # t /\ a < q.tail /\ t < q.tail /\ n = Word(q, a).item_size /\ n = Word(q, t).item_size
      BY <1>1, <1>2, <1>4, <1>5, <1>7, <2>3
    <2>5. Span % q.size = 0
      BY <1>7, <1>8
    <2>6. pool' = Copied(q, a % Span, t % Span, n)
      BY <1>9, <1>11
    <2>7. /\ IsLog(pool') /\ pool'.size = q.size /\ pool'.tail = q.tail
          /\ TiledBy(pool', T) /\ Keeps(q, T, pool', T, t)
          /\ Word(pool', t).item_size = n /\ Word(pool', t).key = Word(q, a).key
          /\ \A j \in 1 .. n-1 : Word(pool', t + j) = Word(q, a + j)
      <3>1. Copyable(q, T, a, t, n)
        BY <1>7, <1>8, <2>2, <2>4, <2>5 DEF Copyable
      <3>2. IsCopy(q, T, a, t, n, pool')
        BY <2>6, <3>1, CopiedItem
      <3> QED
        BY <3>2 DEF IsCopy
    <2>8. Keeps(pool, S, pool', T, -1)
      <3>1. Keeps(pool, S, q, T, -1) /\ Keeps(q, T, pool', T, pool.tail) /\ q.tail = pool'.tail
        BY <1>7, <2>7
      <3> QED
        BY <1>1, <1>7, <2>7, <3>1, KeepsBoth
    <2>9. KeyAt(pool', t) = k
      BY <1>3, <2>3, <2>7 DEF KeyAt
    <2>10. \A j \in 1 .. n-1 : Word(pool', t + j).val = last[k]
      BY <1>5, <2>3, <2>7
    <2>11. item_vec' = [item_vec EXCEPT ![b][s].offset = t % Span, ![b][s].at = t]
      BY <1>9, <1>11
    <2>12. pool'.size = pool.size /\ t < pool'.tail
      BY <1>1, <1>2, <1>7, <2>7
    <2>13. Relocates(S, T, l)
      BY <1>7, <2>7, <2>8, <2>9, <2>10, <2>11, <2>12 DEF Relocates
    <2> QED
      BY <2>13
  <1> QED
    BY <1>10, <1>11

LEMMA VectorMoved ==
  ASSUME NEW x, NEW m, NEW t, DOMAIN x = {"tag", "offset", "at"}
  PROVE  [x EXCEPT !.offset = m, !.at = t] = [tag |-> x.tag, offset |-> m, at |-> t]
  <1> DEFINE fields == {"tag", "offset", "at"}
             new(i) == IF i = "at" THEN t ELSE IF i = "offset" THEN m ELSE x[i]
  <1>1. [x EXCEPT !.offset = m, !.at = t] = [i \in fields |-> new(i)]
    OBVIOUS
  <1>2. [tag |-> x.tag, offset |-> m, at |-> t] = [i \in fields |-> new(i)]
    OBVIOUS
  <1> QED
    BY <1>1, <1>2

LEMMA MoveToHeadKept ==
  ASSUME Shape, NEW S, Stored(S), NEW l \in Lcores, MoveToHead(l)
  PROVE  Shape' /\ \E T : Stored(T)'
  <1> PICK b, s : b = Bucket(l) /\ s = req[l].slot
    OBVIOUS
  <1> PICK a, t, k : a = Entry(b, s).at /\ t = pool.tail /\ k = req[l].key
    OBVIOUS
  <1>1. /\ TableTypeOK /\ Pointers /\ OneItemPerTag /\ IsLog(pool) /\ TiledBy(pool, S) /\ Locks
        /\ t \in Nat /\ pool.size \in Nat \ {0} /\ pc[l] = "move_to_head" /\ ~ concurrent
        /\ DOMAIN req = Lcores /\ "cleanup" \in Places
        /\ item_vec \in [Buckets -> [Slots -> [tag : Tags, offset : Nat, at : Nat]]]
    BY DEF Shape, TableTypeOK, IsLog, Stored, MoveToHead, Locks, Places
  <1>2. /\ b \in Buckets /\ s \in Slots /\ k \in build.keys /\ k.tag # 0 /\ k.bucket = b
        /\ IsRequest(req[l]) /\ DOMAIN req[l] = Fields
    BY <1>1, RequestFacts DEF Bucket, TableTypeOK
  <1>3. Entry(b, s).tag = k.tag
    <2>1. Moves(l)
      BY DEF Stored, Operations
    <2> QED
      BY <1>1, <2>1 DEF Moves
  <1>4. PICK T :
          /\ IsLog(pool') /\ pool'.size = pool.size /\ t < pool'.tail
          /\ TiledBy(pool', T) /\ Keeps(pool, S, pool', T, -1)
          /\ \/ item_vec' = item_vec
             \/ /\ item_vec' = [item_vec EXCEPT ![b][s].offset = t % Span, ![b][s].at = t]
                /\ t \in T /\ KeyAt(pool', t) = k
                /\ Word(pool', t).item_size = k.size
                /\ \A j \in 1 .. k.size-1 : Word(pool', t + j).val = last[k]
    <2>1. PICK T : Relocates(S, T, l)
      BY ItemMoved
    <2> QED
      BY <2>1 DEF Relocates
  <1>5. /\ version' = Versions(b, 2) /\ Goto(l, "cleanup")
        /\ UNCHANGED <<build, plock, last, result>>
    BY DEF MoveToHead, Bucket
  <1>6. /\ pc' \in [Lcores -> Places] /\ pc'[l] = "cleanup"
        /\ \A m \in Lcores : m # l => pc'[m] = pc[m]
    BY <1>1, <1>5, GoesTo
  <1>7. /\ DOMAIN req' = Lcores /\ \A m \in Lcores : m # l => req'[m] = req[m]
        /\ IsRequest(req'[l])
    <2>1. \/ req' = req
          \/ req' = [req EXCEPT ![l].from = NewOffset(pool),
                                ![l].to = mehcached_pool_push_tail(pool, req[l].key.size).tail]
      BY DEF MoveToHead
    <2>2. CASE req' = req
      BY <1>1, <1>2, <2>2
    <2>3. CASE req' = [req EXCEPT ![l].from = NewOffset(pool),
                                  ![l].to = mehcached_pool_push_tail(pool, req[l].key.size).tail]
      <3>1. /\ DOMAIN req' = Lcores /\ \A m \in Lcores : m # l => req'[m] = req[m]
            /\ DOMAIN req'[l] = Fields /\ req'[l].key = req[l].key /\ req'[l].slot = req[l].slot
            /\ req'[l].found = req[l].found /\ req'[l].version = req[l].version
            /\ req'[l].at = req[l].at /\ req'[l].word = req[l].word
        BY <1>1, <1>2, <2>3 DEF Fields
      <3> QED
        BY <1>2, <3>1 DEF IsRequest
    <2> QED
      BY <2>1, <2>2, <2>3
  <1>8. StepOf(l)
    BY <1>5, <1>6, <1>7 DEF StepOf
  <1> DEFINE new == [tag |-> k.tag, offset |-> t % Span, at |-> t]
  <1>9. /\ \A c \in Buckets, x \in Slots : ~ (c = b /\ x = s) => Entry(c, x)' = Entry(c, x)
        /\ \/ Entry(b, s)' = Entry(b, s)
           \/ /\ Entry(b, s)' = new
              /\ t \in T /\ KeyAt(pool', t) = k
              /\ Word(pool', t).item_size = k.size
              /\ \A j \in 1 .. k.size-1 : Word(pool', t + j).val = last[k]
        /\ item_vec' \in [Buckets -> [Slots -> [tag : Tags, offset : Nat, at : Nat]]]
    <2>1. CASE item_vec' = item_vec
      BY <1>1, <2>1 DEF Entry
    <2>2. CASE /\ item_vec' = [item_vec EXCEPT ![b][s].offset = t % Span, ![b][s].at = t]
               /\ t \in T /\ KeyAt(pool', t) = k
               /\ Word(pool', t).item_size = k.size
               /\ \A j \in 1 .. k.size-1 : Word(pool', t + j).val = last[k]
      <3>1. new \in [tag : Tags, offset : Nat, at : Nat]
        BY <1>1, <1>2, BuildFacts
      <3>2. item_vec[b][s] \in [tag : Tags, offset : Nat, at : Nat] /\ item_vec[b][s].tag = k.tag
        BY <1>1, <1>2, <1>3 DEF Entry
      <3>3. [item_vec[b][s] EXCEPT !.offset = t % Span, !.at = t] = new
        <4>1. PICK x, m : x = item_vec[b][s] /\ m = t % Span
          OBVIOUS
        <4>2. DOMAIN x = {"tag", "offset", "at"} /\ x.tag = k.tag
          BY <3>2, <4>1
        <4>3. [x EXCEPT !.offset = m, !.at = t] = [tag |-> x.tag, offset |-> m, at |-> t]
          BY <4>2, VectorMoved
        <4> QED
          BY <4>1, <4>2, <4>3
      <3>4. item_vec' = [item_vec EXCEPT ![b] = [item_vec[b] EXCEPT ![s] = new]]
        BY ZenonT(40), <1>1, <1>2, <2>2, <3>3
      <3> HIDE DEF new
      <3>5. /\ item_vec' \in [Buckets -> [Slots -> [tag : Tags, offset : Nat, at : Nat]]]
            /\ item_vec'[b][s] = new
            /\ \A c \in Buckets, x \in Slots : ~ (c = b /\ x = s) => item_vec'[c][x] = item_vec[c][x]
        BY <1>1, <1>2, <3>1, <3>4
      <3> QED
        BY <2>2, <3>5 DEF Entry
    <2> QED
      BY <1>4, <2>1, <2>2
  <1>10. new.tag = k.tag /\ new.offset = t % Span /\ new.at = t
    OBVIOUS
  <1> HIDE DEF new
  <1>11. TableTypeOK'
    <2>1. version' \in [Buckets -> Nat]
      BY <1>1, <1>2, <1>5, VersionsAre
    <2>2. DOMAIN last' = DOMAIN last /\ DOMAIN result' = DOMAIN result
      BY <1>5
    <2> QED
      BY <1>1, <1>4, <1>7, <1>8, <1>9, <2>1, <2>2, TypeKept
  <1>12. Lcores' = Lcores /\ build' = build /\ concurrent' = concurrent
    BY <1>5 DEF Lcores, concurrent
  <1>13. \A m \in Lcores : m = l
    BY <1>1, Alone
  <1>14. /\ \A m \in Lcores : ~ Holding(m)' /\ ~ InHand(m)' /\ ~ Reading(m)' /\ pc'[m] = "cleanup"
         /\ \A m \in Lcores : ~ InHand(m)
    BY <1>1, <1>6, <1>13 DEF Holding, InHand, Reading
  <1>15. Locks'
    BY <1>12, <1>14 DEF Locks, InHand
  <1>16. \A c \in Buckets, x \in Slots : /\ Entry(c, x).at \in Nat
                                         /\ Entry(c, x).tag # 0 => Entry(c, x).at < t
                                         /\ Entry(c, x)'.tag = Entry(c, x).tag
    <2>1. ASSUME NEW c \in Buckets, NEW x \in Slots
          PROVE  /\ Entry(c, x).at \in Nat
                 /\ Entry(c, x).tag # 0 => Entry(c, x).at < t
                 /\ Entry(c, x)'.tag = Entry(c, x).tag
      <3>1. Entry(c, x)'.tag = Entry(c, x).tag
        <4>1. CASE c = b /\ x = s
          BY <1>2, <1>3, <1>9, <1>10, <4>1
        <4>2. CASE ~ (c = b /\ x = s)
          BY <1>9, <4>2
        <4> QED
          BY <4>1, <4>2
      <3>2. Entry(c, x).tag # 0 => Entry(c, x).at < t
        BY <1>1 DEF Pointers
      <3> QED
        BY <1>1, <3>1, <3>2, EntryFacts
    <2> QED
      BY <2>1
  <1>17. Pointers'
    <2>1. ASSUME NEW c \in Buckets, NEW x \in Slots
          PROVE  IF Entry(c, x)'.tag = 0 THEN Entry(c, x)' = Empty
                 ELSE Entry(c, x)'.at < pool'.tail /\ Entry(c, x)'.offset = Entry(c, x)'.at % Span
      <3>1. CASE Entry(c, x)' = Entry(c, x)
        <4>1. IF Entry(c, x).tag = 0 THEN Entry(c, x) = Empty
              ELSE Entry(c, x).at < pool.tail /\ Entry(c, x).offset = Entry(c, x).at % Span
          BY <1>1 DEF Pointers
        <4>2. pool.tail < pool'.tail /\ pool'.tail \in Nat /\ pool.tail \in Nat
          BY <1>1, <1>4 DEF IsLog
        <4> QED
          BY <1>16, <3>1, <4>1, <4>2
      <3>2. CASE Entry(c, x)' # Entry(c, x)
        <4>1. c = b /\ x = s
          BY <1>9, <3>2
        <4>2. Entry(b, s)' = new
          BY <1>9, <3>2, <4>1
        <4> QED
          BY <1>2, <1>4, <1>10, <4>1, <4>2
      <3> QED
        BY <3>1, <3>2
    <2>2. ASSUME NEW c \in Buckets, NEW d \in Buckets, NEW x \in Slots, NEW y \in Slots,
                 Entry(c, x)'.tag # 0, Entry(d, y)'.tag # 0, Entry(c, x)'.at = Entry(d, y)'.at
          PROVE  c = d /\ x = y
      <3>1. Entry(c, x).tag # 0 /\ Entry(d, y).tag # 0
        BY <1>16, <2>2
      <3>2. /\ Entry(c, x).at \in Nat /\ Entry(c, x).at < t
            /\ Entry(d, y).at \in Nat /\ Entry(d, y).at < t
        BY <1>16, <3>1
      <3>3. CASE Entry(c, x)' = Entry(c, x) /\ Entry(d, y)' = Entry(d, y)
        BY <1>1, <2>2, <3>3 DEF Pointers
      <3>4. CASE Entry(c, x)' # Entry(c, x) /\ Entry(d, y)' # Entry(d, y)
        BY <1>9, <3>4
      <3>5. CASE Entry(c, x)' # Entry(c, x) /\ Entry(d, y)' = Entry(d, y)
        <4>1. c = b /\ x = s
          BY <1>9, <3>5
        <4>2. Entry(c, x)'.at = t
          BY <1>9, <1>10, <3>5, <4>1
        <4> QED
          BY <1>1, <2>2, <3>2, <3>5, <4>2
      <3>6. CASE Entry(c, x)' = Entry(c, x) /\ Entry(d, y)' # Entry(d, y)
        <4>1. d = b /\ y = s
          BY <1>9, <3>6
        <4>2. Entry(d, y)'.at = t
          BY <1>9, <1>10, <3>6, <4>1
        <4> QED
          BY <1>1, <2>2, <3>2, <3>6, <4>2
      <3> QED
        BY <3>3, <3>4, <3>5, <3>6
    <2> QED
      BY <1>12, <1>14, <2>1, <2>2 DEF Pointers, Buckets, Slots
  <1>18. Chosen'
    BY <1>12, <1>14 DEF Chosen
  <1>19. OneItemPerTag'
    <2>1. ASSUME NEW c \in Buckets, NEW x \in Slots, NEW y \in Slots,
                 Entry(c, x)'.tag = Entry(c, y)'.tag, Entry(c, x)'.tag # 0
          PROVE  x = y
      <3>1. Entry(c, x).tag = Entry(c, y).tag /\ Entry(c, x).tag # 0
        BY <1>16, <2>1
      <3> QED
        BY <1>1, <3>1 DEF OneItemPerTag, Entry
    <2>2. \A c \in Buckets, x \in Slots : Entry(c, x)' = item_vec'[c][x]
      BY DEF Entry
    <2>3. \A c \in Buckets : \A x, y \in Slots :
            item_vec'[c][x].tag = item_vec'[c][y].tag /\ item_vec'[c][x].tag # 0 => x = y
      BY <2>1, <2>2
    <2> QED
      BY <2>3 DEF OneItemPerTag, Buckets, Slots
  <1>20. Shape'
    BY <1>11, <1>15, <1>17, <1>18, <1>19 DEF Shape
  <1>21. ASSUME NEW c \in Buckets, NEW x \in Slots PROVE Live(T, c, x)'
    <2>1. CASE Entry(c, x)' = Entry(c, x)
      <3>1. ~ Replaced(c, x)
        BY <1>14 DEF Replaced
      <3>2. Live(S, c, x)
        BY DEF Stored
      <3>3. \A j \in build.keys : j.bucket = c /\ j.tag = Entry(c, x).tag => last'[j] = last[j]
        BY <1>5
      <3>4. Entry(c, x).tag # 0 => Entry(c, x).at # -1
        BY <1>16
      <3> QED
        BY <1>1, <1>4, <1>11, <1>12, <2>1, <3>1, <3>2, <3>3, <3>4, LiveKept
    <2>2. CASE Entry(c, x)' # Entry(c, x)
      <3>1. c = b /\ x = s
        BY <1>9, <2>2
      <3>2. /\ Entry(b, s)' = new
            /\ t \in T /\ KeyAt(pool', t) = k
            /\ Word(pool', t).item_size = k.size
            /\ \A j \in 1 .. k.size-1 : Word(pool', t + j).val = last[k]
        BY <1>9, <2>2, <3>1
      <3> QED
        BY <1>2, <1>5, <1>10, <3>1, <3>2 DEF Live
    <2> QED
      BY <2>1, <2>2
  <1>22. \A m \in Lcores : Operations(T, m)'
    <2>1. ASSUME NEW m \in Lcores PROVE Operations(T, m)'
      <3>1. pc'[m] = "cleanup" /\ ~ InHand(m)'
        BY <1>14
      <3> QED
        BY <3>1 DEF Operations, Fresh, Written, Found, Copies, Hits, Moves
    <2> QED
      BY <2>1
  <1>23. Stored(T)'
    BY <1>4, <1>12, <1>21, <1>22 DEF Stored, Buckets, Slots
  <1> QED
    BY <1>20, <1>23

\* Where the items of the log start lies between its head and its tail.
LEMMA StartsWithin ==
  ASSUME NEW S, Stored(S)
  PROVE  S \in SUBSET (pool.head .. pool.tail)
  BY DEF Stored, TiledBy

\* A step that no GET returns by leaves the answers as they are.
LEMMA AnswersKept ==
  ASSUME GetReturnsLastSet, UNCHANGED <<build, result>>
  PROVE  GetReturnsLastSet'
  BY DEF GetReturnsLastSet, Lcores

\* The steps of an lcore.
LEMMA StepKept ==
  ASSUME StoreInv, NoItemRevives, NEW l \in Lcores, Step(l)
  PROVE  StoreInv'
  <1>1. Shape /\ GetReturnsLastSet
    BY DEF StoreInv
  <1>2. PICK S : Stored(S)
    BY DEF StoreInv
  <1>3. ASSUME Shape', \E T : Stored(T)', GetReturnsLastSet'
        PROVE  StoreInv'
    <2>1. PICK T : Stored(T)'
      BY <1>3
    <2>2. T \in SUBSET (pool'.head .. pool'.tail)
      BY <2>1 DEF Stored, TiledBy
    <2> QED
      BY <1>3, <2>1, <2>2 DEF StoreInv
  <1>4. CASE SetLock(l)
    <2>1. GetReturnsLastSet'
      BY <1>1, <1>4, AnswersKept DEF SetLock
    <2> QED
      BY <1>1, <1>2, <1>3, <1>4, <2>1, SetLockKept
  <1>5. CASE SetFind(l)
    <2>1. GetReturnsLastSet'
      BY <1>1, <1>5, AnswersKept DEF SetFind
    <2> QED
      BY <1>1, <1>2, <1>3, <1>5, <2>1, SetFindKept
  <1>6. CASE SetAllocate(l)
    <2>1. GetReturnsLastSet'
      BY <1>1, <1>6, AnswersKept DEF SetAllocate
    <2> QED
      BY <1>1, <1>2, <1>3, <1>6, <2>1, SetAllocateKept
  <1>7. CASE SetWrite(l)
    <2>1. GetReturnsLastSet'
      BY <1>1, <1>7, AnswersKept DEF SetWrite
    <2> QED
      BY <1>1, <1>2, <1>3, <1>7, <2>1, SetWriteKept
  <1>8. CASE SetPoolUnlock(l)
    <2>1. GetReturnsLastSet'
      BY <1>1, <1>8, AnswersKept DEF SetPoolUnlock
    <2> QED
      BY <1>1, <1>2, <1>3, <1>8, <2>1, SetPoolUnlockKept
  <1>9. CASE SetPublish(l)
    <2>1. GetReturnsLastSet'
      BY <1>1, <1>9, AnswersKept DEF SetPublish
    <2> QED
      BY <1>1, <1>2, <1>3, <1>9, <2>1, SetPublishKept
  <1>10. CASE mehcached_cleanup_bucket(l)
    <2>1. GetReturnsLastSet'
      BY <1>1, <1>10, AnswersKept DEF mehcached_cleanup_bucket
    <2> QED
      BY <1>1, <1>2, <1>3, <1>10, <2>1, CleanupKept
  <1>11. CASE Return(l)
    <2>1. GetReturnsLastSet'
      BY <1>1, <1>11, AnswersKept DEF Return
    <2> QED
      BY <1>1, <1>2, <1>3, <1>11, <2>1, ReturnKept
  <1>12. CASE GetVersion(l)
    <2>1. GetReturnsLastSet'
      BY <1>1, <1>12, AnswersKept DEF GetVersion
    <2> QED
      BY <1>1, <1>2, <1>3, <1>12, <2>1, GetVersionKept
  <1>13. CASE GetFind(l)
    <2>1. GetReturnsLastSet'
      BY <1>1, <1>13, AnswersKept DEF GetFind
    <2> QED
      BY <1>1, <1>2, <1>3, <1>13, <2>1, GetFindKept
  <1>14. CASE GetCopy(l)
    <2>1. GetReturnsLastSet'
      BY <1>1, <1>14, AnswersKept DEF GetCopy
    <2> QED
      BY <1>1, <1>2, <1>3, <1>14, <2>1, GetCopyKept
  <1>15. CASE GetIsValid(l)
    <2>1. GetReturnsLastSet'
      BY <1>1, <1>15, AnswersKept DEF GetIsValid
    <2> QED
      BY <1>1, <1>2, <1>3, <1>15, <2>1, GetIsValidKept
  <1>16. CASE GetRetry(l)
    <2>1. GetReturnsLastSet'
      BY <1>1, <1>16, AnswersKept DEF GetRetry
    <2> QED
      BY <1>1, <1>2, <1>3, <1>16, <2>1, GetRetryKept
  <1>17. CASE GetHit(l)
    BY <1>1, <1>2, <1>3, <1>17, GetHitKept
  <1>18. CASE GetMiss(l)
    BY <1>1, <1>2, <1>3, <1>18, GetMissKept
  <1>19. CASE GetStale(l)
    BY <1>1, <1>2, <1>3, <1>19, GetStaleKept
  <1>20. CASE RemoveStale(l)
    <2>1. GetReturnsLastSet'
      BY <1>1, <1>20, AnswersKept DEF RemoveStale
    <2> QED
      BY <1>1, <1>2, <1>3, <1>20, <2>1, RemoveStaleKept
  <1>21. CASE MoveToHead(l)
    <2>1. GetReturnsLastSet'
      BY <1>1, <1>21, AnswersKept DEF MoveToHead
    <2> QED
      BY <1>1, <1>2, <1>3, <1>21, <2>1, MoveToHeadKept
  <1> QED
    BY <1>4, <1>5, <1>6, <1>7, <1>8, <1>9, <1>10, <1>11, <1>12, <1>13, <1>14, <1>15, <1>16, <1>17, <1>18,
       <1>19, <1>20, <1>21 DEF Step

\* Any step, from a state in which no stale offset looks valid.
LEMMA TableNext ==
  ASSUME StoreInv, NoItemRevives, [Next]_vars
  PROVE  StoreInv'
  <1>1. Shape /\ GetReturnsLastSet /\ TableTypeOK
    BY DEF StoreInv, Shape
  <1>2. PICK S : Stored(S)
    BY DEF StoreInv
  <1>3. build.default \subseteq build.keys
    BY <1>1, BuildFacts
  <1>4. ASSUME Shape', Stored(S)', UNCHANGED <<build, result>>
        PROVE  StoreInv'
    <2>1. S \in SUBSET (pool'.head .. pool'.tail)
      BY <1>4 DEF Stored, TiledBy
    <2>2. GetReturnsLastSet'
      BY <1>1, <1>4, AnswersKept
    <2> QED
      BY <1>4, <2>1, <2>2 DEF StoreInv
  <1>5. CASE UNCHANGED vars
    BY <1>5, StillKept DEF vars
  <1>6. ASSUME NEW key \in build.default, Load(main_lcore, key)
        PROVE  StoreInv'
    <2>1. main_lcore \in Lcores
      BY <1>1, MainLcore
    <2>2. UNCHANGED <<build, result>>
      BY <1>6 DEF Load
    <2>3. Shape' /\ Stored(S)'
      <3> PICK l : l = main_lcore
        OBVIOUS
      <3> QED
        BY <1>1, <1>2, <1>6, <2>1, LoadKept
    <2> QED
      BY <1>4, <2>2, <2>3
  <1>7. CASE Launch
    BY <1>7, StillKept DEF Launch
  <1>8. ASSUME NEW l \in Lcores, NEW key \in build.keys \ build.default, NEW pad \in build.pads,
               Process5tuple(l, key, pad) \/ Delete(l, key, pad) \/ Increment(l, key, pad)
        PROVE  StoreInv'
    <2>1. key \in build.keys
      OBVIOUS
    <2>2. UNCHANGED <<build, result>>
      BY <1>8 DEF Process5tuple, Delete, Increment
    <2>3. CASE Process5tuple(l, key, pad)
      BY <1>1, <1>2, <1>4, <2>1, <2>2, <2>3, ProcessKept
    <2>4. CASE Delete(l, key, pad)
      BY <1>1, <1>2, <1>4, <2>1, <2>2, <2>4, DeleteKept
    <2>5. CASE Increment(l, key, pad)
      BY <1>1, <1>2, <1>4, <2>1, <2>2, <2>5, IncrementKept
    <2> QED
      BY <1>8, <2>3, <2>4, <2>5
  <1>9. CASE Free
    BY <1>9, FreeKept
  <1>10. CASE Freed
    BY <1>10, StillKept DEF Freed, vars
  <1>11. ASSUME NEW l \in Lcores, Step(l)
         PROVE  StoreInv'
    BY <1>11, StepKept
  <1> QED
    BY <1>5, <1>6, <1>7, <1>8, <1>9, <1>10, <1>11 DEF Next

-----------------------------------------------------------------------------
(***************************************************************************)
(* Blocks.  The offsets are cut into blocks of p places, of which the n    *)
(* buckets have one each in turn; a bucket is gone through when the tail   *)
(* leaves its block.                                                       *)
(***************************************************************************)

\* A quotient, from the dividend's form.
LEMMA QuotientIs ==
  ASSUME NEW p \in Nat \ {0}, NEW k \in Nat, NEW r \in 0 .. p-1
  PROVE  (p * k + r) \div p = k
  <1> DEFINE a == p * k + r
  <1>1. a \in Nat /\ k * p <= a /\ a < (k + 1) * p /\ k + 1 \in Nat
    OBVIOUS
  <1>2. a \div p \in Nat
    BY <1>1, DivBounds
  <1> HIDE DEF a
  <1>3. k <= a \div p /\ a \div p < k + 1
    BY <1>1, DivAtLeast
  <1>4. a \div p = k
    BY <1>2, <1>3
  <1> QED
    BY <1>4 DEF a

\* A turn later the tail is in the block of the same bucket.
LEMMA TurnLater ==
  ASSUME NEW p \in Nat \ {0}, NEW n \in Nat \ {0}, NEW f \in Nat, NEW q \in Nat
  PROVE  /\ (f + q * (n * p)) \div p = (f \div p) + q * n
         /\ ((f + q * (n * p)) \div p) % n = (f \div p) % n
  <1> DEFINE d == f \div p   r == f % p
  <1>1. d \in Nat /\ r \in 0 .. p-1 /\ f = p * d + r
    BY DivBounds
  <1> HIDE DEF d, r
  <1>2. q * n \in Nat /\ d + q * n \in Nat
    BY <1>1
  <1>3. f + q * (n * p) = p * (d + q * n) + r
    BY <1>1
  <1>4. (f + q * (n * p)) \div p = d + q * n
    BY <1>1, <1>2, <1>3, QuotientIs
  <1>5. (d + q * n) % n = d % n
    <2> DEFINE e == d \div n   m == d % n
    <2>1. e \in Nat /\ m \in 0 .. n-1 /\ d = n * e + m
      BY <1>1, DivBounds
    <2> HIDE DEF e, m
    <2>2. e + q \in Nat /\ d + q * n = n * (e + q) + m
      BY <2>1
    <2>3. (d + q * n) % n = m
      BY <1>2, <2>1, <2>2, RemainderIs
    <2> QED
      BY <2>3 DEF m
  <1> QED
    BY <1>4, <1>5 DEF d

\* Going from a block to the next, the offset stays a number of turns behind.
LEMMA NextBlock ==
  ASSUME NEW p \in Nat \ {0}, NEW n \in Nat \ {0}, NEW f \in Nat, NEW q \in Nat
  PROVE  \E k \in Nat : (((f + q * (n * p)) \div p) + 1) * p = (((f \div p) % n) + 1) * p + k * (n * p)
  <1> DEFINE d == f \div p
  <1>1. d \in Nat
    BY DivBounds
  <1>2. (f + q * (n * p)) \div p = d + q * n
    BY TurnLater
  <1> HIDE DEF d
  <1> DEFINE e == d \div n   m == d % n
  <1>3. e \in Nat /\ m \in 0 .. n-1 /\ d = n * e + m
    BY <1>1, DivBounds
  <1> HIDE DEF e, m
  <1>4. e + q \in Nat /\ ((d + q * n) + 1) * p = (m + 1) * p + (e + q) * (n * p)
    BY <1>3
  <1> QED
    BY <1>2, <1>4 DEF d, m

\* Where the m-th block of bucket c ends.
BlockEnd(p, n, c, m) == (c + 1) * p + m * (n * p)

LEMMA EndOfBlock ==
  ASSUME NEW p \in Nat \ {0}, NEW n \in Nat \ {0}, NEW c \in 0 .. n-1, NEW m \in Nat
  PROVE  /\ c + m * n \in Nat
         /\ BlockEnd(p, n, c, m) = ((c + m * n) + 1) * p
         /\ (c + m * n) % n = c
  <1>1. c + m * n \in Nat /\ c + m * n = n * m + c
    OBVIOUS
  <1>2. (c + m * n) % n = c
    BY <1>1, RemainderIs
  <1>3. (c + 1) * p + m * (n * p) = ((c + m * n) + 1) * p
    OBVIOUS
  <1> QED
    BY <1>1, <1>2, <1>3 DEF BlockEnd

\* Between a place and the end of its block only that block ends.
LEMMA OnlyThisBlock ==
  ASSUME NEW p \in Nat \ {0}, NEW n \in Nat \ {0}, NEW c \in 0 .. n-1, NEW m \in Nat, NEW w \in Nat,
         w < BlockEnd(p, n, c, m), BlockEnd(p, n, c, m) <= ((w \div p) + 1) * p
  PROVE  c = (w \div p) % n
  <1> DEFINE k == c + m * n   d == w \div p
  <1>1. k \in Nat /\ BlockEnd(p, n, c, m) = (k + 1) * p /\ k % n = c
    BY EndOfBlock
  <1>2. d \in Nat
    BY DivBounds
  <1>3. d < k + 1
    <2>1. k + 1 \in Nat /\ w < (k + 1) * p
      BY <1>1
    <2> HIDE DEF k, d
    <2> QED
      BY <2>1, DivAtLeast DEF d
  <1> HIDE DEF k, d
  <1>4. k <= d
    <2>1. SUFFICES ASSUME d + 1 <= k PROVE FALSE
      BY <1>1, <1>2
    <2>2. (d + 1) * p <= k * p
      BY <1>1, <1>2, <2>1, MulMono
    <2>3. k * p < (k + 1) * p
      BY <1>1
    <2>4. (k + 1) * p <= (d + 1) * p
      BY <1>1 DEF d
    <2>5. (d + 1) * p \in Nat /\ k * p \in Nat /\ (k + 1) * p \in Nat
      BY <1>1, <1>2
    <2> QED
      BY <2>2, <2>3, <2>4, <2>5
  <1>5. k = d
    BY <1>1, <1>2, <1>3, <1>4
  <1> QED
    BY <1>1, <1>5 DEF d

\* A tail that is not ahead by half a turn, in the block of the same bucket,
\* is in the same block, and no block ends in between.
LEMMA SameBlock ==
  ASSUME NEW p \in Nat \ {0}, NEW n \in Nat \ {0}, n > 1, NEW w \in Nat, NEW t \in Nat, w <= t,
         2 * (t - w) <= n * p, (w \div p) % n = (t \div p) % n
  PROVE  \A c \in 0 .. n-1, m \in Nat : BlockEnd(p, n, c, m) <= t => BlockEnd(p, n, c, m) <= w
  <1> DEFINE u == w \div p   v == t \div p
  <1>1. u \in Nat /\ v \in Nat /\ u * p <= w /\ w < u * p + p /\ v * p <= t /\ u <= v
    BY DivBounds, DivMono
  <1>2. u % n = v % n
    OBVIOUS
  <1> HIDE DEF u, v
  <1>3. u = v
    <2>1. SUFFICES ASSUME u < v PROVE FALSE
      BY <1>1
    <2> DEFINE a == u \div n   b == v \div n   r == u % n
    <2>2. a \in Nat /\ b \in Nat /\ r \in Nat /\ u = n * a + r /\ v = n * b + r
      <3>1. a \in Nat /\ r \in Nat /\ u = n * a + r
        BY <1>1, DivBounds
      <3>2. b \in Nat /\ v = n * b + (v % n)
        BY <1>1, DivBounds
      <3> QED
        BY <1>2, <3>1, <3>2
    <2> HIDE DEF a, b, r
    <2>3. a + 1 <= b
      <3>1. SUFFICES ASSUME b <= a PROVE FALSE
        BY <2>2
      <3>2. b * n <= a * n
        BY <2>2, <3>1, MulMono
      <3> QED
        BY <2>1, <2>2, <3>2
    <2>4. (a + 1) * n <= b * n
      BY <2>2, <2>3, MulMono
    <2>5. u + n <= v
      BY <2>2, <2>4
    <2>6. (u + n) * p <= v * p
      BY <1>1, <2>5, MulMono
    <2>7. (u + n) * p = u * p + n * p /\ u * p \in Nat /\ n * p \in Nat /\ v * p \in Nat
      BY <1>1
    <2>8. 2 * p <= n * p
      BY MulMono
    <2> QED
      BY <1>1, <2>6, <2>7, <2>8
  <1>4. SUFFICES ASSUME NEW c \in 0 .. n-1, NEW m \in Nat, BlockEnd(p, n, c, m) <= t
                 PROVE  BlockEnd(p, n, c, m) <= w
    OBVIOUS
  <1> DEFINE k == (c + m * n) + 1
  <1>5. k \in Nat /\ BlockEnd(p, n, c, m) = k * p
    BY EndOfBlock
  <1> HIDE DEF k
  <1>6. k <= v
    BY <1>4, <1>5, DivAtLeast DEF v
  <1>7. k * p <= u * p
    BY <1>1, <1>3, <1>5, <1>6, MulMono
  <1>8. k * p \in Nat /\ u * p \in Nat
    BY <1>1, <1>5
  <1> QED
    BY <1>1, <1>5, <1>7, <1>8

\* The end of a block is between a place in it and a tail that has left it.
LEMMA LeavesBlock ==
  ASSUME NEW p \in Nat \ {0}, NEW n \in Nat \ {0}, NEW w \in Nat, NEW t \in Nat, w <= t,
         (w \div p) % n # (t \div p) % n
  PROVE  /\ ((w \div p) + 1) * p \in Nat
         /\ w < ((w \div p) + 1) * p /\ ((w \div p) + 1) * p <= t
  <1> DEFINE u == w \div p   v == t \div p
  <1>1. u \in Nat /\ v \in Nat /\ u * p <= w /\ w < u * p + p /\ v * p <= t /\ u <= v
    <2>1. u \in Nat /\ p * u <= w /\ w < p * u + p
      BY DivBounds
    <2>2. v \in Nat /\ p * v <= t
      BY DivBounds
    <2>3. u <= v
      BY DivMono
    <2> HIDE DEF u, v
    <2> QED
      BY <2>1, <2>2, <2>3
  <1>2. u # v
    OBVIOUS
  <1> HIDE DEF u, v
  <1>3. u + 1 <= v
    BY <1>1, <1>2
  <1>4. (u + 1) * p <= v * p
    BY <1>1, <1>3, MulMono
  <1>5. (u + 1) * p = u * p + p /\ u * p \in Nat /\ v * p \in Nat
    BY <1>1
  <1>6. (u + 1) * p \in Nat /\ w < (u + 1) * p /\ (u + 1) * p <= t
    BY <1>1, <1>4, <1>5
  <1> QED
    BY <1>6 DEF u

\* Some block of each bucket ends less than a turn behind a place, unless it
\* is still in the first turn.
LEMMA LastBlockEnd ==
  ASSUME NEW p \in Nat \ {0}, NEW n \in Nat \ {0}, NEW c \in 0 .. n-1, NEW w \in Nat
  PROVE  \/ w < n * p
         \/ \E m \in Nat : BlockEnd(p, n, c, m) <= w /\ w - BlockEnd(p, n, c, m) < n * p
  <1> DEFINE h == n * p   e == (c + 1) * p
  <1>1. h \in Nat \ {0} /\ e \in Nat /\ e <= h
    <2>1. (c + 1) * p <= n * p
      BY MulMono
    <2> QED
      BY <2>1
  <1>2. \A m \in Nat : BlockEnd(p, n, c, m) = e + m * h
    BY DEF BlockEnd
  <1> HIDE DEF h, e
  <1>3. CASE w < e
    BY <1>1, <1>3 DEF h
  <1>4. CASE e <= w
    <2> DEFINE x == w - e   m == x \div h
    <2>1. x \in Nat
      BY <1>1, <1>4
    <2>2. m \in Nat /\ h * m <= x /\ x < h * m + h
      BY <1>1, <2>1, DivBounds
    <2>3. h * m \in Nat /\ m * h = h * m
      BY <1>1, <2>2
    <2> HIDE DEF m
    <2>4. e + m * h <= w /\ w - (e + m * h) < h
      BY <1>1, <2>2, <2>3
    <2> QED
      BY <1>2, <2>2, <2>4 DEF h
  <1> QED
    BY <1>1, <1>3, <1>4

-----------------------------------------------------------------------------
(***************************************************************************)
(* Cleaning.  An operation that moves the tail owes the ends of the blocks *)
(* that it has moved it over, until it has gone through their buckets.  W  *)
(* gives for each operation the place up to which it has: its offset from  *)
(* is a number of turns before that place, and what is left reaches to the *)
(* tail that it left.  An address that a bucket holds was in the log when  *)
(* a block of the bucket ended, or somebody still owes that end.           *)
(***************************************************************************)
\* Half of the offsets.
Turn == NumBuckets * 2^rshift

\* Where the blocks of bucket b end, and the block of place w.
Ends(b) == {BlockEnd(2^rshift, NumBuckets, b, m) : m \in Nat}
NextEnd(w) == ((w \div 2^rshift) + 1) * 2^rshift

\* Operations that may have moved the tail, and have.
Moving(l) == pc[l] \in {"set_write", "set_publish", "cleanup"}
Owes(l)   == Moving(l) /\ req[l].to # 0

\* Somebody has yet to go through the bucket of the block that ends at e.
Owed(W, e) == \E l \in Lcores : Owes(l) /\ W[l] < e /\ e <= req[l].to

\* An address that bucket b may hold.
Swept(W, b, a) == \A e \in Ends(b) : e <= pool.tail => e - a <= pool.size \/ Owed(W, e)

\* The locals of a clean-up that has come to w.
Cleans(l, w) ==
  LET r == req[l]
  IN  /\ pc[l] # "idle" /\ ~ Moving(l) => r.to = 0
      /\ pc[l] # "idle" /\ r.to = 0 => r.from = 0
      /\ Owes(l) => /\ r.to \in Nat /\ w <= r.to /\ r.to <= pool.tail /\ r.to - w <= pool.size
                    /\ r.from \in Nat /\ \E q \in Nat : w = r.from + q * Turn
                    /\ ~ concurrent => r.to = pool.tail

\* An address that an item vector holds, or an operation with an item in hand.
Filled(b, s, a) == Entry(b, s).tag # 0 /\ a = Entry(b, s).at
Held(l, b, a)   == InHand(l) /\ b = Bucket(l) /\ a = req[l].at

CleanedBy(W) ==
  /\ W \in [Lcores -> Nat]
  /\ \A b \in Buckets, s \in Slots, a \in Nat : Filled(b, s, a) => Swept(W, b, a)
  /\ \A l \in Lcores : Cleans(l, W[l]) /\ \A b \in Buckets, a \in Nat : Held(l, b, a) => Swept(W, b, a)

\* While an operation has not cleaned up after itself, the others do not move
\* the tail on by half of the offsets, less two logs.  The code cannot see to
\* this: it is true for long enough that an lcore would have to stand still
\* while the others write 2^39 bytes (common.h:38), less two logs.
NotLapped == \A l \in Lcores : Owes(l) => pool.tail - req[l].to <= Turn - 2 * pool.size

\* The turn and the blocks.
LEMMA TurnFacts ==
  ASSUME TableTypeOK
  PROVE  /\ 2^rshift \in Nat \ {0} /\ NumBuckets \in Nat \ {0} /\ NumBuckets > 1
         /\ Turn \in Nat \ {0} /\ Turn = NumBuckets * 2^rshift
         /\ Span = 2 * Turn /\ 2 * pool.size <= Turn /\ pool.size \in Nat
         /\ Buckets = 0 .. NumBuckets-1
  <1>1. /\ Span \in Nat /\ pool.size \in Nat /\ 4 * pool.size <= Span /\ NumBuckets \in Nat \ {0}
    BY BuildFacts
  <1>2. 2^rshift \in Nat \ {0} /\ NumBuckets > 1 /\ Span = 2 * (NumBuckets * 2^rshift)
    BY CleaningAssumption
  <1> DEFINE p == 2^rshift
  <1>3. p \in Nat \ {0} /\ Span = 2 * (NumBuckets * p)
    BY <1>2
  <1> HIDE DEF p
  <1>4. NumBuckets * p \in Nat \ {0}
    BY <1>1, <1>3
  <1>5. Turn = NumBuckets * p
    BY DEF Turn, p
  <1>6. 2 * pool.size <= Turn
    BY <1>1, <1>3, <1>4, <1>5
  <1> QED
    BY <1>1, <1>2, <1>3, <1>4, <1>5, <1>6 DEF Buckets

LEMMA BlockEndNat ==
  ASSUME TableTypeOK, NEW b \in Buckets, NEW m \in Nat
  PROVE  BlockEnd(2^rshift, NumBuckets, b, m) \in Nat
  <1> PICK p : p = 2^rshift
    OBVIOUS
  <1>1. p \in Nat \ {0} /\ NumBuckets \in Nat \ {0} /\ b \in 0 .. NumBuckets-1
    BY TurnFacts
  <1>2. b + m * NumBuckets \in Nat /\ BlockEnd(p, NumBuckets, b, m) = ((b + m * NumBuckets) + 1) * p
    BY <1>1, EndOfBlock
  <1>3. ((b + m * NumBuckets) + 1) * p \in Nat
    BY <1>1, <1>2
  <1> QED
    BY <1>2, <1>3

\* Where blocks end.
LEMMA EndsAreNat ==
  ASSUME TableTypeOK, NEW b \in Buckets
  PROVE  Ends(b) \subseteq Nat
  BY BlockEndNat DEF Ends

LEMMA EndsBetween ==
  ASSUME TableTypeOK, NEW w \in Nat, NEW c \in Buckets, NEW e \in Ends(c), w < e, e <= NextEnd(w)
  PROVE  c = bucket_index(w)
  <1>0. PICK p : p = 2^rshift
    OBVIOUS
  <1>1. PICK m \in Nat : e = BlockEnd(p, NumBuckets, c, m)
    BY <1>0 DEF Ends
  <1>2. p \in Nat \ {0} /\ NumBuckets \in Nat \ {0} /\ c \in 0 .. NumBuckets-1
    BY <1>0, TurnFacts
  <1>3. w < BlockEnd(p, NumBuckets, c, m) /\ BlockEnd(p, NumBuckets, c, m) <= ((w \div p) + 1) * p
    BY <1>0, <1>1 DEF NextEnd
  <1>4. c = (w \div p) % NumBuckets
    BY <1>2, <1>3, OnlyThisBlock
  <1> QED
    BY <1>0, <1>4 DEF bucket_index

LEMMA NoEndBetween ==
  ASSUME TableTypeOK, NEW w \in Nat, NEW t \in Nat, w <= t, 2 * (t - w) <= Turn, bucket_index(w) = bucket_index(t),
         NEW c \in Buckets, NEW e \in Ends(c), e <= t
  PROVE  e <= w
  <1>0. PICK p : p = 2^rshift
    OBVIOUS
  <1>1. PICK m \in Nat : e = BlockEnd(p, NumBuckets, c, m)
    BY <1>0 DEF Ends
  <1>2. p \in Nat \ {0} /\ NumBuckets \in Nat \ {0} /\ NumBuckets > 1 /\ c \in 0 .. NumBuckets-1
    BY <1>0, TurnFacts
  <1>3. 2 * (t - w) <= NumBuckets * p /\ (w \div p) % NumBuckets = (t \div p) % NumBuckets
    BY <1>0 DEF Turn, bucket_index
  <1>4. \A d \in 0 .. NumBuckets-1, k \in Nat :
           BlockEnd(p, NumBuckets, d, k) <= t => BlockEnd(p, NumBuckets, d, k) <= w
    BY <1>2, <1>3, SameBlock
  <1>5. BlockEnd(p, NumBuckets, c, m) <= t
    BY <1>1
  <1> QED
    BY <1>1, <1>2, <1>4, <1>5

LEMMA LastEnd ==
  ASSUME TableTypeOK, NEW w \in Nat, NEW c \in Buckets
  PROVE  w < Turn \/ \E e \in Ends(c) : e <= w /\ w - e < Turn
  <1>0. PICK p : p = 2^rshift
    OBVIOUS
  <1>1. p \in Nat \ {0} /\ NumBuckets \in Nat \ {0} /\ c \in 0 .. NumBuckets-1
    BY <1>0, TurnFacts
  <1>2. \/ w < NumBuckets * p
        \/ \E m \in Nat : /\ BlockEnd(p, NumBuckets, c, m) <= w
                          /\ w - BlockEnd(p, NumBuckets, c, m) < NumBuckets * p
    BY <1>1, LastBlockEnd
  <1> QED
    BY <1>0, <1>2 DEF Turn, Ends

LEMMA NextEndFacts ==
  ASSUME TableTypeOK, NEW w \in Nat, NEW t \in Nat, w <= t, bucket_index(w) # bucket_index(t)
  PROVE  NextEnd(w) \in Nat /\ w < NextEnd(w) /\ NextEnd(w) <= t
  <1>0. PICK p : p = 2^rshift
    OBVIOUS
  <1>1. p \in Nat \ {0} /\ NumBuckets \in Nat \ {0}
    BY <1>0, TurnFacts
  <1>2. (w \div p) % NumBuckets # (t \div p) % NumBuckets
    BY <1>0 DEF bucket_index
  <1>3. ((w \div p) + 1) * p \in Nat /\ w < ((w \div p) + 1) * p /\ ((w \div p) + 1) * p <= t
    BY <1>1, <1>2, LeavesBlock
  <1> QED
    BY <1>0, <1>3 DEF NextEnd

LEMMA IndexFacts ==
  ASSUME TableTypeOK, NEW f \in Nat, NEW q \in Nat
  PROVE  /\ bucket_index(f + q * Turn) = bucket_index(f) /\ bucket_index(f) \in Buckets
         /\ (bucket_index(f) + 1) * 2^rshift \in Nat
         /\ \E k \in Nat : NextEnd(f + q * Turn) = (bucket_index(f) + 1) * 2^rshift + k * Turn
  <1>0. PICK p : p = 2^rshift
    OBVIOUS
  <1>1. p \in Nat \ {0} /\ NumBuckets \in Nat \ {0} /\ Buckets = 0 .. NumBuckets-1
    BY <1>0, TurnFacts
  <1>2. ((f + q * (NumBuckets * p)) \div p) % NumBuckets = (f \div p) % NumBuckets
    BY <1>1, TurnLater
  <1>3. (f \div p) % NumBuckets \in Buckets
    <2>1. f \div p \in Nat
      BY <1>1, DivBounds
    <2> QED
      BY <1>1, <2>1, DivBounds
  <1>4. \E k \in Nat : (((f + q * (NumBuckets * p)) \div p) + 1) * p
                        = (((f \div p) % NumBuckets) + 1) * p + k * (NumBuckets * p)
    BY ZenonT(40), <1>1, NextBlock
  <1>5. (((f \div p) % NumBuckets) + 1) * p \in Nat
    <2> PICK i : i = (f \div p) % NumBuckets
      OBVIOUS
    <2>1. i \in Nat
      BY <1>1, <1>3
    <2>2. (i + 1) * p \in Nat
      BY <1>1, <2>1
    <2> QED
      BY <2>2
  <1> QED
    BY <1>0, <1>2, <1>3, <1>4, <1>5 DEF Turn, bucket_index, NextEnd

\* An offset is some turns behind its address.
LEMMA TurnsBehind ==
  ASSUME TableTypeOK, NEW w \in Nat
  PROVE  w % Span \in Nat /\ \E q \in Nat : w = (w % Span) + q * Turn
  <1>1. Span \in Nat \ {0} /\ Turn \in Nat /\ Span = 2 * Turn
    BY BuildFacts, TurnFacts
  <1> DEFINE a == w \div Span   r == w % Span
  <1>2. a \in Nat /\ r \in Nat /\ w = Span * a + r
    <2>1. w \div Span \in Nat /\ w % Span \in 0 .. Span-1 /\ w = Span * (w \div Span) + (w % Span)
      BY <1>1, DivBounds
    <2> QED
      BY <1>1, <2>1
  <1> HIDE DEF a, r
  <1> PICK h : h = Turn
    OBVIOUS
  <1>3. h \in Nat /\ w = (2 * h) * a + r
    BY <1>1, <1>2
  <1>4. 2 * a \in Nat /\ w = r + (2 * a) * h
    BY <1>2, <1>3
  <1> QED
    BY <1>2, <1>4 DEF r

LEMMA PushedEnds ==
  ASSUME Shape, NEW S, Stored(S), NEW n \in 1 .. pool.size
  PROVE  /\ mehcached_pool_push_tail(pool, n).tail = pool.tail + n
         /\ mehcached_pool_push_tail(pool, n).size = pool.size
  <1>1. IsLog(pool) /\ TiledBy(pool, S)
    BY DEF Shape, TableTypeOK, Stored
  <1>2. PICK q, T :
          /\ q = mehcached_pool_push_tail(pool, n)
          /\ IsLog(q) /\ q.size = pool.size /\ q.tail = pool.tail + n
          /\ T \in SUBSET (q.head .. q.tail) /\ TiledBy(q, T)
          /\ pool.tail \in T /\ Word(q, pool.tail).item_size = n
          /\ \A w : Keeps(pool, S, q, T, w)
    BY <1>1, Pushed
  <1> QED
    BY <1>2

\* Writing moves neither end of the log.
LEMMA WrittenEnds ==
  ASSUME IsLog(pool), NEW o, NEW n, NEW x
  PROVE  /\ WriteKey(pool, o, x).tail = pool.tail /\ WriteKey(pool, o, x).size = pool.size
         /\ WriteValue(pool, o, n, x).tail = pool.tail /\ WriteValue(pool, o, n, x).size = pool.size
  <1>1. DOMAIN pool = {"size", "head", "tail", "data"}
    BY DEF IsLog
  <1> QED
    BY <1>1 DEF WriteKey, WriteValue

\* The tail is less than the span of the offsets ahead of what the buckets
\* hold, so that no offset is taken for a later one.
LEMMA CleanedIsNotRevived ==
  ASSUME Shape, NEW W, CleanedBy(W), NotLapped
  PROVE  /\ \A b \in Buckets, s \in Slots : Entry(b, s).tag # 0 => pool.tail - Entry(b, s).at < Span
         /\ NoItemRevives
  <1> PICK t, h, z : t = pool.tail /\ h = Turn /\ z = pool.size
    OBVIOUS
  <1>1. /\ TableTypeOK /\ Pointers /\ t \in Nat /\ z \in Nat /\ z > 0 /\ W \in [Lcores -> Nat]
        /\ Span \in Nat \ {0} /\ h \in Nat \ {0} /\ Span = 2 * h /\ 2 * z <= h
    <2>1. TableTypeOK /\ Pointers /\ t \in Nat /\ W \in [Lcores -> Nat]
      BY DEF Shape, TableTypeOK, IsLog, CleanedBy
    <2>2. z \in Nat /\ z > 0 /\ Span \in Nat \ {0}
      BY <2>1, BuildFacts
    <2>3. h \in Nat \ {0} /\ Span = 2 * h /\ 2 * z <= h
      BY <2>1, TurnFacts
    <2> QED
      BY <2>1, <2>2, <2>3
  <1> DEFINE T == {t} \cup {W[l] : l \in {m \in Lcores : Owes(m)}}
  <1>2. ASSUME NEW l \in Lcores, Owes(l)
        PROVE  W[l] \in Nat /\ W[l] <= t /\ t - W[l] <= h - z
    <2> PICK w, to : w = W[l] /\ to = req[l].to
      OBVIOUS
    <2>1. w \in Nat /\ to \in Nat /\ w <= to /\ to <= t /\ to - w <= z
      BY <1>1, <1>2 DEF CleanedBy, Cleans
    <2>2. t - to <= h - 2 * z
      BY <1>2 DEF NotLapped
    <2> QED
      BY <1>1, <2>1, <2>2
  <1>3. PICK x \in T : \A y \in T : x <= y
    <2>1. T \subseteq Nat /\ T # {}
      BY <1>1, <1>2
    <2> HIDE DEF T
    <2> QED
      BY <2>1, Smallest
  <1>4. x \in Nat /\ x <= t /\ t - x <= h - z
    <2>1. CASE x = t
      BY <1>1, <2>1
    <2>2. CASE x # t
      BY <1>2, <2>2
    <2> QED
      BY <2>1, <2>2
  <1>5. \A l \in Lcores : Owes(l) => x <= W[l]
    BY <1>3
  <1> HIDE DEF T
  <1>6. ASSUME NEW b \in Buckets, NEW s \in Slots, Entry(b, s).tag # 0
        PROVE  t - Entry(b, s).at < Span
    <2> PICK a : a = Entry(b, s).at
      OBVIOUS
    <2>1. a \in Nat /\ a < t
      BY <1>1, <1>6, EntryFacts DEF Pointers
    <2>2. Swept(W, b, a)
      BY <1>6, <2>1 DEF CleanedBy, Filled
    <2>3. CASE x < h
      BY <1>1, <1>4, <2>1, <2>3
    <2>4. CASE \E e \in Ends(b) : e <= x /\ x - e < h
      <3>1. PICK e \in Ends(b) : e <= x /\ x - e < h
        BY <2>4
      <3>2. e \in Nat
        BY <1>1, <3>1, EndsAreNat
      <3>3. e <= t
        BY <1>1, <1>4, <3>1, <3>2
      <3>4. ~ Owed(W, e)
        <4>1. SUFFICES ASSUME NEW l \in Lcores, Owes(l), W[l] < e PROVE FALSE
          BY DEF Owed
        <4>2. x <= W[l] /\ W[l] \in Nat
          BY <1>2, <1>5, <4>1
        <4> QED
          BY <1>4, <3>1, <3>2, <4>1, <4>2
      <3>5. e - a <= z
        BY <2>2, <3>1, <3>3, <3>4 DEF Swept
      <3> QED
        BY <1>1, <1>4, <2>1, <3>1, <3>2, <3>5
    <2>5. x < h \/ \E e \in Ends(b) : e <= x /\ x - e < h
      BY <1>1, <1>4, LastEnd
    <2> QED
      BY <2>3, <2>4, <2>5
  <1>7. NoItemRevives
    <2>1. SUFFICES ASSUME NEW b \in Buckets, NEW s \in Slots, Entry(b, s) # Empty,
                          mehcached_pool_is_valid(pool, Entry(b, s).offset)
                   PROVE  pool.tail - Entry(b, s).at <= pool.size
      BY DEF NoItemRevives, Entry
    <2> PICK a : a = Entry(b, s).at
      OBVIOUS
    <2>2. Entry(b, s).tag # 0
      BY <1>1, <2>1 DEF Pointers
    <2>3. a \in Nat /\ a < t /\ Entry(b, s).offset = a % Span
      BY <1>1, <2>2, EntryFacts DEF Pointers
    <2>4. t - a < Span /\ a <= t
      BY <1>1, <1>6, <2>2, <2>3
    <2>5. (t - (a % Span)) % Span = t - a
      BY ZenonT(40), <1>1, <2>3, <2>4, OffsetDistance
    <2> QED
      BY <2>1, <2>3, <2>5 DEF mehcached_pool_is_valid
  <1> QED
    BY <1>6, <1>7

\* An lcore changes nothing of the others'.
OthersStay(l) == build' = build /\ \A m \in Lcores : m # l => pc'[m] = pc[m] /\ req'[m] = req[m]

LEMMA StepStays ==
  ASSUME TableTypeOK, NEW l \in Lcores, Step(l)
  PROVE  OthersStay(l)
  <1>1. DOMAIN pc = Lcores /\ DOMAIN req = Lcores
    BY DEF TableTypeOK
  <1>2. CASE SetLock(l) \/ SetPoolUnlock(l) \/ SetPublish(l) \/ Return(l) \/ mehcached_cleanup_bucket(l)
    BY <1>1, <1>2 DEF OthersStay, SetLock, SetPoolUnlock, SetPublish, Return, mehcached_cleanup_bucket, Goto
  <1>3. CASE SetFind(l)
    BY <1>1, <1>3 DEF OthersStay, SetFind, Goto
  <1>4. CASE SetAllocate(l)
    BY <1>1, <1>4 DEF OthersStay, SetAllocate, Goto
  <1>5. CASE SetWrite(l)
    BY <1>1, <1>5 DEF OthersStay, SetWrite
  <1>6. CASE GetVersion(l) \/ GetFind(l) \/ GetCopy(l)
    BY <1>1, <1>6 DEF OthersStay, GetVersion, GetFind, GetCopy, Goto
  <1>7. CASE GetIsValid(l) \/ GetRetry(l) \/ GetHit(l) \/ GetMiss(l) \/ GetStale(l)
    BY <1>1, <1>7 DEF OthersStay, GetIsValid, GetRetry, GetHit, GetMiss, GetStale, GetReturns, Goto
  <1>8. CASE RemoveStale(l)
    BY <1>1, <1>8 DEF OthersStay, RemoveStale, Goto
  <1>9. CASE MoveToHead(l)
    BY <1>1, <1>9 DEF OthersStay, MoveToHead, Goto
  <1> QED
    BY <1>2, <1>3, <1>4, <1>5, <1>6, <1>7, <1>8, <1>9 DEF Step

LEMMA OthersOwe ==
  ASSUME NEW l \in Lcores, OthersStay(l)
  PROVE  /\ Lcores' = Lcores /\ (concurrent' <=> concurrent)
         /\ \A m \in Lcores : m # l =>
              /\ Owes(m)' <=> Owes(m)
              /\ req'[m] = req[m] /\ pc'[m] = pc[m]
              /\ InHand(m)' <=> InHand(m)
              /\ Bucket(m)' = Bucket(m)
  BY DEF OthersStay, Lcores, concurrent, Owes, Moving, InHand, Bucket

\* What has to be shown of a step: of the others only that what they have in
\* hand is still swept.
LEMMA CleanedThen ==
  ASSUME Shape, NEW W, CleanedBy(W), NEW l \in Lcores, OthersStay(l), NEW v \in Nat, NEW V, V = [W EXCEPT ![l] = v],
         pool'.size = pool.size, pool'.tail \in Nat, pool.tail <= pool'.tail,
         \A b \in Buckets, s \in Slots, a \in Nat : Filled(b, s, a)' => Swept(V, b, a)',
         \A b \in Buckets, a \in Nat : Held(l, b, a)' => Swept(V, b, a)',
         \A m \in Lcores, b \in Buckets, a \in Nat : m # l /\ Held(m, b, a) => Swept(V, b, a)',
         Cleans(l, v)'
  PROVE  CleanedBy(V)'
  <1>1. /\ Lcores' = Lcores /\ W \in [Lcores -> Nat] /\ V \in [Lcores -> Nat] /\ V[l] = v
        /\ Turn' = Turn /\ TableTypeOK /\ pool.tail \in Nat
    BY OthersOwe DEF CleanedBy, Turn, Shape, TableTypeOK, IsLog
  <1>2. ASSUME NEW m \in Lcores, m # l
        PROVE  /\ \A b \in Buckets, a \in Nat : Held(m, b, a)' => Swept(V, b, a)'
               /\ Cleans(m, V[m])'
    <2>1. /\ Owes(m)' <=> Owes(m)
          /\ req'[m] = req[m] /\ pc'[m] = pc[m] /\ Bucket(m)' = Bucket(m)
          /\ InHand(m)' <=> InHand(m)
          /\ concurrent' <=> concurrent
      BY <1>2, OthersOwe
    <2>2. \A b, a : Held(m, b, a)' => Held(m, b, a)
      BY <2>1 DEF Held, InHand, Bucket
    <2> PICK u : u = V[m]
      OBVIOUS
    <2>3. u = W[m] /\ u \in Nat /\ Cleans(m, u)
      BY <1>1, <1>2 DEF CleanedBy
    <2>6. concurrent
      <3>1. TableTypeOK
        BY <1>1
      <3> QED
        BY <1>2, <3>1, Alone
    <2>7. pc'[m] = pc[m]
      BY <2>1
    <2>4. Moving(m)' <=> Moving(m)
      BY <2>7 DEF Moving
    <2>5. Cleans(m, u)'
      BY <1>1, <2>1, <2>3, <2>4, <2>6 DEF Cleans
    <2> QED
      BY <1>2, <2>2, <2>5
  <1>3. Cleans(l, V[l])'
    BY <1>1
  <1>4. \A m \in Lcores : /\ Cleans(m, V[m])'
                          /\ \A b \in Buckets, a \in Nat : Held(m, b, a)' => Swept(V, b, a)'
    BY <1>2, <1>3
  <1> QED
    BY <1>1, <1>4 DEF CleanedBy, Buckets, Slots

\* The tail does not move and nobody starts or stops owing.
LEMMA CleanedStill ==
  ASSUME Shape, NEW W, CleanedBy(W), NEW l \in Lcores, OthersStay(l),
         pool'.size = pool.size, pool'.tail = pool.tail,
         Owes(l)' <=> Owes(l), Owes(l) => req'[l].to = req[l].to, Cleans(l, W[l])',
         \A b \in Buckets, s \in Slots, a \in Nat : Filled(b, s, a)' => Swept(W, b, a),
         \A b \in Buckets, a \in Nat : Held(l, b, a)' => Swept(W, b, a)
  PROVE  CleanedBy(W)'
  <1>1. Lcores' = Lcores /\ W \in [Lcores -> Nat] /\ pool.tail \in Nat
    BY OthersOwe DEF CleanedBy, Shape, TableTypeOK, IsLog
  <1>2. ASSUME NEW e
        PROVE  Owed(W, e)' <=> Owed(W, e)
    <2>1. \A m \in Lcores : (Owes(m)' <=> Owes(m)) /\ (Owes(m) => req'[m].to = req[m].to)
      BY OthersOwe
    <2> QED
      BY <1>1, <2>1 DEF Owed
  <1>3. \A b, a : Swept(W, b, a) => Swept(W, b, a)'
    BY <1>2 DEF Swept
  <1> PICK v : v = W[l]
    OBVIOUS
  <1>4. v \in Nat /\ W = [W EXCEPT ![l] = v] /\ Cleans(l, v)'
    BY <1>1
  <1>5. \A b \in Buckets, s \in Slots, a \in Nat : Filled(b, s, a)' => Swept(W, b, a)'
    BY <1>3
  <1>6. \A b \in Buckets, a \in Nat : Held(l, b, a)' => Swept(W, b, a)'
    BY <1>3
  <1>7. \A m \in Lcores, b \in Buckets, a \in Nat : m # l /\ Held(m, b, a) => Swept(W, b, a)'
    BY <1>3 DEF CleanedBy
  <1>8. pool'.tail \in Nat /\ pool.tail <= pool'.tail
    BY <1>1
  <1> QED
    BY <1>4, <1>5, <1>6, <1>7, <1>8, CleanedThen


\* A vector that is emptied holds no address.
LEMMA ShrinksFilled ==
  ASSUME Shrinks, NEW W, CleanedBy(W)
  PROVE  \A b \in Buckets, s \in Slots, a \in Nat : Filled(b, s, a)' => Swept(W, b, a)
  <1>1. SUFFICES ASSUME NEW b \in Buckets, NEW s \in Slots, NEW a \in Nat, Filled(b, s, a)'
                 PROVE  Filled(b, s, a)
    BY DEF CleanedBy
  <1>2. Entry(b, s)'.tag # 0 /\ a = Entry(b, s)'.at
    BY <1>1 DEF Filled
  <1>3. Entry(b, s)' = Entry(b, s)
    BY <1>2 DEF Shrinks, Empty
  <1> QED
    BY <1>2, <1>3 DEF Filled

\* The tail does not move, no operation is between moving it and cleaning, and
\* no vector is new.
LEMMA CleanedQuiet ==
  ASSUME Shape, NEW W, CleanedBy(W), NEW l \in Lcores, OthersStay(l),
         pc[l] # "idle", ~ Moving(l), ~ InHand(l)', pool'.size = pool.size, pool'.tail = pool.tail,
         req'[l].from = req[l].from, req'[l].to = req[l].to, Shrinks
  PROVE  CleanedBy(W)'
  <1> PICK w : w = W[l]
    OBVIOUS
  <1>1. Cleans(l, w)
    BY DEF CleanedBy
  <1>2. req'[l].from = 0 /\ req'[l].to = 0
    BY <1>1 DEF Cleans
  <1>3. Cleans(l, w)' /\ ~ Owes(l) /\ ~ Owes(l)'
    BY <1>2 DEF Cleans, Owes
  <1>4. Cleans(l, W[l])' /\ (Owes(l)' <=> Owes(l)) /\ (Owes(l) => req'[l].to = req[l].to)
    BY <1>3
  <1>5. \A b \in Buckets, s \in Slots, a \in Nat : Filled(b, s, a)' => Swept(W, b, a)
    BY ShrinksFilled
  <1>6. \A b \in Buckets, a \in Nat : Held(l, b, a)' => Swept(W, b, a)
    BY DEF Held
  <1> QED
    BY <1>4, <1>5, <1>6, CleanedStill

LEMMA NowAt ==
  ASSUME TableTypeOK, NEW l \in Lcores, NEW where, Goto(l, where)
  PROVE  pc'[l] = where
  BY DEF Goto, TableTypeOK

\* Between its beginning and moving the tail, and back from a hit, an
\* operation leaves the tail alone.
LEMMA CleanedBefore ==
  ASSUME Shape, NEW W, CleanedBy(W), NEW l \in Lcores, OthersStay(l),
         \/ SetLock(l) \/ SetFind(l) \/ GetVersion(l) \/ GetFind(l) \/ GetCopy(l) \/ GetIsValid(l) \/ GetRetry(l)
         \/ GetHit(l) \/ GetMiss(l) \/ GetStale(l) \/ RemoveStale(l)
  PROVE  CleanedBy(W)'
  <1>1. TableTypeOK /\ DOMAIN req = Lcores /\ pc \in [Lcores -> Places]
    BY DEF Shape, TableTypeOK
  <1>2. item_vec' = item_vec => Shrinks
    BY DEF Shrinks, Entry
  <1>3. pc[l] # "idle" => DOMAIN req[l] = Fields
    BY <1>1, RequestFacts
  <1>4. CASE SetLock(l)
    <2>1. /\ pc[l] = "set_lock" /\ pc'[l] = "set_find" /\ build' = build /\ pool' = pool /\ req' = req
          /\ item_vec' = item_vec
      BY <1>1, <1>4, NowAt DEF SetLock
    <2> QED
      BY <1>2, <2>1, CleanedQuiet DEF Moving, InHand
  <1>5. CASE SetFind(l)
    <2>1. /\ pc[l] = "set_find" /\ pc'[l] \in {"idle", "set_allocate"} /\ build' = build /\ pool' = pool
          /\ item_vec' = item_vec
      BY <1>1, <1>5, NowAt DEF SetFind
    <2>2. req'[l].from = req[l].from /\ req'[l].to = req[l].to
      <3>1. \/ req' = req
            \/ \E s, f : req' = [req EXCEPT ![l].slot = s, ![l].found = f]
        BY <1>5 DEF SetFind
      <3>2. ASSUME NEW s, NEW f, req' = [req EXCEPT ![l].slot = s, ![l].found = f]
            PROVE  req'[l].from = req[l].from /\ req'[l].to = req[l].to
        BY <1>1, <1>3, <2>1, <3>2 DEF Fields
      <3> QED
        BY <3>1, <3>2
    <2> QED
      BY <1>2, <2>1, <2>2, CleanedQuiet DEF Moving, InHand
  <1>6. CASE GetVersion(l)
    <2>1. /\ pc[l] = "get_version" /\ pc'[l] = "get_find" /\ build' = build /\ pool' = pool
          /\ item_vec' = item_vec
          /\ req' = [req EXCEPT ![l].version = version[req[l].key.bucket], ![l].word = 1, ![l].copy = {}]
      BY <1>1, <1>6, NowAt DEF GetVersion
    <2>2. req'[l].from = req[l].from /\ req'[l].to = req[l].to
      BY <1>1, <1>3, <2>1 DEF Fields
    <2> QED
      BY <1>2, <2>1, <2>2, CleanedQuiet DEF Moving, InHand
  <1>7. CASE GetFind(l)
    <2>1. /\ pc[l] = "get_find" /\ pc'[l] \in {"get_miss", "get_copy"} /\ build' = build /\ pool' = pool
          /\ item_vec' = item_vec
      BY <1>1, <1>7, NowAt DEF GetFind
    <2>2. req'[l].from = req[l].from /\ req'[l].to = req[l].to
      <3>1. \/ req' = req
            \/ \E s, o : req' = [req EXCEPT ![l].slot = s, ![l].offset = o]
        BY <1>7 DEF GetFind
      <3>2. ASSUME NEW s, NEW o, req' = [req EXCEPT ![l].slot = s, ![l].offset = o]
            PROVE  req'[l].from = req[l].from /\ req'[l].to = req[l].to
        BY <1>1, <1>3, <2>1, <3>2 DEF Fields
      <3> QED
        BY <3>1, <3>2
    <2> QED
      BY <1>2, <2>1, <2>2, CleanedQuiet DEF Moving, InHand
  <1>8. CASE GetCopy(l)
    <2>1. pc[l] = "get_copy" /\ pc' = pc /\ build' = build /\ pool' = pool /\ item_vec' = item_vec
      BY <1>8 DEF GetCopy
    <2>2. req'[l].from = req[l].from /\ req'[l].to = req[l].to
      BY <1>1, <1>3, <1>8, <2>1 DEF Fields, GetCopy
    <2> QED
      BY <1>2, <2>1, <2>2, CleanedQuiet DEF Moving, InHand
  <1>9. CASE GetIsValid(l)
    <2>1. /\ pc[l] = "get_copy" /\ pc'[l] \in {"get_hit", "get_stale"} /\ build' = build /\ pool' = pool
          /\ req' = req /\ item_vec' = item_vec
      BY <1>1, <1>9, NowAt DEF GetIsValid
    <2> QED
      BY <1>2, <2>1, CleanedQuiet DEF Moving, InHand
  <1>10. CASE GetRetry(l)
    <2>1. /\ pc[l] \in {"get_miss", "get_stale", "get_hit"} /\ pc'[l] = "get_version" /\ build' = build
          /\ pool' = pool /\ req' = req /\ item_vec' = item_vec
      BY <1>1, <1>10, NowAt DEF GetRetry
    <2> QED
      BY <1>2, <2>1, CleanedQuiet DEF Moving, InHand
  <1>11. CASE GetHit(l)
    <2>1. /\ pc[l] = "get_hit" /\ pc'[l] \in {"move_to_head", "cleanup"} /\ build' = build
          /\ pool' = pool /\ req' = req /\ item_vec' = item_vec
      BY <1>1, <1>11, NowAt DEF GetHit, GetReturns
    <2> QED
      BY <1>2, <2>1, CleanedQuiet DEF Moving, InHand
  <1>12. CASE GetMiss(l)
    <2>1. /\ pc[l] = "get_miss" /\ pc'[l] = "cleanup" /\ build' = build
          /\ pool' = pool /\ req' = req /\ item_vec' = item_vec
      BY <1>1, <1>12, NowAt DEF GetMiss, GetReturns
    <2> QED
      BY <1>2, <2>1, CleanedQuiet DEF Moving, InHand
  <1>13. CASE GetStale(l)
    <2>1. /\ pc[l] = "get_stale" /\ pc'[l] = "remove" /\ build' = build
          /\ pool' = pool /\ req' = req /\ item_vec' = item_vec
      BY <1>1, <1>13, NowAt DEF GetStale, GetReturns
    <2> QED
      BY <1>2, <2>1, CleanedQuiet DEF Moving, InHand
  <1>14. CASE RemoveStale(l)
    <2>1. /\ pc[l] = "remove" /\ pc'[l] = "cleanup" /\ build' = build /\ pool' = pool /\ req' = req
          /\ item_vec' = [item_vec EXCEPT ![Bucket(l)][req[l].slot] = Empty]
      BY <1>1, <1>14, NowAt DEF RemoveStale, Bucket
    <2>2. Shrinks
      <3> PICK b, s : b = Bucket(l) /\ s = req[l].slot
        OBVIOUS
      <3>1. b \in Buckets /\ s \in Slots
        BY <1>1, <2>1, RequestFacts
      <3> QED
        BY <1>1, <2>1, <3>1, EntryCleared
    <2> QED
      BY <2>1, <2>2, CleanedQuiet DEF Moving, InHand
  <1> QED
    BY <1>4, <1>5, <1>6, <1>7, <1>8, <1>9, <1>10, <1>11, <1>12, <1>13, <1>14


\* Where nothing is under way, nothing is owed or in hand.
LEMMA CleanedAtRest ==
  ASSUME Shape, NEW W, CleanedBy(W), NEW l \in Lcores, OthersStay(l), pool'.size = pool.size, pool'.tail = pool.tail,
         pc[l] = "idle", ~ InHand(l)', ~ Moving(l)', pc'[l] = "idle" \/ (req'[l].from = 0 /\ req'[l].to = 0), Shrinks
  PROVE  CleanedBy(W)'
  <1> PICK w : w = W[l]
    OBVIOUS
  <1>1. Cleans(l, w)' /\ ~ Owes(l) /\ ~ Owes(l)'
    BY DEF Cleans, Owes, Moving
  <1>2. Cleans(l, W[l])' /\ (Owes(l)' <=> Owes(l)) /\ (Owes(l) => req'[l].to = req[l].to)
    BY <1>1
  <1>3. \A b \in Buckets, s \in Slots, a \in Nat : Filled(b, s, a)' => Swept(W, b, a)
    BY ShrinksFilled
  <1>4. \A b \in Buckets, a \in Nat : Held(l, b, a)' => Swept(W, b, a)
    BY DEF Held
  <1> QED
    BY <1>2, <1>3, <1>4, CleanedStill

\* An operation begins.
LEMMA CleanedBegin ==
  ASSUME Shape, NEW W, CleanedBy(W), NEW l \in Lcores, pc[l] = "idle",
         NEW op, NEW key, NEW pad, NEW val, NEW where \in {"set_lock", "get_version"},
         req' = [req EXCEPT ![l] = Request(op, key, pad, val)], Goto(l, where),
         UNCHANGED <<build, item_vec, pool>>
  PROVE  CleanedBy(W)'
  <1>1. TableTypeOK /\ DOMAIN req = Lcores /\ DOMAIN pc = Lcores
    BY DEF Shape, TableTypeOK
  <1>2. OthersStay(l)
    BY <1>1 DEF OthersStay, Goto
  <1>3. pc'[l] = where
    BY <1>1, NowAt
  <1>4. req'[l].from = 0 /\ req'[l].to = 0
    BY <1>1 DEF Request
  <1>5. ~ Moving(l)' /\ ~ InHand(l)'
    BY <1>3 DEF Moving, InHand
  <1>6. Shrinks
    BY DEF Shrinks, Entry
  <1> QED
    BY <1>2, <1>4, <1>5, <1>6, CleanedAtRest

\* Between moving the tail and cleaning, nothing changes but what is in hand.
LEMMA CleanedMoving ==
  ASSUME Shape, NEW W, CleanedBy(W), NEW l \in Lcores, OthersStay(l),
         Moving(l), Moving(l)', pool'.size = pool.size, pool'.tail = pool.tail,
         req'[l].from = req[l].from, req'[l].to = req[l].to,
         \A b, a : Held(l, b, a)' => Held(l, b, a),
         \A b \in Buckets, s \in Slots, a \in Nat : Filled(b, s, a)' => Swept(W, b, a)
  PROVE  CleanedBy(W)'
  <1> PICK w : w = W[l]
    OBVIOUS
  <1>1. Cleans(l, w) /\ (concurrent' <=> concurrent)
    BY OthersOwe DEF CleanedBy
  <1>2. Owes(l)' <=> Owes(l)
    BY DEF Owes
  <1>3. Turn' = Turn /\ (pc[l] # "idle") /\ (pc'[l] # "idle")
    BY DEF Turn, Moving
  <1>4. Cleans(l, w)'
    BY <1>1, <1>2, <1>3 DEF Cleans
  <1>5. \A b \in Buckets, a \in Nat : Held(l, b, a)' => Swept(W, b, a)
    BY DEF CleanedBy
  <1> QED
    BY <1>2, <1>4, <1>5, CleanedStill

LEMMA CleanedSet ==
  ASSUME Shape, NEW W, CleanedBy(W), NEW l \in Lcores, OthersStay(l),
         SetWrite(l) \/ SetPoolUnlock(l) \/ SetPublish(l)
  PROVE  CleanedBy(W)'
  <1>1. TableTypeOK /\ DOMAIN req = Lcores /\ IsLog(pool)
    BY DEF Shape, TableTypeOK
  <1>2. item_vec' = item_vec => \A b \in Buckets, s \in Slots, a \in Nat : Filled(b, s, a)' => Swept(W, b, a)
    BY DEF CleanedBy, Filled, Entry
  <1>3. pc[l] # "idle" => DOMAIN req[l] = Fields /\ Bucket(l) \in Buckets /\ req[l].slot \in Slots /\ req[l].at \in Nat
    BY <1>1, RequestFacts
  <1>4. CASE SetWrite(l)
    <2>1. /\ pc[l] = "set_write" /\ pc' = pc /\ item_vec' = item_vec
          /\ req' = [req EXCEPT ![l].word = @ + 1]
      BY <1>4 DEF SetWrite
    <2>2. pool'.size = pool.size /\ pool'.tail = pool.tail
      BY <1>1, <1>4, WrittenEnds DEF SetWrite
    <2>3. /\ req'[l].from = req[l].from /\ req'[l].to = req[l].to /\ req'[l].at = req[l].at
          /\ req'[l].key = req[l].key
      BY <1>1, <1>3, <2>1 DEF Fields
    <2>4. Moving(l) /\ Moving(l)' /\ \A b, a : Held(l, b, a)' => Held(l, b, a)
      BY <2>1, <2>3 DEF Held, InHand, Moving, Bucket
    <2> QED
      BY <1>2, <2>1, <2>2, <2>3, <2>4, CleanedMoving
  <1>5. CASE SetPoolUnlock(l)
    <2>1. /\ pc[l] = "set_write" /\ pc'[l] = "set_publish" /\ item_vec' = item_vec
          /\ req' = req /\ pool' = pool
      BY <1>1, <1>5, NowAt DEF SetPoolUnlock
    <2>2. Moving(l) /\ Moving(l)' /\ \A b, a : Held(l, b, a)' => Held(l, b, a)
      BY <2>1 DEF Held, InHand, Moving, Bucket
    <2> QED
      BY <1>2, <2>1, <2>2, CleanedMoving
  <1>6. CASE SetPublish(l)
    <2> PICK b, s, a : b = Bucket(l) /\ s = req[l].slot /\ a = req[l].at
      OBVIOUS
    <2>1. /\ pc[l] = "set_publish" /\ pc'[l] = "cleanup" /\ req' = req /\ pool' = pool
      BY <1>1, <1>6, NowAt DEF SetPublish
    <2>2. /\ Moving(l) /\ Moving(l)' /\ ~ InHand(l)' /\ b \in Buckets /\ s \in Slots /\ a \in Nat
          /\ Held(l, b, a)
      BY <1>3, <2>1 DEF InHand, Moving, Held
    <2>3. Swept(W, b, a)
      BY <2>2 DEF CleanedBy
    <2>4. \A c \in Buckets, x \in Slots, y \in Nat : Filled(c, x, y)' => Swept(W, c, y)
      <3> PICK new : new = [tag |-> req[l].key.tag, offset |-> req[l].offset, at |-> a]
        OBVIOUS
      <3>1. item_vec' = [item_vec EXCEPT ![b][s] = new]
        BY <1>6 DEF SetPublish, Bucket
      <3>2. item_vec \in [Buckets -> [Slots -> [tag : Tags, offset : Nat, at : Nat]]]
        BY <1>1 DEF TableTypeOK
      <3>3. /\ Entry(b, s)' = new
            /\ \A c \in Buckets, x \in Slots : ~ (c = b /\ x = s) => Entry(c, x)' = Entry(c, x)
        BY <2>2, <3>1, <3>2 DEF Entry
      <3>4. new.at = a
        OBVIOUS
      <3>5. \A c \in Buckets, x \in Slots, y \in Nat : Filled(c, x, y) => Swept(W, c, y)
        BY DEF CleanedBy
      <3> QED
        BY <2>3, <3>3, <3>4, <3>5 DEF Filled
    <2>5. \A c, y : Held(l, c, y)' => Held(l, c, y)
      BY <2>2 DEF Held
    <2> QED
      BY <2>1, <2>2, <2>4, <2>5, CleanedMoving
  <1> QED
    BY <1>4, <1>5, <1>6

\* The rest of the library, with nothing begun.
LEMMA CleanedLibrary ==
  ASSUME Shape, NEW W, CleanedBy(W), NEW l \in Lcores,
         NEW key \in build.keys, NEW pad, Delete(l, key, pad) \/ Increment(l, key, pad)
  PROVE  CleanedBy(W)'
  <1>1. TableTypeOK /\ IsLog(pool)
    BY DEF Shape, TableTypeOK
  <1>2. CASE Delete(l, key, pad)
    <2> PICK b, s : b = key.bucket /\ s = mehcached_find_item_index(key.bucket, key, pad)
      OBVIOUS
    <2>1. /\ pc[l] = "idle" /\ pc' = pc /\ req' = req /\ build' = build /\ pool' = pool
          /\ s # ItemsPerBucket /\ item_vec' = [item_vec EXCEPT ![b][s] = Empty]
      BY <1>2 DEF Delete, Library
    <2>2. b \in Buckets /\ s \in Slots
      <3>1. b \in Buckets
        BY <1>1, BuildFacts
      <3> QED
        BY <1>1, <2>1, <3>1, FindFacts
    <2>3. Shrinks
      BY <1>1, <2>1, <2>2, EntryCleared
    <2>4. OthersStay(l) /\ ~ InHand(l)' /\ ~ Moving(l)' /\ pc'[l] = "idle"
      BY <2>1 DEF OthersStay, InHand, Moving
    <2> QED
      BY <2>1, <2>3, <2>4, CleanedAtRest
  <1>3. CASE Increment(l, key, pad)
    <2>1. pc[l] = "idle" /\ pc' = pc /\ req' = req /\ build' = build /\ item_vec' = item_vec
      BY <1>3 DEF Increment, Library
    <2>2. pool'.size = pool.size /\ pool'.tail = pool.tail
      <3>1. PICK o, new : pool' = WriteValue(pool, o, 1, new)
        BY <1>3 DEF Increment
      <3> QED
        BY <1>1, <3>1, WrittenEnds
    <2>3. Shrinks
      BY <2>1 DEF Shrinks, Entry
    <2>4. OthersStay(l) /\ ~ InHand(l)' /\ ~ Moving(l)' /\ pc'[l] = "idle"
      BY <2>1 DEF OthersStay, InHand, Moving
    <2> QED
      BY <2>1, <2>2, <2>3, <2>4, CleanedAtRest
  <1> QED
    BY <1>2, <1>3

\* An operation that moves the tail owes the ends of the blocks that it moves
\* it over, also for what it puts there.
LEMMA CleanedPush ==
  ASSUME Shape, NEW W, CleanedBy(W), NEW l \in Lcores, OthersStay(l), ~ Owes(l),
         NEW t, t = pool.tail, NEW n \in 1 .. pool.size, pool'.tail = t + n, pool'.size = pool.size,
         Moving(l)', req'[l].to = t + n, req'[l].from = t % Span,
         \A b \in Buckets, s \in Slots, a \in Nat : Filled(b, s, a)' => Filled(b, s, a) \/ a = t,
         \A b \in Buckets, a \in Nat : Held(l, b, a)' => a = t
  PROVE  \E V : CleanedBy(V)'
  <1> PICK z : z = pool.size
    OBVIOUS
  <1>1. /\ TableTypeOK /\ t \in Nat /\ z \in Nat /\ n \in Nat /\ n > 0 /\ n <= z
        /\ W \in [Lcores -> Nat]
    <2>1. TableTypeOK /\ t \in Nat /\ W \in [Lcores -> Nat]
      BY DEF Shape, TableTypeOK, IsLog, CleanedBy
    <2>2. z \in Nat
      BY <2>1, BuildFacts
    <2> QED
      BY <2>1, <2>2
  <1> PICK V : V = [W EXCEPT ![l] = t]
    OBVIOUS
  <1>2. V[l] = t /\ \A m \in Lcores : m # l => V[m] = W[m]
    BY <1>1
  <1>3. Owes(l)'
    <2>1. req'[l].to # 0
      BY <1>1
    <2> QED
      BY <2>1 DEF Owes
  <1>4. ASSUME NEW e \in Nat, t < e, e <= t + n
        PROVE  Owed(V, e)'
    BY <1>2, <1>3, <1>4, OthersOwe DEF Owed
  <1>5. ASSUME NEW b \in Buckets, NEW a \in Nat, Swept(W, b, a)
        PROVE  Swept(V, b, a)'
    <2>1. SUFFICES ASSUME NEW e \in Ends(b), e <= t + n
                   PROVE  e - a <= z \/ Owed(V, e)'
      BY DEF Swept
    <2>2. e \in Nat
      BY <1>1, EndsAreNat
    <2>3. CASE e <= t
      <3>1. e - a <= z \/ Owed(W, e)
        BY <1>5, <2>3 DEF Swept
      <3>2. ASSUME Owed(W, e)
            PROVE  Owed(V, e)'
        <4>1. PICK m \in Lcores : Owes(m) /\ W[m] < e /\ e <= req[m].to
          BY <3>2 DEF Owed
        <4>2. m # l /\ V[m] = W[m]
          BY <1>2, <4>1
        <4>3. m \in Lcores' /\ Owes(m)' /\ req'[m] = req[m]
          BY <4>1, <4>2, OthersOwe
        <4> QED
          BY <4>1, <4>2, <4>3 DEF Owed
      <3> QED
        BY <3>1, <3>2
    <2>4. CASE t < e
      BY <1>4, <2>1, <2>2, <2>4
    <2> QED
      BY <1>1, <2>2, <2>3, <2>4
  <1>6. ASSUME NEW b \in Buckets
        PROVE  Swept(V, b, t)'
    <2>1. SUFFICES ASSUME NEW e \in Ends(b), e <= t + n
                   PROVE  e - t <= z \/ Owed(V, e)'
      BY DEF Swept
    <2>2. e \in Nat
      BY <1>1, EndsAreNat
    <2>3. CASE e <= t
      BY <1>1, <2>2, <2>3
    <2>4. CASE t < e
      BY <1>4, <2>1, <2>2, <2>4
    <2> QED
      BY <1>1, <2>2, <2>3, <2>4
  <1>7. \A b \in Buckets, s \in Slots, a \in Nat : Filled(b, s, a)' => Swept(V, b, a)'
    BY <1>5, <1>6 DEF CleanedBy
  <1>8. \A b \in Buckets, a \in Nat : Held(l, b, a)' => Swept(V, b, a)'
    BY <1>6
  <1>9. \A m \in Lcores, b \in Buckets, a \in Nat : m # l /\ Held(m, b, a) => Swept(V, b, a)'
    BY <1>5 DEF CleanedBy
  <1>10. Cleans(l, t)'
    <2>1. t % Span \in Nat /\ \E q \in Nat : t = (t % Span) + q * Turn
      BY <1>1, TurnsBehind
    <2>2. t <= t + n /\ (t + n) - t <= z /\ t + n \in Nat /\ t + n # 0
      BY <1>1
    <2>3. Turn' = Turn
      BY DEF Turn
    <2> QED
      BY <1>3, <2>1, <2>2, <2>3 DEF Cleans
  <1>11. pool'.tail \in Nat /\ pool.tail <= pool'.tail
    BY <1>1
  <1>12. CleanedBy(V)'
    BY <1>1, <1>7, <1>8, <1>9, <1>10, <1>11, CleanedThen
  <1> QED
    BY <1>12

\* The item in hand is the old one or one at the old tail.
LEMMA CleanedAllocate ==
  ASSUME Shape, NEW S, Stored(S), NEW W, CleanedBy(W), NEW l \in Lcores, OthersStay(l), SetAllocate(l)
  PROVE  \E V : CleanedBy(V)'
  <1> PICK b, s, n, t, w : b = Bucket(l) /\ s = req[l].slot /\ n = req[l].key.size /\ t = pool.tail /\ w = W[l]
    OBVIOUS
  <1>1. /\ TableTypeOK /\ Chosen /\ DOMAIN req = Lcores /\ t \in Nat /\ pool.size \in Nat
    BY DEF Shape, TableTypeOK, IsLog
  <1>2. pc[l] = "set_allocate" /\ pc'[l] = "set_write" /\ item_vec' = item_vec
    BY <1>1, NowAt DEF SetAllocate
  <1>3. /\ DOMAIN req[l] = Fields /\ b \in Buckets /\ s \in Slots /\ n \in 2 .. pool.size
        /\ req[l].key.tag # 0
    BY <1>1, <1>2, RequestFacts
  <1>4. Cleans(l, w)
    BY DEF CleanedBy
  <1>5. req[l].from = 0 /\ req[l].to = 0 /\ ~ Owes(l)
    BY <1>2, <1>4 DEF Cleans, Moving, Owes
  <1>6. Moving(l)' /\ pc'[l] # "idle"
    BY <1>2 DEF Moving
  <1>7. \A c \in Buckets, x \in Slots, a \in Nat : Filled(c, x, a)' => Filled(c, x, a)
    BY <1>2 DEF Filled, Entry
  <1>8. CASE InPlace(l)
    <2>1. /\ pool' = pool
          /\ req' = [req EXCEPT ![l].offset = Entry(b, s).offset, ![l].at = Entry(b, s).at, ![l].word = 1]
      BY <1>8 DEF SetAllocate, Entry, Bucket
    <2>2. /\ req'[l].from = req[l].from /\ req'[l].to = req[l].to /\ req'[l].at = Entry(b, s).at
          /\ req'[l].key = req[l].key
      BY <1>1, <1>3, <2>1 DEF Fields
    <2>3. Entry(b, s).tag # 0
      BY <1>1, <1>2, <1>3, <1>8 DEF Chosen, InPlace
    <2>4. \A c \in Buckets, a \in Nat : Held(l, c, a)' => Swept(W, c, a)
      <3>1. SUFFICES ASSUME NEW c \in Buckets, NEW a \in Nat, Held(l, c, a)'
                     PROVE  Swept(W, c, a)
        OBVIOUS
      <3>2. c = b /\ a = Entry(b, s).at
        BY <2>2, <3>1 DEF Held, Bucket
      <3>3. Filled(b, s, a)
        BY <2>3, <3>2 DEF Filled
      <3> QED
        BY <1>3, <3>2, <3>3 DEF CleanedBy
    <2>5. ~ Owes(l)' /\ Cleans(l, w)'
      BY <1>5, <1>6, <2>2 DEF Cleans, Owes
    <2>6. Cleans(l, W[l])'
      BY <2>5
    <2>7. \A c \in Buckets, x \in Slots, a \in Nat : Filled(c, x, a)' => Swept(W, c, a)
      BY <1>7 DEF CleanedBy
    <2>8. CleanedBy(W)'
      BY <1>5, <2>1, <2>4, <2>5, <2>6, <2>7, CleanedStill
    <2> QED
      BY <2>8
  <1>9. CASE ~ InPlace(l)
    <2>1. /\ pool' = mehcached_pool_push_tail(pool, n)
          /\ req' = [req EXCEPT ![l].offset = NewOffset(pool), ![l].at = pool.tail,
                                ![l].from = NewOffset(pool), ![l].to = pool'.tail]
      BY <1>9 DEF SetAllocate
    <2>2. n \in 1 .. pool.size
      BY <1>1, <1>3
    <2>3. pool'.tail = t + n /\ pool'.size = pool.size
      BY <2>1, <2>2, PushedEnds
    <2>4. req'[l].from = t % Span /\ req'[l].to = t + n /\ req'[l].at = t
      BY <1>1, <1>3, <2>1, <2>3 DEF Fields, NewOffset
    <2>5. \A c \in Buckets, a \in Nat : Held(l, c, a)' => a = t
      BY <2>4 DEF Held
    <2> QED
      BY <1>5, <1>6, <1>7, <2>2, <2>3, <2>4, <2>5, CleanedPush
  <1> QED
    BY <1>8, <1>9

\* A move to the head moves the tail, and its vector to the old tail.
LEMMA CleanedMove ==
  ASSUME Shape, NEW S, Stored(S), NEW W, CleanedBy(W), NEW l \in Lcores, OthersStay(l), MoveToHead(l)
  PROVE  \E V : CleanedBy(V)'
  <1> PICK b, s, n, t, w : b = Bucket(l) /\ s = req[l].slot /\ n = req[l].key.size /\ t = pool.tail /\ w = W[l]
    OBVIOUS
  <1>1. /\ TableTypeOK /\ DOMAIN req = Lcores /\ t \in Nat /\ pool.size \in Nat
        /\ item_vec \in [Buckets -> [Slots -> [tag : Tags, offset : Nat, at : Nat]]]
    BY DEF Shape, TableTypeOK, IsLog
  <1>2. pc[l] = "move_to_head" /\ pc'[l] = "cleanup"
    BY <1>1, NowAt DEF MoveToHead
  <1>3. DOMAIN req[l] = Fields /\ b \in Buckets /\ s \in Slots /\ n \in 2 .. pool.size
    BY <1>1, <1>2, RequestFacts
  <1>4. Cleans(l, w)
    BY DEF CleanedBy
  <1>5. req[l].from = 0 /\ req[l].to = 0 /\ ~ Owes(l)
    BY <1>2, <1>4 DEF Cleans, Moving, Owes
  <1>6. ~ InHand(l)' /\ Moving(l)'
    BY <1>2 DEF Moving, InHand
  <1> PICK pushed : pushed = mehcached_pool_push_tail(pool, n)
    OBVIOUS
  <1>7. n \in 1 .. pool.size
    BY <1>1, <1>3
  <1>8. pushed.tail = t + n /\ pushed.size = pool.size
    BY <1>7, PushedEnds
  <1>9. Entry(b, s).offset = req[l].offset
    <2>1. Moves(l)
      BY DEF Stored, Operations
    <2> QED
      BY <1>2, <2>1 DEF Moves
  <1>10. /\ req' = [req EXCEPT ![l].from = NewOffset(pool), ![l].to = pushed.tail]
         /\ \/ /\ pool' = Copied(pushed, req[l].offset, NewOffset(pool), n)
               /\ item_vec' = [item_vec EXCEPT ![b][s].offset = NewOffset(pool), ![b][s].at = pool.tail]
            \/ pool' = pushed /\ item_vec' = item_vec
    BY <1>9 DEF MoveToHead, Entry, Bucket
  <1>11. pool'.tail = t + n /\ pool'.size = pool.size
    <2>1. Copied(pushed, req[l].offset, NewOffset(pool), n).tail = pushed.tail
      BY DEF Copied
    <2>2. Copied(pushed, req[l].offset, NewOffset(pool), n).size = pushed.size
      BY DEF Copied
    <2> QED
      BY <1>8, <1>10, <2>1, <2>2
  <1>12. \A c \in Buckets, x \in Slots, a \in Nat : Filled(c, x, a)' => Filled(c, x, a) \/ a = t
    <2>1. CASE item_vec' = item_vec
      BY <2>1 DEF Filled, Entry
    <2>2. CASE item_vec' = [item_vec EXCEPT ![b][s].offset = NewOffset(pool), ![b][s].at = pool.tail]
      <3>1. /\ Entry(b, s)'.at = t
            /\ \A c \in Buckets, x \in Slots : ~ (c = b /\ x = s) => Entry(c, x)' = Entry(c, x)
        BY <1>1, <1>3, <2>2 DEF Entry
      <3> QED
        BY <3>1 DEF Filled
    <2> QED
      BY <1>10, <2>1, <2>2
  <1>13. req'[l].from = t % Span /\ req'[l].to = t + n
    BY <1>1, <1>3, <1>8, <1>10 DEF Fields, NewOffset
  <1>14. \A c \in Buckets, a \in Nat : Held(l, c, a)' => a = t
    BY <1>6 DEF Held
  <1> QED
    BY <1>5, <1>6, <1>7, <1>11, <1>12, <1>13, <1>14, CleanedPush

\* The place an operation has cleaned up to, from where its offset says.
LEMMA OwesFrom ==
  ASSUME TableTypeOK, NEW W, CleanedBy(W), NEW l \in Lcores, Owes(l)
  PROVE  /\ W[l] \in Nat /\ req[l].to \in Nat /\ W[l] <= req[l].to /\ req[l].to <= pool.tail
         /\ req[l].to - W[l] <= pool.size
         /\ bucket_index(W[l]) = bucket_index(req[l].from) /\ bucket_index(req[l].from) \in Buckets
         /\ (bucket_index(req[l].from) + 1) * 2^rshift \in Nat
         /\ \E k \in Nat : NextEnd(W[l]) = (bucket_index(req[l].from) + 1) * 2^rshift + k * Turn
  <1> PICK w, f, to : w = W[l] /\ f = req[l].from /\ to = req[l].to
    OBVIOUS
  <1>1. w \in Nat /\ Cleans(l, w)
    BY DEF CleanedBy
  <1>2. /\ to \in Nat /\ w <= to /\ to <= pool.tail /\ to - w <= pool.size
        /\ f \in Nat /\ \E q \in Nat : w = f + q * Turn
    BY <1>1 DEF Cleans
  <1>3. PICK q \in Nat : w = f + q * Turn
    BY <1>2
  <1>4. /\ bucket_index(f + q * Turn) = bucket_index(f) /\ bucket_index(f) \in Buckets
        /\ (bucket_index(f) + 1) * 2^rshift \in Nat
        /\ \E k \in Nat : NextEnd(f + q * Turn) = (bucket_index(f) + 1) * 2^rshift + k * Turn
    <2>1. f \in Nat /\ q \in Nat
      BY <1>2, <1>3
    <2> QED
      BY <2>1, IndexFacts
  <1> QED
    BY <1>1, <1>2, <1>3, <1>4

\* Going through a bucket takes the operation to the end of its block, which
\* it then no longer owes; only that bucket has an end in between.
LEMMA CleanedBucket ==
  ASSUME Shape, NEW W, CleanedBy(W), NotLapped, NEW l \in Lcores, OthersStay(l), mehcached_cleanup_bucket(l)
  PROVE  \E V : CleanedBy(V)'
  <1>0. PICK b, w, to, t, v, z : /\ b = bucket_index(req[l].from) /\ w = W[l] /\ to = req[l].to /\ t = pool.tail
                                 /\ v = NextEnd(w) /\ z = pool.size
    OBVIOUS
  <1>1. /\ TableTypeOK /\ Pointers /\ Locks /\ DOMAIN req = Lcores /\ t \in Nat /\ W \in [Lcores -> Nat]
        /\ item_vec \in [Buckets -> [Slots -> [tag : Tags, offset : Nat, at : Nat]]]
    BY <1>0 DEF Shape, TableTypeOK, IsLog, CleanedBy
  <1>2. /\ pc[l] = "cleanup" /\ pc' = pc /\ pool' = pool /\ b # bucket_index(to)
        /\ mehcached_lock_bucket(b)
        /\ item_vec' = [item_vec EXCEPT ![b] = Cleaned(@)]
        /\ req' = [req EXCEPT ![l].from = (b + 1) * 2^rshift]
    BY <1>0 DEF mehcached_cleanup_bucket
  <1>3. DOMAIN req[l] = Fields
    BY <1>1, <1>2, RequestFacts
  <1>4. Owes(l) /\ Cleans(l, w) /\ z \in Nat /\ Span \in Nat \ {0}
    <2>1. Cleans(l, w)
      BY <1>0 DEF CleanedBy
    <2>2. Moving(l)
      BY <1>2 DEF Moving
    <2>3. to # 0
      BY <1>0, <1>2, <2>1 DEF Cleans
    <2>4. z \in Nat /\ Span \in Nat \ {0}
      BY <1>0, <1>1, BuildFacts
    <2> QED
      BY <1>0, <2>1, <2>2, <2>3, <2>4 DEF Owes
  <1>5. /\ w \in Nat /\ to \in Nat /\ w <= to /\ to <= t /\ to - w <= z
        /\ bucket_index(w) = b /\ b \in Buckets /\ (b + 1) * 2^rshift \in Nat
        /\ \E k \in Nat : v = (b + 1) * 2^rshift + k * Turn
    BY <1>0, <1>1, <1>4, OwesFrom
  <1>6. v \in Nat /\ w < v /\ v <= to
    <2>1. bucket_index(w) # bucket_index(to)
      BY <1>2, <1>5
    <2> QED
      BY <1>0, <1>1, <1>5, <2>1, NextEndFacts
  <1> PICK V : V = [W EXCEPT ![l] = v]
    OBVIOUS
  <1>7. V[l] = v /\ \A m \in Lcores : m # l => V[m] = W[m]
    BY <1>1
  <1>8. req'[l].from = (b + 1) * 2^rshift /\ req'[l].to = to /\ Owes(l)'
    <2>1. req'[l].from = (b + 1) * 2^rshift /\ req'[l].to = to
      BY <1>0, <1>1, <1>2, <1>3 DEF Fields
    <2> QED
      BY <1>0, <1>2, <1>4, <2>1 DEF Owes, Moving
  <1>9. ASSUME NEW c \in Buckets, c # b, NEW a \in Nat, Swept(W, c, a)
        PROVE  Swept(V, c, a)'
    <2>1. SUFFICES ASSUME NEW e \in Ends(c), e <= t
                   PROVE  e - a <= z \/ Owed(V, e)'
      BY <1>0, <1>2 DEF Swept
    <2>2. e \in Nat
      BY <1>1, EndsAreNat
    <2>3. e - a <= z \/ Owed(W, e)
      BY <1>0, <1>9, <2>1 DEF Swept
    <2>4. ASSUME NEW m \in Lcores, Owes(m), W[m] < e, e <= req[m].to
          PROVE  Owed(V, e)'
      <3>1. CASE m # l
        <4>1. m \in Lcores' /\ Owes(m)' /\ req'[m] = req[m] /\ V[m] = W[m]
          BY <1>7, <2>4, <3>1, OthersOwe
        <4> QED
          BY <2>4, <4>1 DEF Owed
      <3>2. CASE m = l
        <4>1. w < e /\ e <= to
          BY <1>0, <2>4, <3>2
        <4>2. ~ (e <= v)
          <5>1. SUFFICES ASSUME e <= v PROVE FALSE
            OBVIOUS
          <5>2. e <= NextEnd(w)
            BY <1>0, <5>1
          <5>3. c = bucket_index(w)
            BY <1>1, <1>5, <4>1, <5>2, EndsBetween
          <5> QED
            BY <1>5, <1>9, <5>3
        <4>3. v < e
          BY <1>6, <2>2, <4>2
        <4>4. l \in Lcores'
          BY OthersOwe
        <4> QED
          BY <1>7, <1>8, <4>1, <4>3, <4>4 DEF Owed
      <3> QED
        BY <3>1, <3>2
    <2> QED
      BY <2>3, <2>4 DEF Owed
  <1>10. \A c \in Buckets, s \in Slots : c # b => Entry(c, s)' = Entry(c, s)
    BY <1>0, <1>1, <1>2 DEF Entry
  <1>11. ASSUME NEW s \in Slots, NEW a \in Nat, Filled(b, s, a)'
         PROVE  Swept(V, b, a)'
    <2>1. item_vec'[b] = Cleaned(item_vec[b])
      BY <1>0, <1>1, <1>2, <1>5
    <2>2. Entry(b, s)' = IF Entry(b, s) # Empty /\ ~ mehcached_pool_is_valid(pool, Entry(b, s).offset)
                           THEN Empty ELSE Entry(b, s)
      BY <1>0, <2>1 DEF Cleaned, Entry
    <2>3. Entry(b, s)'.tag # 0 /\ a = Entry(b, s)'.at
      BY <1>0, <1>11 DEF Filled
    <2>4. Entry(b, s)' = Entry(b, s) /\ mehcached_pool_is_valid(pool, Entry(b, s).offset)
      <3>1. Empty.tag = 0
        BY <1>0 DEF Empty
      <3> QED
        BY <1>0, <2>2, <2>3, <3>1
    <2>5. Entry(b, s).tag # 0 /\ a = Entry(b, s).at /\ a < t /\ Entry(b, s).offset = a % Span
      BY <1>0, <1>1, <1>5, <2>3, <2>4 DEF Pointers
    <2>6. t - a < Span
      <3>1. pool.tail - Entry(b, s).at < Span
        BY <1>5, <2>5, CleanedIsNotRevived
      <3> QED
        BY <1>0, <2>5, <3>1
    <2>7. (t - (a % Span)) % Span = t - a
      <3>1. a \in Nat /\ t \in Nat /\ Span \in Nat \ {0} /\ a <= t
        BY <1>1, <1>4, <2>5
      <3> QED
        BY <2>6, <3>1, OffsetDistance
    <2>8. t - a <= z
      BY <1>0, <2>4, <2>5, <2>7 DEF mehcached_pool_is_valid
    <2>9. SUFFICES ASSUME NEW e \in Ends(b), e <= t
                   PROVE  e - a <= z
      BY <1>0, <1>2 DEF Swept
    <2>10. e \in Nat
      BY <1>1, <1>5, EndsAreNat
    <2>11. t \in Nat /\ z \in Nat
      BY <1>1, <1>4
    <2> QED
      BY <2>8, <2>9, <2>10, <2>11
  <1>12. ASSUME NEW c \in Buckets, NEW s \in Slots, NEW a \in Nat, Filled(c, s, a)'
         PROVE  Swept(V, c, a)'
    <2>1. CASE c = b
      BY <1>11, <1>12, <2>1
    <2>2. CASE c # b
      <3>1. Entry(c, s)' = Entry(c, s)
        BY <1>10, <2>2
      <3>2. Filled(c, s, a)
        BY <1>0, <1>12, <3>1 DEF Filled
      <3>3. Swept(W, c, a)
        BY <1>0, <3>2 DEF CleanedBy
      <3> QED
        BY <1>9, <2>2, <3>3
    <2> QED
      BY <2>1, <2>2
  <1>13. ASSUME NEW m \in Lcores, NEW c \in Buckets, NEW a \in Nat, m # l, Held(m, c, a)
         PROVE  Swept(V, c, a)'
    <2>1. concurrent
      BY <1>1, <1>13, Alone
    <2>2. version[b] % 2 = 0
      BY <1>2, <2>1 DEF mehcached_lock_bucket
    <2>3. Holding(m) /\ c = Bucket(m)
      BY <1>0, <1>13 DEF Held, InHand, Holding
    <2>4. version[c] % 2 = 1
      BY <1>1, <2>1, <2>3 DEF Locks
    <2>5. c # b
      BY <2>2, <2>4
    <2>6. Swept(W, c, a)
      BY <1>0, <1>13 DEF CleanedBy
    <2> QED
      BY <1>9, <2>5, <2>6
  <1>14. \A c \in Buckets, a \in Nat : Held(l, c, a)' => Swept(V, c, a)'
    BY <1>0, <1>2 DEF Held, InHand
  <1>15. Cleans(l, v)'
    <2>1. to - v <= z
      BY <1>4, <1>5, <1>6
    <2>2. Turn' = Turn /\ pool' = pool /\ pc'[l] = "cleanup" /\ Moving(l)'
      BY <1>0, <1>2 DEF Turn, Moving
    <2>3. to # 0 /\ (~ concurrent => to = t) /\ (concurrent' <=> concurrent)
      <3>1. to # 0 /\ (~ concurrent => to = t)
        BY <1>0, <1>4 DEF Cleans, Owes
      <3> QED
        BY <3>1, OthersOwe
    <2> QED
      BY <1>0, <1>5, <1>6, <1>8, <2>1, <2>2, <2>3 DEF Cleans
  <1>16. pool'.size = pool.size /\ pool'.tail \in Nat /\ pool.tail <= pool'.tail
    BY <1>0, <1>1, <1>2
  <1>17. CleanedBy(V)'
    BY <1>6, <1>12, <1>13, <1>14, <1>15, <1>16, CleanedThen
  <1> QED
    BY <1>17

\* An operation returns when no block ends in what it would still have to go
\* through.
LEMMA CleanedReturn ==
  ASSUME Shape, NEW W, CleanedBy(W), NEW l \in Lcores, OthersStay(l), Return(l)
  PROVE  CleanedBy(W)'
  <1> PICK w, to, z : w = W[l] /\ to = req[l].to /\ z = pool.size
    OBVIOUS
  <1>1. TableTypeOK /\ pool.tail \in Nat /\ W \in [Lcores -> Nat]
    BY DEF Shape, TableTypeOK, IsLog, CleanedBy
  <1>2. /\ pc'[l] = "idle" /\ pool' = pool /\ item_vec' = item_vec
        /\ bucket_index(req[l].from) = bucket_index(to)
    BY <1>1, NowAt DEF Return
  <1>3. ASSUME NEW b \in Buckets, NEW a \in Nat, Swept(W, b, a)
        PROVE  Swept(W, b, a)'
    <2>1. SUFFICES ASSUME NEW e \in Ends(b), e <= pool.tail
                   PROVE  e - a <= z \/ Owed(W, e)'
      BY <1>2 DEF Swept
    <2>2. e - a <= z \/ Owed(W, e)
      BY <1>3, <2>1 DEF Swept
    <2>3. ASSUME NEW m \in Lcores, Owes(m), W[m] < e, e <= req[m].to
          PROVE  Owed(W, e)'
      <3>1. m # l
        <4>1. SUFFICES ASSUME m = l PROVE FALSE
          OBVIOUS
        <4>2. /\ w \in Nat /\ to \in Nat /\ w <= to /\ to - w <= z
              /\ bucket_index(w) = bucket_index(to)
          BY <1>1, <1>2, <2>3, <4>1, OwesFrom
        <4>3. 2 * (to - w) <= Turn
          <5>1. 2 * z <= Turn /\ z \in Nat /\ Turn \in Nat
            BY <1>1, TurnFacts
          <5> QED
            BY <4>2, <5>1
        <4>4. e <= to
          BY <2>3, <4>1
        <4>5. e <= w
          BY <1>1, <4>2, <4>3, <4>4, NoEndBetween
        <4>6. e \in Nat
          BY <1>1, EndsAreNat
        <4> QED
          BY <2>3, <4>1, <4>2, <4>5, <4>6
      <3>2. m \in Lcores' /\ Owes(m)' /\ req'[m] = req[m]
        BY <2>3, <3>1, OthersOwe
      <3> QED
        BY <2>3, <3>2 DEF Owed
    <2> QED
      BY <2>2, <2>3 DEF Owed
  <1>4. \A b \in Buckets, s \in Slots, a \in Nat : Filled(b, s, a)' => Swept(W, b, a)'
    <2>1. \A b \in Buckets, s \in Slots, a \in Nat : Filled(b, s, a)' => Filled(b, s, a)
      BY <1>2 DEF Filled, Entry
    <2> QED
      BY <1>3, <2>1 DEF CleanedBy
  <1>5. \A b \in Buckets, a \in Nat : Held(l, b, a)' => Swept(W, b, a)'
    BY <1>2 DEF Held, InHand
  <1>6. \A m \in Lcores, b \in Buckets, a \in Nat : m # l /\ Held(m, b, a) => Swept(W, b, a)'
    BY <1>3 DEF CleanedBy
  <1>7. Cleans(l, w)'
    BY <1>2 DEF Cleans, Owes, Moving
  <1>8. w \in Nat /\ W = [W EXCEPT ![l] = w] /\ pool'.size = pool.size /\ pool'.tail \in Nat /\ pool.tail <= pool'.tail
    BY <1>1, <1>2
  <1> QED
    BY <1>4, <1>5, <1>6, <1>7, <1>8, CleanedThen

\* Every step leaves places up to which the operations have cleaned.
LEMMA CleanedNext ==
  ASSUME StoreInv, NEW W, CleanedBy(W), NotLapped, [Next]_vars
  PROVE  \E V : CleanedBy(V)'
  <1>1. Shape /\ TableTypeOK
    BY DEF StoreInv, Shape
  <1>2. PICK S : Stored(S)
    BY DEF StoreInv
  <1>3. build.default \subseteq build.keys
    BY <1>1, BuildFacts
  <1>4. ASSUME UNCHANGED <<build, item_vec, pool, pc, req>>
        PROVE  CleanedBy(W)'
    <2>1. Lcores' = Lcores /\ concurrent' = concurrent
      BY <1>4 DEF Lcores, concurrent
    <2>2. \A l : /\ Owes(l)' = Owes(l) /\ Moving(l)' = Moving(l) /\ Cleans(l, W[l])' = Cleans(l, W[l])
                 /\ \A b, a : Held(l, b, a)' = Held(l, b, a)
      BY <1>4, <2>1 DEF Owes, Moving, Cleans, Turn, Held, InHand, Bucket
    <2>3. \A b, s, a : Filled(b, s, a)' = Filled(b, s, a)
      BY <1>4 DEF Filled, Entry
    <2>4. \A b, a : Swept(W, b, a)' = Swept(W, b, a)
      BY <1>4, <2>1, <2>2 DEF Swept, Owed
    <2> QED
      BY <2>1, <2>2, <2>3, <2>4 DEF CleanedBy, Buckets, Slots
  <1>5. CASE UNCHANGED vars \/ Launch \/ Freed
    BY <1>4, <1>5 DEF Launch, Freed, vars
  <1>6. ASSUME NEW key \in build.default, Load(main_lcore, key)
        PROVE  CleanedBy(W)'
    <2>1. PICK l \in Lcores : l = main_lcore
      BY <1>1, MainLcore
    <2> PICK val : val = [id |-> key.id, by |-> l, n |-> 0]
      OBVIOUS
    <2>2. /\ pc[l] = "idle" /\ req' = [req EXCEPT ![l] = Request("add", key, 0, val)] /\ Goto(l, "set_lock")
          /\ UNCHANGED <<build, item_vec, pool>>
      BY <1>6, <2>1 DEF Load
    <2> QED
      BY <1>1, <2>2, CleanedBegin
  <1>7. ASSUME NEW l \in Lcores, NEW key \in build.keys, NEW pad,
               Process5tuple(l, key, pad) \/ Delete(l, key, pad) \/ Increment(l, key, pad)
        PROVE  CleanedBy(W)'
    <2>1. CASE Process5tuple(l, key, pad)
      <3> PICK val, op, where : /\ val = [id |-> key.id, by |-> l, n |-> ops[l] + 1]
                                /\ op = IF flag[l] THEN "get" ELSE "set"
                                /\ where = IF flag[l] THEN "get_version" ELSE "set_lock"
        OBVIOUS
      <3>1. /\ pc[l] = "idle" /\ req' = [req EXCEPT ![l] = Request(op, key, pad, val)] /\ Goto(l, where)
            /\ UNCHANGED <<build, item_vec, pool>>
        BY <2>1 DEF Process5tuple
      <3>2. where \in {"set_lock", "get_version"}
        OBVIOUS
      <3> QED
        BY <1>1, <3>1, <3>2, CleanedBegin
    <2>2. CASE Delete(l, key, pad) \/ Increment(l, key, pad)
      BY <1>1, <2>2, CleanedLibrary
    <2> QED
      BY <1>7, <2>1, <2>2
  <1>8. CASE Free
    <2>1. /\ \A l \in Lcores : pc[l] = "idle"
          /\ item_vec' = [b \in Buckets |-> [s \in Slots |-> Empty]]
          /\ UNCHANGED <<build, pc>>
      BY <1>8 DEF Free
    <2>2. \A b \in Buckets', s \in Slots' : Entry(b, s)'.tag = 0
      BY <2>1 DEF Entry, Buckets, Slots, Empty
    <2>3. \A l \in Lcores' : pc'[l] = "idle"
      BY <2>1 DEF Lcores
    <2>4. Lcores' = Lcores /\ W \in [Lcores' -> Nat]
      BY <2>1 DEF Lcores, CleanedBy
    <2>5. CleanedBy(W)'
      BY <2>2, <2>3, <2>4 DEF CleanedBy, Cleans, Owes, Moving, Filled, Held, InHand
    <2> QED
      BY <2>5
  <1>9. ASSUME NEW l \in Lcores, Step(l)
        PROVE  \E V : CleanedBy(V)'
    <2>0. OthersStay(l)
      BY <1>1, <1>9, StepStays
    <2>1. CASE \/ SetLock(l) \/ SetFind(l) \/ GetVersion(l) \/ GetFind(l) \/ GetCopy(l) \/ GetIsValid(l)
               \/ GetRetry(l) \/ GetHit(l) \/ GetMiss(l) \/ GetStale(l) \/ RemoveStale(l)
      BY <1>1, <2>0, <2>1, CleanedBefore
    <2>2. CASE SetAllocate(l)
      BY <1>1, <1>2, <2>0, <2>2, CleanedAllocate
    <2>3. CASE SetWrite(l) \/ SetPoolUnlock(l) \/ SetPublish(l)
      BY <1>1, <2>0, <2>3, CleanedSet
    <2>4. CASE mehcached_cleanup_bucket(l)
      BY <1>1, <2>0, <2>4, CleanedBucket
    <2>5. CASE Return(l)
      BY <1>1, <2>0, <2>5, CleanedReturn
    <2>6. CASE MoveToHead(l)
      BY <1>1, <1>2, <2>0, <2>6, CleanedMove
    <2> QED
      BY <1>9, <2>1, <2>2, <2>3, <2>4, <2>5, <2>6 DEF Step
  <1> QED
    BY <1>3, <1>5, <1>6, <1>7, <1>8, <1>9 DEF Next

\* One lcore is not lapped: it cleans up before it moves the tail again.
LEMMA LoneIsNotLapped ==
  ASSUME Shape, ~ concurrent, NEW W, CleanedBy(W)
  PROVE  NotLapped
  <1>1. SUFFICES ASSUME NEW l \in Lcores, Owes(l)
                 PROVE  pool.tail - req[l].to <= Turn - 2 * pool.size
    BY DEF NotLapped
  <1> PICK w : w = W[l]
    OBVIOUS
  <1>2. Cleans(l, w) /\ pool.tail \in Nat /\ TableTypeOK
    BY DEF CleanedBy, Shape, TableTypeOK, IsLog
  <1>3. req[l].to = pool.tail
    BY <1>1, <1>2 DEF Cleans
  <1>4. Turn \in Nat /\ pool.size \in Nat /\ 2 * pool.size <= Turn
    BY <1>2, TurnFacts
  <1> QED
    BY <1>2, <1>3, <1>4

\* How the table was built does not change.
LEMMA BuildStays ==
  ASSUME [Next]_vars
  PROVE  build' = build
  <1>1. ASSUME NEW l, Step(l)
        PROVE  build' = build
    BY <1>1 DEF Step, SetLock, SetFind, SetAllocate, SetWrite, SetPoolUnlock, SetPublish, mehcached_cleanup_bucket,
       Return, GetVersion, GetFind, GetCopy, GetIsValid, GetRetry, GetHit, GetMiss, GetStale, RemoveStale, MoveToHead
  <1>2. UNCHANGED vars \/ Launch \/ Free \/ Freed => build' = build
    BY DEF vars, Launch, Free, Freed
  <1>3. \A l, key : Load(l, key) => build' = build
    BY DEF Load
  <1>4. \A l, key, pad : Process5tuple(l, key, pad) \/ Delete(l, key, pad) \/ Increment(l, key, pad) => build' = build
    <2>1. ASSUME NEW l, NEW key, NEW pad, Increment(l, key, pad)
          PROVE  build' = build
      BY <2>1 DEF Increment
    <2>2. ASSUME NEW l, NEW key, NEW pad, Process5tuple(l, key, pad)
          PROVE  build' = build
      BY <2>2 DEF Process5tuple
    <2>3. ASSUME NEW l, NEW key, NEW pad, Delete(l, key, pad)
          PROVE  build' = build
      BY <2>3 DEF Delete
    <2> QED
      BY <2>1, <2>2, <2>3
  <1> QED
    BY <1>1, <1>2, <1>3, <1>4 DEF Next

-----------------------------------------------------------------------------
(***************************************************************************)
(* The theorems.                                                           *)
(***************************************************************************)

\* The log of a consistent store is tiled.
LEMMA StoreTiled ==
  ASSUME StoreInv
  PROVE  StoreConsistent
  <1>1. PICK S : Stored(S)
    BY DEF StoreInv
  <1>2. IsLog(pool) /\ TiledBy(pool, S) /\ OneItemPerTag
    BY <1>1 DEF StoreInv, Shape, TableTypeOK, Stored
  <1>3. Tiled(pool)
    BY <1>2, TilesAreTiled
  <1> QED
    BY <1>2, <1>3 DEF StoreConsistent, LogTiled

\* While no offset is taken for a later one, whatever the lcores do at once:
\* a GET that finds its key has copied the value of the last SET, whole, for
\* its copy is thrown away when the version of the bucket has moved
\* (mehcached_get, mehcached_set).
THEOREM GetsReturnLastSet == Spec /\ []NoItemRevives => []GetReturnsLastSet
  <1>1. Init => StoreInv
    BY TableInit
  <1>2. StoreInv /\ NoItemRevives /\ [Next]_vars => StoreInv'
    BY TableNext
  <1>3. StoreInv => GetReturnsLastSet
    BY DEF StoreInv
  <1> QED
    BY <1>1, <1>2, <1>3, PTL DEF Spec

\* Then, too, the log is a sequence of whole items however SETs, moves to the
\* head and evictions interleave, and a bucket has one item per tag
\* (mehcached_pool_push_tail, mehcached_find_same_tag).
THEOREM StoreStaysConsistent == Spec /\ []NoItemRevives => []StoreConsistent
  <1>1. Init => StoreInv
    BY TableInit
  <1>2. StoreInv /\ NoItemRevives /\ [Next]_vars => StoreInv'
    BY TableNext
  <1>3. StoreInv => StoreConsistent
    BY StoreTiled
  <1> QED
    BY <1>1, <1>2, <1>3, PTL DEF Spec

\* Until then offsets are addresses.
LEMMA FirstTurnInv == Spec /\ [](pool.tail < Span) => [](StoreInv /\ NoItemRevives)
  <1>1. Init => StoreInv
    BY TableInit
  <1>2. StoreInv /\ pool.tail < Span => NoItemRevives
    <2>1. SUFFICES ASSUME StoreInv, pool.tail < Span, NEW b \in Buckets, NEW s \in Slots, Entry(b, s) # Empty,
                          mehcached_pool_is_valid(pool, Entry(b, s).offset)
                   PROVE  pool.tail - Entry(b, s).at <= pool.size
      BY DEF NoItemRevives, Entry
    <2>2. TableTypeOK /\ Pointers /\ pool.tail \in Nat
      BY <2>1 DEF StoreInv, Shape, TableTypeOK, IsLog
    <2> PICK a : a = Entry(b, s).at
      OBVIOUS
    <2>3. a \in Nat /\ a < pool.tail /\ Entry(b, s).offset = a % Span /\ Span \in Nat \ {0}
      BY <2>1, <2>2, EntryFacts, BuildFacts DEF Pointers
    <2>4. a <= pool.tail /\ pool.tail - a < Span
      BY <2>1, <2>2, <2>3
    <2>5. (pool.tail - (a % Span)) % Span = pool.tail - a
      BY <2>2, <2>3, <2>4, OffsetDistance
    <2> QED
      BY <2>1, <2>3, <2>5 DEF mehcached_pool_is_valid
  <1>3. StoreInv /\ NoItemRevives /\ [Next]_vars => StoreInv'
    BY TableNext
  <1> QED
    BY <1>1, <1>2, <1>3, PTL DEF Spec

\* Until the tail has passed all offsets once, none is taken for a later one and
\* all of this holds, however many lcores there are and however long they take.
THEOREM FirstTurnOfOffsets ==
  Spec /\ [](pool.tail < Span) => [](GetReturnsLastSet /\ NoItemRevives /\ StoreConsistent)
  <1>1. StoreInv /\ NoItemRevives => GetReturnsLastSet /\ NoItemRevives /\ StoreConsistent
    BY StoreTiled DEF StoreInv
  <1> QED
    BY <1>1, FirstTurnInv, PTL

\* The store and what has been cleaned of it.
CleanStore == StoreInv /\ \E W : CleanedBy(W)

LEMMA CleanStoreInit == Init => CleanStore
  <1>1. SUFFICES ASSUME Init PROVE CleanStore
    OBVIOUS
  <1>2. StoreInv
    BY <1>1, TableInit
  <1>3. /\ \A b \in Buckets, s \in Slots : Entry(b, s).tag = 0
        /\ \A l \in Lcores : pc[l] = "idle"
    BY <1>1 DEF Init, Entry, Empty
  <1> PICK W : W = [l \in Lcores |-> 0]
    OBVIOUS
  <1>4. W \in [Lcores -> Nat]
    OBVIOUS
  <1>5. CleanedBy(W)
    BY <1>3, <1>4 DEF CleanedBy, Cleans, Owes, Moving, Filled, Held, InHand
  <1> QED
    BY <1>2, <1>5 DEF CleanStore

LEMMA CleanStoreNext == CleanStore /\ NotLapped /\ [Next]_vars => CleanStore'
  <1>1. SUFFICES ASSUME CleanStore, NotLapped, [Next]_vars PROVE CleanStore'
    OBVIOUS
  <1>2. PICK W : CleanedBy(W)
    BY <1>1 DEF CleanStore
  <1>3. StoreInv /\ Shape
    BY <1>1 DEF CleanStore, StoreInv
  <1>4. NoItemRevives
    BY <1>1, <1>2, <1>3, CleanedIsNotRevived
  <1>5. StoreInv'
    BY <1>1, <1>3, <1>4, TableNext
  <1>6. \E V : CleanedBy(V)'
    BY <1>1, <1>2, <1>3, CleanedNext
  <1> QED
    BY <1>5, <1>6 DEF CleanStore

LEMMA CleanStoreHolds == CleanStore /\ NotLapped => NoItemRevives /\ GetReturnsLastSet /\ StoreConsistent
  BY CleanedIsNotRevived, StoreTiled DEF CleanStore, StoreInv

\* However many lcores there are and however often the tail passes all
\* offsets: if none takes so long to clean up that the others move the tail on
\* by half of the offsets, then an offset that looks valid is that of an item
\* in the log ("sufficient garbage collection time", mehcached_cleanup_bucket).
THEOREM CleaningInTime == Spec /\ []NotLapped => []NoItemRevives
  <1>1. CleanStore /\ NotLapped => NoItemRevives
    BY CleanStoreHolds
  <1> QED
    BY <1>1, CleanStoreInit, CleanStoreNext, PTL DEF Spec

\* GETs then return the last SET and the store stays consistent.
THEOREM CleaningInTimeKeepsStore == Spec /\ []NotLapped => [](GetReturnsLastSet /\ StoreConsistent)
  <1>1. CleanStore /\ NotLapped => GetReturnsLastSet /\ StoreConsistent
    BY CleanStoreHolds
  <1> QED
    BY <1>1, CleanStoreInit, CleanStoreNext, PTL DEF Spec

\* One polling lcore, for however long it runs.
LEMMA LoneStoreInv == Spec /\ ~ concurrent => [](CleanStore /\ NotLapped)
  <1>1. CleanStore /\ ~ concurrent => NotLapped
    BY LoneIsNotLapped DEF CleanStore, StoreInv
  <1>2. ~ concurrent /\ [Next]_vars => ~ concurrent'
    BY BuildStays DEF concurrent, Lcores
  <1> QED
    BY <1>1, <1>2, CleanStoreInit, CleanStoreNext, PTL DEF Spec

\* One polling lcore always cleans in time: it goes through the buckets before
\* it begins its next operation.
THEOREM LoneLcoreRevivesNothing == Spec /\ ~ concurrent => []NoItemRevives
  <1>1. CleanStore /\ NotLapped => NoItemRevives
    BY CleanStoreHolds
  <1> QED
    BY <1>1, LoneStoreInv, PTL

\* So its GETs return the last SET and its store is consistent, without any
\* condition on the steps.
THEOREM LoneLcoreStore == Spec /\ ~ concurrent => [](GetReturnsLastSet /\ StoreConsistent)
  <1>1. CleanStore /\ NotLapped => GetReturnsLastSet /\ StoreConsistent
    BY CleanStoreHolds
  <1> QED
    BY <1>1, LoneStoreInv, PTL

=============================================================================
