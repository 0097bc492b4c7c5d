-------------------------- MODULE FlowTable_proofs --------------------------
(***************************************************************************)
(* The flow table, for every number of indices, every set of keys and      *)
(* every hash.                                                             *)
(*                                                                         *)
(* First what the data structures of nf-chain do, call by call: the index  *)
(* allocator of double-chain.c, whose two lists run through one array, and *)
(* the hash table of map.c in either build.  A chain is described by the   *)
(* two rings its links form (Rings); Linked says that there are such       *)
(* rings, and what follows from it for the indices in use is stated        *)
(* without them.  A hash table is described by the indices it refers to    *)
(* (Stores).                                                               *)
(*                                                                         *)
(* Then the table: what a failed allocation leaves (HeldInv), what any     *)
(* sequence of calls keeps of the data structures (TableInv), and that     *)
(* each call is a step of the ordered collection of Emap.                  *)
(*                                                                         *)
(* Last the other users of these structures, in Steering: the table of     *)
(* consistent hashing over an allocator of backends (HashingInv), and the  *)
(* table of prefixes (LpmHolds).                                           *)
(***************************************************************************)
EXTENDS FlowTable, DoubleChain, Map, Steering, Numbers_proofs, SequenceTheorems

-----------------------------------------------------------------------------
(***************************************************************************)
(* Rings.                                                                  *)
(***************************************************************************)

\* A chain of N indices.
Chain(N) == [prev : [0 .. N+1 -> 0 .. N+1], next : [0 .. N+1 -> 0 .. N+1],
             timestamps : [0 .. N-1 -> Int]]

\* m different cells between a head and itself.
Ring(a, m, head, N) ==
  /\ m \in Nat /\ a \in [0 .. m+1 -> 0 .. N+1]
  /\ a[0] = head /\ a[m+1] = head
  /\ \A i, j \in 0 .. m : a[i] = a[j] => i = j

\* The allocated list is the ring a of m cells, the free list the ring f of r; X
\* are the cells on neither, while an operation moves one.
Rings(ch, N, a, m, f, r, X) ==
  /\ N \in Nat /\ ch \in Chain(N)
  /\ Ring(a, m, 0, N) /\ Ring(f, r, 1, N)
  /\ \A n \in 0 .. m : ch.next[a[n]] = a[n+1] /\ ch.prev[a[n+1]] = a[n]
  /\ \A n \in 0 .. r : ch.next[f[n]] = f[n+1] /\ ch.prev[f[n]] = f[n+1]
  /\ \A i \in 0 .. m, j \in 0 .. r : a[i] # f[j]
  /\ X \subseteq 2 .. N+1
  /\ \A c \in X : (\A i \in 0 .. m : a[i] # c) /\ (\A j \in 0 .. r : f[j] # c)
  /\ \A c \in 0 .. N+1 :
       c \in X \/ (\E i \in 0 .. m : a[i] = c) \/ (\E j \in 0 .. r : f[j] = c)

\* No cell is on its way.
Threaded(ch, N, a, m, f, r) == Rings(ch, N, a, m, f, r, {})

\* A ring with a cell more, at its end or at its front, and with one less.
AtEnd(a, m, c)   == [n \in 0 .. m+2 |-> IF n <= m THEN a[n] ELSE IF n = m+1 THEN c ELSE a[0]]
AtFront(f, r, c) == [n \in 0 .. r+2 |-> IF n = 0 THEN f[0] ELSE IF n = 1 THEN c ELSE f[n-1]]
Without(a, m, j) == [n \in 0 .. m |-> IF n < j THEN a[n] ELSE a[n+1]]

\* A new chain has all its cells on the free list.
LEMMA InitRings ==
  ASSUME NEW N \in Nat \ {0}
  PROVE  Rings(dchain_allocate(N), N, [n \in 0 .. 1 |-> 0], 0,
               [n \in 0 .. N+1 |-> IF n = N+1 THEN 1 ELSE n+1], N, {})
  <1> DEFINE succ == dchain_impl_init(N).next
             f == [n \in 0 .. N+1 |-> IF n = N+1 THEN 1 ELSE n+1]
             a == [n \in 0 .. 1 |-> 0]
             ch == dchain_allocate(N)
  <1>1. /\ succ \in [0 .. N+1 -> 0 .. N+1]
        /\ succ[0] = 0 /\ succ[N+1] = 1 /\ \A c \in 1 .. N : succ[c] = c + 1
    BY DEF dchain_impl_init, ALLOC_LIST_HEAD, FREE_LIST_HEAD
  <1>2. ch.next = succ /\ ch.prev = succ /\ ch.timestamps = [k \in 0 .. N-1 |-> NoTime]
        /\ ch = [prev |-> succ, next |-> succ, timestamps |-> [k \in 0 .. N-1 |-> NoTime]]
    BY DEF dchain_allocate, dchain_impl_init
  <1>3. ch \in Chain(N)
    BY SMTT(30), <1>1, <1>2 DEF Chain, NoTime
  <1>4. Ring(a, 0, 0, N) /\ Ring(f, N, 1, N)
    BY DEF Ring
  <1>5. \A n \in 0 .. 0 : a[n] = 0 /\ a[n+1] = 0
    OBVIOUS
  <1>6. \A n \in 0 .. N : f[n] = n + 1 /\ f[n+1] = IF n = N THEN 1 ELSE n + 2
    OBVIOUS
  <1>7. \A n \in 0 .. N : succ[f[n]] = f[n+1]
    <2> SUFFICES ASSUME NEW n \in 0 .. N PROVE succ[f[n]] = f[n+1]
      OBVIOUS
    <2>1. f[n] = n + 1 /\ f[n+1] = IF n = N THEN 1 ELSE n + 2
      BY <1>6
    <2> HIDE DEF f, succ
    <2> QED
      BY <1>1, <2>1
  <1>8. \A c \in 0 .. N+1 : (\E i \in 0 .. 0 : a[i] = c) \/ (\E j \in 0 .. N : f[j] = c)
    <2> SUFFICES ASSUME NEW c \in 0 .. N+1, c # 0 PROVE \E j \in 0 .. N : f[j] = c
      BY <1>5
    <2>1. c - 1 \in 0 .. N /\ f[c - 1] = c
      BY <1>6
    <2> QED
      BY <2>1
  <1>9. \A n \in 0 .. 0 : ch.next[a[n]] = a[n+1] /\ ch.prev[a[n+1]] = a[n]
    BY <1>1, <1>2, <1>5
  <1>11. \A n \in 0 .. N : ch.next[f[n]] = f[n+1] /\ ch.prev[f[n]] = f[n+1]
    <2> HIDE DEF succ, f, ch
    <2> QED
      BY <1>2, <1>7
  <1>10. \A i \in 0 .. 0, j \in 0 .. N : a[i] # f[j]
    BY <1>5, <1>6
  <1> HIDE DEF succ, f, a, ch
  <1>12. Rings(ch, N, a, 0, f, N, {})
    BY <1>3, <1>4, <1>8, <1>9, <1>10, <1>11 DEF Rings
  <1> QED
    BY <1>12 DEF a, f, ch

\* A chain is a record of three functions, and so it stays when one link is set.
LEMMA ChainRecord ==
  ASSUME NEW N, NEW ch \in Chain(N)
  PROVE  /\ ch = [prev |-> ch.prev, next |-> ch.next, timestamps |-> ch.timestamps]
         /\ ch.prev \in [0 .. N+1 -> 0 .. N+1] /\ ch.next \in [0 .. N+1 -> 0 .. N+1]
         /\ ch.timestamps \in [0 .. N-1 -> Int]
  BY DEF Chain

\* Setting a link forth.
LEMMA SetNext ==
  ASSUME NEW ch, NEW P, NEW Q, NEW T, NEW c, NEW x,
         ch = [prev |-> P, next |-> Q, timestamps |-> T]
  PROVE  [ch EXCEPT !.next[c] = x] = [prev |-> P, next |-> [Q EXCEPT ![c] = x], timestamps |-> T]
  OBVIOUS

\* Setting a link back.
LEMMA SetPrev ==
  ASSUME NEW ch, NEW P, NEW Q, NEW T, NEW c, NEW x,
         ch = [prev |-> P, next |-> Q, timestamps |-> T]
  PROVE  [ch EXCEPT !.prev[c] = x] = [prev |-> [P EXCEPT ![c] = x], next |-> Q, timestamps |-> T]
  OBVIOUS

\* Four links set, as LinkLast and LinkFree do.
SetLinks(ch, c, x, y, d, e) ==
  [ch EXCEPT !.next[c] = x, !.prev[c] = y, !.next[d] = c, !.prev[e] = c]

\* The chain is what it was but for these links.
LEMMA FourLinks ==
  ASSUME NEW N, NEW ch \in Chain(N), NEW c \in 0 .. N+1, NEW d \in 0 .. N+1, NEW e \in 0 .. N+1,
         NEW x \in 0 .. N+1, NEW y \in 0 .. N+1
  PROVE  LET r == SetLinks(ch, c, x, y, d, e) IN
         /\ r \in Chain(N)
         /\ r.next = [[ch.next EXCEPT ![c] = x] EXCEPT ![d] = c]
         /\ r.prev = [[ch.prev EXCEPT ![c] = y] EXCEPT ![e] = c]
         /\ r.timestamps = ch.timestamps
  <1> DEFINE r == SetLinks(ch, c, x, y, d, e)
             P == ch.prev   Q == ch.next   T == ch.timestamps
             P1 == [P EXCEPT ![c] = y]   P2 == [P1 EXCEPT ![e] = c]
             Q1 == [Q EXCEPT ![c] = x]   Q2 == [Q1 EXCEPT ![d] = c]
  <1>1. /\ ch = [prev |-> P, next |-> Q, timestamps |-> T] /\ T \in [0 .. N-1 -> Int]
        /\ P \in [0 .. N+1 -> 0 .. N+1] /\ Q \in [0 .. N+1 -> 0 .. N+1]
    BY ChainRecord
  <1> DEFINE ch1 == [ch EXCEPT !.next[c] = x]
             ch2 == [ch1 EXCEPT !.prev[c] = y]
             ch3 == [ch2 EXCEPT !.next[d] = c]
             ch4 == [ch3 EXCEPT !.prev[e] = c]
  <1> HIDE DEF P, Q, T
  <1>2. ch1 = [prev |-> P, next |-> Q1, timestamps |-> T]
    BY <1>1, SetNext
  <1>3. ch2 = [prev |-> P1, next |-> Q1, timestamps |-> T]
    <2> HIDE DEF ch1, Q1
    <2> QED
      BY <1>2, SetPrev
  <1>4. ch3 = [prev |-> P1, next |-> Q2, timestamps |-> T]
    <2> HIDE DEF ch2, P1, Q1
    <2> QED
      BY <1>3, SetNext
  <1>5. ch4 = [prev |-> P2, next |-> Q2, timestamps |-> T]
    <2> HIDE DEF ch3, P1, Q2
    <2> QED
      BY <1>4, SetPrev
  <1>6. r = ch4
    BY Zenon DEF SetLinks
  <1>7. P1 \in [0 .. N+1 -> 0 .. N+1] /\ Q1 \in [0 .. N+1 -> 0 .. N+1]
    <2> HIDE DEF P, Q
    <2> QED
      BY <1>1
  <1>8. P2 \in [0 .. N+1 -> 0 .. N+1] /\ Q2 \in [0 .. N+1 -> 0 .. N+1]
    <2> HIDE DEF P1, Q1
    <2> QED
      BY <1>7
  <1> HIDE DEF P2, Q2, ch4, r
  <1>9. r \in Chain(N) /\ r.next = Q2 /\ r.prev = P2 /\ r.timestamps = T
    <2>1. r = [prev |-> P2, next |-> Q2, timestamps |-> T]
      BY <1>5, <1>6
    <2>2. T \in [0 .. N-1 -> Int]
      BY <1>1
    <2>3. r.next = Q2 /\ r.prev = P2 /\ r.timestamps = T
      BY <2>1
    <2>4. r \in Chain(N)
      BY <1>8, <2>1, <2>2 DEF Chain
    <2> QED
      BY <2>3, <2>4
  <1> QED
    BY <1>9, Zenon DEF P, Q, T, P1, P2, Q1, Q2, r

\* What TakeFree writes.
LEMMA TakeFreeFields ==
  ASSUME NEW N, NEW ch \in Chain(N), 1 \in 0 .. N+1, ch.next[1] \in 0 .. N+1
  PROVE  LET second == ch.next[ch.next[1]]
         IN  /\ TakeFree(ch) \in Chain(N)
             /\ TakeFree(ch).next = [ch.next EXCEPT ![1] = second]
             /\ TakeFree(ch).prev = [ch.prev EXCEPT ![1] = second]
             /\ TakeFree(ch).timestamps = ch.timestamps
  BY DEF Chain, TakeFree, FREE_LIST_HEAD

\* What LinkLast writes.
LEMMA LinkLastFields ==
  ASSUME NEW N, NEW ch \in Chain(N), NEW c \in 0 .. N+1, 0 \in 0 .. N+1
  PROVE  LET last == ch.prev[0]
         IN  /\ LinkLast(ch, c) \in Chain(N)
             /\ LinkLast(ch, c).next = [[ch.next EXCEPT ![c] = 0] EXCEPT ![last] = c]
             /\ LinkLast(ch, c).prev = [[ch.prev EXCEPT ![c] = last] EXCEPT ![0] = c]
             /\ LinkLast(ch, c).timestamps = ch.timestamps
  <1>1. ch.prev[0] \in 0 .. N+1
    BY ChainRecord
  <1>2. LinkLast(ch, c) = SetLinks(ch, c, 0, ch.prev[0], ch.prev[0], 0)
    BY Zenon DEF LinkLast, SetLinks, ALLOC_LIST_HEAD
  <1>3. /\ SetLinks(ch, c, 0, ch.prev[0], ch.prev[0], 0) \in Chain(N)
        /\ SetLinks(ch, c, 0, ch.prev[0], ch.prev[0], 0).next
              = [[ch.next EXCEPT ![c] = 0] EXCEPT ![ch.prev[0]] = c]
        /\ SetLinks(ch, c, 0, ch.prev[0], ch.prev[0], 0).prev
              = [[ch.prev EXCEPT ![c] = ch.prev[0]] EXCEPT ![0] = c]
        /\ SetLinks(ch, c, 0, ch.prev[0], ch.prev[0], 0).timestamps = ch.timestamps
    BY <1>1, FourLinks
  <1> QED
    BY <1>2, <1>3, Zenon

\* What Unlink writes.
LEMMA UnlinkFields ==
  ASSUME NEW N, NEW ch \in Chain(N), NEW c \in 0 .. N+1
  PROVE  /\ Unlink(ch, c) \in Chain(N)
         /\ Unlink(ch, c).next = [ch.next EXCEPT ![ch.prev[c]] = ch.next[c]]
         /\ Unlink(ch, c).prev = [ch.prev EXCEPT ![ch.next[c]] = ch.prev[c]]
         /\ Unlink(ch, c).timestamps = ch.timestamps
  BY DEF Chain, Unlink

\* What LinkFree writes.
LEMMA LinkFreeFields ==
  ASSUME NEW N, NEW ch \in Chain(N), NEW c \in 0 .. N+1, 1 \in 0 .. N+1
  PROVE  LET first == ch.next[1]
         IN  /\ LinkFree(ch, c) \in Chain(N)
             /\ LinkFree(ch, c).next = [[ch.next EXCEPT ![c] = first] EXCEPT ![1] = c]
             /\ LinkFree(ch, c).prev = [[ch.prev EXCEPT ![c] = first] EXCEPT ![1] = c]
             /\ LinkFree(ch, c).timestamps = ch.timestamps
  <1>1. ch.next[1] \in 0 .. N+1
    BY ChainRecord
  <1>2. LinkFree(ch, c) = SetLinks(ch, c, ch.next[1], ch.next[1], 1, 1)
    BY Zenon DEF LinkFree, SetLinks, FREE_LIST_HEAD
  <1>3. /\ SetLinks(ch, c, ch.next[1], ch.next[1], 1, 1) \in Chain(N)
        /\ SetLinks(ch, c, ch.next[1], ch.next[1], 1, 1).next
              = [[ch.next EXCEPT ![c] = ch.next[1]] EXCEPT ![1] = c]
        /\ SetLinks(ch, c, ch.next[1], ch.next[1], 1, 1).prev
              = [[ch.prev EXCEPT ![c] = ch.next[1]] EXCEPT ![1] = c]
        /\ SetLinks(ch, c, ch.next[1], ch.next[1], 1, 1).timestamps = ch.timestamps
    BY <1>1, FourLinks
  <1> QED
    BY <1>2, <1>3, Zenon

-----------------------------------------------------------------------------
(***************************************************************************)
(* What the operations do to the rings.                                    *)
(***************************************************************************)

\* A ring stays one when a cell is cut out of it.
LEMMA RingWithout ==
  ASSUME NEW a, NEW m, NEW h, NEW N, Ring(a, m, h, N), NEW j \in 1 .. m
  PROVE  /\ Ring(Without(a, m, j), m-1, h, N)
         /\ \A n \in 0 .. m-1 : n < j => Without(a, m, j)[n] = a[n]
         /\ \A n \in 0 .. m : ~ (n < j) => Without(a, m, j)[n] = a[n+1]
         /\ \A n \in 0 .. m-1 : Without(a, m, j)[n] # a[j]
         /\ \A i \in 0 .. m : i # j => \E n \in 0 .. m-1 : Without(a, m, j)[n] = a[i]
         /\ \A n \in 0 .. m-1 : \E i \in 0 .. m : i # j /\ Without(a, m, j)[n] = a[i]
  <1> DEFINE b == Without(a, m, j)
  <1>1. /\ m \in Nat /\ a \in [0 .. m+1 -> 0 .. N+1] /\ a[0] = h /\ a[m+1] = h
        /\ \A i, k \in 0 .. m : a[i] = a[k] => i = k
    BY DEF Ring
  <1>2. /\ b \in [0 .. m -> 0 .. N+1] /\ (m - 1) + 1 = m /\ m - 1 \in Nat
        /\ \A n \in 0 .. m : b[n] = IF n < j THEN a[n] ELSE a[n+1]
    BY <1>1 DEF Without
  <1> HIDE DEF b
  <1>3. \A n \in 0 .. m-1 : \E i \in 0 .. m : i = (IF n < j THEN n ELSE n+1) /\ i # j /\ b[n] = a[i]
    BY <1>1, <1>2
  <1>4. \A i \in 0 .. m : i # j => \E n \in 0 .. m-1 : b[n] = a[i]
    <2> SUFFICES ASSUME NEW i \in 0 .. m, i # j PROVE \E n \in 0 .. m-1 : b[n] = a[i]
      OBVIOUS
    <2>1. CASE i < j
      BY <1>1, <1>2, <2>1
    <2>2. CASE i > j
      <3>1. i - 1 \in 0 .. m-1 /\ b[i-1] = a[(i-1)+1]
        BY <1>1, <1>2, <2>2
      <3> QED
        BY <3>1
    <2> QED
      BY <1>1, <2>1, <2>2
  <1>5. \A i, k \in 0 .. m-1 : b[i] = b[k] => i = k
    <2> SUFFICES ASSUME NEW i \in 0 .. m-1, NEW k \in 0 .. m-1, b[i] = b[k] PROVE i = k
      OBVIOUS
    <2>1. PICK x \in 0 .. m : x = (IF i < j THEN i ELSE i+1) /\ b[i] = a[x]
      BY <1>3
    <2>2. PICK y \in 0 .. m : y = (IF k < j THEN k ELSE k+1) /\ b[k] = a[y]
      BY <1>3
    <2>3. x = y
      BY <1>1, <2>1, <2>2
    <2> QED
      BY SMTT(30), <1>1, <2>1, <2>2, <2>3
  <1>6. b[0] = h /\ b[m] = h
    BY <1>1, <1>2
  <1>7. Ring(b, m-1, h, N)
    BY <1>2, <1>5, <1>6 DEF Ring
  <1>8. \A n \in 0 .. m-1 : b[n] # a[j]
    BY <1>1, <1>3
  <1> QED
    BY <1>1, <1>2, <1>3, <1>4, <1>7, <1>8 DEF b

\* A ring stays one when a cell that is not on it is added at its end.
LEMMA RingAtEnd ==
  ASSUME NEW a, NEW m, NEW h, NEW N, Ring(a, m, h, N), NEW c \in 0 .. N+1,
         \A i \in 0 .. m : a[i] # c
  PROVE  /\ Ring(AtEnd(a, m, c), m+1, h, N)
         /\ \A n \in 0 .. m : AtEnd(a, m, c)[n] = a[n]
         /\ AtEnd(a, m, c)[m+1] = c /\ AtEnd(a, m, c)[m+2] = h
  <1> DEFINE b == AtEnd(a, m, c)
  <1>1. /\ m \in Nat /\ a \in [0 .. m+1 -> 0 .. N+1] /\ a[0] = h /\ a[m+1] = h
        /\ \A i, k \in 0 .. m : a[i] = a[k] => i = k
    BY DEF Ring
  <1>2. /\ b \in [0 .. (m+1)+1 -> 0 .. N+1] /\ m + 1 \in Nat
        /\ (\A n \in 0 .. m : b[n] = a[n]) /\ b[m+1] = c /\ b[m+2] = h /\ (m+1)+1 = m+2
    BY <1>1 DEF AtEnd
  <1> HIDE DEF b
  <1>3. \A i, k \in 0 .. m+1 : b[i] = b[k] => i = k
    <2> SUFFICES ASSUME NEW i \in 0 .. m+1, NEW k \in 0 .. m+1, b[i] = b[k] PROVE i = k
      OBVIOUS
    <2>1. i \in 0 .. m \/ i = m+1
      BY <1>1
    <2>2. k \in 0 .. m \/ k = m+1
      BY <1>1
    <2> QED
      BY <1>1, <1>2, <2>1, <2>2
  <1>4. b[0] = h
    BY <1>1, <1>2
  <1> QED
    BY <1>1, <1>2, <1>3, <1>4 DEF Ring, b

\* And when it is added at its front.
LEMMA RingAtFront ==
  ASSUME NEW a, NEW m, NEW h, NEW N, Ring(a, m, h, N), NEW c \in 0 .. N+1,
         \A i \in 0 .. m : a[i] # c
  PROVE  /\ Ring(AtFront(a, m, c), m+1, h, N)
         /\ AtFront(a, m, c)[0] = h /\ AtFront(a, m, c)[1] = c
         /\ \A n \in 1 .. m+1 : AtFront(a, m, c)[n+1] = a[n]
  <1> DEFINE b == AtFront(a, m, c)
  <1>1. /\ m \in Nat /\ a \in [0 .. m+1 -> 0 .. N+1] /\ a[0] = h /\ a[m+1] = h
        /\ \A i, k \in 0 .. m : a[i] = a[k] => i = k
    BY DEF Ring
  <1>2. /\ b \in [0 .. (m+1)+1 -> 0 .. N+1] /\ m + 1 \in Nat
        /\ b[0] = h /\ b[1] = c /\ (\A n \in 2 .. m+2 : b[n] = a[n-1])
    BY <1>1 DEF AtFront
  <1> HIDE DEF b
  <1>3. \A n \in 1 .. m+1 : b[n+1] = a[n]
    <2> SUFFICES ASSUME NEW n \in 1 .. m+1 PROVE b[n+1] = a[n]
      OBVIOUS
    <2>1. n+1 \in 2 .. m+2 /\ (n+1)-1 = n
      BY <1>1
    <2>2. b[n+1] = a[(n+1)-1]
      BY <1>2, <2>1
    <2> QED
      BY <2>1, <2>2
  <1>4. \A i, k \in 0 .. m+1 : b[i] = b[k] => i = k
    <2> SUFFICES ASSUME NEW i \in 0 .. m+1, NEW k \in 0 .. m+1, b[i] = b[k] PROVE i = k
      OBVIOUS
    <2> DEFINE old(n) == IF n = 0 THEN 0 ELSE n-1
    <2>1. \A n \in 0 .. m+1 : n = 1 \/ (n # 1 /\ old(n) \in 0 .. m /\ b[n] = a[old(n)])
      <3> SUFFICES ASSUME NEW n \in 0 .. m+1, n # 1
                   PROVE  old(n) \in 0 .. m /\ b[n] = a[old(n)]
        OBVIOUS
      <3>1. CASE n = 0
        <4>1. old(n) = 0 /\ 0 \in 0 .. m
          BY <1>1, <3>1
        <4> QED
          BY <1>1, <1>2, <3>1, <4>1
      <3>2. CASE n # 0
        <4>1. old(n) = n-1 /\ n-1 \in 0 .. m /\ n \in 2 .. m+2
          BY <1>1, <3>2
        <4> QED
          BY <1>2, <4>1
      <3> QED
        BY <3>1, <3>2
    <2>2. old(i) = old(k) => i = k \/ i = 1 \/ k = 1
      OBVIOUS
    <2>3. CASE i # 1 /\ k # 1
      BY <1>1, <2>1, <2>2, <2>3
    <2>4. CASE i = 1 \/ k = 1
      <3>1. \A n \in 0 .. m+1 : n # 1 => b[n] # c
        <4> HIDE DEF old
        <4> QED
          BY <2>1
      <3> QED
        BY <1>2, <2>4, <3>1
    <2> QED
      BY <2>3, <2>4
  <1>5. b[(m+1)+1] = h
    BY <1>1, <1>3
  <1> QED
    BY <1>1, <1>2, <1>3, <1>4, <1>5 DEF Ring, b

\* TakeFree: the first free cell is on neither ring.
LEMMA TakeFreeRings ==
  ASSUME NEW ch, NEW N, NEW a, NEW m, NEW f, NEW r, Threaded(ch, N, a, m, f, r),
         ~ OutOfSpace(ch)
  PROVE  /\ r > 0 /\ ch.next[1] = f[1]
         /\ Rings(TakeFree(ch), N, a, m, Without(f, r, 1), r-1, {f[1]})
         /\ TakeFree(ch).timestamps = ch.timestamps
  <1>1. N \in Nat /\ ch \in Chain(N) /\ Ring(a, m, 0, N) /\ Ring(f, r, 1, N)
    BY DEF Threaded, Rings
  <1>N. m \in Nat /\ r \in Nat /\ 0 \in 0 .. N+1 /\ 1 \in 0 .. N+1
    BY <1>1 DEF Ring
  <1>A. a \in [0 .. m+1 -> 0 .. N+1] /\ a[0] = 0 /\ a[m+1] = 0
    BY <1>1 DEF Ring
  <1>AI. \A i, j \in 0 .. m : a[i] = a[j] => i = j
    BY <1>1 DEF Ring
  <1>F. f \in [0 .. r+1 -> 0 .. N+1] /\ f[0] = 1 /\ f[r+1] = 1
    BY <1>1 DEF Ring
  <1>FI. \A i, j \in 0 .. r : f[i] = f[j] => i = j
    BY <1>1 DEF Ring
  <1>D. \A i \in 0 .. m, j \in 0 .. r : a[i] # f[j]
    BY DEF Threaded, Rings
  <1>C. ch.prev \in [0 .. N+1 -> 0 .. N+1] /\ ch.next \in [0 .. N+1 -> 0 .. N+1]
    BY <1>1, ChainRecord
  <1>LA. \A n \in 0 .. m : ch.next[a[n]] = a[n+1] /\ ch.prev[a[n+1]] = a[n]
    BY DEF Threaded, Rings
  <1>LF. \A n \in 0 .. r : ch.next[f[n]] = f[n+1] /\ ch.prev[f[n]] = f[n+1]
    BY DEF Threaded, Rings
  <1>2. ch.next[1] # 1 /\ ch.next[1] = f[1] /\ r > 0
    <2>1. ch.next[1] # 1
      BY DEF OutOfSpace, FREE_LIST_HEAD
    <2>2. ch.next[1] = f[1]
      BY <1>N, <1>F, <1>LF
    <2>3. r # 0
      BY <1>F, <2>1, <2>2
    <2> QED
      BY <1>N, <2>1, <2>2, <2>3
  <1> DEFINE g == Without(f, r, 1)
             nx == TakeFree(ch).next
             pv == TakeFree(ch).prev
  <1>3. ch.next[ch.next[1]] = f[2] /\ ch.next[1] \in 0 .. N+1
    <2>1. 1 \in 0 .. r /\ 1 + 1 = 2
      BY <1>N, <1>2
    <2> QED
      BY <1>N, <1>F, <1>LF, <1>2, <2>1
  <1>4. /\ TakeFree(ch) \in Chain(N) /\ TakeFree(ch).timestamps = ch.timestamps
        /\ nx = [ch.next EXCEPT ![1] = f[2]] /\ pv = [ch.prev EXCEPT ![1] = f[2]]
    BY <1>1, <1>N, <1>3, TakeFreeFields, Zenon
  <1>6. 1 \in 1 .. r
    BY <1>N, <1>2
  <1>7. /\ Ring(g, r-1, 1, N)
        /\ \A n \in 0 .. r-1 : n < 1 => g[n] = f[n]
        /\ \A n \in 0 .. r : ~ (n < 1) => g[n] = f[n+1]
        /\ \A n \in 0 .. r-1 : g[n] # f[1]
        /\ \A i \in 0 .. r : i # 1 => \E n \in 0 .. r-1 : g[n] = f[i]
        /\ \A n \in 0 .. r-1 : \E i \in 0 .. r : i # 1 /\ g[n] = f[i]
    BY <1>1, <1>6, RingWithout
  <1> HIDE DEF g, nx, pv
  <1>8. g[0] = 1 /\ g[1] = f[2]
    <2>1. 0 \in 0 .. r-1 /\ 1 \in 0 .. r /\ 0 < 1 /\ ~ (1 < 1) /\ 1 + 1 = 2
      BY <1>N, <1>2
    <2> QED
      BY <1>F, <1>7, <2>1
  <1>X. /\ nx[1] = f[2] /\ pv[1] = f[2]
        /\ \A d \in 0 .. N+1 : d # 1 => nx[d] = ch.next[d] /\ pv[d] = ch.prev[d]
    BY <1>N, <1>C, <1>4
  <1>9. \A n \in 0 .. m : nx[a[n]] = a[n+1] /\ pv[a[n+1]] = a[n]
    <2> SUFFICES ASSUME NEW n \in 0 .. m PROVE nx[a[n]] = a[n+1] /\ pv[a[n+1]] = a[n]
      OBVIOUS
    <2>0. 0 \in 0 .. r /\ 0 \in 0 .. m /\ n \in 0 .. m+1 /\ n+1 \in 0 .. m+1
      BY <1>N
    <2>1. a[n] # 1
      BY <1>F, <1>D, <2>0
    <2>2. a[n+1] # 1
      <3>1. n+1 \in 0 .. m \/ n+1 = m+1
        BY <1>N
      <3> QED
        BY <1>A, <1>F, <1>D, <2>0, <3>1
    <2>3. a[n] \in 0 .. N+1 /\ a[n+1] \in 0 .. N+1
      BY <1>A, <2>0
    <2> QED
      BY <1>LA, <1>X, <2>1, <2>2, <2>3
  <1>10. \A n \in 0 .. r-1 : nx[g[n]] = g[n+1] /\ pv[g[n]] = g[n+1]
    <2> SUFFICES ASSUME NEW n \in 0 .. r-1 PROVE nx[g[n]] = g[n+1] /\ pv[g[n]] = g[n+1]
      OBVIOUS
    <2>1. CASE n = 0
      BY <1>X, <1>8, <2>1
    <2>2. CASE n # 0
      <3>0. /\ n \in 0 .. r /\ ~ (n < 1) /\ n+1 \in 0 .. r /\ ~ (n+1 < 1) /\ n+1 \in 0 .. r+1
            /\ (n+1)+1 = n+2 /\ n+1 # 0 /\ 0 \in 0 .. r
        BY <1>N, <2>2
      <3>1. g[n] = f[n+1] /\ g[n+1] = f[n+2]
        BY <1>7, <3>0
      <3>2. f[n+1] # 1
        BY <1>F, <1>FI, <3>0
      <3>3. ch.next[f[n+1]] = f[n+2] /\ ch.prev[f[n+1]] = f[n+2] /\ f[n+1] \in 0 .. N+1
        BY <1>F, <1>LF, <3>0
      <3> QED
        BY <1>X, <3>1, <3>2, <3>3
    <2> QED
      BY <2>1, <2>2
  <1>11. \A i \in 0 .. m, j \in 0 .. r-1 : a[i] # g[j]
    BY <1>D, <1>7
  <1>12. {f[1]} \subseteq 2 .. N+1
    <2>1. 0 \in 0 .. m /\ 1 \in 0 .. r /\ 1 \in 0 .. r+1
      BY <1>N, <1>2
    <2>2. f[1] # 0 /\ f[1] # 1 /\ f[1] \in 0 .. N+1
      BY <1>A, <1>F, <1>D, <1>2, <2>1
    <2> QED
      BY <1>1, <2>2
  <1>13. \A c \in {f[1]} : (\A i \in 0 .. m : a[i] # c) /\ (\A j \in 0 .. r-1 : g[j] # c)
    <2>1. 1 \in 0 .. r
      BY <1>6
    <2> QED
      BY <1>D, <1>7, <2>1
  <1>14. \A c \in 0 .. N+1 :
           c \in {f[1]} \/ (\E i \in 0 .. m : a[i] = c) \/ (\E j \in 0 .. r-1 : g[j] = c)
    <2>1. \A c \in 0 .. N+1 : (\E i \in 0 .. m : a[i] = c) \/ (\E j \in 0 .. r : f[j] = c)
      BY DEF Threaded, Rings
    <2> QED
      BY <1>7, <2>1
  <1>15. Rings(TakeFree(ch), N, a, m, g, r-1, {f[1]})
    BY <1>1, <1>4, <1>7, <1>9, <1>10, <1>11, <1>12, <1>13, <1>14, Zenon DEF Threaded, Rings, nx, pv
  <1> QED
    BY <1>2, <1>4, <1>15 DEF g

\* LinkLast: the loose cell becomes the newest of the allocated ones.
LEMMA LinkLastRings ==
  ASSUME NEW ch, NEW N, NEW a, NEW m, NEW f, NEW r, NEW c, Rings(ch, N, a, m, f, r, {c})
  PROVE  /\ Threaded(LinkLast(ch, c), N, AtEnd(a, m, c), m+1, f, r)
         /\ LinkLast(ch, c).timestamps = ch.timestamps
  <1>1. N \in Nat /\ ch \in Chain(N) /\ Ring(a, m, 0, N) /\ Ring(f, r, 1, N)
    BY DEF Threaded, Rings
  <1>N. m \in Nat /\ r \in Nat /\ 0 \in 0 .. N+1 /\ 1 \in 0 .. N+1
    BY <1>1 DEF Ring
  <1>A. a \in [0 .. m+1 -> 0 .. N+1] /\ a[0] = 0 /\ a[m+1] = 0
    BY <1>1 DEF Ring
  <1>AI. \A i, j \in 0 .. m : a[i] = a[j] => i = j
    BY <1>1 DEF Ring
  <1>F. f \in [0 .. r+1 -> 0 .. N+1] /\ f[0] = 1 /\ f[r+1] = 1
    BY <1>1 DEF Ring
  <1>FI. \A i, j \in 0 .. r : f[i] = f[j] => i = j
    BY <1>1 DEF Ring
  <1>D. \A i \in 0 .. m, j \in 0 .. r : a[i] # f[j]
    BY DEF Threaded, Rings
  <1>C. ch.prev \in [0 .. N+1 -> 0 .. N+1] /\ ch.next \in [0 .. N+1 -> 0 .. N+1]
    BY <1>1, ChainRecord
  <1>LA. \A n \in 0 .. m : ch.next[a[n]] = a[n+1] /\ ch.prev[a[n+1]] = a[n]
    BY DEF Threaded, Rings
  <1>LF. \A n \in 0 .. r : ch.next[f[n]] = f[n+1] /\ ch.prev[f[n]] = f[n+1]
    BY DEF Threaded, Rings
  <1>2. c \in 2 .. N+1 /\ (\A i \in 0 .. m : a[i] # c) /\ (\A j \in 0 .. r : f[j] # c)
    BY DEF Threaded, Rings
  <1>P. \A d \in 0 .. N+1 :
          d = c \/ (\E i \in 0 .. m : a[i] = d) \/ (\E j \in 0 .. r : f[j] = d)
    BY DEF Threaded, Rings
  <1> DEFINE b == AtEnd(a, m, c)
             nx == LinkLast(ch, c).next
             pv == LinkLast(ch, c).prev
  <1>3. ch.prev[0] = a[m] /\ c \in 0 .. N+1 /\ a[m] \in 0 .. N+1 /\ a[m] # c /\ c # 0
    <2>1. m \in 0 .. m /\ m \in 0 .. m+1
      BY <1>N
    <2>2. a[m] \in 0 .. N+1 /\ ch.prev[a[m+1]] = a[m]
      BY <1>A, <1>LA, <2>1
    <2>3. c \in 0 .. N+1 /\ c # 0
      BY <1>1, <1>2
    <2> QED
      BY <1>A, <1>2, <2>1, <2>2, <2>3
  <1>4. /\ LinkLast(ch, c) \in Chain(N) /\ LinkLast(ch, c).timestamps = ch.timestamps
        /\ nx = [[ch.next EXCEPT ![c] = 0] EXCEPT ![a[m]] = c]
        /\ pv = [[ch.prev EXCEPT ![c] = a[m]] EXCEPT ![0] = c]
    <2>1. /\ LinkLast(ch, c) \in Chain(N) /\ LinkLast(ch, c).timestamps = ch.timestamps
          /\ nx = [[ch.next EXCEPT ![c] = 0] EXCEPT ![ch.prev[0]] = c]
          /\ pv = [[ch.prev EXCEPT ![c] = ch.prev[0]] EXCEPT ![0] = c]
      BY <1>1, <1>N, <1>3, LinkLastFields
    <2> HIDE DEF nx, pv
    <2> QED
      BY <1>3, <2>1
  <1>5. /\ Ring(b, m+1, 0, N) /\ (\A n \in 0 .. m : b[n] = a[n])
        /\ b[m+1] = c /\ b[m+2] = 0
    BY <1>1, <1>2, <1>3, RingAtEnd
  <1> HIDE DEF b, nx, pv
  <1>6. /\ nx[c] = 0 /\ nx[a[m]] = c
        /\ \A d \in 0 .. N+1 : d # c /\ d # a[m] => nx[d] = ch.next[d]
    <2> DEFINE q == a[m]
    <2>1. nx = [[ch.next EXCEPT ![c] = 0] EXCEPT ![q] = c] /\ q \in 0 .. N+1 /\ q # c
      BY <1>3, <1>4
    <2> HIDE DEF q
    <2>2. nx[c] = 0 /\ nx[q] = c /\ \A d \in 0 .. N+1 : d # c /\ d # q => nx[d] = ch.next[d]
      BY <1>C, <1>3, <2>1
    <2> QED
      BY <2>2 DEF q
  <1>7. /\ pv[c] = a[m] /\ pv[0] = c
        /\ \A d \in 0 .. N+1 : d # c /\ d # 0 => pv[d] = ch.prev[d]
    <2> DEFINE q == a[m]
    <2>1. pv = [[ch.prev EXCEPT ![c] = q] EXCEPT ![0] = c]
      BY <1>4
    <2> HIDE DEF q
    <2>2. pv[c] = q /\ pv[0] = c /\ \A d \in 0 .. N+1 : d # c /\ d # 0 => pv[d] = ch.prev[d]
      BY <1>N, <1>C, <1>3, <2>1
    <2> QED
      BY <2>2 DEF q
  <1>8. \A n \in 0 .. m+1 : nx[b[n]] = b[n+1] /\ pv[b[n+1]] = b[n]
    <2> SUFFICES ASSUME NEW n \in 0 .. m+1 PROVE nx[b[n]] = b[n+1] /\ pv[b[n+1]] = b[n]
      OBVIOUS
    <2>1. CASE n = m+1
      <3>1. n + 1 = m + 2
        BY <1>N, <2>1
      <3> QED
        BY <1>5, <1>6, <1>7, <2>1, <3>1
    <2>2. CASE n = m
      <3>1. m \in 0 .. m
        BY <1>N
      <3>2. b[n] = a[m] /\ b[n+1] = c
        BY <1>5, <2>2, <3>1
      <3> QED
        BY <1>6, <1>7, <3>2
    <2>3. CASE n \in 0 .. m-1
      <3>1. /\ n \in 0 .. m /\ n+1 \in 0 .. m /\ m \in 0 .. m /\ 0 \in 0 .. m
            /\ n # m /\ n+1 # 0 /\ n \in 0 .. m+1 /\ n+1 \in 0 .. m+1
        BY <1>N, <2>3
      <3>2. b[n] = a[n] /\ b[n+1] = a[n+1]
        BY <1>5, <3>1
      <3>3. a[n] # c /\ a[n+1] # c /\ a[n] # a[m] /\ a[n+1] # 0
        BY <1>A, <1>AI, <1>2, <3>1
      <3>4. a[n] \in 0 .. N+1 /\ a[n+1] \in 0 .. N+1
        BY <1>A, <3>1
      <3>5. ch.next[a[n]] = a[n+1] /\ ch.prev[a[n+1]] = a[n]
        BY <1>LA, <3>1
      <3> QED
        BY <1>6, <1>7, <3>2, <3>3, <3>4, <3>5
    <2> QED
      BY <1>N, <2>1, <2>2, <2>3
  <1>9. \A n \in 0 .. r : nx[f[n]] = f[n+1] /\ pv[f[n]] = f[n+1]
    <2> SUFFICES ASSUME NEW n \in 0 .. r PROVE nx[f[n]] = f[n+1] /\ pv[f[n]] = f[n+1]
      OBVIOUS
    <2>0. m \in 0 .. m /\ 0 \in 0 .. m /\ n \in 0 .. r+1
      BY <1>N
    <2>1. f[n] \in 0 .. N+1
      BY <1>F, <2>0
    <2>2. f[n] # c /\ f[n] # a[m] /\ f[n] # 0
      BY <1>A, <1>D, <1>2, <2>0
    <2>3. ch.next[f[n]] = f[n+1] /\ ch.prev[f[n]] = f[n+1]
      BY <1>LF
    <2> QED
      BY <1>6, <1>7, <2>1, <2>2, <2>3
  <1>10. \A i \in 0 .. m+1 : i \in 0 .. m \/ i = m+1
    BY <1>N
  <1>11. \A i \in 0 .. m+1, j \in 0 .. r : b[i] # f[j]
    BY <1>D, <1>2, <1>5, <1>10
  <1>12. \A d \in 0 .. N+1 : (\E i \in 0 .. m+1 : b[i] = d) \/ (\E j \in 0 .. r : f[j] = d)
    <2>1. (\A i \in 0 .. m : i \in 0 .. m+1) /\ m+1 \in 0 .. m+1
      BY <1>N
    <2> QED
      BY <1>P, <1>5, <2>1
  <1>13. Threaded(LinkLast(ch, c), N, b, m+1, f, r)
    BY <1>1, <1>4, <1>5, <1>8, <1>9, <1>11, <1>12 DEF Threaded, Rings, nx, pv
  <1> QED
    BY <1>4, <1>13 DEF b

\* Unlink: an allocated cell is cut out of its list.
LEMMA UnlinkRings ==
  ASSUME NEW ch, NEW N, NEW a, NEW m, NEW f, NEW r, Threaded(ch, N, a, m, f, r),
         NEW j \in 1 .. m
  PROVE  /\ Rings(Unlink(ch, a[j]), N, Without(a, m, j), m-1, f, r, {a[j]})
         /\ Unlink(ch, a[j]).timestamps = ch.timestamps
  <1>1. N \in Nat /\ ch \in Chain(N) /\ Ring(a, m, 0, N) /\ Ring(f, r, 1, N)
    BY DEF Threaded, Rings
  <1>N. m \in Nat /\ r \in Nat /\ 0 \in 0 .. N+1 /\ 1 \in 0 .. N+1
    BY <1>1 DEF Ring
  <1>A. a \in [0 .. m+1 -> 0 .. N+1] /\ a[0] = 0 /\ a[m+1] = 0
    BY <1>1 DEF Ring
  <1>AI. \A i, k \in 0 .. m : a[i] = a[k] => i = k
    BY <1>1 DEF Ring
  <1>F. f \in [0 .. r+1 -> 0 .. N+1] /\ f[0] = 1 /\ f[r+1] = 1
    BY <1>1 DEF Ring
  <1>FI. \A i, k \in 0 .. r : f[i] = f[k] => i = k
    BY <1>1 DEF Ring
  <1>D. \A i \in 0 .. m, k \in 0 .. r : a[i] # f[k]
    BY DEF Threaded, Rings
  <1>C. ch.prev \in [0 .. N+1 -> 0 .. N+1] /\ ch.next \in [0 .. N+1 -> 0 .. N+1]
    BY <1>1, ChainRecord
  <1>LA. \A n \in 0 .. m : ch.next[a[n]] = a[n+1] /\ ch.prev[a[n+1]] = a[n]
    BY DEF Threaded, Rings
  <1>LF. \A n \in 0 .. r : ch.next[f[n]] = f[n+1] /\ ch.prev[f[n]] = f[n+1]
    BY DEF Threaded, Rings
  <1>P. \A d \in 0 .. N+1 : (\E i \in 0 .. m : a[i] = d) \/ (\E i \in 0 .. r : f[i] = d)
    BY DEF Threaded, Rings
  <1>J. /\ j \in 0 .. m /\ j-1 \in 0 .. m /\ (j-1)+1 = j /\ j+1 \in 0 .. m+1 /\ j \in 0 .. m+1
        /\ j-1 \in 0 .. m+1 /\ 0 \in 0 .. m /\ 0 \in 0 .. r /\ j # 0
    BY <1>N
  <1> DEFINE c == a[j]  p == a[j-1]  q == a[j+1]
             b == Without(a, m, j)
             nx == Unlink(ch, a[j]).next
             pv == Unlink(ch, a[j]).prev
  <1>2. c \in 2 .. N+1 /\ p \in 0 .. N+1 /\ q \in 0 .. N+1 /\ c \in 0 .. N+1
    <2>1. c \in 0 .. N+1 /\ p \in 0 .. N+1 /\ q \in 0 .. N+1
      BY <1>A, <1>J
    <2>2. c # 0 /\ c # 1
      BY <1>A, <1>AI, <1>F, <1>D, <1>J
    <2> HIDE DEF c, p, q
    <2> QED
      BY <1>1, <2>1, <2>2
  <1>3. ch.prev[c] = p /\ ch.next[c] = q
    <2>1. ch.prev[a[(j-1)+1]] = a[j-1] /\ ch.next[a[j]] = a[j+1]
      BY <1>LA, <1>J
    <2> QED
      BY <1>J, <2>1
  <1>4. /\ Unlink(ch, c) \in Chain(N) /\ Unlink(ch, c).timestamps = ch.timestamps
        /\ nx = [ch.next EXCEPT ![p] = q] /\ pv = [ch.prev EXCEPT ![q] = p]
    <2>1. /\ Unlink(ch, c) \in Chain(N) /\ Unlink(ch, c).timestamps = ch.timestamps
          /\ nx = [ch.next EXCEPT ![ch.prev[c]] = ch.next[c]]
          /\ pv = [ch.prev EXCEPT ![ch.next[c]] = ch.prev[c]]
      BY <1>1, <1>2, UnlinkFields
    <2> HIDE DEF nx, pv, c, p, q
    <2> QED
      BY <1>3, <2>1
  <1>5. /\ Ring(b, m-1, 0, N)
        /\ \A n \in 0 .. m-1 : n < j => b[n] = a[n]
        /\ \A n \in 0 .. m : ~ (n < j) => b[n] = a[n+1]
        /\ \A n \in 0 .. m-1 : b[n] # a[j]
        /\ \A i \in 0 .. m : i # j => \E n \in 0 .. m-1 : b[n] = a[i]
        /\ \A n \in 0 .. m-1 : \E i \in 0 .. m : i # j /\ b[n] = a[i]
    BY <1>1, RingWithout
  <1> HIDE DEF b, nx, pv, p, q
  <1>6. /\ nx[p] = q /\ pv[q] = p
        /\ \A d \in 0 .. N+1 : d # p => nx[d] = ch.next[d]
        /\ \A d \in 0 .. N+1 : d # q => pv[d] = ch.prev[d]
    BY <1>C, <1>2, <1>4
  <1>7. \A i \in 0 .. m+1 : \E k \in 0 .. m : a[i] = a[k] /\ (k = i \/ (i = m+1 /\ k = 0))
    <2> SUFFICES ASSUME NEW i \in 0 .. m+1
                 PROVE  \E k \in 0 .. m : a[i] = a[k] /\ (k = i \/ (i = m+1 /\ k = 0))
      OBVIOUS
    <2>1. i \in 0 .. m \/ i = m+1
      BY <1>N
    <2> QED
      BY <1>A, <1>J, <2>1
  <1>8. \A n \in 0 .. m-1 : nx[b[n]] = b[n+1] /\ pv[b[n+1]] = b[n]
    <2> SUFFICES ASSUME NEW n \in 0 .. m-1 PROVE nx[b[n]] = b[n+1] /\ pv[b[n+1]] = b[n]
      OBVIOUS
    <2>1. CASE n < j-1
      <3>1. /\ n \in 0 .. m /\ n+1 \in 0 .. m /\ n+1 \in 0 .. m-1 /\ n < j /\ n+1 < j
            /\ n # j-1 /\ n+1 # 0 /\ n+1 # j+1 /\ n+1 # m+1 /\ n \in 0 .. m+1 /\ n+1 \in 0 .. m+1
        BY <1>N, <2>1
      <3>2. b[n] = a[n] /\ b[n+1] = a[n+1]
        BY <1>5, <3>1
      <3>3. a[n] # p
        BY <1>AI, <1>J, <3>1 DEF p
      <3>4. a[n+1] # q
        <4>1. PICK k \in 0 .. m : a[j+1] = a[k] /\ (k = j+1 \/ (j+1 = m+1 /\ k = 0))
          BY <1>7, <1>J
        <4> QED
          BY <1>AI, <3>1, <4>1 DEF q
      <3>5. a[n] \in 0 .. N+1 /\ a[n+1] \in 0 .. N+1
        BY <1>A, <3>1
      <3>6. ch.next[a[n]] = a[n+1] /\ ch.prev[a[n+1]] = a[n]
        BY <1>LA, <3>1
      <3> QED
        BY <1>6, <3>2, <3>3, <3>4, <3>5, <3>6
    <2>2. CASE n = j-1
      <3>1. n < j /\ n+1 = j /\ ~ (n+1 < j) /\ n+1 \in 0 .. m /\ (n+1)+1 = j+1
        BY <1>N, <2>2
      <3>2. b[n] = p /\ b[n+1] = q
        BY <1>5, <2>2, <3>1 DEF p, q
      <3> QED
        BY <1>6, <3>2
    <2>3. CASE n >= j
      <3>1. /\ n \in 0 .. m /\ ~ (n < j) /\ n+1 \in 0 .. m /\ ~ (n+1 < j) /\ n+1 # j-1
            /\ (n+1)+1 = n+2 /\ n+1 \in 0 .. m+1 /\ n+2 \in 0 .. m+1 /\ n+2 # j+1
            /\ j+1 \in 0 .. m /\ j+1 # 0
        BY <1>N, <2>3
      <3>2. b[n] = a[n+1] /\ b[n+1] = a[n+2]
        BY <1>5, <3>1
      <3>3. a[n+1] # p
        BY <1>AI, <1>J, <3>1 DEF p
      <3>4. a[n+2] # q
        <4>1. PICK k \in 0 .. m : a[n+2] = a[k] /\ (k = n+2 \/ (n+2 = m+1 /\ k = 0))
          BY <1>7, <3>1
        <4> QED
          BY <1>AI, <3>1, <4>1 DEF q
      <3>5. a[n+1] \in 0 .. N+1 /\ a[n+2] \in 0 .. N+1
        BY <1>A, <3>1
      <3>6. ch.next[a[n+1]] = a[n+2] /\ ch.prev[a[n+2]] = a[n+1]
        BY <1>LA, <3>1
      <3> QED
        BY <1>6, <3>2, <3>3, <3>4, <3>5, <3>6
    <2> QED
      BY <1>N, <2>1, <2>2, <2>3
  <1>9. \A n \in 0 .. r : nx[f[n]] = f[n+1] /\ pv[f[n]] = f[n+1]
    <2> SUFFICES ASSUME NEW n \in 0 .. r PROVE nx[f[n]] = f[n+1] /\ pv[f[n]] = f[n+1]
      OBVIOUS
    <2>0. n \in 0 .. r+1
      BY <1>N
    <2>1. f[n] \in 0 .. N+1
      BY <1>F, <2>0
    <2>2. f[n] # p
      BY <1>D, <1>J DEF p
    <2>3. f[n] # q
      BY <1>7, <1>D, <1>J DEF q
    <2>4. ch.next[f[n]] = f[n+1] /\ ch.prev[f[n]] = f[n+1]
      BY <1>LF
    <2> QED
      BY <1>6, <2>1, <2>2, <2>3, <2>4
  <1>11. \A i \in 0 .. m-1, k \in 0 .. r : b[i] # f[k]
    BY <1>5, <1>D
  <1>12. \A d \in {c} : (\A i \in 0 .. m-1 : b[i] # d) /\ (\A i \in 0 .. r : f[i] # d)
    BY <1>5, <1>D, <1>J
  <1>13. \A d \in 0 .. N+1 :
           d \in {c} \/ (\E i \in 0 .. m-1 : b[i] = d) \/ (\E i \in 0 .. r : f[i] = d)
    BY <1>5, <1>P
  <1>14. {c} \subseteq 2 .. N+1
    BY <1>2
  <1>15. Rings(Unlink(ch, c), N, b, m-1, f, r, {c})
    BY <1>1, <1>4, <1>5, <1>8, <1>9, <1>11, <1>12, <1>13, <1>14, Zenon
       DEF Threaded, Rings, nx, pv, c
  <1> QED
    BY <1>4, <1>15 DEF b, c

\* LinkFree: the loose cell becomes the first of the free ones.
LEMMA LinkFreeRings ==
  ASSUME NEW ch, NEW N, NEW a, NEW m, NEW f, NEW r, NEW c, Rings(ch, N, a, m, f, r, {c})
  PROVE  /\ Threaded(LinkFree(ch, c), N, a, m, AtFront(f, r, c), r+1)
         /\ LinkFree(ch, c).timestamps = ch.timestamps
  <1>1. N \in Nat /\ ch \in Chain(N) /\ Ring(a, m, 0, N) /\ Ring(f, r, 1, N)
    BY DEF Threaded, Rings
  <1>N. m \in Nat /\ r \in Nat /\ 0 \in 0 .. N+1 /\ 1 \in 0 .. N+1
    BY <1>1 DEF Ring
  <1>A. a \in [0 .. m+1 -> 0 .. N+1] /\ a[0] = 0 /\ a[m+1] = 0
    BY <1>1 DEF Ring
  <1>AI. \A i, k \in 0 .. m : a[i] = a[k] => i = k
    BY <1>1 DEF Ring
  <1>F. f \in [0 .. r+1 -> 0 .. N+1] /\ f[0] = 1 /\ f[r+1] = 1
    BY <1>1 DEF Ring
  <1>FI. \A i, k \in 0 .. r : f[i] = f[k] => i = k
    BY <1>1 DEF Ring
  <1>D. \A i \in 0 .. m, k \in 0 .. r : a[i] # f[k]
    BY DEF Threaded, Rings
  <1>C. ch.prev \in [0 .. N+1 -> 0 .. N+1] /\ ch.next \in [0 .. N+1 -> 0 .. N+1]
    BY <1>1, ChainRecord
  <1>LA. \A n \in 0 .. m : ch.next[a[n]] = a[n+1] /\ ch.prev[a[n+1]] = a[n]
    BY DEF Threaded, Rings
  <1>LF. \A n \in 0 .. r : ch.next[f[n]] = f[n+1] /\ ch.prev[f[n]] = f[n+1]
    BY DEF Threaded, Rings
  <1>2. c \in 2 .. N+1 /\ (\A i \in 0 .. m : a[i] # c) /\ (\A j \in 0 .. r : f[j] # c)
    BY DEF Threaded, Rings
  <1>P. \A d \in 0 .. N+1 :
          d = c \/ (\E i \in 0 .. m : a[i] = d) \/ (\E j \in 0 .. r : f[j] = d)
    BY DEF Threaded, Rings
  <1> DEFINE g == AtFront(f, r, c)
             nx == LinkFree(ch, c).next
             pv == LinkFree(ch, c).prev
             q == f[1]
  <1>J. /\ 0 \in 0 .. m /\ 0 \in 0 .. r /\ 1 \in 0 .. r+1 /\ 1 \in 1 .. r+1 /\ 0 + 1 = 1
    BY <1>N
  <1>3. ch.next[1] = q /\ c \in 0 .. N+1 /\ q \in 0 .. N+1 /\ c # 1
    BY <1>1, <1>F, <1>LF, <1>J, <1>2
  <1>4. /\ LinkFree(ch, c) \in Chain(N) /\ LinkFree(ch, c).timestamps = ch.timestamps
        /\ nx = [[ch.next EXCEPT ![c] = q] EXCEPT ![1] = c]
        /\ pv = [[ch.prev EXCEPT ![c] = q] EXCEPT ![1] = c]
    <2>1. /\ LinkFree(ch, c) \in Chain(N) /\ LinkFree(ch, c).timestamps = ch.timestamps
          /\ nx = [[ch.next EXCEPT ![c] = ch.next[1]] EXCEPT ![1] = c]
          /\ pv = [[ch.prev EXCEPT ![c] = ch.next[1]] EXCEPT ![1] = c]
      BY <1>1, <1>N, <1>3, LinkFreeFields
    <2> HIDE DEF nx, pv, q
    <2> QED
      BY <1>3, <2>1
  <1>5. /\ Ring(g, r+1, 1, N) /\ g[0] = 1 /\ g[1] = c
        /\ \A n \in 1 .. r+1 : g[n+1] = f[n]
    BY <1>1, <1>2, <1>3, RingAtFront
  <1> HIDE DEF g, nx, pv, q
  <1>6. /\ nx[c] = q /\ pv[c] = q /\ nx[1] = c /\ pv[1] = c
        /\ \A d \in 0 .. N+1 : d # c /\ d # 1 => nx[d] = ch.next[d] /\ pv[d] = ch.prev[d]
    BY <1>N, <1>C, <1>3, <1>4
  <1>8. \A n \in 0 .. m : nx[a[n]] = a[n+1] /\ pv[a[n+1]] = a[n]
    <2> SUFFICES ASSUME NEW n \in 0 .. m PROVE nx[a[n]] = a[n+1] /\ pv[a[n+1]] = a[n]
      OBVIOUS
    <2>1. n \in 0 .. m+1 /\ n+1 \in 0 .. m+1 /\ (n+1 \in 0 .. m \/ n+1 = m+1)
      BY <1>N
    <2>2. a[n] # c /\ a[n] # 1
      BY <1>2, <1>F, <1>D, <1>J
    <2>3. a[n+1] # c /\ a[n+1] # 1
      BY <1>2, <1>A, <1>F, <1>D, <1>J, <2>1
    <2>4. a[n] \in 0 .. N+1 /\ a[n+1] \in 0 .. N+1
      BY <1>A, <2>1
    <2> QED
      BY <1>LA, <1>6, <2>2, <2>3, <2>4
  <1>9. \A n \in 0 .. r+1 : nx[g[n]] = g[n+1] /\ pv[g[n]] = g[n+1]
    <2> SUFFICES ASSUME NEW n \in 0 .. r+1 PROVE nx[g[n]] = g[n+1] /\ pv[g[n]] = g[n+1]
      OBVIOUS
    <2>1. CASE n = 0
      BY <1>5, <1>6, <1>J, <2>1
    <2>2. CASE n = 1
      BY <1>5, <1>6, <1>J, <2>2 DEF q
    <2>3. CASE n > 1
      <3>1. /\ n-1 \in 1 .. r+1 /\ (n-1)+1 = n /\ n \in 1 .. r+1 /\ n-1 \in 0 .. r /\ n-1 # 0
            /\ n-1 \in 0 .. r+1
        BY <1>N, <2>3
      <3>2. g[n] = f[n-1] /\ g[n+1] = f[n]
        <4>1. g[(n-1)+1] = f[n-1]
          BY <1>5, <3>1
        <4> QED
          BY <1>5, <3>1, <4>1
      <3>3. f[n-1] # c /\ f[n-1] # 1 /\ f[n-1] \in 0 .. N+1
        BY <1>F, <1>FI, <1>2, <1>J, <3>1
      <3>4. ch.next[f[n-1]] = f[n] /\ ch.prev[f[n-1]] = f[n]
        <4>1. ch.next[f[n-1]] = f[(n-1)+1] /\ ch.prev[f[n-1]] = f[(n-1)+1]
          BY <1>LF, <3>1
        <4> QED
          BY <3>1, <4>1
      <3> QED
        BY <1>6, <3>2, <3>3, <3>4
    <2> QED
      BY <1>N, <2>1, <2>2, <2>3
  <1>10. \A j \in 0 .. r+1 : g[j] = c \/ \E i \in 0 .. r : g[j] = f[i]
    <2> SUFFICES ASSUME NEW j \in 0 .. r+1 PROVE g[j] = c \/ \E i \in 0 .. r : g[j] = f[i]
      OBVIOUS
    <2>1. CASE j = 0
      BY <1>F, <1>J, <1>5, <2>1
    <2>2. CASE j = 1
      BY <1>5, <2>2
    <2>3. CASE j > 1
      <3>1. j-1 \in 1 .. r+1 /\ (j-1)+1 = j /\ j-1 \in 0 .. r
        BY <1>N, <2>3
      <3>2. g[(j-1)+1] = f[j-1]
        BY <1>5, <3>1
      <3> QED
        BY <3>1, <3>2
    <2> QED
      BY <1>N, <2>1, <2>2, <2>3
  <1>11. \A i \in 0 .. m, j \in 0 .. r+1 : a[i] # g[j]
    BY <1>D, <1>2, <1>10
  <1>12. \A d \in 0 .. N+1 : (\E i \in 0 .. m : a[i] = d) \/ (\E j \in 0 .. r+1 : g[j] = d)
    <2>1. \A j \in 0 .. r : \E i \in 0 .. r+1 : g[i] = f[j]
      <3> SUFFICES ASSUME NEW j \in 0 .. r PROVE \E i \in 0 .. r+1 : g[i] = f[j]
        OBVIOUS
      <3>1. CASE j = 0
        <4>1. 0 \in 0 .. r+1
          BY <1>N
        <4> QED
          BY <1>F, <1>5, <3>1, <4>1
      <3>2. CASE j # 0
        <4>1. j+1 \in 0 .. r+1 /\ j \in 1 .. r+1
          BY <1>N, <3>2
        <4> QED
          BY <1>5, <4>1
      <3> QED
        BY <3>1, <3>2
    <2>2. \E i \in 0 .. r+1 : g[i] = c
      BY <1>5, <1>J
    <2> QED
      BY <1>P, <2>1, <2>2
  <1>13. Threaded(LinkFree(ch, c), N, a, m, g, r+1)
    BY <1>1, <1>4, <1>5, <1>8, <1>9, <1>11, <1>12 DEF Threaded, Rings, nx, pv
  <1> QED
    BY <1>4, <1>13 DEF g

-----------------------------------------------------------------------------
(***************************************************************************)
(* A chain between calls.                                                  *)
(***************************************************************************)

\* A chain whose links are in order.
Linked(ch, N) == \E a, m, f, r : Threaded(ch, N, a, m, f, r)

\* Index k is in the list.
Member(a, m, k) == \E n \in 1 .. m : a[n] = k + 2

\* A cell is on the ring of the allocated exactly when its index is in use.
LEMMA AllocatedIsListed ==
  ASSUME NEW ch, NEW N, NEW a, NEW m, NEW f, NEW r, Threaded(ch, N, a, m, f, r),
         NEW index \in 0 .. N-1
  PROVE  /\ dchain_is_index_allocated(ch, index) <=> \E n \in 1 .. m : a[n] = index + 2
         /\ dchain_is_index_allocated(ch, index)
              <=> ch.next[index + 2] # ch.prev[index + 2] \/ ch.next[index + 2] = 0
  <1>1. N \in Nat /\ ch \in Chain(N) /\ Ring(a, m, 0, N) /\ Ring(f, r, 1, N)
    BY DEF Threaded, Rings
  <1>N. m \in Nat /\ r \in Nat /\ 0 \in 0 .. N+1 /\ 1 \in 0 .. N+1
    BY <1>1 DEF Ring
  <1>A. a \in [0 .. m+1 -> 0 .. N+1] /\ a[0] = 0 /\ a[m+1] = 0
    BY <1>1 DEF Ring
  <1>AI. \A i, k \in 0 .. m : a[i] = a[k] => i = k
    BY <1>1 DEF Ring
  <1>F. f \in [0 .. r+1 -> 0 .. N+1] /\ f[0] = 1 /\ f[r+1] = 1
    BY <1>1 DEF Ring
  <1>D. \A i \in 0 .. m, k \in 0 .. r : a[i] # f[k]
    BY DEF Threaded, Rings
  <1>LA. \A n \in 0 .. m : ch.next[a[n]] = a[n+1] /\ ch.prev[a[n+1]] = a[n]
    BY DEF Threaded, Rings
  <1>LF. \A n \in 0 .. r : ch.next[f[n]] = f[n+1] /\ ch.prev[f[n]] = f[n+1]
    BY DEF Threaded, Rings
  <1>P. \A d \in 0 .. N+1 : (\E i \in 0 .. m : a[i] = d) \/ (\E i \in 0 .. r : f[i] = d)
    BY DEF Threaded, Rings
  <1> DEFINE c == index + 2
  <1>2. c \in 0 .. N+1 /\ c # 0 /\ c # 1
    BY <1>1
  <1>3. dchain_is_index_allocated(ch, index) <=> ch.next[c] # ch.prev[c] \/ ch.next[c] = 0
    BY DEF dchain_is_index_allocated, dchain_impl_is_index_allocated, INDEX_SHIFT, ALLOC_LIST_HEAD
  <1> HIDE DEF c
  <1>4. ASSUME NEW n \in 1 .. m, a[n] = c PROVE ch.next[c] # ch.prev[c] \/ ch.next[c] = 0
    <2>1. n \in 0 .. m /\ n-1 \in 0 .. m /\ (n-1)+1 = n /\ n+1 # n-1 /\ n # 0 /\ 0 \in 0 .. m
      BY <1>N
    <2>2. ch.next[c] = a[n+1] /\ ch.prev[c] = a[n-1]
      <3>1. ch.prev[a[(n-1)+1]] = a[n-1]
        BY <1>LA, <2>1
      <3> QED
        BY <1>LA, <1>4, <2>1, <3>1
    <2>3. CASE n+1 = m+1
      BY <1>A, <2>2, <2>3
    <2>4. CASE n+1 \in 0 .. m
      BY <1>AI, <2>1, <2>2, <2>4
    <2> QED
      BY <1>N, <2>3, <2>4
  <1>5. ASSUME NEW n \in 0 .. r, f[n] = c PROVE ch.next[c] = ch.prev[c] /\ ch.next[c] # 0
    <2>1. ch.next[c] = f[n+1] /\ ch.prev[c] = f[n+1]
      BY <1>LF, <1>5
    <2>2. f[n+1] # 0
      <3>1. 0 \in 0 .. m /\ 0 \in 0 .. r /\ (n+1 \in 0 .. r \/ n+1 = r+1)
        BY <1>N
      <3> QED
        BY <1>A, <1>D, <1>F, <3>1
    <2> QED
      BY <2>1, <2>2
  <1>6. ASSUME ~ \E n \in 1 .. m : a[n] = c PROVE \E n \in 0 .. r : f[n] = c
    <2>1. \A i \in 0 .. m : i = 0 \/ i \in 1 .. m
      BY <1>N
    <2> QED
      BY <1>P, <1>A, <1>2, <1>6, <2>1
  <1>7. dchain_is_index_allocated(ch, index) <=> \E n \in 1 .. m : a[n] = c
    BY <1>3, <1>4, <1>5, <1>6
  <1> QED
    BY <1>3, <1>7 DEF c

\* So for all.
LEMMA InUseAreListed ==
  ASSUME NEW ch, NEW N, NEW a, NEW m, NEW f, NEW r, Threaded(ch, N, a, m, f, r)
  PROVE  \A k \in 0 .. N-1 : dchain_is_index_allocated(ch, k) <=> Member(a, m, k)
  BY AllocatedIsListed DEF Member

-----------------------------------------------------------------------------
(***************************************************************************)
(* The operations.                                                         *)
(***************************************************************************)

\* Setting a timestamp.
LEMMA SetTime ==
  ASSUME NEW ch, NEW P, NEW Q, NEW T, NEW k, NEW t,
         ch = [prev |-> P, next |-> Q, timestamps |-> T]
  PROVE  [ch EXCEPT !.timestamps[k] = t]
           = [prev |-> P, next |-> Q, timestamps |-> [T EXCEPT ![k] = t]]
  OBVIOUS

Stamped(ch, k, t) == [ch EXCEPT !.timestamps[k] = t]
Stamps(T, k, t)   == [T EXCEPT ![k] = t]

\* It moves no cell.
LEMMA StampRings ==
  ASSUME NEW ch, NEW N, NEW a, NEW m, NEW f, NEW r, Threaded(ch, N, a, m, f, r),
         NEW k, NEW t \in Int, NEW new, new = Stamped(ch, k, t)
  PROVE  /\ Threaded(new, N, a, m, f, r)
         /\ new.timestamps = Stamps(ch.timestamps, k, t)
  <1> DEFINE T == [ch.timestamps EXCEPT ![k] = t]
  <1>1. ch \in Chain(N)
    BY DEF Threaded, Rings
  <1>2. /\ ch = [prev |-> ch.prev, next |-> ch.next, timestamps |-> ch.timestamps]
        /\ ch.prev \in [0 .. N+1 -> 0 .. N+1] /\ ch.next \in [0 .. N+1 -> 0 .. N+1]
        /\ ch.timestamps \in [0 .. N-1 -> Int]
    BY <1>1, ChainRecord
  <1>3. new = [prev |-> ch.prev, next |-> ch.next, timestamps |-> T]
    BY <1>2, SetTime DEF Stamped
  <1>4. T \in [0 .. N-1 -> Int]
    BY <1>2
  <1> HIDE DEF T
  <1>5. new.prev = ch.prev /\ new.next = ch.next /\ new.timestamps = T
    BY <1>3
  <1>6. new \in Chain(N)
    BY <1>2, <1>3, <1>4 DEF Chain
  <1>7. Threaded(new, N, a, m, f, r)
    BY <1>5, <1>6 DEF Threaded, Rings
  <1> QED
    BY <1>5, <1>7 DEF T, Stamps

\* dchain_allocate_new_index: the first free index becomes the youngest.
LEMMA AllocateRings ==
  ASSUME NEW ch, NEW N, NEW a, NEW m, NEW f, NEW r, Threaded(ch, N, a, m, f, r),
         ~ OutOfSpace(ch), NEW time \in Int
  PROVE  /\ r > 0 /\ f[1] \in 2 .. N+1 /\ NewIndex(ch) = f[1] - 2 /\ NewIndex(ch) \in 0 .. N-1
         /\ Threaded(dchain_allocate_new_index(ch, time), N,
                  AtEnd(a, m, f[1]), m+1, Without(f, r, 1), r-1)
         /\ dchain_allocate_new_index(ch, time).timestamps
              = Stamps(ch.timestamps, NewIndex(ch), time)
  <1>1. /\ r > 0 /\ ch.next[1] = f[1]
        /\ Rings(TakeFree(ch), N, a, m, Without(f, r, 1), r-1, {f[1]})
        /\ TakeFree(ch).timestamps = ch.timestamps
    BY TakeFreeRings
  <1>2. /\ Threaded(LinkLast(TakeFree(ch), f[1]), N,
                 AtEnd(a, m, f[1]), m+1, Without(f, r, 1), r-1)
        /\ LinkLast(TakeFree(ch), f[1]).timestamps = ch.timestamps
    BY <1>1, LinkLastRings
  <1>3. f[1] \in 2 .. N+1 /\ N \in Nat
    BY <1>1 DEF Threaded, Rings
  <1>4. NewIndex(ch) = f[1] - 2
    BY <1>1 DEF NewIndex, INDEX_SHIFT, FREE_LIST_HEAD
  <1>5. dchain_impl_allocate_new_index(ch) = LinkLast(TakeFree(ch), f[1])
    BY <1>1 DEF dchain_impl_allocate_new_index, FREE_LIST_HEAD
  <1>6. dchain_allocate_new_index(ch, time)
          = Stamped(LinkLast(TakeFree(ch), f[1]), NewIndex(ch), time)
    BY <1>5, Zenon DEF dchain_allocate_new_index, Stamped
  <1> DEFINE mid == LinkLast(TakeFree(ch), f[1])  k == NewIndex(ch)
             b == AtEnd(a, m, f[1])  new == dchain_allocate_new_index(ch, time)
  <1> HIDE DEF mid, k
  <1>7. k \in 0 .. N-1
    BY <1>3, <1>4 DEF k
  <1>8. new = Stamped(mid, k, time)
    BY <1>6, Zenon DEF mid, k, new
  <1> HIDE DEF new
  <1>9. Threaded(mid, N, b, m+1, Without(f, r, 1), r-1) /\ mid.timestamps = ch.timestamps
    BY <1>2, Zenon DEF mid, b
  <1> HIDE DEF b
  <1>10. /\ Threaded(new, N, b, m+1, Without(f, r, 1), r-1)
         /\ new.timestamps = Stamps(mid.timestamps, k, time)
    BY <1>8, <1>9, StampRings
  <1>11. Stamps(mid.timestamps, k, time) = Stamps(ch.timestamps, k, time)
    BY <1>9, Zenon
  <1> QED
    BY <1>1, <1>3, <1>4, <1>7, <1>10, <1>11, Zenon DEF b, k, new

\* dchain_free_index: an index in use becomes the first of the free ones.
LEMMA FreeRings ==
  ASSUME NEW ch, NEW N, NEW a, NEW m, NEW f, NEW r, Threaded(ch, N, a, m, f, r),
         NEW index \in 0 .. N-1, NEW j \in 1 .. m, a[j] = index + 2
  PROVE  /\ Threaded(dchain_free_index(ch, index), N,
                  Without(a, m, j), m-1, AtFront(f, r, index + 2), r+1)
         /\ dchain_free_index(ch, index).timestamps = ch.timestamps
  <1>1. dchain_is_index_allocated(ch, index)
    BY AllocatedIsListed
  <1>U. \A i \in 1 .. m : /\ Rings(Unlink(ch, a[i]), N, Without(a, m, i), m-1, f, r, {a[i]})
                         /\ Unlink(ch, a[i]).timestamps = ch.timestamps
    BY UnlinkRings
  <1>2. /\ Rings(Unlink(ch, a[j]), N, Without(a, m, j), m-1, f, r, {a[j]})
        /\ Unlink(ch, a[j]).timestamps = ch.timestamps
    BY <1>U, Zenon
  <1>3. /\ Threaded(LinkFree(Unlink(ch, a[j]), a[j]), N,
                 Without(a, m, j), m-1, AtFront(f, r, a[j]), r+1)
        /\ LinkFree(Unlink(ch, a[j]), a[j]).timestamps = ch.timestamps
    BY <1>2, LinkFreeRings
  <1>4. dchain_free_index(ch, index) = LinkFree(Unlink(ch, index + 2), index + 2)
    BY <1>1 DEF dchain_free_index, dchain_impl_free_index, dchain_is_index_allocated, INDEX_SHIFT
  <1> QED
    BY <1>3, <1>4

\* dchain_rejuvenate_index: an index in use becomes the youngest.
LEMMA RejuvenateRings ==
  ASSUME NEW ch, NEW N, NEW a, NEW m, NEW f, NEW r, Threaded(ch, N, a, m, f, r),
         NEW index \in 0 .. N-1, NEW j \in 1 .. m, a[j] = index + 2, NEW time \in Int
  PROVE  /\ Threaded(dchain_rejuvenate_index(ch, index, time), N,
                  AtEnd(Without(a, m, j), m-1, index + 2), m, f, r)
         /\ dchain_rejuvenate_index(ch, index, time).timestamps
              = Stamps(ch.timestamps, index, time)
  <1> DEFINE b == AtEnd(Without(a, m, j), m-1, index + 2)
             mid == dchain_impl_rejuvenate_index(ch, index)
  <1>0. m \in Nat /\ (m-1)+1 = m
    BY DEF Threaded, Rings, Ring
  <1>1. dchain_is_index_allocated(ch, index)
    BY AllocatedIsListed
  <1>2. Threaded(mid, N, b, m, f, r) /\ mid.timestamps = ch.timestamps
    <2>1. CASE ch.next[index + 2] = ch.prev[index + 2]
      <3>1. mid = ch
        BY <2>1 DEF dchain_impl_rejuvenate_index, INDEX_SHIFT
      <3>2. ch.next[index + 2] = 0
        BY <1>1, <2>1 DEF dchain_is_index_allocated, dchain_impl_is_index_allocated,
                          INDEX_SHIFT, ALLOC_LIST_HEAD
      <3>A. a \in [0 .. m+1 -> 0 .. N+1] /\ a[0] = 0 /\ a[m+1] = 0
        BY DEF Threaded, Rings, Ring
      <3>AI. \A i, k \in 0 .. m : a[i] = a[k] => i = k
        BY DEF Threaded, Rings, Ring
      <3>3. j \in 0 .. m /\ j-1 \in 0 .. m /\ (j-1)+1 = j /\ 0 \in 0 .. m /\ j+1 \in 0 .. m+1
        BY <1>0
      <3>LA. \A n \in 0 .. m : ch.next[a[n]] = a[n+1] /\ ch.prev[a[n+1]] = a[n]
        BY DEF Threaded, Rings
      <3>4. a[j+1] = 0 /\ a[j-1] = 0
        <4>1. ch.prev[a[(j-1)+1]] = a[j-1]
          BY <3>LA, <3>3
        <4> QED
          BY <2>1, <3>2, <3>3, <3>LA, <4>1
      <3>5. j = 1
        BY <3>3, <3>4, <3>A, <3>AI
      <3>6. j = m
        <4>1. ASSUME j # m PROVE FALSE
          <5>1. j+1 \in 0 .. m
            BY <1>0, <4>1
          <5> QED
            BY <3>3, <3>4, <3>A, <3>AI, <5>1
        <4> QED
          BY <4>1
      <3>7. m = 1
        BY <3>5, <3>6
      <3>8. b = a
        <4>1. b = [n \in 0 .. 2 |-> IF n <= 0 THEN 0 ELSE IF n = 1 THEN index + 2 ELSE 0]
          BY <3>7, <3>5, <3>A DEF AtEnd, Without
        <4>2. a = [n \in 0 .. 2 |-> a[n]]
          BY <3>7, <3>A
        <4>3. \A n \in 0 .. 2 : a[n] = IF n <= 0 THEN 0 ELSE IF n = 1 THEN index + 2 ELSE 0
          BY <3>7, <3>5, <3>A
        <4> HIDE DEF b
        <4> QED
          BY <4>1, <4>2, <4>3
      <3> HIDE DEF b, mid
      <3> QED
        BY <3>1, <3>8
    <2>2. CASE ch.next[index + 2] # ch.prev[index + 2]
      <3>1. mid = LinkLast(Unlink(ch, index + 2), index + 2)
        BY <2>2 DEF dchain_impl_rejuvenate_index, INDEX_SHIFT
      <3>U. \A i \in 1 .. m : /\ Rings(Unlink(ch, a[i]), N, Without(a, m, i), m-1, f, r, {a[i]})
                             /\ Unlink(ch, a[i]).timestamps = ch.timestamps
        BY UnlinkRings
      <3>2. /\ Rings(Unlink(ch, a[j]), N, Without(a, m, j), m-1, f, r, {a[j]})
            /\ Unlink(ch, a[j]).timestamps = ch.timestamps
        BY <3>U, Zenon
      <3>3. /\ Threaded(LinkLast(Unlink(ch, a[j]), a[j]), N,
                     AtEnd(Without(a, m, j), m-1, a[j]), (m-1)+1, f, r)
            /\ LinkLast(Unlink(ch, a[j]), a[j]).timestamps = ch.timestamps
        BY <3>2, LinkLastRings
      <3> HIDE DEF mid
      <3> QED
        BY <1>0, <3>1, <3>3
    <2> QED
      BY <2>1, <2>2
  <1> DEFINE new == dchain_rejuvenate_index(ch, index, time)
  <1>3. new = Stamped(mid, index, time)
    BY <1>1, Zenon DEF dchain_rejuvenate_index, Stamped, mid
  <1> HIDE DEF b, mid, new
  <1>4. Threaded(new, N, b, m, f, r) /\ new.timestamps = Stamps(mid.timestamps, index, time)
    BY <1>2, <1>3, StampRings
  <1>5. Stamps(mid.timestamps, index, time) = Stamps(ch.timestamps, index, time)
    BY <1>2, Zenon
  <1> QED
    BY <1>4, <1>5 DEF b, new

-----------------------------------------------------------------------------
(***************************************************************************)
(* What they do to the set of the indices in use.                          *)
(***************************************************************************)

\* A chain just allocated.
LEMMA InitLinked ==
  ASSUME NEW N \in Nat \ {0}
  PROVE  Linked(dchain_allocate(N), N)
  BY InitRings, Zenon DEF Linked, Threaded

\* An index is taken that was not in use.
LEMMA AllocateLinked ==
  ASSUME NEW ch, NEW N, Linked(ch, N), ~ OutOfSpace(ch), NEW time \in Int
  PROVE  LET new == dchain_allocate_new_index(ch, time) IN
         /\ Linked(new, N)
         /\ NewIndex(ch) \in 0 .. N-1 /\ ~ dchain_is_index_allocated(ch, NewIndex(ch))
         /\ \A k \in 0 .. N-1 : dchain_is_index_allocated(new, k)
                                  <=> dchain_is_index_allocated(ch, k) \/ k = NewIndex(ch)
         /\ new.timestamps = Stamps(ch.timestamps, NewIndex(ch), time)
  <1> DEFINE new == dchain_allocate_new_index(ch, time)  e == NewIndex(ch)
  <1>2. PICK a, m, f, r : Threaded(ch, N, a, m, f, r)
    BY DEF Linked
  <1>1. /\ N \in Nat /\ m \in Nat /\ r \in Nat
        /\ a \in [0 .. m+1 -> 0 .. N+1] /\ f \in [0 .. r+1 -> 0 .. N+1]
    BY <1>2 DEF Threaded, Rings, Ring
  <1>R. /\ r > 0 /\ f[1] \in 2 .. N+1 /\ e = f[1] - 2 /\ e \in 0 .. N-1
        /\ Threaded(new, N, AtEnd(a, m, f[1]), m+1, Without(f, r, 1), r-1)
        /\ new.timestamps = Stamps(ch.timestamps, e, time)
    BY <1>2, AllocateRings, Zenon
  <1> DEFINE b == AtEnd(a, m, f[1])
  <1>3. \A n \in 1 .. m : b[n] = a[n]
    BY <1>1 DEF AtEnd
  <1>4. b[m+1] = f[1]
    BY <1>1 DEF AtEnd
  <1> HIDE DEF b, new, e
  <1>E. f[1] = e + 2 /\ e \in Int
    BY SMTT(30), <1>1, <1>R
  <1>5. \A k \in 0 .. N-1 : dchain_is_index_allocated(ch, k) <=> Member(a, m, k)
    BY <1>2, InUseAreListed
  <1>6. \A k \in 0 .. N-1 : dchain_is_index_allocated(new, k) <=> Member(b, m+1, k)
    <2>1. Threaded(new, N, b, m+1, Without(f, r, 1), r-1)
      BY <1>R DEF b
    <2> QED
      BY <2>1, InUseAreListed
  <1>7. \A n \in 1 .. m : a[n] # e + 2
    <2>1. \A i \in 0 .. m, i2 \in 0 .. r : a[i] # f[i2]
      BY <1>2 DEF Threaded, Rings
    <2>2. 1 \in 0 .. r /\ \A n \in 1 .. m : n \in 0 .. m
      BY <1>1, <1>R
    <2> QED
      BY <1>E, <2>1, <2>2
  <1>8. \A k \in 0 .. N-1 : k + 2 = e + 2 <=> k = e
    BY <1>E
  <1>9. \A k \in 0 .. N-1 : Member(b, m+1, k) <=> Member(a, m, k) \/ k = e
    <2> SUFFICES ASSUME NEW k \in 0 .. N-1
                 PROVE  Member(b, m+1, k) <=> Member(a, m, k) \/ k = e
      OBVIOUS
    <2>1. \A n \in 1 .. m+1 : n \in 1 .. m \/ n = m+1
      BY <1>1
    <2>2. m+1 \in 1 .. m+1 /\ \A n \in 1 .. m : n \in 1 .. m+1
      BY <1>1
    <2> QED
      BY <1>3, <1>4, <1>8, <1>E, <2>1, <2>2 DEF Member
  <1>12. ~ Member(a, m, e)
    BY <1>7 DEF Member
  <1>10. Linked(new, N)
    BY <1>R, Zenon DEF Linked
  <1> QED
    BY <1>R, <1>5, <1>6, <1>12, <1>9, <1>10 DEF new, e

\* An index in use is released.
LEMMA FreeLinked ==
  ASSUME NEW ch, NEW N, Linked(ch, N), NEW index \in 0 .. N-1,
         dchain_is_index_allocated(ch, index)
  PROVE  LET new == dchain_free_index(ch, index) IN
         /\ Linked(new, N)
         /\ \A k \in 0 .. N-1 : dchain_is_index_allocated(new, k)
                                  <=> dchain_is_index_allocated(ch, k) /\ k # index
         /\ new.timestamps = ch.timestamps
  <1> DEFINE new == dchain_free_index(ch, index)
  <1>2. PICK a, m, f, r : Threaded(ch, N, a, m, f, r)
    BY DEF Linked
  <1>1. /\ N \in Nat /\ m \in Nat /\ r \in Nat
        /\ a \in [0 .. m+1 -> 0 .. N+1] /\ f \in [0 .. r+1 -> 0 .. N+1]
    BY <1>2 DEF Threaded, Rings, Ring
  <1>3. \A k \in 0 .. N-1 : dchain_is_index_allocated(ch, k) <=> Member(a, m, k)
    BY <1>2, InUseAreListed
  <1>4. PICK j \in 1 .. m : a[j] = index + 2
    BY <1>3, <1>2 DEF Member
  <1> DEFINE b == Without(a, m, j)
  <1>R. /\ Threaded(new, N, b, m-1, AtFront(f, r, index + 2), r+1)
        /\ new.timestamps = ch.timestamps
    BY <1>2, <1>4, FreeRings
  <1>5. /\ \A n \in 0 .. m-1 : b[n] # a[j] /\ \E i \in 0 .. m : i # j /\ b[n] = a[i]
        /\ \A i \in 0 .. m : i # j => \E n \in 0 .. m-1 : b[n] = a[i]
    <2>1. Ring(a, m, 0, N)
      BY <1>2 DEF Threaded, Rings
    <2> QED
      BY <2>1, RingWithout
  <1> HIDE DEF b, new
  <1>6. \A k \in 0 .. N-1 : dchain_is_index_allocated(new, k) <=> Member(b, m-1, k)
    BY <1>R, InUseAreListed
  <1>7. a[0] = 0 /\ b[0] = 0
    BY <1>2, <1>R DEF Threaded, Rings, Ring
  <1>8. \A k \in 0 .. N-1 : k + 2 # 0 /\ (k + 2 = index + 2 <=> k = index)
    OBVIOUS
  <1>9. /\ \A n \in 0 .. m : n = 0 \/ n \in 1 .. m
        /\ \A n \in 1 .. m : n \in 0 .. m
        /\ \A n \in 0 .. m-1 : n = 0 \/ n \in 1 .. m-1
        /\ \A n \in 1 .. m-1 : n \in 0 .. m-1
    BY <1>1
  <1>10. ASSUME NEW k \in 0 .. N-1
         PROVE  Member(b, m-1, k) <=> Member(a, m, k) /\ k # index
    <2> DEFINE c == k + 2
    <2>1. c # 0 /\ (c = a[j] <=> k = index)
      BY <1>4, <1>8
    <2> HIDE DEF c
    <2>2. ASSUME NEW n \in 1 .. m-1, b[n] = c
          PROVE  (\E i \in 1 .. m : a[i] = c) /\ k # index
      <3>1. b[n] # a[j] /\ \E i \in 0 .. m : i # j /\ b[n] = a[i]
        BY <1>5, <1>9
      <3> QED
        BY <1>7, <1>9, <2>1, <2>2, <3>1
    <2>3. ASSUME NEW i \in 1 .. m, a[i] = c, k # index
          PROVE  \E n \in 1 .. m-1 : b[n] = c
      <3>1. i \in 0 .. m /\ i # j
        BY <1>9, <2>1, <2>3
      <3>2. PICK n \in 0 .. m-1 : b[n] = a[i]
        BY <1>5, <3>1
      <3> QED
        BY <1>7, <1>9, <2>1, <2>3, <3>2
    <2>4. (\E n \in 1 .. m-1 : b[n] = c) <=> (\E n \in 1 .. m : a[n] = c) /\ k # index
      BY <2>2, <2>3
    <2> QED
      BY <2>4 DEF c, Member
  <1>11. Linked(new, N)
    BY <1>R, Zenon DEF Linked
  <1> QED
    BY <1>3, <1>6, <1>10, <1>11, <1>R DEF new

\* The same indices are in use after one of them was used again.
LEMMA RejuvenateLinked ==
  ASSUME NEW ch, NEW N, Linked(ch, N), NEW index \in 0 .. N-1, NEW time \in Int
  PROVE  LET new == dchain_rejuvenate_index(ch, index, time) IN
         /\ Linked(new, N)
         /\ \A k \in 0 .. N-1 : dchain_is_index_allocated(new, k)
                                  <=> dchain_is_index_allocated(ch, k)
         /\ new.timestamps = IF dchain_is_index_allocated(ch, index)
                               THEN Stamps(ch.timestamps, index, time) ELSE ch.timestamps
  <1> DEFINE new == dchain_rejuvenate_index(ch, index, time)
  <1>0. ASSUME ~ dchain_is_index_allocated(ch, index) PROVE new = ch
    BY <1>0 DEF dchain_rejuvenate_index
  <1> SUFFICES ASSUME dchain_is_index_allocated(ch, index)
               PROVE  /\ Linked(new, N)
                      /\ \A k \in 0 .. N-1 : dchain_is_index_allocated(new, k)
                                               <=> dchain_is_index_allocated(ch, k)
                      /\ new.timestamps = Stamps(ch.timestamps, index, time)
    <2> HIDE DEF new
    <2> QED
      BY <1>0, Zenon DEF new
  <1>2. PICK a, m, f, r : Threaded(ch, N, a, m, f, r)
    BY DEF Linked
  <1>1. /\ N \in Nat /\ m \in Nat /\ r \in Nat
        /\ a \in [0 .. m+1 -> 0 .. N+1] /\ f \in [0 .. r+1 -> 0 .. N+1]
    BY <1>2 DEF Threaded, Rings, Ring
  <1>3. \A k \in 0 .. N-1 : dchain_is_index_allocated(ch, k) <=> Member(a, m, k)
    BY <1>2, InUseAreListed
  <1>4. PICK j \in 1 .. m : a[j] = index + 2
    BY <1>3, <1>2 DEF Member
  <1> DEFINE w == Without(a, m, j)  b == AtEnd(w, m-1, index + 2)
  <1>R. Threaded(new, N, b, m, f, r) /\ new.timestamps = Stamps(ch.timestamps, index, time)
    BY <1>2, <1>4, RejuvenateRings
  <1>5. /\ \A n \in 0 .. m-1 : b[n] = w[n]
        /\ b[m] = index + 2
    BY <1>1 DEF AtEnd
  <1>6. /\ \A n \in 0 .. m-1 : w[n] # a[j] /\ \E i \in 0 .. m : i # j /\ w[n] = a[i]
        /\ \A i \in 0 .. m : i # j => \E n \in 0 .. m-1 : w[n] = a[i]
    <2>1. Ring(a, m, 0, N)
      BY <1>2 DEF Threaded, Rings
    <2> QED
      BY <2>1, RingWithout
  <1> HIDE DEF b, w, new
  <1>7. \A k \in 0 .. N-1 : dchain_is_index_allocated(new, k) <=> Member(b, m, k)
    BY <1>R, InUseAreListed
  <1>8. a[0] = 0 /\ b[0] = 0
    BY <1>2, <1>R DEF Threaded, Rings, Ring
  <1>9. /\ \A n \in 0 .. m : n = 0 \/ n \in 1 .. m
        /\ \A n \in 1 .. m : n \in 0 .. m /\ (n = m \/ n \in 0 .. m-1)
        /\ \A n \in 0 .. m-1 : n = 0 \/ n \in 1 .. m
        /\ m \in 1 .. m
    BY <1>1
  <1>10. ASSUME NEW k \in 0 .. N-1
         PROVE  Member(b, m, k) <=> Member(a, m, k)
    <2> DEFINE c == k + 2
    <2>1. c # 0
      OBVIOUS
    <2> HIDE DEF c
    <2>2. ASSUME NEW n \in 1 .. m, b[n] = c PROVE \E i \in 1 .. m : a[i] = c
      <3>1. CASE n = m
        BY <1>4, <1>5, <2>2, <3>1
      <3>2. CASE n \in 0 .. m-1
        <4>1. PICK i \in 0 .. m : w[n] = a[i]
          BY <1>6, <3>2
        <4>2. a[i] = c
          BY <1>5, <2>2, <3>2, <4>1
        <4> QED
          BY <1>8, <1>9, <2>1, <4>2
      <3> QED
        BY <1>9, <3>1, <3>2
    <2>3. ASSUME NEW i \in 1 .. m, a[i] = c PROVE \E n \in 1 .. m : b[n] = c
      <3>1. CASE i = j
        BY <1>4, <1>5, <1>9, <2>3, <3>1
      <3>2. CASE i # j
        <4>1. PICK n \in 0 .. m-1 : w[n] = a[i]
          BY <1>6, <1>9, <3>2
        <4>2. b[n] = c
          BY <1>5, <2>3, <4>1
        <4> QED
          BY <1>8, <1>9, <2>1, <4>2
      <3> QED
        BY <3>1, <3>2
    <2>4. (\E n \in 1 .. m : b[n] = c) <=> (\E n \in 1 .. m : a[n] = c)
      BY <2>2, <2>3
    <2> QED
      BY <2>4 DEF c, Member
  <1>11. Linked(new, N)
    BY <1>R, Zenon DEF Linked
  <1> QED
    BY <1>3, <1>7, <1>10, <1>11, <1>R

\* The oldest index is in use.
LEMMA OldestInUse ==
  ASSUME NEW ch, NEW N, Linked(ch, N), ~ IsEmpty(ch)
  PROVE  /\ dchain_impl_get_oldest_index(ch) \in 0 .. N-1
         /\ dchain_is_index_allocated(ch, dchain_impl_get_oldest_index(ch))
  <1> DEFINE e == dchain_impl_get_oldest_index(ch)
  <1>2. PICK a, m, f, r : Threaded(ch, N, a, m, f, r)
    BY DEF Linked
  <1>1. /\ N \in Nat /\ m \in Nat /\ r \in Nat
        /\ a \in [0 .. m+1 -> 0 .. N+1] /\ f \in [0 .. r+1 -> 0 .. N+1]
    BY <1>2 DEF Threaded, Rings, Ring
  <1>3. /\ N \in Nat /\ a[0] = 0 /\ a[m+1] = 0 /\ f[0] = 1
        /\ \A i, k \in 0 .. m : a[i] = a[k] => i = k
    BY <1>2 DEF Threaded, Rings, Ring
  <1>4. \A i \in 0 .. m, k \in 0 .. r : a[i] # f[k]
    BY <1>2 DEF Threaded, Rings
  <1>5. 0 \in 0 .. m /\ 0 \in 0 .. r
    BY <1>1
  <1>6. ch.next[0] = a[1]
    <2>1. \A n \in 0 .. m : ch.next[a[n]] = a[n+1]
      BY <1>2 DEF Threaded, Rings
    <2> QED
      BY <1>3, <1>5, <2>1
  <1>7. a[1] # 0
    BY <1>6 DEF IsEmpty, ALLOC_LIST_HEAD
  <1>8. m > 0 /\ 1 \in 1 .. m
    BY <1>1, <1>3, <1>7
  <1>9. a[1] # 1
    BY <1>1, <1>3, <1>4, <1>5, <1>8
  <1>10. e = a[1] - 2
    BY <1>6 DEF dchain_impl_get_oldest_index, ALLOC_LIST_HEAD, INDEX_SHIFT
  <1>11. a[1] \in 0 .. N+1
    BY <1>1, <1>8
  <1>12. e \in 0 .. N-1 /\ a[1] = e + 2
    BY <1>3, <1>7, <1>9, <1>10, <1>11
  <1> HIDE DEF e
  <1>13. dchain_is_index_allocated(ch, e)
    BY <1>2, <1>8, <1>12, InUseAreListed DEF Member
  <1> QED
    BY <1>12, <1>13 DEF e

-----------------------------------------------------------------------------
(***************************************************************************)
(* What the walk along the links finds.                                    *)
(***************************************************************************)

\* w goes along the links.
IsWalk(w, succ, head) ==
  w = [n \in 0 .. Cardinality(DOMAIN succ) |-> IF n = 0 THEN head ELSE succ[w[n-1]]]

\* Links that go round: one more step from the last cell is the head again.
Round(succ, a, m, head, N) ==
  /\ N \in Nat /\ succ \in [0 .. N+1 -> 0 .. N+1]
  /\ Ring(a, m, head, N)
  /\ \A n \in 0 .. m : succ[a[n]] = a[n+1]

\* The walk is what CellsOf takes for it.
LEMMA WalkIsWalk ==
  ASSUME NEW succ, NEW a, NEW m, NEW head, NEW N, Round(succ, a, m, head, N)
  PROVE  IsWalk(Walk(succ, head), succ, head)
  <1>1. N \in Nat /\ m \in Nat /\ a[0] = head /\ a[m+1] = head
    BY DEF Round, Ring
  <1>2. \A n \in 0 .. m : succ[a[n]] = a[n+1]
    BY DEF Round
  <1> DEFINE M == Cardinality(DOMAIN succ)
             w == [n \in 0 .. M |-> a[n % (m+1)]]
  <1>3. M = N + 2
    <2>1. DOMAIN succ = 0 .. N+1
      BY DEF Round
    <2> QED
      BY <1>1, <2>1, FS_Interval
  <1>4. \A n \in 0 .. M : w[n] = a[n % (m+1)]
    OBVIOUS
  <1>5. ASSUME NEW n \in 0 .. M, n # 0
        PROVE  w[n] = succ[w[n-1]]
    <2>1. n \in Nat /\ n-1 \in Nat /\ n-1 \in 0 .. M /\ m+1 \in Nat \ {0}
      BY <1>1, <1>3, <1>5
    <2> DEFINE k == (n-1) % (m+1)
    <2>2. k \in 0 .. m
      BY <1>1, <2>1
    <2>3. n % (m+1) = IF k = m THEN 0 ELSE k + 1
      <3>1. (n-1) + 1 = n /\ (m+1) - 1 = m
        BY <1>1, <2>1
      <3> QED
        BY <2>1, <3>1, NextRemainder
    <2>4. w[n-1] = a[k] /\ w[n] = a[n % (m+1)]
      BY <1>4, <2>1
    <2>5. succ[a[k]] = a[k+1]
      BY <1>2, <2>2
    <2> HIDE DEF k, w
    <2> QED
      BY <1>1, <2>2, <2>3, <2>4, <2>5
  <1>6. w[0] = head
    BY <1>1, <1>3
  <1>7. IsWalk(w, succ, head)
    <2>1. w = [n \in 0 .. M |-> w[n]]
      OBVIOUS
    <2>2. \A n \in 0 .. M : w[n] = IF n = 0 THEN head ELSE succ[w[n-1]]
      BY <1>5, <1>6
    <2> HIDE DEF w
    <2> QED
      BY <2>1, <2>2 DEF IsWalk
  <1>8. Walk(succ, head) = CHOOSE v : IsWalk(v, succ, head)
    BY Zenon DEF Walk, IsWalk
  <1> HIDE DEF w
  <1> QED
    BY <1>7, <1>8, Zenon

\* It finds the cells of the ring, and the head after them.
LEMMA WalkFacts ==
  ASSUME NEW succ, NEW a, NEW m, NEW head, NEW N, Round(succ, a, m, head, N)
  PROVE  /\ m \in 0 .. N+1
         /\ Cardinality(DOMAIN succ) = N + 2
         /\ DOMAIN Walk(succ, head) = 0 .. N+2
         /\ \A n \in 0 .. m+1 : Walk(succ, head)[n] = a[n]
  <1> DEFINE w == Walk(succ, head)
  <1>1. /\ N \in Nat /\ m \in Nat /\ a[0] = head /\ a[m+1] = head
        /\ a \in [0 .. m+1 -> 0 .. N+1] /\ DOMAIN succ = 0 .. N+1
        /\ \A i, j \in 0 .. m : a[i] = a[j] => i = j
    BY DEF Round, Ring
  <1>2. \A n \in 0 .. m : succ[a[n]] = a[n+1]
    BY DEF Round
  <1>3. Cardinality(DOMAIN succ) = N + 2
    BY <1>1, FS_Interval
  <1>4. m \in 0 .. N+1
    <2> DEFINE g == [i \in 0 .. m |-> a[i]]
    <2>1. g \in Injection(0 .. m, 0 .. N+1)
      BY <1>1 DEF Injection, IsInjective
    <2>2. IsFiniteSet(0 .. N+1) /\ Cardinality(0 .. N+1) = N+2
      BY <1>1, FS_Interval
    <2>3. Cardinality(0 .. m) = m+1
      BY <1>1, FS_Interval
    <2> HIDE DEF g
    <2>4. Cardinality(0 .. m) <= Cardinality(0 .. N+1)
      BY <2>1, <2>2, FS_Injection
    <2> QED
      BY <1>1, <2>2, <2>3, <2>4
  <1>5. IsWalk(w, succ, head)
    BY WalkIsWalk
  <1> HIDE DEF w
  <1>6. w = [n \in 0 .. N+2 |-> IF n = 0 THEN head ELSE succ[w[n-1]]]
    BY <1>3, <1>5, Zenon DEF IsWalk
  <1>7. DOMAIN w = 0 .. N+2
    BY <1>6
  <1>8. \A n \in 0 .. m+1 : w[n] = a[n]
    <2> DEFINE Bad == {n \in 0 .. m+1 : w[n] # a[n]}
    <2> SUFFICES ASSUME Bad # {} PROVE FALSE
      OBVIOUS
    <2>1. Bad \subseteq Nat
      BY <1>1
    <2> HIDE DEF Bad
    <2>2. PICK n \in Bad : \A e \in Bad : n <= e
      BY <2>1, Smallest
    <2> USE DEF Bad
    <2>3. n \in 0 .. m+1 /\ w[n] # a[n] /\ n \in 0 .. N+2
      BY <1>1, <1>4
    <2>4. n # 0
      BY <1>1, <1>6, <2>3
    <2>5. n-1 \in 0 .. m /\ n-1 \in 0 .. m+1 /\ (n-1)+1 = n /\ ~ (n <= n-1)
      BY <1>1, <2>3, <2>4
    <2>6. w[n-1] = a[n-1]
      BY <2>2, <2>5
    <2> HIDE DEF Bad
    <2>7. w[n] = succ[w[n-1]]
      BY <1>6, <2>3, <2>4
    <2> QED
      BY <1>2, <2>3, <2>5, <2>6, <2>7
  <1> QED
    BY <1>3, <1>4, <1>7, <1>8 DEF w

\* The cells of a ring without its head.
RingCells(a, m) == [n \in 1 .. m |-> a[n]]

\* They are what CellsOf lists.
LEMMA CellsOfRing ==
  ASSUME NEW succ, NEW a, NEW m, NEW head, NEW N, Round(succ, a, m, head, N)
  PROVE  CellsOf(succ, head) = RingCells(a, m)
  <1> DEFINE w    == Walk(succ, head)
             back == {n \in DOMAIN w : n > 0 /\ w[n] = head}
             len  == IF back = {} THEN Cardinality(DOMAIN succ) ELSE Min(back) - 1
  <1>1. /\ N \in Nat /\ m \in Nat /\ a[0] = head /\ a[m+1] = head
        /\ \A i, j \in 0 .. m : a[i] = a[j] => i = j
    BY DEF Round, Ring
  <1>2. m \in 0 .. N+1 /\ DOMAIN w = 0 .. N+2 /\ \A n \in 0 .. m+1 : w[n] = a[n]
    BY WalkFacts
  <1> HIDE DEF w
  <1>3. m+1 \in back
    BY <1>1, <1>2
  <1>4. \A n \in back : m+1 <= n
    <2> SUFFICES ASSUME NEW n \in back, n < m+1 PROVE FALSE
      BY <1>1, <1>2
    <2>1. n \in 0 .. m /\ 0 \in 0 .. m /\ n # 0 /\ n \in 0 .. m+1
      BY <1>1, <1>2
    <2>2. w[n] = head
      OBVIOUS
    <2> HIDE DEF back
    <2> QED
      BY <1>1, <1>2, <2>1, <2>2
  <1>5. back \subseteq Int
    BY <1>2
  <1> HIDE DEF back
  <1>6. Min(back) = m+1
    <2>1. Min(back) \in back /\ \A n \in back : Min(back) <= n
      <3>1. \E x \in back : \A y \in back : x <= y
        BY <1>3, <1>4
      <3> QED
        BY <3>1, Zenon DEF Min
    <2> DEFINE v == Min(back)
    <2>2. v \in back /\ v \in Int /\ m+1 <= v /\ v <= m+1
      <3> HIDE DEF v
      <3> QED
        BY <1>3, <1>4, <1>5, <2>1, Zenon DEF v
    <2> HIDE DEF v
    <2>3. v = m+1
      BY <1>1, <2>2
    <2> QED
      BY <2>3 DEF v
  <1>7. len = m
    BY <1>1, <1>3, <1>6
  <1>8. CellsOf(succ, head) = [n \in 1 .. len |-> w[n]]
    BY Zenon DEF CellsOf, len, back, w
  <1> HIDE DEF len
  <1> QED
    BY <1>1, <1>2, <1>7, <1>8 DEF RingCells

-----------------------------------------------------------------------------
\* A list with its head before and after it.
Circle(list, head) == <<head>> \o list \o <<head>>

\* A list with its head before and after it is the ring.
LEMMA LinksOfRing ==
  ASSUME NEW a, NEW m, NEW head, NEW N, Ring(a, m, head, N), NEW list,
         list = RingCells(a, m)
  PROVE  /\ Len(list) = m /\ \A d : d \in ToSet(list) <=> \E n \in 1 .. m : a[n] = d
         /\ \A n \in 0 .. m+1 : Circle(list, head)[n+1] = a[n]
  <1> DEFINE C == 0 .. N+1
  <1>1. m \in Nat /\ a \in [0 .. m+1 -> C] /\ a[0] = head /\ a[m+1] = head
    BY DEF Ring
  <1> HIDE DEF C
  <1>2. \A n \in 1 .. m : a[n] \in C
    BY <1>1
  <1>3. list \in Seq(C) /\ Len(list) = m /\ DOMAIN list = 1 .. m /\ \A n \in 1 .. m : list[n] = a[n]
    BY <1>1, <1>2 DEF RingCells
  <1>4. \A d : d \in ToSet(list) <=> \E n \in 1 .. m : a[n] = d
    BY <1>3 DEF ToSet
  <1>5. head \in C
    BY <1>1
  <1> DEFINE h == <<head>>  hl == h \o list  w == hl \o h
  <1>6. h \in Seq(C) /\ Len(h) = 1 /\ h[1] = head
    BY <1>5
  <1> HIDE DEF h
  <1>7. /\ hl \in Seq(C) /\ Len(hl) = m + 1
        /\ \A i \in 1 .. m+1 : hl[i] = IF i <= 1 THEN h[i] ELSE list[i-1]
    <2>1. /\ hl \in Seq(C) /\ Len(hl) = Len(h) + Len(list)
          /\ \A i \in 1 .. Len(h) + Len(list) : hl[i] = IF i <= Len(h) THEN h[i] ELSE list[i-Len(h)]
      BY <1>3, <1>6, ConcatProperties
    <2>2. Len(h) + Len(list) = m + 1
      BY <1>1, <1>3, <1>6
    <2> HIDE DEF hl
    <2> QED
      BY <1>6, <2>1, <2>2
  <1> HIDE DEF hl
  <1>8. \A i \in 1 .. m+2 : w[i] = IF i <= m+1 THEN hl[i] ELSE h[i-(m+1)]
    <2>1. \A i \in 1 .. Len(hl) + Len(h) : w[i] = IF i <= Len(hl) THEN hl[i] ELSE h[i-Len(hl)]
      BY <1>6, <1>7, ConcatProperties
    <2>2. Len(hl) + Len(h) = m + 2
      BY <1>1, <1>6, <1>7
    <2> HIDE DEF w
    <2> QED
      BY <1>7, <2>1, <2>2
  <1> HIDE DEF w
  <1>9. ASSUME NEW n \in 0 .. m+1 PROVE w[n+1] = a[n]
    <2>1. CASE n = 0
      <3>1. 1 \in 1 .. m+2 /\ 1 \in 1 .. m+1 /\ 1 <= m+1
        BY <1>1
      <3> QED
        BY <1>1, <1>6, <1>7, <1>8, <2>1, <3>1
    <2>2. CASE n \in 1 .. m
      <3>1. n+1 \in 1 .. m+2 /\ n+1 \in 1 .. m+1 /\ n+1 <= m+1 /\ ~ (n+1 <= 1) /\ (n+1)-1 = n
        BY <1>1, <2>2
      <3> QED
        BY <1>3, <1>7, <1>8, <2>2, <3>1
    <2>3. CASE n = m+1
      <3>1. m+2 \in 1 .. m+2 /\ ~ (m+2 <= m+1) /\ (m+2) - (m+1) = 1 /\ n+1 = m+2
        BY <1>1, <2>3
      <3> QED
        BY <1>1, <1>6, <1>8, <2>3, <3>1
    <2> QED
      BY <1>1, <2>1, <2>2, <2>3
  <1> QED
    BY <1>3, <1>4, <1>9 DEF w, hl, h, Circle

\* dchainip() holds of a chain whose links are in order.
LEMMA LinkedWell ==
  ASSUME NEW ch, NEW N, Linked(ch, N)
  PROVE  WellLinked(ch)
  <1>0. PICK a, m, f, r : Threaded(ch, N, a, m, f, r)
    BY DEF Linked
  <1>1. N \in Nat /\ ch \in Chain(N) /\ Ring(a, m, 0, N) /\ Ring(f, r, 1, N)
    BY <1>0 DEF Threaded, Rings
  <1>N. m \in Nat /\ r \in Nat
    BY <1>1 DEF Ring
  <1>A. a \in [0 .. m+1 -> 0 .. N+1] /\ a[0] = 0 /\ a[m+1] = 0
    BY <1>1 DEF Ring
  <1>AI. \A i, k \in 0 .. m : a[i] = a[k] => i = k
    BY <1>1 DEF Ring
  <1>F. f \in [0 .. r+1 -> 0 .. N+1] /\ f[0] = 1 /\ f[r+1] = 1
    BY <1>1 DEF Ring
  <1>FI. \A i, k \in 0 .. r : f[i] = f[k] => i = k
    BY <1>1 DEF Ring
  <1>D. \A i \in 0 .. m, k \in 0 .. r : a[i] # f[k]
    BY <1>0 DEF Threaded, Rings
  <1>LA. \A n \in 0 .. m : ch.next[a[n]] = a[n+1] /\ ch.prev[a[n+1]] = a[n]
    BY <1>0 DEF Threaded, Rings
  <1>LF. \A n \in 0 .. r : ch.next[f[n]] = f[n+1] /\ ch.prev[f[n]] = f[n+1]
    BY <1>0 DEF Threaded, Rings
  <1>P. \A d \in 0 .. N+1 : (\E i \in 0 .. m : a[i] = d) \/ (\E i \in 0 .. r : f[i] = d)
    BY <1>0 DEF Threaded, Rings
  <1> DEFINE al == AllocList(ch)  fl == FreeList(ch)
             Cells == DOMAIN ch.next \ {ALLOC_LIST_HEAD, FREE_LIST_HEAD}
             wa == Circle(al, 0)  wf == Circle(fl, 1)
  <1>2. ch.next \in [0 .. N+1 -> 0 .. N+1]
    BY <1>1, ChainRecord
  <1>3. al = RingCells(a, m)
    <2>1. Round(ch.next, a, m, 0, N)
      BY <1>1, <1>2, <1>LA DEF Round
    <2> QED
      BY <2>1, CellsOfRing DEF AllocList, ALLOC_LIST_HEAD
  <1>4. fl = RingCells(f, r)
    <2>1. Round(ch.next, f, r, 1, N)
      BY <1>1, <1>2, <1>LF DEF Round
    <2> QED
      BY <2>1, CellsOfRing DEF FreeList, FREE_LIST_HEAD
  <1>5. Cells = 2 .. N+1
    <2>1. DOMAIN ch.next = 0 .. N+1
      BY <1>2
    <2> QED
      BY <1>1, <2>1 DEF ALLOC_LIST_HEAD, FREE_LIST_HEAD
  <1> HIDE DEF al, fl, Cells
  <1>6. /\ Len(al) = m /\ \A d : d \in ToSet(al) <=> \E n \in 1 .. m : a[n] = d
        /\ \A n \in 0 .. m+1 : wa[n+1] = a[n]
    BY <1>1, <1>3, LinksOfRing
  <1>7. /\ Len(fl) = r /\ \A d : d \in ToSet(fl) <=> \E n \in 1 .. r : f[n] = d
        /\ \A n \in 0 .. r+1 : wf[n+1] = f[n]
    BY <1>1, <1>4, LinksOfRing
  <1> HIDE DEF wa, wf
  <1>8. /\ 0 \in 0 .. m /\ 0 \in 0 .. r
        /\ \A n \in 1 .. m : n \in 0 .. m /\ n # 0
        /\ \A n \in 1 .. r : n \in 0 .. r /\ n # 0
        /\ \A n \in 0 .. m : n = 0 \/ n \in 1 .. m
        /\ \A n \in 0 .. r : n = 0 \/ n \in 1 .. r
    BY <1>N
  <1>9. \A d : d \in Cells <=> d \in 0 .. N+1 /\ d # 0 /\ d # 1
    BY <1>1, <1>5
  <1>10. \A n \in 1 .. m : a[n] \in Cells
    <2> SUFFICES ASSUME NEW n \in 1 .. m PROVE a[n] \in Cells
      OBVIOUS
    <2>1. a[n] \in 0 .. N+1
      BY <1>A, <1>N
    <2>2. a[n] # 0
      BY <1>A, <1>AI, <1>8
    <2>3. a[n] # 1
      BY <1>D, <1>F, <1>8
    <2> QED
      BY <1>9, <2>1, <2>2, <2>3
  <1>11. \A n \in 1 .. r : f[n] \in Cells
    <2> SUFFICES ASSUME NEW n \in 1 .. r PROVE f[n] \in Cells
      OBVIOUS
    <2>1. f[n] \in 0 .. N+1
      BY <1>F, <1>N
    <2>2. f[n] # 1
      BY <1>F, <1>FI, <1>8
    <2>3. f[n] # 0
      BY <1>D, <1>A, <1>8
    <2> QED
      BY <1>9, <2>1, <2>2, <2>3
  <1>12. \A d \in Cells : (\E n \in 1 .. m : a[n] = d) \/ (\E n \in 1 .. r : f[n] = d)
    BY <1>P, <1>A, <1>F, <1>8, <1>9
  <1>13. ToSet(al) \union ToSet(fl) = Cells
    BY <1>6, <1>7, <1>10, <1>11, <1>12
  <1>14. Len(al) + Len(fl) = Cardinality(Cells)
    <2> DEFINE g == [n \in 1 .. m+r |-> IF n <= m THEN a[n] ELSE f[n-m]]
    <2>1. \A n \in 1 .. m+r : \/ n <= m /\ n \in 1 .. m /\ g[n] = a[n]
                              \/ ~ (n <= m) /\ n-m \in 1 .. r /\ g[n] = f[n-m]
      BY <1>N
    <2>2. g \in [1 .. m+r -> Cells]
      <3>1. \A n \in 1 .. m+r : g[n] \in Cells
        BY <1>10, <1>11, <2>1
      <3> QED
        BY <3>1
    <2> HIDE DEF g
    <2>3. ASSUME NEW i \in 1 .. m+r, NEW k \in 1 .. m+r, g[i] = g[k] PROVE i = k
      <3>1. CASE i <= m /\ k <= m
        BY <1>AI, <1>8, <2>1, <2>3, <3>1
      <3>2. CASE i <= m /\ ~ (k <= m)
        BY <1>D, <1>8, <2>1, <2>3, <3>2
      <3>3. CASE ~ (i <= m) /\ k <= m
        BY <1>D, <1>8, <2>1, <2>3, <3>3
      <3>4. CASE ~ (i <= m) /\ ~ (k <= m)
        <4>1. i-m \in 1 .. r /\ k-m \in 1 .. r /\ f[i-m] = f[k-m]
          BY <2>1, <2>3, <3>4
        <4>2. i-m = k-m
          BY <1>FI, <1>8, <4>1
        <4> QED
          BY <1>N, <4>2
      <3> QED
        BY <3>1, <3>2, <3>3, <3>4
    <2>4. ASSUME NEW d \in Cells PROVE \E n \in 1 .. m+r : g[n] = d
      <3>1. CASE \E n \in 1 .. m : a[n] = d
        <4>1. PICK n \in 1 .. m : a[n] = d
          BY <3>1
        <4>2. n \in 1 .. m+r /\ n <= m
          BY <1>N
        <4> QED
          BY <2>1, <4>1, <4>2
      <3>2. CASE \E n \in 1 .. r : f[n] = d
        <4>1. PICK n \in 1 .. r : f[n] = d
          BY <3>2
        <4>2. m+n \in 1 .. m+r /\ ~ (m+n <= m) /\ (m+n)-m = n
          BY <1>N
        <4> QED
          BY <2>1, <4>1, <4>2
      <3> QED
        BY <1>12, <3>1, <3>2
    <2>5. g \in Bijection(1 .. m+r, Cells)
      BY <2>2, <2>3, <2>4 DEF Bijection, Injection, Surjection, IsInjective
    <2>6. IsFiniteSet(1 .. m+r) /\ Cardinality(1 .. m+r) = m+r
      <3> DEFINE z == m + r
      <3>1. z \in Nat
        BY <1>N
      <3> HIDE DEF z
      <3>2. IsFiniteSet(1 .. z) /\ Cardinality(1 .. z) = z
        BY <3>1, FS_Interval
      <3> QED
        BY <3>2 DEF z
    <2>7. Cardinality(Cells) = m+r
      BY <2>5, <2>6, FS_Bijection DEF ExistsBijection
    <2> QED
      BY <1>6, <1>7, <2>7
  <1>15. \A n \in 1 .. Len(al)+1 : ch.prev[wa[n+1]] = wa[n]
    <2> SUFFICES ASSUME NEW n \in 1 .. m+1 PROVE ch.prev[wa[n+1]] = wa[n]
      BY <1>6
    <2>1. n \in 0 .. m+1 /\ n-1 \in 0 .. m+1 /\ n-1 \in 0 .. m /\ (n-1)+1 = n
      BY <1>N
    <2>2. wa[n+1] = a[n] /\ wa[n] = a[n-1]
      BY <1>6, <2>1
    <2>3. ch.prev[a[n]] = a[n-1]
      BY <1>LA, <2>1
    <2> QED
      BY <2>2, <2>3
  <1>16. \A n \in 0 .. Len(fl) : ch.prev[wf[n+1]] = ch.next[wf[n+1]]
    <2> SUFFICES ASSUME NEW n \in 0 .. r PROVE ch.prev[wf[n+1]] = ch.next[wf[n+1]]
      BY <1>7
    <2>1. wf[n+1] = f[n]
      BY <1>7, <1>N
    <2> QED
      BY <1>LF, <2>1
  <1> QED
    BY <1>13, <1>14, <1>15, <1>16, Zenon
       DEF WellLinked, al, fl, Cells, wa, wf, Circle, ALLOC_LIST_HEAD, FREE_LIST_HEAD

-----------------------------------------------------------------------------
(***************************************************************************)
(* Probing.                                                                *)
(***************************************************************************)

\* The cell a search for hash h in a table of N cells comes to after n others.
Cell(h, n, N) == ((h % N) + n) % N

\* How many cells come before c.
Away(h, c, N) == CHOOSE n \in 0 .. N-1 : Cell(h, n, N) = c

\* A search comes to every cell once.
LEMMA CellFacts ==
  ASSUME NEW h \in Nat, NEW N \in Nat \ {0}
  PROVE  /\ \A n \in 0 .. N-1 : Cell(h, n, N) \in 0 .. N-1
         /\ \A n, k \in 0 .. N-1 : Cell(h, n, N) = Cell(h, k, N) => n = k
         /\ \A c \in 0 .. N-1 : \E n \in 0 .. N-1 : Cell(h, n, N) = c
  <1> DEFINE b == h % N
  <1>1. b \in 0 .. N-1
    BY DivBounds
  <1> HIDE DEF b
  <1>2. ASSUME NEW n \in 0 .. N-1
        PROVE  (b + n) % N = IF b + n < N THEN b + n ELSE b + n - N
    <2>1. ASSUME b + n < N PROVE (b + n) % N = b + n
      <3>1. b + n \in Nat /\ b + n = N * 0 + (b + n) /\ b + n \in 0 .. N-1 /\ 0 \in Nat
        BY <1>1, <2>1
      <3> QED
        BY <3>1, RemainderIs
    <2>2. ASSUME ~ (b + n < N) PROVE (b + n) % N = b + n - N
      <3>1. b + n \in Nat /\ b + n = N * 1 + (b + n - N) /\ b + n - N \in 0 .. N-1 /\ 1 \in Nat
        BY <1>1, <2>2
      <3> QED
        BY <3>1, RemainderIs
    <2> QED
      BY <2>1, <2>2
  <1>3. ASSUME NEW n \in 0 .. N-1
        PROVE  Cell(h, n, N) = IF b + n < N THEN b + n ELSE b + n - N
    BY <1>2 DEF Cell, b
  <1>4. \A n \in 0 .. N-1 : Cell(h, n, N) \in 0 .. N-1
    BY <1>1, <1>3
  <1>5. \A n, k \in 0 .. N-1 : Cell(h, n, N) = Cell(h, k, N) => n = k
    BY <1>1, <1>3
  <1>6. ASSUME NEW c \in 0 .. N-1
        PROVE  \E n \in 0 .. N-1 : Cell(h, n, N) = c
    <2> DEFINE n == IF c >= b THEN c - b ELSE c + N - b
    <2>1. n \in 0 .. N-1 /\ (IF b + n < N THEN b + n ELSE b + n - N) = c
      BY <1>1
    <2> HIDE DEF n
    <2> QED
      BY <1>3, <2>1
  <1> QED
    BY <1>4, <1>5, <1>6

\* So every cell has its distance.
LEMMA AwayFacts ==
  ASSUME NEW h \in Nat, NEW N \in Nat \ {0}, NEW c \in 0 .. N-1
  PROVE  /\ Away(h, c, N) \in 0 .. N-1 /\ Cell(h, Away(h, c, N), N) = c
         /\ \A n \in 0 .. N-1 : Cell(h, n, N) = c => n = Away(h, c, N)
  <1>1. Away(h, c, N) \in 0 .. N-1 /\ Cell(h, Away(h, c, N), N) = c
    <2>1. \E n \in 0 .. N-1 : Cell(h, n, N) = c
      BY CellFacts
    <2> QED
      BY <2>1, Zenon DEF Away
  <1> QED
    BY <1>1, CellFacts

\* loop() of map-impl.c finds that cell.
LEMMA ModProbe ==
  ASSUME NEW h \in Nat, NEW N \in Nat \ {0}, NEW n \in 0 .. N-1, NEW m, Mod!Capacity(m) = N
  PROVE  Mod!Probe(m, h, n) = Cell(h, n, N)
  <1>1. ASSUME NEW k \in Nat PROVE loop(k, N) = k % N
    <2> DEFINE b == k % N
    <2>1. b \in 0 .. N-1
      BY DivBounds
    <2> HIDE DEF b
    <2>2. b + N \in Nat /\ b + N = N * 1 + b /\ 1 \in Nat
      BY <2>1
    <2>3. (b + N) % N = b
      BY <2>1, <2>2, RemainderIs
    <2> QED
      BY <2>3 DEF loop, b
  <1>2. (h % N) + n \in Nat
    BY DivBounds
  <1>3. loop(h, N) = h % N /\ loop((h % N) + n, N) = ((h % N) + n) % N
    BY <1>1, <1>2
  <1>4. Mod!Probe(m, h, n) = loop(loop(h, N) + n, N)
    BY DEF Mod!Probe
  <1> QED
    BY <1>3, <1>4 DEF Cell

-----------------------------------------------------------------------------
\* What khash() may return.
Hashes == {h \in Nat : h < 2^HashBits}

\* A cell that holds a reference.
Slot(N) == [keyp : 0 .. N-1, hash : Hashes, val : 0 .. N-1]

\* A hash table of N cells, in a build with CAPACITY_POW2 or without it.
Table(t, N, p) ==
  /\ N \in Nat \ {0} /\ p \in BOOLEAN /\ ~ CapacityRefused(p, N)
  /\ t = [impl |-> t.impl, pow2 |-> p]
  /\ t.impl = [cell |-> t.impl.cell, chns |-> t.impl.chns]
  /\ t.impl.cell \in [0 .. N-1 -> Slot(N) \union {Mod!NotBusy}]
  /\ t.impl.chns \in [0 .. N-1 -> Int]

\* Its size.
LEMMA TableCapacity ==
  ASSUME NEW t, NEW N, NEW p, Table(t, N, p)
  PROVE  /\ Mod!Capacity(t.impl) = N /\ Mod!Steps(t.impl) = 0 .. N-1
         /\ Pow2!Impl!Capacity(t.impl) = N /\ Pow2!Impl!Steps(t.impl) = 0 .. N-1
  <1>1. N \in Nat \ {0} /\ DOMAIN t.impl.cell = 0 .. N-1
    BY DEF Table
  <1>2. Cardinality(0 .. N-1) = N
    BY <1>1, FS_Interval
  <1>3. Mod!Capacity(t.impl) = Cardinality(DOMAIN t.impl.cell)
    BY Zenon DEF Mod!Capacity, Mod!Cardinality, Cardinality
  <1>4. Pow2!Impl!Capacity(t.impl) = Cardinality(DOMAIN t.impl.cell)
    BY Zenon DEF Pow2!Impl!Capacity, Pow2!Impl!Cardinality, Cardinality
  <1>5. Mod!Capacity(t.impl) = N /\ Pow2!Impl!Capacity(t.impl) = N
    BY <1>1, <1>2, <1>3, <1>4, Zenon
  <1> QED
    BY <1>5 DEF Mod!Steps, Pow2!Impl!Steps

\* Both builds probe the same cells.
LEMMA ProbeIsCell ==
  ASSUME NEW t, NEW N, NEW p, Table(t, N, p), NEW h \in Hashes, NEW n \in 0 .. N-1
  PROVE  /\ Mod!Probe(t.impl, h, n) = Cell(h, n, N)
         /\ p => Pow2!Impl!Probe(t.impl, h, n) = Cell(h, n, N)
  <1>1. N \in Nat \ {0} /\ h \in Nat /\ ~ CapacityRefused(p, N)
    BY DEF Table, Hashes
  <1>2. Mod!Probe(t.impl, h, n) = Cell(h, n, N)
    BY <1>1, TableCapacity, ModProbe
  <1>3. ASSUME p PROVE Pow2!Impl!Probe(t.impl, h, n) = Cell(h, n, N)
    <2>1. PICK e \in 0 .. HashBits-1 : N = 2^e
      BY <1>1, <1>3 DEF CapacityRefused
    <2>2. \A k \in 0 .. 2^HashBits + 2 * N : Pow2!And(k, N - 1) = k % N
      BY <2>1, MaskAssumption
    <2>3. 2^HashBits \in Nat
      BY MaskAssumption
    <2>4. \A k \in 0 .. 2^HashBits + 2 * N : Pow2!loop(k, N) = k % N
      BY <2>2, Zenon DEF Pow2!loop
    <2>5. h \in 0 .. 2^HashBits + 2 * N
      BY <1>1, <2>3 DEF Hashes
    <2>6. (h % N) + n \in 0 .. 2^HashBits + 2 * N
      <3>1. h % N \in 0 .. N-1
        BY <1>1, DivBounds
      <3> QED
        BY <1>1, <2>3, <3>1
    <2>7. Pow2!loop(Pow2!loop(h, N) + n, N) = Cell(h, n, N)
      BY <2>4, <2>5, <2>6 DEF Cell
    <2>8. Pow2!Impl!Probe(t.impl, h, n) = Pow2!loop(Pow2!loop(h, N) + n, N)
      BY TableCapacity DEF Pow2!Impl!Probe
    <2> QED
      BY <2>7, <2>8
  <1> QED
    BY <1>2, <1>3

-----------------------------------------------------------------------------
(***************************************************************************)
(* What the functions compute, in either build.                            *)
(***************************************************************************)

\* A cell refers to the key.
Holds(m, mem, key, c) ==
  m.cell[c] # Mod!NotBusy /\ m.cell[c].hash = key.hash /\ mem[m.cell[c].keyp] = key

\* A search for the key need not go beyond it.
Ends(m, key, c) ==
  ~ (m.cell[c] # Mod!NotBusy /\ m.cell[c].hash = key.hash) /\ m.chns[c] = 0

\* Where a search ends, where the key is found and where a key can be put.
SearchEnds(m, mem, key, N) ==
  {n \in 0 .. N-1 : LET c == Cell(key.hash, n, N) IN Holds(m, mem, key, c) \/ Ends(m, key, c)}

Hits(m, mem, key, N) == {n \in 0 .. N-1 : Holds(m, mem, key, Cell(key.hash, n, N))}

Gaps(m, h, N) == {n \in 0 .. N-1 : m.cell[Cell(h, n, N)] = Mod!NotBusy}

\* The cells passed in n steps.
Before(h, n, N) == {Cell(h, k, N) : k \in 0 .. n-1}

\* The cell a search finds.
Found(m, mem, key, N) ==
  LET ends == SearchEnds(m, mem, key, N)
      c    == Cell(key.hash, Min(ends), N)
  IN  IF ends # {} /\ Holds(m, mem, key, c) THEN c ELSE Mod!NotFound

\* map_impl_put and map_impl_erase, when there is a gap and when the key is there.
PutAt(m, key, i, n, N) ==
  [cell |-> [m.cell EXCEPT ![Cell(key.hash, n, N)] = [keyp |-> i, hash |-> key.hash, val |-> i]],
   chns |-> [c \in DOMAIN m.chns |-> IF c \in Before(key.hash, n, N) THEN m.chns[c] + 1
                                                                      ELSE m.chns[c]]]

EraseAt(m, key, n, N) ==
  [cell |-> [m.cell EXCEPT ![Cell(key.hash, n, N)] = Mod!NotBusy],
   chns |-> [c \in DOMAIN m.chns |-> IF c \in Before(key.hash, n, N) THEN m.chns[c] - 1
                                                                      ELSE m.chns[c]]]

\* Looking a key up.
LEMMA GetIs ==
  ASSUME NEW t, NEW N, NEW p, Table(t, N, p), NEW mem, NEW key, key.hash \in Hashes
  PROVE  impl_get(t, mem, key)
           = LET c == Found(t.impl, mem, key, N)
             IN  IF c = Mod!NotFound THEN Mod!NotFound ELSE t.impl.cell[c].val
  <1> DEFINE m == t.impl  h == key.hash  ends == SearchEnds(m, mem, key, N)
             v == LET c == Found(m, mem, key, N)
                  IN  IF c = Mod!NotFound THEN Mod!NotFound ELSE m.cell[c].val
  <1>1. /\ N \in Nat \ {0} /\ p \in BOOLEAN /\ t = [impl |-> m, pow2 |-> p]
        /\ Mod!Steps(m) = 0 .. N-1 /\ Pow2!Impl!Steps(m) = 0 .. N-1
    BY TableCapacity DEF Table
  <1>2. \A n \in 0 .. N-1 : Mod!Probe(m, h, n) = Cell(h, n, N)
    BY ProbeIsCell
  <1>3. p => \A n \in 0 .. N-1 : Pow2!Impl!Probe(m, h, n) = Cell(h, n, N)
    BY ProbeIsCell
  <1> HIDE DEF m
  <1>4. \A c : /\ Mod!Hit(m, mem, key, c) <=> Holds(m, mem, key, c)
               /\ Pow2!Impl!Hit(m, mem, key, c) <=> Holds(m, mem, key, c)
               /\ Mod!Stops(m, key, c) <=> Ends(m, key, c)
               /\ Pow2!Impl!Stops(m, key, c) <=> Ends(m, key, c)
    BY DEF Mod!Hit, Mod!SameHash, Mod!Stops, Pow2!Impl!Hit, Pow2!Impl!SameHash, Pow2!Impl!Stops,
           Holds, Ends, Pow2!Impl!NotBusy, Mod!NotBusy
  <1>5. ends \subseteq 0 .. N-1 /\ (ends # {} => Min(ends) \in ends)
    <2>1. ends \subseteq Nat
      BY DEF SearchEnds
    <2>2. ASSUME ends # {} PROVE Min(ends) \in ends
      <3> HIDE DEF ends
      <3>1. \E x \in ends : \A y \in ends : x <= y
        BY <2>1, <2>2, Smallest
      <3> QED
        BY <3>1, Zenon DEF Min
    <2> QED
      BY <2>2 DEF SearchEnds
  <1>6. ASSUME ~ p PROVE impl_get(t, mem, key) = v
    <2> DEFINE e == {n \in Mod!Steps(m) : Mod!Hit(m, mem, key, Mod!Probe(m, h, n))
                                            \/ Mod!Stops(m, key, Mod!Probe(m, h, n))}
    <2>1. e = ends
      BY <1>1, <1>2, <1>4 DEF SearchEnds
    <2>2. Mod!find_key(m, mem, key)
            = IF e # {} /\ Mod!Hit(m, mem, key, Mod!Probe(m, h, Mod!Min(e)))
                THEN Mod!Probe(m, h, Mod!Min(e)) ELSE Mod!NotFound
      BY Zenon DEF Mod!find_key
    <2> HIDE DEF e, ends, h
    <2>3. Mod!Min(e) = Min(ends)
      BY <2>1, Zenon DEF Mod!Min, Min
    <2>4. Mod!find_key(m, mem, key) = Found(m, mem, key, N)
      <3>1. Found(m, mem, key, N)
              = IF ends # {} /\ Holds(m, mem, key, Cell(h, Min(ends), N))
                  THEN Cell(h, Min(ends), N) ELSE Mod!NotFound
        BY Zenon DEF Found, ends, h
      <3>2. ASSUME ends # {} PROVE Mod!Probe(m, h, Min(ends)) = Cell(h, Min(ends), N)
        BY <1>2, <1>5, <3>2
      <3> QED
        BY <1>4, <2>1, <2>2, <2>3, <3>1, <3>2
    <2>5. impl_get(t, mem, key) = Mod!map_impl_get(m, mem, key)
      BY <1>1, <1>6 DEF impl_get, m
    <2> QED
      BY <2>4, <2>5, Zenon DEF Mod!map_impl_get
  <1>7. ASSUME p PROVE impl_get(t, mem, key) = v
    <2> DEFINE e == {n \in Pow2!Impl!Steps(m) : Pow2!Impl!Hit(m, mem, key, Pow2!Impl!Probe(m, h, n))
                                            \/ Pow2!Impl!Stops(m, key, Pow2!Impl!Probe(m, h, n))}
    <2>0. \A n \in 0 .. N-1 : Pow2!Impl!Probe(m, h, n) = Cell(h, n, N)
      BY <1>3, <1>7
    <2>1. e = ends
      BY <1>1, <2>0, <1>4 DEF SearchEnds
    <2>2. Pow2!Impl!find_key(m, mem, key)
            = IF e # {} /\ Pow2!Impl!Hit(m, mem, key, Pow2!Impl!Probe(m, h, Pow2!Impl!Min(e)))
                THEN Pow2!Impl!Probe(m, h, Pow2!Impl!Min(e)) ELSE Pow2!Impl!NotFound
      BY Zenon DEF Pow2!Impl!find_key
    <2> HIDE DEF e, ends, h
    <2>3. Pow2!Impl!Min(e) = Min(ends)
      BY <2>1, Zenon DEF Pow2!Impl!Min, Min
    <2>N. Pow2!Impl!NotFound = Mod!NotFound
      BY DEF Pow2!Impl!NotFound, Mod!NotFound
    <2>4. Pow2!Impl!find_key(m, mem, key) = Found(m, mem, key, N)
      <3>1. Found(m, mem, key, N)
              = IF ends # {} /\ Holds(m, mem, key, Cell(h, Min(ends), N))
                  THEN Cell(h, Min(ends), N) ELSE Mod!NotFound
        BY Zenon DEF Found, ends, h
      <3>2. ASSUME ends # {} PROVE Pow2!Impl!Probe(m, h, Min(ends)) = Cell(h, Min(ends), N)
        BY <2>0, <1>5, <3>2
      <3> QED
        BY <1>4, <2>1, <2>2, <2>3, <2>N, <3>1, <3>2
    <2>5. impl_get(t, mem, key) = Pow2!map_impl_get(m, mem, key)
      BY <1>1, <1>7 DEF impl_get, m
    <2>6. Pow2!map_impl_get(m, mem, key)
            = LET c == Pow2!Impl!find_key(m, mem, key)
              IN  IF c = Pow2!Impl!NotFound THEN Pow2!Impl!NotFound ELSE m.cell[c].val
      BY Zenon DEF Pow2!map_impl_get, Pow2!find_key
    <2> QED
      BY <2>4, <2>5, <2>6, <2>N, Zenon
  <1> QED
    BY <1>1, <1>6, <1>7 DEF m

-----------------------------------------------------------------------------
\* A cell and the counters set.
SetSlot(m, c, x, chns) == [m EXCEPT !.cell[c] = x, !.chns = chns]

\* The table is what it was but for these.
LEMMA SetSlotFields ==
  ASSUME NEW m, NEW C, NEW X, m = [cell |-> C, chns |-> X], NEW c, NEW x, NEW chns
  PROVE  SetSlot(m, c, x, chns) = [cell |-> [C EXCEPT ![c] = x], chns |-> chns]
  <1>1. [m EXCEPT !.cell[c] = x] = [cell |-> [C EXCEPT ![c] = x], chns |-> X]
    OBVIOUS
  <1>2. SetSlot(m, c, x, chns) = [[m EXCEPT !.cell[c] = x] EXCEPT !.chns = chns]
    BY DEF SetSlot
  <1> QED
    BY <1>1, <1>2

\* An implementation exchanged for another.
LEMMA SetImpl ==
  ASSUME NEW t, NEW m, NEW p, t = [impl |-> m, pow2 |-> p], NEW new
  PROVE  /\ [t EXCEPT !.impl = new] = [impl |-> new, pow2 |-> p]
         /\ t.pow2 = p /\ t.impl = m
  OBVIOUS

\* A table with another implementation.
WithImpl(t, x) == [t EXCEPT !.impl = x]

\* It is what it was but for that.
LEMMA WithImplIs ==
  ASSUME NEW t, NEW m, NEW p, t = [impl |-> m, pow2 |-> p], NEW x
  PROVE  WithImpl(t, x) = [impl |-> x, pow2 |-> p]
  BY DEF WithImpl

\* The first n steps, in either build.
LEMMA PassedIsBefore ==
  ASSUME NEW t, NEW N, NEW p, Table(t, N, p), NEW h \in Hashes, NEW n \in 0 .. N-1
  PROVE  /\ Mod!Passed(t.impl, h, n) = Before(h, n, N)
         /\ p => Pow2!Impl!Passed(t.impl, h, n) = Before(h, n, N)
  <1>1. \A k \in 0 .. n-1 : k \in 0 .. N-1
    BY DEF Table
  <1>2. \A k \in 0 .. n-1 : Mod!Probe(t.impl, h, k) = Cell(h, k, N)
    BY <1>1, ProbeIsCell
  <1>3. p => \A k \in 0 .. n-1 : Pow2!Impl!Probe(t.impl, h, k) = Cell(h, k, N)
    BY <1>1, ProbeIsCell
  <1> QED
    BY <1>2, <1>3 DEF Mod!Passed, Pow2!Impl!Passed, Before

\* The least number of a set, as each module takes it.
LEMMA MinIs ==
  ASSUME NEW S, S \subseteq Nat, S # {}
  PROVE  /\ Min(S) \in S /\ \A x \in S : Min(S) <= x
         /\ Mod!Min(S) = Min(S) /\ Pow2!Impl!Min(S) = Min(S)
  <1>1. \E x \in S : \A y \in S : x <= y
    BY Smallest
  <1> QED
    BY <1>1, Zenon DEF Min, Mod!Min, Pow2!Impl!Min

\* Putting a key.
LEMMA PutIs ==
  ASSUME NEW t, NEW N, NEW p, Table(t, N, p), NEW key, key.hash \in Hashes, NEW i,
         Gaps(t.impl, key.hash, N) # {}
  PROVE  impl_put(t, key, i, i)
           = [impl |-> PutAt(t.impl, key, i, Min(Gaps(t.impl, key.hash, N)), N), pow2 |-> p]
  <1> DEFINE m == t.impl  h == key.hash  gaps == Gaps(m, h, N)  n == Min(gaps)
             x == [keyp |-> i, hash |-> h, val |-> i]
             new == PutAt(m, key, i, n, N)
  <1>1. /\ N \in Nat \ {0} /\ p \in BOOLEAN /\ t = [impl |-> m, pow2 |-> p]
        /\ Mod!Steps(m) = 0 .. N-1 /\ Pow2!Impl!Steps(m) = 0 .. N-1
        /\ m = [cell |-> m.cell, chns |-> m.chns]
    BY TableCapacity DEF Table
  <1>2. \A k \in 0 .. N-1 : Mod!Probe(m, h, k) = Cell(h, k, N)
    BY ProbeIsCell
  <1>3. p => \A k \in 0 .. N-1 : Pow2!Impl!Probe(m, h, k) = Cell(h, k, N)
    BY ProbeIsCell
  <1>4. n \in 0 .. N-1 /\ Mod!Min(gaps) = n /\ Pow2!Impl!Min(gaps) = n
    <2>1. gaps \subseteq Nat /\ gaps \subseteq 0 .. N-1 /\ gaps # {}
      BY DEF Gaps
    <2> HIDE DEF gaps
    <2> QED
      BY <2>1, MinIs
  <1>5. Mod!Passed(m, h, n) = Before(h, n, N) /\ (p => Pow2!Impl!Passed(m, h, n) = Before(h, n, N))
    BY <1>4, PassedIsBefore
  <1> DEFINE c == Cell(h, n, N)
             Y == [d \in DOMAIN m.chns |-> IF d \in Before(h, n, N) THEN m.chns[d] + 1
                                                                ELSE m.chns[d]]
  <1>6. new = SetSlot(m, c, x, Y)
    <2>1. SetSlot(m, c, x, Y) = [cell |-> [m.cell EXCEPT ![c] = x], chns |-> Y]
      <3> HIDE DEF m, c, x, Y
      <3> QED
        BY <1>1, SetSlotFields
    <2> QED
      BY <2>1, Zenon DEF PutAt
  <1> HIDE DEF m, new, gaps, n
  <1>7. ASSUME ~ p PROVE impl_put(t, key, i, i) = [impl |-> new, pow2 |-> p]
    <2>1. Mod!find_empty(m, h) = n
      <3>1. {k \in Mod!Steps(m) : m.cell[Mod!Probe(m, h, k)] = Mod!NotBusy} = gaps
        BY <1>1, <1>2 DEF gaps, Gaps
      <3> HIDE DEF h
      <3>2. Mod!find_empty(m, h) = Mod!Min(gaps)
        BY <3>1, Zenon DEF Mod!find_empty
      <3> QED
        BY <1>4, <3>2
    <2>2. Mod!Probe(m, h, n) = c
      BY <1>2, <1>4
    <2>3. Mod!AddChain(m, Before(h, n, N)) = Y
      BY Zenon DEF Mod!AddChain
    <2>4. Mod!map_impl_put(m, key, i, i)
            = SetSlot(m, Mod!Probe(m, h, Mod!find_empty(m, h)), x,
                      Mod!AddChain(m, Mod!Passed(m, h, Mod!find_empty(m, h))))
      BY Zenon DEF Mod!map_impl_put, SetSlot
    <2>5. Mod!map_impl_put(m, key, i, i) = new
      BY <1>5, <1>6, <2>1, <2>2, <2>3, <2>4, Zenon
    <2>6. impl_put(t, key, i, i) = WithImpl(t, Mod!map_impl_put(m, key, i, i))
      BY <1>1, <1>7, SetImpl, Zenon DEF impl_put, WithImpl
    <2>7. WithImpl(t, new) = [impl |-> new, pow2 |-> p]
      BY <1>1, WithImplIs
    <2> QED
      BY <2>5, <2>6, <2>7, Zenon
  <1>8. ASSUME p PROVE impl_put(t, key, i, i) = [impl |-> new, pow2 |-> p]
    <2>1. Pow2!Impl!find_empty(m, h) = n
      <3>1. {k \in Pow2!Impl!Steps(m) : m.cell[Pow2!Impl!Probe(m, h, k)] = Pow2!Impl!NotBusy} = gaps
        BY <1>1, <1>3, <1>8 DEF gaps, Gaps, Pow2!Impl!NotBusy, Mod!NotBusy
      <3> HIDE DEF h
      <3>2. Pow2!Impl!find_empty(m, h) = Pow2!Impl!Min(gaps)
        BY <3>1, Zenon DEF Pow2!Impl!find_empty
      <3> QED
        BY <1>4, <3>2
    <2>2. Pow2!Impl!Probe(m, h, n) = c
      BY <1>3, <1>4, <1>8
    <2>3. Pow2!Impl!AddChain(m, Before(h, n, N)) = Y
      BY Zenon DEF Pow2!Impl!AddChain
    <2>4. Pow2!map_impl_put(m, key, i, i)
            = SetSlot(m, Pow2!Impl!Probe(m, h, Pow2!Impl!find_empty(m, h)), x,
                      Pow2!Impl!AddChain(m, Pow2!Impl!Passed(m, h, Pow2!Impl!find_empty(m, h))))
      BY Zenon DEF Pow2!map_impl_put, Pow2!find_empty, SetSlot
    <2>5. Pow2!map_impl_put(m, key, i, i) = new
      BY <1>5, <1>6, <1>8, <2>1, <2>2, <2>3, <2>4, Zenon
    <2>6. impl_put(t, key, i, i) = WithImpl(t, Pow2!map_impl_put(m, key, i, i))
      BY <1>1, <1>8, SetImpl, Zenon DEF impl_put, WithImpl
    <2>7. WithImpl(t, new) = [impl |-> new, pow2 |-> p]
      BY <1>1, WithImplIs
    <2> QED
      BY <2>5, <2>6, <2>7, Zenon
  <1> QED
    BY <1>1, <1>7, <1>8 DEF m, new, gaps, n

\* Erasing a key that is there.
LEMMA EraseIs ==
  ASSUME NEW t, NEW N, NEW p, Table(t, N, p), NEW mem, NEW key, key.hash \in Hashes,
         Hits(t.impl, mem, key, N) # {}
  PROVE  impl_erase(t, mem, key)
           = [impl |-> EraseAt(t.impl, key, Min(Hits(t.impl, mem, key, N)), N), pow2 |-> p]
  <1> DEFINE m == t.impl  h == key.hash  hits == Hits(m, mem, key, N)  n == Min(hits)
             new == EraseAt(m, key, n, N)
  <1>1. /\ N \in Nat \ {0} /\ p \in BOOLEAN /\ t = [impl |-> m, pow2 |-> p]
        /\ Mod!Steps(m) = 0 .. N-1 /\ Pow2!Impl!Steps(m) = 0 .. N-1
        /\ m = [cell |-> m.cell, chns |-> m.chns]
    BY TableCapacity DEF Table
  <1>2. \A k \in 0 .. N-1 : Mod!Probe(m, h, k) = Cell(h, k, N)
    BY ProbeIsCell
  <1>3. p => \A k \in 0 .. N-1 : Pow2!Impl!Probe(m, h, k) = Cell(h, k, N)
    BY ProbeIsCell
  <1>4. n \in 0 .. N-1 /\ Mod!Min(hits) = n /\ Pow2!Impl!Min(hits) = n /\ hits # {}
    <2>1. hits \subseteq Nat /\ hits \subseteq 0 .. N-1 /\ hits # {}
      BY DEF Hits
    <2> HIDE DEF hits
    <2> QED
      BY <2>1, MinIs
  <1>5. Mod!Passed(m, h, n) = Before(h, n, N) /\ (p => Pow2!Impl!Passed(m, h, n) = Before(h, n, N))
    BY <1>4, PassedIsBefore
  <1> DEFINE c == Cell(h, n, N)
             Y == [d \in DOMAIN m.chns |-> IF d \in Before(h, n, N) THEN m.chns[d] - 1
                                                                ELSE m.chns[d]]
  <1>6. new = SetSlot(m, c, Mod!NotBusy, Y)
    <2>1. SetSlot(m, c, Mod!NotBusy, Y) = [cell |-> [m.cell EXCEPT ![c] = Mod!NotBusy], chns |-> Y]
      <3> HIDE DEF m, c, Y
      <3> QED
        BY <1>1, SetSlotFields
    <2> QED
      BY <2>1, Zenon DEF EraseAt
  <1>H. \A d : /\ Mod!Hit(m, mem, key, d) <=> Holds(m, mem, key, d)
               /\ Pow2!Impl!Hit(m, mem, key, d) <=> Holds(m, mem, key, d)
    BY DEF Mod!Hit, Mod!SameHash, Pow2!Impl!Hit, Pow2!Impl!SameHash,
           Holds, Pow2!Impl!NotBusy, Mod!NotBusy
  <1> HIDE DEF m, new, hits, n
  <1>7. ASSUME ~ p PROVE impl_erase(t, mem, key) = [impl |-> new, pow2 |-> p]
    <2>1. {k \in Mod!Steps(m) : Mod!Hit(m, mem, key, Mod!Probe(m, h, k))} = hits
      BY <1>1, <1>2, <1>H DEF hits, Hits
    <2>2. Mod!Probe(m, h, n) = c
      BY <1>2, <1>4
    <2>3. Mod!SubChain(m, Before(h, n, N)) = Y
      BY Zenon DEF Mod!SubChain
    <2>4. Mod!map_impl_erase(m, mem, key)
            = IF hits = {} THEN [m EXCEPT !.chns = Mod!SubChain(m, DOMAIN m.chns)]
              ELSE SetSlot(m, Mod!Probe(m, h, Mod!Min(hits)), Mod!NotBusy,
                           Mod!SubChain(m, Mod!Passed(m, h, Mod!Min(hits))))
      BY <2>1, Zenon DEF Mod!map_impl_erase, Mod!find_key_remove_chain, SetSlot
    <2>5. Mod!map_impl_erase(m, mem, key) = new
      BY <1>4, <1>5, <1>6, <2>2, <2>3, <2>4, Zenon
    <2>6. impl_erase(t, mem, key) = WithImpl(t, Mod!map_impl_erase(m, mem, key))
      BY <1>1, <1>7, SetImpl, Zenon DEF impl_erase, WithImpl
    <2>7. WithImpl(t, new) = [impl |-> new, pow2 |-> p]
      BY <1>1, WithImplIs
    <2> QED
      BY <2>5, <2>6, <2>7, Zenon
  <1>8. ASSUME p PROVE impl_erase(t, mem, key) = [impl |-> new, pow2 |-> p]
    <2>1. {k \in Pow2!Impl!Steps(m) : Pow2!Impl!Hit(m, mem, key, Pow2!Impl!Probe(m, h, k))} = hits
      BY <1>1, <1>3, <1>8, <1>H DEF hits, Hits
    <2>2. Pow2!Impl!Probe(m, h, n) = c
      BY <1>3, <1>4, <1>8
    <2>3. Pow2!Impl!SubChain(m, Before(h, n, N)) = Y
      BY Zenon DEF Pow2!Impl!SubChain
    <2>B. Pow2!Impl!NotBusy = Mod!NotBusy
      BY DEF Pow2!Impl!NotBusy, Mod!NotBusy
    <2>4. Pow2!map_impl_erase(m, mem, key)
            = IF hits = {} THEN [m EXCEPT !.chns = Pow2!Impl!SubChain(m, DOMAIN m.chns)]
              ELSE SetSlot(m, Pow2!Impl!Probe(m, h, Pow2!Impl!Min(hits)), Pow2!Impl!NotBusy,
                           Pow2!Impl!SubChain(m, Pow2!Impl!Passed(m, h, Pow2!Impl!Min(hits))))
      BY <2>1, Zenon DEF Pow2!map_impl_erase, Pow2!find_key_remove_chain,
                         Pow2!Impl!find_key_remove_chain, SetSlot
    <2>5. Pow2!map_impl_erase(m, mem, key) = new
      BY <1>4, <1>5, <1>6, <1>8, <2>2, <2>3, <2>4, <2>B, Zenon
    <2>6. impl_erase(t, mem, key) = WithImpl(t, Pow2!map_impl_erase(m, mem, key))
      BY <1>1, <1>8, SetImpl, Zenon DEF impl_erase, WithImpl
    <2>7. WithImpl(t, new) = [impl |-> new, pow2 |-> p]
      BY <1>1, WithImplIs
    <2> QED
      BY <2>5, <2>6, <2>7, Zenon
  <1> QED
    BY <1>1, <1>7, <1>8 DEF m, new, hits, n

-----------------------------------------------------------------------------
(***************************************************************************)
(* What a table refers to.                                                 *)
(***************************************************************************)

\* The cells that hold a reference.
Busy(m, N) == {d \in 0 .. N-1 : m.cell[d] # Mod!NotBusy}

\* The cells a search passes on its way to the reference in d.
Way(m, d, N) == Before(m.cell[d].hash, Away(m.cell[d].hash, d, N), N)

\* The references a search passes c for.
Over(m, c, N) == {d \in Busy(m, N) : c \in Way(m, d, N)}

\* Each index used is referred to by one cell, under the hash of its key, and
\* no two have the same key.
Refers(m, N, mem, used) ==
  /\ used \subseteq 0 .. N-1
  /\ \A d \in Busy(m, N) : /\ m.cell[d].keyp = m.cell[d].val /\ m.cell[d].val \in used
                           /\ m.cell[d].hash = mem[m.cell[d].val].hash
  /\ \A d, e \in Busy(m, N) : m.cell[d].val = m.cell[e].val => d = e
  /\ \A i \in used : \E d \in Busy(m, N) : m.cell[d].val = i
  /\ \A i, j \in used : mem[i] = mem[j] => i = j

\* The chain counters are exact.
Counted(m, N) == \A c \in 0 .. N-1 : m.chns[c] = Cardinality(Over(m, c, N))

\* A table that refers to the indices used.
Stores(t, N, p, mem, used) ==
  Table(t, N, p) /\ Refers(t.impl, N, mem, used) /\ Counted(t.impl, N)

\* What a busy cell holds.
LEMMA BusyCell ==
  ASSUME NEW t, NEW N, NEW p, Table(t, N, p), NEW d \in Busy(t.impl, N)
  PROVE  /\ N \in Nat \ {0} /\ d \in 0 .. N-1
         /\ t.impl.cell[d] \in Slot(N) /\ t.impl.cell[d].hash \in Hashes
         /\ t.impl.cell[d].hash \in Nat
         /\ Away(t.impl.cell[d].hash, d, N) \in 0 .. N-1
         /\ Cell(t.impl.cell[d].hash, Away(t.impl.cell[d].hash, d, N), N) = d
  <1>1. d \in 0 .. N-1 /\ t.impl.cell[d] # Mod!NotBusy /\ N \in Nat \ {0}
    BY DEF Busy, Table
  <1>2. t.impl.cell[d] \in Slot(N)
    BY <1>1 DEF Table
  <1>3. t.impl.cell[d].hash \in Hashes /\ t.impl.cell[d].hash \in Nat
    BY <1>2 DEF Slot, Hashes
  <1> QED
    BY <1>1, <1>2, <1>3, AwayFacts

\* The references over a cell are finitely many.
LEMMA OverFinite ==
  ASSUME NEW m, NEW N \in Nat, NEW c
  PROVE  /\ IsFiniteSet(Over(m, c, N)) /\ IsFiniteSet(Busy(m, N))
         /\ Cardinality(Over(m, c, N)) \in Nat
  <1>1. IsFiniteSet(0 .. N-1)
    BY FS_Interval
  <1>2. Over(m, c, N) \in SUBSET (0 .. N-1) /\ Busy(m, N) \in SUBSET (0 .. N-1)
    BY DEF Over, Busy
  <1>3. IsFiniteSet(Over(m, c, N)) /\ IsFiniteSet(Busy(m, N))
    BY <1>1, <1>2, FS_Subset
  <1> QED
    BY <1>3, FS_CardinalityType

\* A lookup finds the index used whose key it is.
LEMMA GetFinds ==
  ASSUME NEW t, NEW N, NEW p, NEW mem, NEW used, Stores(t, N, p, mem, used),
         NEW key, key.hash \in Hashes
  PROVE  /\ \A i \in used : mem[i] = key => impl_get(t, mem, key) = i
         /\ (\A i \in used : mem[i] # key) => impl_get(t, mem, key) = Mod!NotFound
  <1> DEFINE m == t.impl  h == key.hash  ends == SearchEnds(m, mem, key, N)  n == Min(ends)
  <1>1. /\ Table(t, N, p) /\ Refers(m, N, mem, used) /\ Counted(m, N)
        /\ N \in Nat \ {0} /\ h \in Nat
    BY DEF Stores, Table, Hashes
  <1>2. impl_get(t, mem, key)
          = LET c == Found(m, mem, key, N)
            IN  IF c = Mod!NotFound THEN Mod!NotFound ELSE m.cell[c].val
    BY <1>1, GetIs
  <1>3. Found(m, mem, key, N)
          = IF ends # {} /\ Holds(m, mem, key, Cell(h, n, N)) THEN Cell(h, n, N) ELSE Mod!NotFound
    BY Zenon DEF Found
  <1>4. ends \subseteq 0 .. N-1 /\ (ends # {} => n \in ends /\ \A x \in ends : n <= x)
    <2>1. ends \subseteq Nat /\ ends \subseteq 0 .. N-1
      BY DEF SearchEnds
    <2> HIDE DEF ends
    <2> QED
      BY <2>1, MinIs
  <1>5. \A k \in 0 .. N-1 : Cell(h, k, N) \in 0 .. N-1
    BY <1>1, CellFacts
  <1> HIDE DEF n
  <1>6. ASSUME NEW c \in 0 .. N-1, Holds(m, mem, key, c)
        PROVE  /\ c \in Busy(m, N) /\ m.cell[c].val \in used /\ mem[m.cell[c].val] = key
               /\ c # Mod!NotFound
    <2>1. c \in Busy(m, N) /\ mem[m.cell[c].keyp] = key
      BY <1>6 DEF Holds, Busy
    <2> QED
      BY <1>1, <2>1 DEF Refers, Mod!NotFound
  <1>7. ASSUME NEW i \in used, mem[i] = key PROVE impl_get(t, mem, key) = i
    <2>1. PICK d \in Busy(m, N) : m.cell[d].val = i
      BY <1>1 DEF Refers
    <2>2. m.cell[d].hash = h /\ Holds(m, mem, key, d) /\ d \in 0 .. N-1
      BY <1>1, <1>7, <2>1 DEF Refers, Holds, Busy
    <2> DEFINE a == Away(h, d, N)
    <2>3. a \in 0 .. N-1 /\ Cell(h, a, N) = d
      BY <1>1, <2>2, AwayFacts
    <2> HIDE DEF a
    <2>4. a \in ends
      BY <2>2, <2>3 DEF SearchEnds
    <2>5. n \in ends /\ n <= a /\ n \in 0 .. N-1
      BY <1>4, <2>4
    <2> DEFINE c == Cell(h, n, N)
    <2>6. c \in 0 .. N-1
      BY <1>5, <2>5
    <2>7. Holds(m, mem, key, c)
      <3> SUFFICES ASSUME ~ Holds(m, mem, key, c) PROVE FALSE
        OBVIOUS
      <3>1. m.chns[c] = 0
        BY <2>5 DEF SearchEnds, Ends
      <3>2. n # a
        BY <2>2, <2>3
      <3>3. n \in 0 .. a-1
        BY <2>3, <2>5, <3>2
      <3>4. c \in Before(h, a, N)
        BY <3>3 DEF Before
      <3>5. d \in Over(m, c, N)
        BY <2>1, <2>2, <3>4 DEF Over, Way, a
      <3>6. Cardinality(Over(m, c, N)) # 0
        BY <1>1, <3>5, OverFinite, FS_EmptySet
      <3> QED
        BY <1>1, <2>6, <3>1, <3>6 DEF Counted
    <2>8. Found(m, mem, key, N) = c
      BY <1>3, <2>5, <2>7
    <2>9. c # Mod!NotFound /\ m.cell[c].val \in used /\ mem[m.cell[c].val] = key
      BY <1>6, <2>6, <2>7
    <2>10. m.cell[c].val = i
      <3>1. \A j \in used : mem[i] = mem[j] => i = j
        BY <1>1 DEF Refers
      <3> QED
        BY <1>7, <2>9, <3>1
    <2> QED
      BY <1>2, <2>8, <2>9, <2>10
  <1>8. ASSUME \A i \in used : mem[i] # key PROVE impl_get(t, mem, key) = Mod!NotFound
    <2>1. \A k \in 0 .. N-1 : ~ Holds(m, mem, key, Cell(h, k, N))
      BY <1>5, <1>6, <1>8
    <2>2. Found(m, mem, key, N) = Mod!NotFound
      BY <1>3, <1>4, <2>1
    <2> QED
      BY <1>2, <2>2
  <1> QED
    BY <1>7, <1>8

-----------------------------------------------------------------------------
\* A new table refers to nothing.
LEMMA InitStores ==
  ASSUME NEW N \in Nat \ {0}, NEW p \in BOOLEAN, ~ CapacityRefused(p, N), NEW mem
  PROVE  Stores(impl_init(p, N), N, p, mem, {})
  <1> DEFINE t == impl_init(p, N)
             m == [cell |-> [c \in 0 .. N-1 |-> Mod!NotBusy], chns |-> [c \in 0 .. N-1 |-> 0]]
  <1>1. Mod!map_impl_init(N) = m
    BY DEF Mod!map_impl_init
  <1>2. Pow2!map_impl_init(N) = m
    BY Zenon DEF Pow2!map_impl_init, Pow2!Impl!map_impl_init, Mod!NotBusy, Pow2!Impl!NotBusy
  <1>3. t = [impl |-> m, pow2 |-> p]
    BY <1>1, <1>2, Zenon DEF impl_init
  <1>4. m.cell = [c \in 0 .. N-1 |-> Mod!NotBusy] /\ m.chns = [c \in 0 .. N-1 |-> 0]
    OBVIOUS
  <1>5. t.impl = m /\ t.pow2 = p
    BY <1>3
  <1> HIDE DEF t
  <1>6. Table(t, N, p)
    <2>1. /\ m.cell \in [0 .. N-1 -> Slot(N) \union {Mod!NotBusy}]
          /\ m.chns \in [0 .. N-1 -> Int]
      BY <1>4
    <2>2. m = [cell |-> m.cell, chns |-> m.chns]
      OBVIOUS
    <2> HIDE DEF m
    <2> QED
      BY <1>3, <1>5, <2>1, <2>2 DEF Table
  <1>7. Busy(m, N) = {}
    BY <1>4 DEF Busy
  <1>8. \A c : Over(m, c, N) = {}
    BY <1>7 DEF Over
  <1>9. Counted(m, N)
    BY <1>4, <1>8, FS_EmptySet DEF Counted
  <1>10. Refers(m, N, mem, {})
    BY <1>7 DEF Refers
  <1> QED
    BY <1>5, <1>6, <1>9, <1>10 DEF Stores, t

\* The busy cells are as many as the indices used.
LEMMA SizeIs ==
  ASSUME NEW t, NEW N, NEW p, NEW mem, NEW used, Stores(t, N, p, mem, used)
  PROVE  /\ impl_size(t) = Cardinality(used) /\ IsFiniteSet(used)
         /\ Cardinality(Busy(t.impl, N)) = Cardinality(used)
  <1> DEFINE m == t.impl  B == Busy(m, N)
             g == [d \in B |-> m.cell[d].val]
  <1>1. /\ Table(t, N, p) /\ Refers(m, N, mem, used) /\ N \in Nat \ {0} /\ p \in BOOLEAN
        /\ DOMAIN m.cell = 0 .. N-1 /\ t = [impl |-> m, pow2 |-> p]
    BY DEF Stores, Table
  <1>2. g \in Bijection(B, used)
    <2>1. g \in [B -> used]
      BY <1>1 DEF Refers
    <2>2. \A d, e \in B : g[d] = g[e] => d = e
      BY <1>1 DEF Refers
    <2>3. \A i \in used : \E d \in B : g[d] = i
      BY <1>1 DEF Refers
    <2> HIDE DEF g, B
    <2> QED
      BY <2>1, <2>2, <2>3 DEF Bijection, Injection, Surjection, IsInjective
  <1>3. IsFiniteSet(B)
    BY <1>1, OverFinite
  <1>4. ExistsBijection(B, used)
    BY <1>2 DEF ExistsBijection
  <1>5. IsFiniteSet(used) /\ Cardinality(used) = Cardinality(B)
    BY <1>3, <1>4, FS_Bijection
  <1>6. {c \in DOMAIN m.cell : m.cell[c] # Mod!NotBusy} = B
    BY <1>1 DEF Busy
  <1> HIDE DEF B
  <1>7. Mod!map_impl_size(m) = Cardinality(B)
    BY <1>6, Zenon DEF Mod!map_impl_size, Mod!Cardinality, Cardinality
  <1>8. Pow2!map_impl_size(m) = Cardinality(B)
    <2>1. Pow2!Impl!NotBusy = Mod!NotBusy
      BY DEF Pow2!Impl!NotBusy, Mod!NotBusy
    <2> QED
      BY <1>6, <2>1, Zenon DEF Pow2!map_impl_size, Pow2!Impl!map_impl_size,
                               Pow2!Impl!Cardinality, Cardinality
  <1>9. impl_size(t) = Cardinality(B)
    BY <1>7, <1>8, Zenon DEF impl_size
  <1> QED
    BY <1>5, <1>9 DEF B

\* The chain counters are exact as each build states it.
LEMMA ChainsAreExact ==
  ASSUME NEW t, NEW N, NEW p, NEW mem, NEW used, Stores(t, N, p, mem, used)
  PROVE  ChainsExact(t)
  <1> DEFINE m == t.impl
  <1>1. /\ Table(t, N, p) /\ Counted(m, N) /\ N \in Nat \ {0} /\ p \in BOOLEAN
        /\ DOMAIN m.cell = 0 .. N-1 /\ t.pow2 = p
        /\ Mod!Steps(m) = 0 .. N-1 /\ Pow2!Impl!Steps(m) = 0 .. N-1
    BY TableCapacity DEF Stores, Table
  <1>2. Pow2!Impl!NotBusy = Mod!NotBusy
    BY DEF Pow2!Impl!NotBusy, Mod!NotBusy
  <1>3. ASSUME NEW d \in Busy(m, N)
        PROVE  /\ Mod!Passed(m, m.cell[d].hash, Mod!Distance(m, d)) = Way(m, d, N)
               /\ p => Pow2!Impl!Passed(m, m.cell[d].hash, Pow2!Impl!Distance(m, d)) = Way(m, d, N)
    <2> DEFINE h == m.cell[d].hash
    <2>1. h \in Hashes /\ h \in Nat /\ Away(h, d, N) \in 0 .. N-1
      BY <1>1, BusyCell
    <2>2. \A k \in 0 .. N-1 : Mod!Probe(m, h, k) = Cell(h, k, N)
      BY <1>1, <2>1, ProbeIsCell
    <2>3. ASSUME p PROVE \A k \in 0 .. N-1 : Pow2!Impl!Probe(m, h, k) = Cell(h, k, N)
      BY <1>1, <2>1, <2>3, ProbeIsCell
    <2>4. \A k : k \in Mod!Steps(m) /\ Mod!Probe(m, h, k) = d
                   <=> k \in 0 .. N-1 /\ Cell(h, k, N) = d
      BY <1>1, <2>2
    <2>5. ASSUME p
          PROVE  \A k : k \in Pow2!Impl!Steps(m) /\ Pow2!Impl!Probe(m, h, k) = d
                          <=> k \in 0 .. N-1 /\ Cell(h, k, N) = d
      BY <1>1, <2>3, <2>5
    <2>6. Mod!Distance(m, d) = Away(h, d, N)
      BY <2>4, Zenon DEF Mod!Distance, Away
    <2>7. ASSUME p PROVE Pow2!Impl!Distance(m, d) = Away(h, d, N)
      BY <2>5, <2>7, Zenon DEF Pow2!Impl!Distance, Away
    <2>8. Mod!Passed(m, h, Away(h, d, N)) = Way(m, d, N)
      BY <1>1, <2>1, PassedIsBefore DEF Way
    <2>9. ASSUME p PROVE Pow2!Impl!Passed(m, h, Away(h, d, N)) = Way(m, d, N)
      BY <1>1, <2>1, <2>9, PassedIsBefore DEF Way
    <2> QED
      BY <2>6, <2>7, <2>8, <2>9, Zenon
  <1> DEFINE X(c) == {d \in DOMAIN m.cell :
                        /\ m.cell[d] # Mod!NotBusy
                        /\ c \in Mod!Passed(m, m.cell[d].hash, Mod!Distance(m, d))}
             Y(c) == {d \in DOMAIN m.cell :
                        /\ m.cell[d] # Pow2!Impl!NotBusy
                        /\ c \in Pow2!Impl!Passed(m, m.cell[d].hash, Pow2!Impl!Distance(m, d))}
  <1>4. \A c : X(c) = Over(m, c, N)
    BY <1>1, <1>3 DEF Over, Busy
  <1>5. p => \A c : Y(c) = Over(m, c, N)
    BY <1>1, <1>2, <1>3 DEF Over, Busy
  <1>6. Mod!ChainsExact(m)
    <2>1. \A c \in DOMAIN m.cell : m.chns[c] = Cardinality(X(c))
      BY <1>1, <1>4 DEF Counted
    <2> QED
      BY <2>1, Zenon DEF Mod!ChainsExact, Mod!Cardinality, Cardinality
  <1>7. p => Pow2!Impl!ChainsExact(m)
    <2>1. p => \A c \in DOMAIN m.cell : m.chns[c] = Cardinality(Y(c))
      BY <1>1, <1>5 DEF Counted
    <2> QED
      BY <2>1, Zenon DEF Pow2!Impl!ChainsExact, Pow2!Impl!Cardinality, Cardinality
  <1> QED
    BY <1>1, <1>6, <1>7, Zenon DEF ChainsExact

-----------------------------------------------------------------------------
\* There is a gap while an index is unused.
LEMMA GapWhileUnused ==
  ASSUME NEW t, NEW N, NEW p, NEW mem, NEW used, Stores(t, N, p, mem, used),
         NEW i \in 0 .. N-1, i \notin used, NEW h \in Hashes
  PROVE  Gaps(t.impl, h, N) # {}
  <1> DEFINE m == t.impl
  <1>1. /\ N \in Nat \ {0} /\ h \in Nat /\ used \subseteq 0 .. N-1
    BY DEF Stores, Table, Refers, Hashes
  <1>2. Cardinality(Busy(m, N)) = Cardinality(used)
    BY SizeIs
  <1>3. IsFiniteSet(0 .. N-1)
    BY <1>1, FS_Interval
  <1>4. used \in SUBSET (0 .. N-1) /\ used # 0 .. N-1
    BY <1>1
  <1>5. Cardinality(used) # Cardinality(0 .. N-1)
    BY <1>3, <1>4, FS_Subset
  <1>6. Busy(m, N) # 0 .. N-1
    BY <1>2, <1>5
  <1>7. PICK c \in 0 .. N-1 : m.cell[c] = Mod!NotBusy
    BY <1>6 DEF Busy
  <1>8. PICK n \in 0 .. N-1 : Cell(h, n, N) = c
    BY <1>1, CellFacts
  <1> QED
    BY <1>7, <1>8 DEF Gaps

\* The cells of a table after a put.
LEMMA PutCells ==
  ASSUME NEW t, NEW N, NEW p, Table(t, N, p), NEW key, key.hash \in Hashes, NEW i \in 0 .. N-1,
         NEW n \in Gaps(t.impl, key.hash, N)
  PROVE  LET m == t.impl
             c == Cell(key.hash, n, N)
             new == PutAt(m, key, i, n, N)
         IN  /\ c \in 0 .. N-1 /\ c \notin Busy(m, N) /\ Busy(new, N) = Busy(m, N) \union {c}
             /\ new.cell[c] = [keyp |-> i, hash |-> key.hash, val |-> i]
             /\ \A d \in Busy(m, N) : new.cell[d] = m.cell[d]
             /\ \A d \in 0 .. N-1 :
                  new.chns[d] = IF d \in Way(new, c, N) THEN m.chns[d] + 1 ELSE m.chns[d]
             /\ Table([impl |-> new, pow2 |-> p], N, p)
  <1> DEFINE m == t.impl  c == Cell(key.hash, n, N)  new == PutAt(m, key, i, n, N)
             x == [keyp |-> i, hash |-> key.hash, val |-> i]
             X == [d \in DOMAIN m.chns |-> IF d \in Before(key.hash, n, N) THEN m.chns[d] + 1
                                                                            ELSE m.chns[d]]
  <1>1. /\ N \in Nat \ {0} /\ key.hash \in Nat /\ n \in 0 .. N-1 /\ m.cell[c] = Mod!NotBusy
        /\ m.cell \in [0 .. N-1 -> Slot(N) \union {Mod!NotBusy}]
        /\ m.chns \in [0 .. N-1 -> Int]
        /\ p \in BOOLEAN /\ ~ CapacityRefused(p, N)
    BY DEF Table, Gaps, Hashes
  <1>2. c \in 0 .. N-1 /\ Away(key.hash, c, N) = n
    <2>1. c \in 0 .. N-1
      BY <1>1, CellFacts
    <2> QED
      BY <1>1, <2>1, AwayFacts
  <1>3. new.cell = [m.cell EXCEPT ![c] = x] /\ new.chns = X
    BY DEF PutAt
  <1>4. new = [cell |-> new.cell, chns |-> new.chns]
    BY DEF PutAt
  <1>5. x \in Slot(N) /\ x # Mod!NotBusy /\ x.hash = key.hash
    BY <1>1 DEF Slot, Mod!NotBusy
  <1> HIDE DEF new, x, c
  <1>6. new.cell[c] = x /\ \A d \in 0 .. N-1 : d # c => new.cell[d] = m.cell[d]
    BY <1>1, <1>2, <1>3
  <1>7. c \notin Busy(m, N)
    BY <1>1 DEF Busy
  <1>8. Busy(new, N) = Busy(m, N) \union {c}
    BY <1>2, <1>5, <1>6 DEF Busy
  <1>9. \A d \in Busy(m, N) : new.cell[d] = m.cell[d]
    BY <1>6, <1>7 DEF Busy
  <1>10. Way(new, c, N) = Before(key.hash, n, N)
    BY <1>2, <1>5, <1>6 DEF Way
  <1>11. \A d \in 0 .. N-1 :
           new.chns[d] = IF d \in Way(new, c, N) THEN m.chns[d] + 1 ELSE m.chns[d]
    BY <1>1, <1>3, <1>10
  <1>12. /\ new.cell \in [0 .. N-1 -> Slot(N) \union {Mod!NotBusy}]
         /\ new.chns \in [0 .. N-1 -> Int]
    <2>1. [m.cell EXCEPT ![c] = x] \in [0 .. N-1 -> Slot(N) \union {Mod!NotBusy}]
      BY <1>1, <1>2, <1>5
    <2>2. X \in [0 .. N-1 -> Int]
      <3>1. DOMAIN m.chns = 0 .. N-1 /\ \A d \in 0 .. N-1 : m.chns[d] \in Int
        BY <1>1
      <3> HIDE DEF m
      <3> QED
        BY <3>1
    <2> QED
      BY <1>3, <2>1, <2>2, Zenon
  <1>13. Table([impl |-> new, pow2 |-> p], N, p)
    <2> DEFINE t2 == [impl |-> new, pow2 |-> p]
    <2>1. t2.impl = new /\ t2 = [impl |-> new, pow2 |-> p]
      OBVIOUS
    <2> HIDE DEF t2
    <2>2. t2 = [impl |-> t2.impl, pow2 |-> p]
      BY <2>1, Zenon
    <2>3. t2.impl = [cell |-> t2.impl.cell, chns |-> t2.impl.chns]
      BY <1>4, <2>1, Zenon
    <2>4. Table(t2, N, p)
      BY <1>1, <1>12, <2>1, <2>2, <2>3, Zenon DEF Table
    <2> QED
      BY <2>4 DEF t2
  <1> QED
    BY <1>2, <1>6, <1>7, <1>8, <1>9, <1>11, <1>13 DEF new, c, x

\* A key is put under an index that is not used.
LEMMA PutStores ==
  ASSUME NEW t, NEW N, NEW p, NEW mem, NEW used, Stores(t, N, p, mem, used),
         NEW key, key.hash \in Hashes, \A j \in used : mem[j] # key,
         NEW i \in 0 .. N-1, i \notin used,
         NEW mem2, mem2[i] = key, \A j \in used : mem2[j] = mem[j]
  PROVE  Stores(impl_put(t, key, i, i), N, p, mem2, used \union {i})
  <1> DEFINE m == t.impl  gaps == Gaps(m, key.hash, N)  n == Min(gaps)
             c == Cell(key.hash, n, N)  new == PutAt(m, key, i, n, N)
             x == [keyp |-> i, hash |-> key.hash, val |-> i]
             t2 == [impl |-> new, pow2 |-> p]
  <1>1. Table(t, N, p) /\ Refers(m, N, mem, used) /\ Counted(m, N) /\ N \in Nat \ {0}
    BY DEF Stores, Table
  <1>2. gaps # {}
    BY GapWhileUnused
  <1>3. impl_put(t, key, i, i) = t2
    <2>1. impl_put(t, key, i, i)
            = [impl |-> PutAt(t.impl, key, i, Min(Gaps(t.impl, key.hash, N)), N), pow2 |-> p]
      BY <1>1, <1>2, PutIs
    <2> QED
      BY <2>1, Zenon
  <1>4. n \in gaps
    <2>1. gaps \subseteq Nat
      BY DEF Gaps
    <2> HIDE DEF gaps
    <2> QED
      BY <1>2, <2>1, MinIs
  <1> HIDE DEF n
  <1>5. /\ c \in 0 .. N-1 /\ c \notin Busy(m, N) /\ Busy(new, N) = Busy(m, N) \union {c}
        /\ new.cell[c] = x
        /\ \A d \in Busy(m, N) : new.cell[d] = m.cell[d]
        /\ \A d \in 0 .. N-1 :
             new.chns[d] = IF d \in Way(new, c, N) THEN m.chns[d] + 1 ELSE m.chns[d]
        /\ Table(t2, N, p)
    BY <1>1, <1>4, PutCells
  <1>6. x.keyp = i /\ x.val = i /\ x.hash = key.hash
    OBVIOUS
  <1>7. t2.impl = new
    OBVIOUS
  <1> HIDE DEF new, c, x, m, t2
  <1>8. Refers(new, N, mem2, used \union {i})
    <2>1. used \union {i} \subseteq 0 .. N-1
      BY <1>1 DEF Refers
    <2>2. \A d \in Busy(m, N) : /\ new.cell[d].keyp = new.cell[d].val /\ new.cell[d].val \in used
                                /\ new.cell[d].hash = mem2[new.cell[d].val].hash
      BY <1>1, <1>5 DEF Refers
    <2>3. \A d, e \in Busy(m, N) : new.cell[d].val = new.cell[e].val => d = e
      BY <1>1, <1>5 DEF Refers
    <2>4. new.cell[c].keyp = i /\ new.cell[c].val = i /\ new.cell[c].hash = mem2[i].hash
      BY <1>5, <1>6
    <2>5. \A k \in used : \E d \in Busy(m, N) : new.cell[d].val = k
      BY <1>1, <1>5 DEF Refers
    <2>6. \A j, k \in used : mem2[j] = mem2[k] => j = k
      BY <1>1 DEF Refers
    <2>7. \A j \in used : mem2[j] # mem2[i]
      OBVIOUS
    <2> QED
      BY <1>5, <2>1, <2>2, <2>3, <2>4, <2>5, <2>6, <2>7 DEF Refers
  <1>9. Counted(new, N)
    <2> SUFFICES ASSUME NEW d \in 0 .. N-1
                 PROVE  new.chns[d] = Cardinality(Over(new, d, N))
      BY DEF Counted
    <2>1. \A e \in Busy(m, N) : Way(new, e, N) = Way(m, e, N)
      BY <1>5 DEF Way
    <2>2. m.chns[d] = Cardinality(Over(m, d, N)) /\ c \notin Over(m, d, N)
      BY <1>1, <1>5 DEF Counted, Over
    <2>3. IsFiniteSet(Over(m, d, N))
      BY <1>1, OverFinite
    <2>4. CASE d \in Way(new, c, N)
      <3>1. Over(new, d, N) = Over(m, d, N) \union {c}
        BY <1>5, <2>1, <2>4 DEF Over
      <3>2. Cardinality(Over(new, d, N)) = Cardinality(Over(m, d, N)) + 1
        BY <2>2, <2>3, <3>1, FS_AddElement
      <3> QED
        BY <1>5, <2>2, <2>4, <3>2
    <2>5. CASE d \notin Way(new, c, N)
      <3>1. Over(new, d, N) = Over(m, d, N)
        BY <1>5, <2>1, <2>5 DEF Over
      <3> QED
        BY <1>5, <2>2, <2>5, <3>1
    <2> QED
      BY <2>4, <2>5
  <1> QED
    BY <1>3, <1>5, <1>7, <1>8, <1>9, Zenon DEF Stores

-----------------------------------------------------------------------------
\* The cells of a table after an erasure.
LEMMA EraseCells ==
  ASSUME NEW t, NEW N, NEW p, Table(t, N, p), NEW key, NEW n \in 0 .. N-1,
         LET c == Cell(key.hash, n, N)
         IN  c \in Busy(t.impl, N) /\ t.impl.cell[c].hash = key.hash
  PROVE  LET m == t.impl
             c == Cell(key.hash, n, N)
             new == EraseAt(m, key, n, N)
         IN  /\ Busy(new, N) = Busy(m, N) \ {c}
             /\ \A d \in Busy(new, N) : new.cell[d] = m.cell[d]
             /\ \A d \in 0 .. N-1 :
                  new.chns[d] = IF d \in Way(m, c, N) THEN m.chns[d] - 1 ELSE m.chns[d]
             /\ Table([impl |-> new, pow2 |-> p], N, p)
  <1> DEFINE m == t.impl  c == Cell(key.hash, n, N)  new == EraseAt(m, key, n, N)
             X == [d \in DOMAIN m.chns |-> IF d \in Before(key.hash, n, N) THEN m.chns[d] - 1
                                                                            ELSE m.chns[d]]
  <1>1. /\ N \in Nat \ {0} /\ key.hash \in Nat
        /\ c \in 0 .. N-1 /\ c \in Busy(m, N) /\ m.cell[c].hash = key.hash
        /\ m.cell \in [0 .. N-1 -> Slot(N) \union {Mod!NotBusy}]
        /\ m.chns \in [0 .. N-1 -> Int]
        /\ p \in BOOLEAN /\ ~ CapacityRefused(p, N)
    BY BusyCell DEF Table
  <1>2. Way(m, c, N) = Before(key.hash, n, N)
    <2>1. Away(key.hash, c, N) = n
      BY <1>1, AwayFacts
    <2> QED
      BY <1>1, <2>1 DEF Way
  <1>3. new.cell = [m.cell EXCEPT ![c] = Mod!NotBusy] /\ new.chns = X
    BY DEF EraseAt
  <1>4. new = [cell |-> new.cell, chns |-> new.chns]
    BY DEF EraseAt
  <1> HIDE DEF new, c
  <1>5. /\ new.cell[c] = Mod!NotBusy
        /\ \A d \in 0 .. N-1 : d # c => new.cell[d] = m.cell[d]
    BY <1>1, <1>3
  <1>6. Busy(new, N) = Busy(m, N) \ {c}
    BY <1>1, <1>5 DEF Busy
  <1>7. \A d \in Busy(new, N) : new.cell[d] = m.cell[d]
    BY <1>5, <1>6 DEF Busy
  <1>8. \A d \in 0 .. N-1 :
          new.chns[d] = IF d \in Way(m, c, N) THEN m.chns[d] - 1 ELSE m.chns[d]
    BY <1>1, <1>2, <1>3
  <1>9. /\ new.cell \in [0 .. N-1 -> Slot(N) \union {Mod!NotBusy}]
        /\ new.chns \in [0 .. N-1 -> Int]
    <2>1. [m.cell EXCEPT ![c] = Mod!NotBusy] \in [0 .. N-1 -> Slot(N) \union {Mod!NotBusy}]
      BY <1>1
    <2>2. X \in [0 .. N-1 -> Int]
      <3>1. DOMAIN m.chns = 0 .. N-1 /\ \A d \in 0 .. N-1 : m.chns[d] \in Int
        BY <1>1
      <3> HIDE DEF m
      <3> QED
        BY <3>1
    <2> QED
      BY <1>3, <2>1, <2>2, Zenon
  <1>10. Table([impl |-> new, pow2 |-> p], N, p)
    <2> DEFINE t2 == [impl |-> new, pow2 |-> p]
    <2>1. t2.impl = new /\ t2 = [impl |-> new, pow2 |-> p]
      OBVIOUS
    <2> HIDE DEF t2
    <2>2. t2 = [impl |-> t2.impl, pow2 |-> p]
      BY <2>1, Zenon
    <2>3. t2.impl = [cell |-> t2.impl.cell, chns |-> t2.impl.chns]
      BY <1>4, <2>1, Zenon
    <2>4. Table(t2, N, p)
      BY <1>1, <1>9, <2>1, <2>2, <2>3, Zenon DEF Table
    <2> QED
      BY <2>4 DEF t2
  <1> QED
    BY <1>6, <1>7, <1>8, <1>10 DEF new, c

\* The key of an index that is used is erased.
LEMMA EraseStores ==
  ASSUME NEW t, NEW N, NEW p, NEW mem, NEW used, Stores(t, N, p, mem, used),
         NEW i \in used, mem[i].hash \in Hashes,
         NEW mem2, \A j \in used \ {i} : mem2[j] = mem[j]
  PROVE  Stores(impl_erase(t, mem, mem[i]), N, p, mem2, used \ {i})
  <1> DEFINE m == t.impl  key == mem[i]  hits == Hits(m, mem, key, N)  n == Min(hits)
             c == Cell(key.hash, n, N)  new == EraseAt(m, key, n, N)
             t2 == [impl |-> new, pow2 |-> p]
  <1>1. /\ Table(t, N, p) /\ Refers(m, N, mem, used) /\ Counted(m, N) /\ N \in Nat \ {0}
        /\ key.hash \in Nat
    BY DEF Stores, Table, Hashes
  <1>2. PICK b \in Busy(m, N) : m.cell[b].val = i
    BY <1>1 DEF Refers
  <1>3. m.cell[b].hash = key.hash /\ Holds(m, mem, key, b) /\ b \in 0 .. N-1
    BY <1>1, <1>2 DEF Refers, Holds, Busy
  <1>4. hits # {}
    <2>1. PICK k \in 0 .. N-1 : Cell(key.hash, k, N) = b
      BY <1>1, <1>3, CellFacts
    <2> QED
      BY <1>3, <2>1 DEF Hits
  <1>5. impl_erase(t, mem, key) = t2
    <2>1. impl_erase(t, mem, key)
            = [impl |-> EraseAt(t.impl, key, Min(Hits(t.impl, mem, key, N)), N), pow2 |-> p]
      BY <1>1, <1>4, EraseIs
    <2> QED
      BY <2>1, Zenon
  <1>6. n \in hits
    <2>1. hits \subseteq Nat
      BY DEF Hits
    <2> HIDE DEF hits
    <2> QED
      BY <1>4, <2>1, MinIs
  <1> HIDE DEF n
  <1>7. n \in 0 .. N-1 /\ c = b
    <2>1. n \in 0 .. N-1 /\ Holds(m, mem, key, c)
      BY <1>6 DEF Hits
    <2>2. c \in 0 .. N-1
      BY <1>1, <2>1, CellFacts
    <2>3. c \in Busy(m, N) /\ mem[m.cell[c].val] = key
      <3>1. c \in Busy(m, N) /\ mem[m.cell[c].keyp] = key
        BY <2>1, <2>2 DEF Holds, Busy
      <3> QED
        BY <1>1, <3>1 DEF Refers
    <2>4. m.cell[c].val = i
      <3>1. \A j, k \in used : mem[j] = mem[k] => j = k
        BY <1>1, Zenon DEF Refers
      <3>2. m.cell[c].val \in used
        BY <1>1, <2>3 DEF Refers
      <3> QED
        BY <2>3, <3>1, <3>2
    <2> QED
      BY <1>1, <1>2, <2>1, <2>3, <2>4 DEF Refers
  <1>8. /\ Busy(new, N) = Busy(m, N) \ {c}
        /\ \A d \in Busy(new, N) : new.cell[d] = m.cell[d]
        /\ \A d \in 0 .. N-1 :
             new.chns[d] = IF d \in Way(m, c, N) THEN m.chns[d] - 1 ELSE m.chns[d]
        /\ Table(t2, N, p)
    <2>1. c \in Busy(m, N) /\ m.cell[c].hash = key.hash /\ n \in 0 .. N-1
      BY <1>2, <1>3, <1>7
    <2> HIDE DEF key
    <2> QED
      BY <1>1, <2>1, EraseCells
  <1>9. t2.impl = new
    OBVIOUS
  <1> HIDE DEF new, m, t2, c
  <1>10. Refers(new, N, mem2, used \ {i})
    <2>1. \A d \in Busy(m, N) \ {c} : new.cell[d] = m.cell[d]
      BY <1>8
    <2>2. \A d \in Busy(m, N) \ {c} : m.cell[d].val # i
      BY <1>1, <1>2, <1>7 DEF Refers
    <2>3. \A d \in Busy(m, N) \ {c} :
            /\ m.cell[d].keyp = m.cell[d].val /\ m.cell[d].val \in used \ {i}
            /\ m.cell[d].hash = mem2[m.cell[d].val].hash
      BY <1>1, <2>2 DEF Refers
    <2>4. \A d, e \in Busy(m, N) \ {c} : m.cell[d].val = m.cell[e].val => d = e
      BY <1>1 DEF Refers
    <2>5. \A k \in used \ {i} : \E d \in Busy(m, N) \ {c} : m.cell[d].val = k
      BY <1>1, <1>2, <1>7 DEF Refers
    <2>6. \A j, k \in used \ {i} : mem2[j] = mem2[k] => j = k
      BY <1>1 DEF Refers
    <2>7. used \ {i} \subseteq 0 .. N-1
      BY <1>1 DEF Refers
    <2> QED
      BY <1>8, <2>1, <2>3, <2>4, <2>5, <2>6, <2>7 DEF Refers
  <1>11. Counted(new, N)
    <2> SUFFICES ASSUME NEW d \in 0 .. N-1
                 PROVE  new.chns[d] = Cardinality(Over(new, d, N))
      BY DEF Counted
    <2>1. \A e \in Busy(new, N) : Way(new, e, N) = Way(m, e, N)
      BY <1>8 DEF Way
    <2>2. m.chns[d] = Cardinality(Over(m, d, N))
      BY <1>1 DEF Counted
    <2>3. IsFiniteSet(Over(m, d, N))
      BY <1>1, OverFinite
    <2>4. Over(new, d, N) = Over(m, d, N) \ {c}
      BY <1>8, <2>1 DEF Over
    <2>5. c \in Over(m, d, N) <=> d \in Way(m, c, N)
      BY <1>2, <1>7 DEF Over
    <2>6. Cardinality(Over(new, d, N))
            = IF c \in Over(m, d, N) THEN Cardinality(Over(m, d, N)) - 1
                                     ELSE Cardinality(Over(m, d, N))
      BY <2>3, <2>4, FS_RemoveElement
    <2> QED
      BY <1>8, <2>2, <2>5, <2>6
  <1> QED
    BY <1>5, <1>8, <1>9, <1>10, <1>11, Zenon DEF Stores

-----------------------------------------------------------------------------
(***************************************************************************)
(* The list of a chain: the indices in use with their times, in the order  *)
(* of their last use.                                                      *)
(***************************************************************************)

\* An entry of the list, and the list of a ring.
AtTime(k, t) == [index |-> k, time |-> t]
Entries(a, m, T) == [n \in 1 .. m |-> AtTime(a[n] - 2, T[a[n] - 2])]

\* A list without the entry at a position, without those before it, and with
\* one more.
Drop(q, j)  == [n \in 1 .. Len(q)-1 |-> IF n < j THEN q[n] ELSE q[n+1]]
After(q, j) == [n \in 1 .. Len(q)-j |-> q[n+j]]
Plus(q, x)  == [n \in 1 .. Len(q)+1 |-> IF n <= Len(q) THEN q[n] ELSE x]

\* A function on the first numbers is a sequence.
LEMMA SequenceIs ==
  ASSUME NEW S, NEW n \in Nat, NEW q \in [1 .. n -> S]
  PROVE  q \in Seq(S) /\ Len(q) = n
  <1>1. q \in Seq(S)
    BY SeqDef
  <1>2. Len(q) \in Nat /\ 1 .. Len(q) = 1 .. n
    BY <1>1, LenProperties
  <1>3. Len(q) = n
    BY <1>2
  <1> QED
    BY <1>1, <1>3

\* What the links list.
LEMMA ListIs ==
  ASSUME NEW ch, NEW N, NEW a, NEW m, NEW f, NEW r, Threaded(ch, N, a, m, f, r),
         NEW T, T = ch.timestamps
  PROVE  dchain_alist(ch) = Entries(a, m, T)
  <1>1. Round(ch.next, a, m, 0, N)
    <2>1. ch \in Chain(N)
      BY DEF Threaded, Rings
    <2>2. ch.next \in [0 .. N+1 -> 0 .. N+1]
      BY <2>1, ChainRecord
    <2> QED
      BY <2>2 DEF Threaded, Rings, Round
  <1>2. AllocList(ch) = RingCells(a, m)
    BY <1>1, CellsOfRing DEF AllocList, ALLOC_LIST_HEAD
  <1>3. PICK al : al = AllocList(ch)
    OBVIOUS
  <1>4. dchain_alist(ch) = [n \in DOMAIN al |-> [index |-> al[n] - INDEX_SHIFT,
                                                time  |-> ch.timestamps[al[n] - INDEX_SHIFT]]]
    BY <1>3, Zenon DEF dchain_alist
  <1>5. al = [n \in 1 .. m |-> a[n]]
    BY <1>2, <1>3 DEF RingCells
  <1> QED
    BY <1>4, <1>5 DEF Entries, AtTime, INDEX_SHIFT

\* The cells of a ring of m indices with the timestamps T.
Cells(a, m, N, T) ==
  /\ N \in Nat /\ m \in Nat /\ a \in [0 .. m+1 -> 0 .. N+1]
  /\ T \in [0 .. N-1 -> Int]
  /\ \A n \in 1 .. m : a[n] \in 2 .. N+1
  /\ \A i, j \in 1 .. m : a[i] = a[j] => i = j

\* A list of m indices.
IsList(q, m, N) == q \in Seq([index : 0 .. N-1, time : Int]) /\ Len(q) = m

\* The cells of a ring, its timestamps, and its list.
LEMMA RingList ==
  ASSUME NEW ch, NEW N, NEW a, NEW m, NEW f, NEW r, Threaded(ch, N, a, m, f, r),
         NEW T, T = ch.timestamps
  PROVE  /\ Cells(a, m, N, T)
         /\ IsList(Entries(a, m, T), m, N)
  <1>1. /\ N \in Nat /\ ch \in Chain(N) /\ Ring(a, m, 0, N) /\ Ring(f, r, 1, N)
        /\ \A i \in 0 .. m, j \in 0 .. r : a[i] # f[j]
    BY DEF Threaded, Rings
  <1>2. /\ m \in Nat /\ r \in Nat /\ a \in [0 .. m+1 -> 0 .. N+1]
        /\ a[0] = 0 /\ f[0] = 1
        /\ \A i, j \in 0 .. m : a[i] = a[j] => i = j
    BY <1>1 DEF Ring
  <1>3. T \in [0 .. N-1 -> Int]
    BY <1>1, ChainRecord
  <1>4. \A i, j \in 1 .. m : a[i] = a[j] => i = j
    <2>1. \A i \in 1 .. m : i \in 0 .. m
      BY <1>2
    <2> QED
      BY <1>2, <2>1
  <1>5. \A n \in 1 .. m : a[n] \in 2 .. N+1
    <2> SUFFICES ASSUME NEW n \in 1 .. m PROVE a[n] \in 2 .. N+1
      OBVIOUS
    <2>1. n \in 0 .. m /\ 0 \in 0 .. m /\ 0 \in 0 .. r /\ n # 0 /\ n \in 0 .. m+1
      BY <1>2
    <2>2. a[n] # 0 /\ a[n] # 1 /\ a[n] \in 0 .. N+1
      BY <1>1, <1>2, <2>1
    <2> QED
      BY <1>1, <2>2
  <1> DEFINE q == Entries(a, m, T)
  <1>6. ASSUME NEW n \in 1 .. m
        PROVE  AtTime(a[n] - 2, T[a[n] - 2]) \in [index : 0 .. N-1, time : Int]
    <2>1. PICK k : k = a[n] - 2
      OBVIOUS
    <2>2. k \in 0 .. N-1
      BY <1>1, <1>5, <2>1
    <2>3. T[k] \in Int
      BY <1>3, <2>2
    <2> QED
      BY <2>1, <2>2, <2>3 DEF AtTime
  <1>7. q \in [1 .. m -> [index : 0 .. N-1, time : Int]]
    BY <1>6 DEF Entries
  <1> HIDE DEF q
  <1>8. q \in Seq([index : 0 .. N-1, time : Int]) /\ Len(q) = m
    <2>1. \A S : q \in [1 .. m -> S] => q \in Seq(S) /\ Len(q) = m
      BY <1>2, SequenceIs
    <2> QED
      BY <1>7, <2>1, Zenon
  <1> QED
    BY <1>1, <1>2, <1>3, <1>4, <1>5, <1>8 DEF q, Cells, IsList

\* An entry appended.
LEMMA PlusIs ==
  ASSUME NEW S, NEW q \in Seq(S), NEW x \in S
  PROVE  Append(q, x) = Plus(q, x)
  <1>1. /\ Append(q, x) \in Seq(S) /\ Len(q) \in Nat /\ Len(Append(q, x)) = Len(q) + 1
        /\ Append(q, x)[Len(q) + 1] = x
        /\ \A j \in 1 .. Len(q) : Append(q, x)[j] = q[j]
    OBVIOUS
  <1>2. PICK y : y = Append(q, x)
    OBVIOUS
  <1>3. y \in Seq(S) /\ Len(y) = Len(q) + 1
    BY <1>1, <1>2
  <1>5. y \in [1 .. Len(q)+1 -> S]
    BY <1>3, LenProperties
  <1>4. \A n \in 1 .. Len(q)+1 : y[n] = IF n <= Len(q) THEN q[n] ELSE x
    BY <1>1, <1>2
  <1> QED
    BY <1>2, <1>4, <1>5 DEF Plus

\* What a list says of its chain.
Lists(q, ch, N) ==
  /\ N \in Nat /\ q \in Seq([index : 0 .. N-1, time : Int]) /\ Len(q) \in 0 .. N
  /\ \A k \in 0 .. N-1 : dchain_is_index_allocated(ch, k) <=> \E n \in 1 .. Len(q) : q[n].index = k
  /\ \A i, j \in 1 .. Len(q) : q[i].index = q[j].index => i = j
  /\ \A n \in 1 .. Len(q) : q[n].time = ch.timestamps[q[n].index]
  /\ IsEmpty(ch) <=> Len(q) = 0
  /\ Len(q) # 0 => dchain_impl_get_oldest_index(ch) = q[1].index

\* The members of a list, one by one.
LEMMA EntriesAre ==
  ASSUME NEW a, NEW m \in Nat, NEW T, NEW n \in 1 .. m
  PROVE  /\ Entries(a, m, T)[n] = AtTime(a[n] - 2, T[a[n] - 2])
         /\ Entries(a, m, T)[n].index = a[n] - 2
         /\ Entries(a, m, T)[n].time = T[a[n] - 2]
  BY DEF Entries, AtTime

\* A list has one entry for each index in use, oldest first.
LEMMA ListFacts ==
  ASSUME NEW ch, NEW N, Linked(ch, N)
  PROVE  Lists(dchain_alist(ch), ch, N)
  <1>1. PICK a, m, f, r : Threaded(ch, N, a, m, f, r)
    BY DEF Linked
  <1>2. PICK T : T = ch.timestamps
    OBVIOUS
  <1>C. Cells(a, m, N, T)
    BY <1>1, <1>2, RingList, Zenon
  <1>3. /\ N \in Nat /\ m \in Nat /\ a \in [0 .. m+1 -> 0 .. N+1]
        /\ T \in [0 .. N-1 -> Int]
        /\ \A n \in 1 .. m : a[n] \in 2 .. N+1
        /\ \A i, j \in 1 .. m : a[i] = a[j] => i = j
    BY <1>C DEF Cells
  <1>S. /\ Entries(a, m, T) \in Seq([index : 0 .. N-1, time : Int])
        /\ Len(Entries(a, m, T)) = m
    <2>1. IsList(Entries(a, m, T), m, N)
      BY <1>1, <1>2, RingList, Zenon
    <2> QED
      BY <2>1 DEF IsList
  <1>I. \A n \in 1 .. m : a[n] \in Int /\ a[n] - 2 \in 0 .. N-1
    BY <1>3
  <1>4. PICK q : q = Entries(a, m, T)
    OBVIOUS
  <1>5. dchain_alist(ch) = q
    BY <1>1, <1>2, <1>4, ListIs, Zenon
  <1>6. Len(q) = m /\ q \in Seq([index : 0 .. N-1, time : Int])
    BY <1>S, <1>4
  <1>7. \A n \in 1 .. m : q[n].index = a[n] - 2 /\ q[n].time = T[a[n] - 2]
    <2>1. m \in Nat
      BY <1>3
    <2> QED
      BY <1>4, <2>1, EntriesAre, ZenonT(40)
  <1>8. \A k \in 0 .. N-1 : dchain_is_index_allocated(ch, k) <=> \E n \in 1 .. m : q[n].index = k
    <2> SUFFICES ASSUME NEW k \in 0 .. N-1
                 PROVE  dchain_is_index_allocated(ch, k) <=> \E n \in 1 .. m : q[n].index = k
      OBVIOUS
    <2>1. dchain_is_index_allocated(ch, k) <=> \E n \in 1 .. m : a[n] = k + 2
      BY <1>1, AllocatedIsListed
    <2>2. \A n \in 1 .. m : a[n] = k + 2 <=> q[n].index = k
      <3> SUFFICES ASSUME NEW n \in 1 .. m PROVE a[n] = k + 2 <=> q[n].index = k
        OBVIOUS
      <3>1. q[n].index = a[n] - 2 /\ a[n] \in Int
        BY <1>7, <1>I
      <3> QED
        BY <3>1
    <2> QED
      BY <2>1, <2>2
  <1>9. \A i, j \in 1 .. m : q[i].index = q[j].index => i = j
    <2> SUFFICES ASSUME NEW i \in 1 .. m, NEW j \in 1 .. m, q[i].index = q[j].index PROVE i = j
      OBVIOUS
    <2>1. a[i] \in Int /\ a[j] \in Int /\ a[i] - 2 = a[j] - 2
      BY <1>7, <1>I
    <2>2. a[i] = a[j]
      BY <2>1
    <2> QED
      BY <1>3, <2>2
  <1>10. \A n \in 1 .. m : q[n].time = T[q[n].index]
    BY <1>7
  <1>11. m <= N
    <2> DEFINE g == [i \in 1 .. m |-> a[i] - 2]
    <2>1. g \in Injection(1 .. m, 0 .. N-1)
      <3>2. g \in [1 .. m -> 0 .. N-1]
        BY <1>I
      <3>3. ASSUME NEW i \in 1 .. m, NEW j \in 1 .. m, g[i] = g[j] PROVE i = j
        <4>1. a[i] - 2 = a[j] - 2
          BY <3>3
        <4>2. a[i] = a[j]
          BY <4>1, <1>I
        <4> QED
          BY <1>3, <4>2
      <3> QED
        BY <3>2, <3>3 DEF Injection, IsInjective
    <2>2. /\ IsFiniteSet(0 .. N-1) /\ Cardinality(0 .. N-1) = N
          /\ Cardinality(1 .. m) = m
      <3>1. \A i, j \in Int : /\ IsFiniteSet(i .. j)
                             /\ Cardinality(i .. j) = IF i > j THEN 0 ELSE j-i+1
        BY FS_Interval
      <3>2. N-1 \in Int /\ N \in Int /\ m \in Int /\ 0 \in Int /\ 1 \in Int
        BY <1>3
      <3>3. /\ IsFiniteSet(0 .. N-1)
            /\ Cardinality(0 .. N-1) = IF 0 > N-1 THEN 0 ELSE N-1-0+1
            /\ Cardinality(1 .. m) = IF 1 > m THEN 0 ELSE m-1+1
        BY <3>1, <3>2, Zenon
      <3> QED
        BY <1>3, <3>3
    <2> HIDE DEF g
    <2>3. Cardinality(1 .. m) <= Cardinality(0 .. N-1)
      BY <2>1, <2>2, FS_Injection
    <2> QED
      BY <2>2, <2>3
  <1>12. ch.next[0] = a[1] /\ a[m+1] = 0
    <2>1. a[0] = 0 /\ a[m+1] = 0 /\ ch.next[a[0]] = a[0+1]
      <3>1. 0 \in 0 .. m
        BY <1>3
      <3> QED
        BY <1>1, <3>1 DEF Threaded, Rings, Ring
    <2> QED
      BY <2>1
  <1>13. IsEmpty(ch) <=> m = 0
    <2>1. CASE m = 0
      BY <1>12, <2>1 DEF IsEmpty, ALLOC_LIST_HEAD
    <2>2. CASE m # 0
      <3>1. a[1] \in 2 .. N+1
        BY <1>3, <2>2
      <3> QED
        BY <1>3, <1>12, <2>2, <3>1 DEF IsEmpty, ALLOC_LIST_HEAD
    <2> QED
      BY <2>1, <2>2
  <1>14. m # 0 => dchain_impl_get_oldest_index(ch) = q[1].index
    <2>1. SUFFICES ASSUME m # 0 PROVE dchain_impl_get_oldest_index(ch) = q[1].index
      OBVIOUS
    <2>2. 1 \in 1 .. m
      BY <1>3, <2>1
    <2>3. q[1].index = a[1] - 2
      BY <1>7, <2>2, Zenon
    <2>4. ch.next[0] = a[1]
      BY <1>12
    <2> QED
      BY <2>3, <2>4 DEF dchain_impl_get_oldest_index, ALLOC_LIST_HEAD, INDEX_SHIFT
  <1> QED
    BY <1>2, <1>3, <1>5, <1>6, <1>8, <1>9, <1>10, <1>11, <1>13, <1>14 DEF Lists

\* A list has as many members as its ring.
LEMMA EntriesLen ==
  ASSUME NEW a, NEW m \in Nat, NEW T
  PROVE  Len(Entries(a, m, T)) = m
  <1> DEFINE q == Entries(a, m, T)  S == {q[n] : n \in 1 .. m}
  <1>1. q \in [1 .. m -> S]
    BY DEF Entries
  <1> QED
    BY <1>1, SequenceIs, Zenon

\* q is the list of the ring, and that of the chain.
EntriesOf(a, m, T, q) == Entries(a, m, T) = q
AlistOf(ch, q) == dchain_alist(ch) = q

\* The cell c of the index e is none of the ring's.
Apart(a, m, N, e, c) ==
  /\ e \in 0 .. N-1 /\ c = e + 2
  /\ \A n \in 1 .. m : a[n] \in 2 .. N+1 /\ a[n] # c

\* The entry of a cell added at the end of a ring comes last.
LEMMA EndEntries ==
  ASSUME NEW N \in Nat, NEW m \in Nat, NEW a \in [0 .. m+1 -> 0 .. N+1],
         NEW T \in [0 .. N-1 -> Int], NEW e, NEW c, Apart(a, m, N, e, c), NEW time
  PROVE  EntriesOf(AtEnd(a, m, c), m+1, Stamps(T, e, time),
                   Plus(Entries(a, m, T), AtTime(e, time)))
  <1>A. /\ e \in 0 .. N-1 /\ c = e + 2
        /\ \A n \in 1 .. m : a[n] \in 2 .. N+1 /\ a[n] # c
    BY DEF Apart
  <1>1. PICK b, q, S : b = AtEnd(a, m, c) /\ q = Entries(a, m, T) /\ S = Stamps(T, e, time)
    OBVIOUS
  <1>2. \A n \in 1 .. m : b[n] = a[n]
    BY <1>1 DEF AtEnd
  <1>3. b[m+1] = c
    BY <1>1 DEF AtEnd
  <1>4. S[e] = time /\ \A k \in 0 .. N-1 : k # e => S[k] = T[k]
    BY <1>1, <1>A DEF Stamps
  <1>5. ASSUME NEW n \in 1 .. m
        PROVE  AtTime(b[n] - 2, S[b[n] - 2]) = q[n]
    <2>1. PICK k : k = a[n] - 2
      OBVIOUS
    <2>2. a[n] \in 2 .. N+1 /\ a[n] # c
      BY <1>A
    <2>3. k \in Int /\ a[n] = k + 2
      BY <2>1, <2>2
    <2>4. k \in 0 .. N-1 /\ k # e
      BY <1>A, <2>2, <2>3
    <2>5. q[n] = AtTime(k, T[k])
      BY <1>1, <2>1, EntriesAre, Zenon
    <2> QED
      BY <1>2, <1>4, <2>1, <2>4, <2>5
  <1>6. AtTime(b[m+1] - 2, S[b[m+1] - 2]) = AtTime(e, time)
    BY <1>3, <1>4, <1>A
  <1>7. \A n \in 1 .. m+1 : AtTime(b[n] - 2, S[b[n] - 2]) = IF n <= m THEN q[n] ELSE AtTime(e, time)
    <2>1. \A n \in 1 .. m+1 : (n \in 1 .. m /\ n <= m) \/ (n = m+1 /\ ~ (n <= m))
      OBVIOUS
    <2> QED
      BY <1>5, <1>6, <2>1
  <1>8. Len(q) = m
    BY <1>1, EntriesLen
  <1>9. Entries(b, m+1, S) = Plus(q, AtTime(e, time))
    BY <1>7, <1>8 DEF Entries, Plus
  <1> QED
    BY <1>1, <1>9, Zenon DEF EntriesOf

\* The entry of a cell taken off a ring is dropped.
LEMMA WithoutEntries ==
  ASSUME NEW N \in Nat, NEW m \in Nat, NEW a \in [0 .. m+1 -> 0 .. N+1], NEW T, NEW j \in 1 .. m
  PROVE  EntriesOf(Without(a, m, j), m-1, T, Drop(Entries(a, m, T), j))
  <1>1. PICK b, q : b = Without(a, m, j) /\ q = Entries(a, m, T)
    OBVIOUS
  <1>2. \A n \in 1 .. m-1 : b[n] = IF n < j THEN a[n] ELSE a[n+1]
    BY <1>1 DEF Without
  <1>3. ASSUME NEW n \in 1 .. m-1
        PROVE  AtTime(b[n] - 2, T[b[n] - 2]) = IF n < j THEN q[n] ELSE q[n+1]
    <2>1. n \in 1 .. m /\ n+1 \in 1 .. m
      OBVIOUS
    <2>2. q[n] = AtTime(a[n] - 2, T[a[n] - 2]) /\ q[n+1] = AtTime(a[n+1] - 2, T[a[n+1] - 2])
      BY <1>1, <2>1, EntriesAre, ZenonT(40)
    <2> QED
      BY <1>2, <2>2
  <1>4. Len(q) = m
    BY <1>1, EntriesLen
  <1>5. Entries(b, m-1, T) = Drop(q, j)
    BY <1>3, <1>4 DEF Entries, Drop
  <1> QED
    BY <1>1, <1>5, Zenon DEF EntriesOf

\* A new index comes last.
LEMMA AllocateAlist ==
  ASSUME NEW ch, NEW N, Linked(ch, N), ~ OutOfSpace(ch), NEW time \in Int
  PROVE  /\ AlistOf(dchain_allocate_new_index(ch, time),
                    Plus(dchain_alist(ch), AtTime(NewIndex(ch), time)))
         /\ Len(dchain_alist(ch)) < N
  <1>1. PICK a, m, f, r : Threaded(ch, N, a, m, f, r)
    BY DEF Linked
  <1>2. PICK T : T = ch.timestamps
    OBVIOUS
  <1>3. PICK e : e = NewIndex(ch)
    OBVIOUS
  <1>4. PICK c : c = f[1]
    OBVIOUS
  <1>5. PICK new : new = dchain_allocate_new_index(ch, time)
    OBVIOUS
  <1>C. Cells(a, m, N, T)
    BY <1>1, <1>2, RingList, Zenon
  <1>6. /\ N \in Nat /\ m \in Nat /\ a \in [0 .. m+1 -> 0 .. N+1]
        /\ T \in [0 .. N-1 -> Int]
        /\ \A n \in 1 .. m : a[n] \in 2 .. N+1
    BY <1>C DEF Cells
  <1>L. Len(Entries(a, m, T)) = m
    <2>1. IsList(Entries(a, m, T), m, N)
      BY <1>1, <1>2, RingList, Zenon
    <2> QED
      BY <2>1 DEF IsList
  <1>7. /\ r > 0 /\ c \in 2 .. N+1 /\ e = c - 2 /\ e \in 0 .. N-1
        /\ Threaded(new, N, AtEnd(a, m, c), m+1, Without(f, r, 1), r-1)
        /\ new.timestamps = Stamps(T, e, time)
    BY <1>1, <1>2, <1>3, <1>4, <1>5, AllocateRings, Zenon
  <1>8. dchain_alist(new) = Entries(AtEnd(a, m, c), m+1, Stamps(T, e, time))
    BY <1>7, ListIs, Zenon
  <1>9. dchain_alist(ch) = Entries(a, m, T)
    BY <1>1, <1>2, ListIs, Zenon
  <1>M. m \in Nat
    BY <1>6
  <1>10. \A n \in 1 .. m : a[n] # c
    <2>1. \A i \in 0 .. m, j \in 0 .. r : a[i] # f[j]
      BY <1>1 DEF Threaded, Rings
    <2>2. r \in Nat
      BY <1>1 DEF Threaded, Rings, Ring
    <2>3. 1 \in 0 .. r /\ \A n \in 1 .. m : n \in 0 .. m
      BY <1>6, <1>7, <2>2
    <2> QED
      BY <1>4, <2>1, <2>3
  <1>11. EntriesOf(AtEnd(a, m, c), m+1, Stamps(T, e, time), Plus(Entries(a, m, T), AtTime(e, time)))
    <2>1. Apart(a, m, N, e, c)
      BY <1>6, <1>7, <1>10 DEF Apart
    <2>2. /\ N \in Nat /\ m \in Nat /\ a \in [0 .. m+1 -> 0 .. N+1] /\ T \in [0 .. N-1 -> Int]
      BY <1>6
    <2> QED
      BY <2>1, <2>2, EndEntries, Zenon
  <1>12. m < N
    <2>1. Lists(dchain_alist(ch), ch, N) /\ Lists(dchain_alist(new), new, N)
      <3>1. Linked(new, N)
        BY <1>7, Zenon DEF Linked
      <3> QED
        BY <3>1, ListFacts
    <2>2. Len(dchain_alist(new)) = m+1
      <3>1. Len(Entries(AtEnd(a, m, c), m+1, Stamps(T, e, time))) = m+1
        <4>1. /\ Threaded(new, N, AtEnd(a, m, c), m+1, Without(f, r, 1), r-1)
              /\ Stamps(T, e, time) = new.timestamps
          BY <1>7
        <4>2. IsList(Entries(AtEnd(a, m, c), m+1, Stamps(T, e, time)), m+1, N)
          BY <4>1, RingList, Zenon
        <4> QED
          BY <4>2 DEF IsList
      <3> QED
        BY <1>8, <3>1
    <2> QED
      BY <1>6, <2>1, <2>2 DEF Lists
  <1> QED
    <2>1. AlistOf(new, Plus(dchain_alist(ch), AtTime(e, time)))
      BY <1>8, <1>9, <1>11, Zenon DEF AlistOf, EntriesOf
    <2>2. Len(dchain_alist(ch)) < N
      BY <1>L, <1>9, <1>12
    <2> QED
      BY <1>3, <1>5, <2>1, <2>2, Zenon

\* The j-th of a list is index k; the j-th cell of a ring is that of index k.
IsAt(q, k, j) == j \in 1 .. Len(q) /\ q[j].index = k
OnRing(a, m, k, j) == j \in 1 .. m /\ a[j] = k + 2

\* The position of an index in use on the ring is its position in the list.
LEMMA ListedAt ==
  ASSUME NEW ch, NEW N, NEW a, NEW m, NEW f, NEW r, Threaded(ch, N, a, m, f, r),
         NEW j, NEW k \in 0 .. N-1, IsAt(dchain_alist(ch), k, j)
  PROVE  OnRing(a, m, k, j)
  <1>1. PICK T : T = ch.timestamps
    OBVIOUS
  <1>2. Cells(a, m, N, T) /\ dchain_alist(ch) = Entries(a, m, T)
    BY <1>1, RingList, ListIs, Zenon
  <1>3. m \in Nat /\ \A n \in 1 .. m : a[n] \in 2 .. N+1
    BY <1>2 DEF Cells
  <1>4. j \in 1 .. m
    BY <1>2, <1>3, EntriesLen DEF IsAt
  <1>5. Entries(a, m, T)[j].index = a[j] - 2
    BY <1>3, <1>4, EntriesAre, Zenon
  <1>6. a[j] \in Int /\ a[j] - 2 = k
    BY <1>2, <1>3, <1>4, <1>5 DEF IsAt
  <1> QED
    BY <1>4, <1>6 DEF OnRing

\* An index released leaves the list.
LEMMA FreeAlist ==
  ASSUME NEW ch, NEW N, Linked(ch, N), NEW k \in 0 .. N-1,
         NEW j, IsAt(dchain_alist(ch), k, j)
  PROVE  AlistOf(dchain_free_index(ch, k), Drop(dchain_alist(ch), j))
  <1>1. PICK a, m, f, r : Threaded(ch, N, a, m, f, r)
    BY DEF Linked
  <1>2. PICK T : T = ch.timestamps
    OBVIOUS
  <1>3. Cells(a, m, N, T) /\ dchain_alist(ch) = Entries(a, m, T)
    BY <1>1, <1>2, RingList, ListIs, Zenon
  <1>4. j \in 1 .. m /\ a[j] = k + 2
    <2>1. OnRing(a, m, k, j)
      BY <1>1, ListedAt, Zenon
    <2> QED
      BY <2>1 DEF OnRing
  <1>5. PICK new : new = dchain_free_index(ch, k)
    OBVIOUS
  <1>6. Threaded(new, N, Without(a, m, j), m-1, AtFront(f, r, k + 2), r+1) /\ T = new.timestamps
    <2>1. /\ Threaded(dchain_free_index(ch, k), N,
                     Without(a, m, j), m-1, AtFront(f, r, k + 2), r+1)
          /\ dchain_free_index(ch, k).timestamps = ch.timestamps
      BY <1>1, <1>4, FreeRings
    <2> QED
      BY <1>2, <1>5, <2>1, Zenon
  <1>7. dchain_alist(new) = Entries(Without(a, m, j), m-1, T)
    BY <1>6, ListIs, Zenon
  <1>8. N \in Nat /\ m \in Nat /\ a \in [0 .. m+1 -> 0 .. N+1]
    BY <1>3 DEF Cells
  <1>9. EntriesOf(Without(a, m, j), m-1, T, Drop(Entries(a, m, T), j))
    <2>1. N \in Nat /\ m \in Nat /\ a \in [0 .. m+1 -> 0 .. N+1] /\ j \in 1 .. m
      BY <1>4, <1>8
    <2> QED
      BY <2>1, WithoutEntries, Zenon
  <1> QED
    BY <1>3, <1>5, <1>7, <1>9, Zenon DEF AlistOf, EntriesOf

\* An index used again moves to the end.
LEMMA RejuvenateAlist ==
  ASSUME NEW ch, NEW N, Linked(ch, N), NEW k \in 0 .. N-1,
         NEW j, IsAt(dchain_alist(ch), k, j), NEW time \in Int
  PROVE  AlistOf(dchain_rejuvenate_index(ch, k, time),
                 Plus(Drop(dchain_alist(ch), j), AtTime(k, time)))
  <1>1. PICK a, m, f, r : Threaded(ch, N, a, m, f, r)
    BY DEF Linked
  <1>2. PICK T : T = ch.timestamps
    OBVIOUS
  <1>3. Cells(a, m, N, T) /\ dchain_alist(ch) = Entries(a, m, T)
    BY <1>1, <1>2, RingList, ListIs, Zenon
  <1>4. j \in 1 .. m /\ a[j] = k + 2
    <2>1. OnRing(a, m, k, j)
      BY <1>1, ListedAt, Zenon
    <2> QED
      BY <2>1 DEF OnRing
  <1>5. PICK new : new = dchain_rejuvenate_index(ch, k, time)
    OBVIOUS
  <1>6. /\ Threaded(new, N, AtEnd(Without(a, m, j), m-1, k + 2), m, f, r)
        /\ Stamps(T, k, time) = new.timestamps
    <2>1. /\ Threaded(dchain_rejuvenate_index(ch, k, time), N,
                     AtEnd(Without(a, m, j), m-1, k + 2), m, f, r)
          /\ dchain_rejuvenate_index(ch, k, time).timestamps = Stamps(ch.timestamps, k, time)
      BY <1>1, <1>4, RejuvenateRings
    <2> QED
      BY <1>2, <1>5, <2>1
  <1>7. dchain_alist(new) = Entries(AtEnd(Without(a, m, j), m-1, k + 2), m, Stamps(T, k, time))
    BY <1>6, ListIs, Zenon
  <1>8. /\ N \in Nat /\ m \in Nat /\ a \in [0 .. m+1 -> 0 .. N+1] /\ T \in [0 .. N-1 -> Int]
        /\ \A n \in 1 .. m : a[n] \in 2 .. N+1
        /\ \A i, n \in 1 .. m : a[i] = a[n] => i = n
    BY <1>3 DEF Cells
  <1>9. EntriesOf(Without(a, m, j), m-1, T, Drop(Entries(a, m, T), j))
    <2>1. N \in Nat /\ m \in Nat /\ a \in [0 .. m+1 -> 0 .. N+1] /\ j \in 1 .. m
      BY <1>4, <1>8
    <2> QED
      BY <2>1, WithoutEntries, Zenon
  <1>10. PICK w, p : w = Without(a, m, j) /\ p = m-1
    OBVIOUS
  <1>11. p \in Nat /\ p+1 = m
    BY <1>4, <1>8, <1>10
  <1>12. \A n \in 1 .. p : w[n] \in 2 .. N+1 /\ w[n] # k + 2
    <2> SUFFICES ASSUME NEW n \in 1 .. p PROVE w[n] \in 2 .. N+1 /\ w[n] # k + 2
      OBVIOUS
    <2>1. n \in 1 .. m /\ n+1 \in 1 .. m /\ n \in 0 .. m
      BY <1>11
    <2>2. w[n] = IF n < j THEN a[n] ELSE a[n+1]
      BY <1>10, <2>1 DEF Without
    <2>3. n < j => a[n] # a[j]
      BY <1>4, <1>8, <2>1
    <2>4. ~ (n < j) => a[n+1] # a[j]
      <3>1. ~ (n < j) => n+1 # j
        BY <1>4, <1>8
      <3> QED
        BY <1>4, <1>8, <2>1, <3>1
    <2>5. a[n] \in 2 .. N+1 /\ a[n+1] \in 2 .. N+1
      BY <1>8, <2>1
    <2> QED
      BY <1>4, <2>2, <2>3, <2>4, <2>5
  <1>13. w \in [0 .. p+1 -> 0 .. N+1]
    <2>1. w = [n \in 0 .. m |-> IF n < j THEN a[n] ELSE a[n+1]]
      BY <1>10 DEF Without
    <2>2. \A n \in 0 .. m : a[n] \in 0 .. N+1 /\ a[n+1] \in 0 .. N+1
      BY <1>8
    <2> QED
      BY <1>11, <2>1, <2>2
  <1>14. EntriesOf(AtEnd(w, p, k + 2), p+1, Stamps(T, k, time),
                   Plus(Entries(w, p, T), AtTime(k, time)))
    <2>1. Apart(w, p, N, k, k + 2)
      BY <1>12 DEF Apart
    <2>2. /\ N \in Nat /\ p \in Nat /\ w \in [0 .. p+1 -> 0 .. N+1] /\ T \in [0 .. N-1 -> Int]
      BY <1>8, <1>11, <1>13
    <2> QED
      BY <2>1, <2>2, EndEntries, Zenon
  <1>15. dchain_alist(new) = Plus(Entries(w, p, T), AtTime(k, time))
    BY <1>7, <1>10, <1>11, <1>14, Zenon DEF EntriesOf
  <1>16. Entries(w, p, T) = Drop(dchain_alist(ch), j)
    BY <1>3, <1>9, <1>10, Zenon DEF EntriesOf
  <1> QED
    BY <1>5, <1>15, <1>16, Zenon DEF AlistOf

\* The member of a set that a rank belongs to.
LEMMA AscendingIs ==
  ASSUME NEW S, S \subseteq Nat, IsFiniteSet(S), NEW n \in 1 .. Cardinality(S), NEW x \in S,
         Rank(S, x) = n-1
  PROVE  Ascending(S)[n] = x
  <1>1. /\ Ascending(S)[n] \in S /\ Rank(S, Ascending(S)[n]) = n-1
    <2>1. /\ Ascending(S) \in [1 .. Cardinality(S) -> S]
          /\ \A i \in 1 .. Cardinality(S) : Rank(S, Ascending(S)[i]) = i-1
      BY AscendingFacts, Zenon
    <2> QED
      BY <2>1
  <1>2. \A y, z \in S : Rank(S, y) = Rank(S, z) => y = z
    BY RankFacts, Zenon
  <1> QED
    BY <1>1, <1>2

\* Intervals of numbers.
LEMMA IntervalSize ==
  ASSUME NEW i \in Int, NEW j \in Int, i <= j+1
  PROVE  IsFiniteSet(i .. j) /\ Cardinality(i .. j) = j-i+1
  <1>1. IsFiniteSet(i .. j) /\ Cardinality(i .. j) = IF i > j THEN 0 ELSE j-i+1
    BY FS_Interval
  <1> QED
    BY <1>1

\* What is kept but for one position.
LEMMA KeptWithout ==
  ASSUME NEW q, NEW L \in Nat, Len(q) = L, NEW j \in 1 .. L, NEW S, S = (1 .. L) \ {j}
  PROVE  Selected(q, S) = Drop(q, j)
  <1>1. IsFiniteSet(1 .. L) /\ Cardinality(1 .. L) = L
    BY IntervalSize
  <1>2. S \subseteq Nat /\ IsFiniteSet(S) /\ Cardinality(S) = L-1
    <2>1. IsFiniteSet(S) /\ Cardinality(S) = L-1
      BY <1>1, FS_RemoveElement
    <2> QED
      BY <2>1
  <1>3. ASSUME NEW n \in 1 .. L-1
        PROVE  Ascending(S)[n] = IF n < j THEN n ELSE n+1
    <2>1. CASE n < j
      <3>1. {o \in S : o < n} = 1 .. n-1
        BY <2>1
      <3>2. Cardinality(1 .. n-1) = n-1
        BY IntervalSize
      <3>3. Rank(S, n) = n-1
        BY <3>1, <3>2 DEF Rank
      <3>4. n \in S
        BY <2>1
      <3> QED
        BY <1>2, <2>1, <3>3, <3>4, AscendingIs
    <2>2. CASE ~ (n < j)
      <3>1. {o \in S : o < n+1} = (1 .. n) \ {j}
        BY <2>2
      <3>2. IsFiniteSet(1 .. n) /\ Cardinality(1 .. n) = n /\ j \in 1 .. n
        BY <2>2, IntervalSize
      <3>3. Cardinality((1 .. n) \ {j}) = n-1
        BY <3>2, FS_RemoveElement
      <3>4. Rank(S, n+1) = n-1
        BY <3>1, <3>3, Zenon DEF Rank
      <3>5. n+1 \in S
        BY <2>2
      <3> QED
        BY <1>2, <2>2, <3>4, <3>5, AscendingIs
    <2> QED
      BY <2>1, <2>2
  <1>4. \A n \in 1 .. L-1 : q[Ascending(S)[n]] = IF n < j THEN q[n] ELSE q[n+1]
    BY <1>3
  <1> QED
    BY <1>2, <1>4 DEF Selected, Drop

\* What is kept from a position on.
LEMMA KeptAfter ==
  ASSUME NEW q, NEW L \in Nat, Len(q) = L, NEW k \in 0 .. L, NEW S, S = k+1 .. L
  PROVE  Selected(q, S) = After(q, k)
  <1>1. S \subseteq Nat /\ IsFiniteSet(S) /\ Cardinality(S) = L-k
    BY IntervalSize
  <1>2. ASSUME NEW n \in 1 .. L-k
        PROVE  Ascending(S)[n] = n+k
    <2>1. {o \in S : o < n+k} = k+1 .. n+k-1
      OBVIOUS
    <2>2. Cardinality(k+1 .. n+k-1) = n-1
      BY IntervalSize
    <2>3. Rank(S, n+k) = n-1
      BY <2>1, <2>2, Zenon DEF Rank
    <2>4. n+k \in S /\ n \in 1 .. Cardinality(S)
      BY <1>1
    <2> QED
      BY <1>1, <2>3, <2>4, AscendingIs
  <1>3. \A n \in 1 .. L-k : q[Ascending(S)[n]] = q[n+k]
    BY <1>2
  <1> QED
    BY <1>1, <1>3 DEF Selected, After

\* The times of a list ascend, up to t.
InOrder(q, t) ==
  /\ \A n \in 1 .. Len(q) : q[n].time <= t
  /\ \A i, j \in 1 .. Len(q) : i <= j => q[i].time <= q[j].time

\* The entries of a list whose index is another one.
Others(q, k) == Selected(q, {n \in DOMAIN q : q[n].index # k})

\* A list of entries, spelled out.
EntryList(q) ==
  /\ Len(q) \in Nat /\ DOMAIN q = 1 .. Len(q)
  /\ \A n \in 1 .. Len(q) : q[n].time \in Int

\* The list of a chain is one.
LEMMA AlistTyped ==
  ASSUME NEW ch, NEW N, Linked(ch, N)
  PROVE  EntryList(dchain_alist(ch)) /\ dchain_alist(ch) \in Seq([index : 0 .. N-1, time : Int])
  <1>1. PICK q : q = dchain_alist(ch)
    OBVIOUS
  <1>2. Lists(q, ch, N)
    BY <1>1, ListFacts, Zenon
  <1>3. q \in Seq([index : 0 .. N-1, time : Int])
    BY <1>2 DEF Lists
  <1>4. Len(q) \in Nat /\ DOMAIN q = 1 .. Len(q)
    BY <1>3
  <1>5. \A n \in 1 .. Len(q) : q[n] \in [index : 0 .. N-1, time : Int]
    BY <1>3, ElementOfSeq
  <1> QED
    BY <1>1, <1>3, <1>4, <1>5 DEF EntryList

\* Without one entry the order is the same.
LEMMA DropOrder ==
  ASSUME NEW q, EntryList(q), NEW j \in 1 .. Len(q), NEW t, InOrder(q, t)
  PROVE  InOrder(Drop(q, j), t) /\ EntryList(Drop(q, j)) /\ Len(Drop(q, j)) = Len(q) - 1
  <1>1. PICK p, L : p = Drop(q, j) /\ L = Len(q)
    OBVIOUS
  <1>2. L \in Nat /\ \A n \in 1 .. L : q[n].time \in Int
    BY <1>1 DEF EntryList
  <1>3. p = [n \in 1 .. L-1 |-> IF n < j THEN q[n] ELSE q[n+1]]
    BY <1>1 DEF Drop
  <1>4. Len(p) = L-1
    <2> DEFINE S == {p[n] : n \in 1 .. L-1}
    <2>1. L-1 \in Nat /\ p \in [1 .. L-1 -> S]
      BY <1>1, <1>2, <1>3
    <2> QED
      BY <2>1, SequenceIs, Zenon
  <1>5. \A n \in 1 .. L-1 : \E i \in 1 .. L : p[n] = q[i] /\ i = IF n < j THEN n ELSE n+1
    BY <1>1, <1>2, <1>3
  <1>6. /\ \A n \in 1 .. L : q[n].time <= t
        /\ \A i, k \in 1 .. L : i <= k => q[i].time <= q[k].time
    BY <1>1 DEF InOrder
  <1>7. \A n \in 1 .. L-1 : p[n].time <= t /\ p[n].time \in Int
    BY <1>2, <1>5, <1>6
  <1>8. ASSUME NEW i \in 1 .. L-1, NEW k \in 1 .. L-1, i <= k
        PROVE  p[i].time <= p[k].time
    <2>1. PICK x \in 1 .. L : p[i] = q[x] /\ x = IF i < j THEN i ELSE i+1
      BY <1>5
    <2>2. PICK y \in 1 .. L : p[k] = q[y] /\ y = IF k < j THEN k ELSE k+1
      BY <1>5
    <2>3. x <= y
      BY <1>1, <1>8, <2>1, <2>2
    <2> QED
      BY <1>6, <2>1, <2>2, <2>3
  <1>9. DOMAIN p = 1 .. L-1
    BY <1>3
  <1>10. InOrder(p, t)
    BY <1>4, <1>7, <1>8, Zenon DEF InOrder
  <1>11. EntryList(p)
    <2>1. L-1 \in Nat
      BY <1>1, <1>2
    <2> QED
      BY <1>4, <1>7, <1>9, <2>1 DEF EntryList
  <1> QED
    BY <1>1, <1>4, <1>10, <1>11

\* The youngest comes last.
LEMMA PlusOrder ==
  ASSUME NEW q, EntryList(q), NEW t \in Int, InOrder(q, t), NEW k
  PROVE  InOrder(Plus(q, AtTime(k, t)), t)
  <1>1. PICK p, L, e : p = Plus(q, e) /\ L = Len(q) /\ e = AtTime(k, t)
    OBVIOUS
  <1>2. L \in Nat /\ \A n \in 1 .. L : q[n].time \in Int
    BY <1>1 DEF EntryList
  <1>3. p = [n \in 1 .. L+1 |-> IF n <= L THEN q[n] ELSE e] /\ e.time = t
    BY <1>1 DEF Plus, AtTime
  <1>4. Len(p) = L+1
    <2> DEFINE S == {p[n] : n \in 1 .. L+1}
    <2>1. L+1 \in Nat /\ p \in [1 .. L+1 -> S]
      BY <1>2, <1>3
    <2> QED
      BY <2>1, SequenceIs, Zenon
  <1>6. /\ \A n \in 1 .. L : q[n].time <= t
        /\ \A i, j \in 1 .. L : i <= j => q[i].time <= q[j].time
    BY <1>1 DEF InOrder
  <1>7. \A n \in 1 .. L+1 : p[n].time = IF n <= L THEN q[n].time ELSE t
    BY <1>3
  <1>8. \A i, j \in 1 .. L+1 : i <= j => p[i].time <= p[j].time
    <2> SUFFICES ASSUME NEW i \in 1 .. L+1, NEW j \in 1 .. L+1, i <= j
                 PROVE  p[i].time <= p[j].time
      OBVIOUS
    <2>1. CASE j <= L
      <3>1. i \in 1 .. L /\ j \in 1 .. L
        BY <1>2, <2>1
      <3> QED
        BY <1>6, <1>7, <3>1
    <2>2. CASE ~ (j <= L) /\ i <= L
      <3>1. i \in 1 .. L
        BY <1>2, <2>2
      <3> QED
        BY <1>6, <1>7, <2>2, <3>1
    <2>3. CASE ~ (j <= L) /\ ~ (i <= L)
      BY <1>7, <2>3
    <2> QED
      BY <2>1, <2>2, <2>3
  <1>9. \A n \in 1 .. L+1 : p[n].time <= t
    <2>1. \A n \in 1 .. L+1 : n <= L => n \in 1 .. L
      BY <1>2
    <2> QED
      BY <1>6, <1>7, <2>1
  <1> QED
    BY <1>1, <1>4, <1>8, <1>9, Zenon DEF InOrder

\* An index in use is in the list once.
LEMMA PositionOf ==
  ASSUME NEW ch, NEW N, Linked(ch, N), NEW k \in 0 .. N-1, dchain_is_index_allocated(ch, k)
  PROVE  \E j : /\ IsAt(dchain_alist(ch), k, j)
                /\ Others(dchain_alist(ch), k) = Drop(dchain_alist(ch), j)
  <1>1. PICK q : q = dchain_alist(ch)
    OBVIOUS
  <1>2. Lists(q, ch, N)
    BY <1>1, ListFacts, Zenon
  <1>3. EntryList(q)
    BY <1>1, AlistTyped, Zenon
  <1>4. PICK j \in 1 .. Len(q) : q[j].index = k
    BY <1>2 DEF Lists
  <1>5. \A i, n \in 1 .. Len(q) : q[i].index = q[n].index => i = n
    BY <1>2 DEF Lists
  <1>6. {n \in DOMAIN q : q[n].index # k} = (1 .. Len(q)) \ {j}
    BY <1>3, <1>4, <1>5 DEF EntryList
  <1>7. Len(q) \in Nat
    BY <1>3 DEF EntryList
  <1>8. Others(q, k) = Drop(q, j)
    <2>1. PICK S : S = (1 .. Len(q)) \ {j}
      OBVIOUS
    <2>2. Selected(q, S) = Drop(q, j)
      BY <1>4, <1>7, <2>1, KeptWithout
    <2> QED
      BY <1>6, <2>1, <2>2, Zenon DEF Others
  <1> QED
    BY <1>1, <1>4, <1>8, Zenon DEF IsAt

\* A list without an entry is a list.
LEMMA DropTyped ==
  ASSUME NEW R, NEW q \in Seq(R), NEW j \in 1 .. Len(q)
  PROVE  Drop(q, j) \in Seq(R)
  <1>1. Len(q)-1 \in Nat /\ \A n \in 1 .. Len(q) : q[n] \in R
    BY ElementOfSeq
  <1>2. Drop(q, j) \in [1 .. Len(q)-1 -> R]
    BY <1>1 DEF Drop
  <1> QED
    BY <1>1, <1>2, SequenceIs, Zenon

\* A new index comes last, with its time.
LEMMA AllocateStep ==
  ASSUME NEW ch, NEW N, Linked(ch, N), ~ OutOfSpace(ch), NEW t \in Int,
         InOrder(dchain_alist(ch), t)
  PROVE  /\ AlistOf(dchain_allocate_new_index(ch, t),
                    Append(dchain_alist(ch), AtTime(NewIndex(ch), t)))
         /\ Len(dchain_alist(ch)) < N
         /\ NewIndex(ch) \in 0 .. N-1
         /\ InOrder(dchain_alist(dchain_allocate_new_index(ch, t)), t)
  <1>1. PICK q, e : q = dchain_alist(ch) /\ e = NewIndex(ch)
    OBVIOUS
  <1>2. EntryList(q) /\ q \in Seq([index : 0 .. N-1, time : Int])
    BY <1>1, AlistTyped, Zenon
  <1>3. AlistOf(dchain_allocate_new_index(ch, t), Plus(q, AtTime(e, t))) /\ Len(q) < N
    BY <1>1, AllocateAlist, Zenon
  <1>4. e \in 0 .. N-1
    BY <1>1, AllocateLinked
  <1>5. AtTime(e, t) \in [index : 0 .. N-1, time : Int]
    BY <1>4 DEF AtTime
  <1>6. Append(q, AtTime(e, t)) = Plus(q, AtTime(e, t))
    BY <1>2, <1>5, PlusIs, Zenon
  <1>7. InOrder(Plus(q, AtTime(e, t)), t)
    BY <1>1, <1>2, PlusOrder, Zenon
  <1> QED
    BY <1>1, <1>3, <1>4, <1>6, <1>7, Zenon DEF AlistOf

\* An index released leaves the list.
LEMMA FreeStep ==
  ASSUME NEW ch, NEW N, Linked(ch, N), NEW k \in 0 .. N-1, dchain_is_index_allocated(ch, k),
         NEW t, InOrder(dchain_alist(ch), t)
  PROVE  /\ AlistOf(dchain_free_index(ch, k), Others(dchain_alist(ch), k))
         /\ InOrder(dchain_alist(dchain_free_index(ch, k)), t)
  <1>1. PICK q : q = dchain_alist(ch)
    OBVIOUS
  <1>2. EntryList(q)
    BY <1>1, AlistTyped, Zenon
  <1>3. PICK j : IsAt(q, k, j) /\ Others(q, k) = Drop(q, j)
    BY <1>1, PositionOf, Zenon
  <1>4. AlistOf(dchain_free_index(ch, k), Drop(q, j))
    BY <1>1, <1>3, FreeAlist, Zenon
  <1>5. InOrder(Drop(q, j), t)
    BY <1>1, <1>2, <1>3, DropOrder, Zenon DEF IsAt
  <1> QED
    BY <1>1, <1>3, <1>4, <1>5, Zenon DEF AlistOf

\* An index used again moves to the end.
LEMMA RejuvenateStep ==
  ASSUME NEW ch, NEW N, Linked(ch, N), NEW k \in 0 .. N-1, dchain_is_index_allocated(ch, k),
         NEW t \in Int, InOrder(dchain_alist(ch), t)
  PROVE  /\ AlistOf(dchain_rejuvenate_index(ch, k, t),
                    Append(Others(dchain_alist(ch), k), AtTime(k, t)))
         /\ InOrder(dchain_alist(dchain_rejuvenate_index(ch, k, t)), t)
  <1>1. PICK q : q = dchain_alist(ch)
    OBVIOUS
  <1>2. EntryList(q) /\ q \in Seq([index : 0 .. N-1, time : Int])
    BY <1>1, AlistTyped, Zenon
  <1>3. PICK j : IsAt(q, k, j) /\ Others(q, k) = Drop(q, j)
    BY <1>1, PositionOf, Zenon
  <1>4. AlistOf(dchain_rejuvenate_index(ch, k, t), Plus(Drop(q, j), AtTime(k, t)))
    BY <1>1, <1>3, RejuvenateAlist, Zenon
  <1>5. InOrder(Drop(q, j), t) /\ EntryList(Drop(q, j))
    BY <1>1, <1>2, <1>3, DropOrder, Zenon DEF IsAt
  <1>6. InOrder(Plus(Drop(q, j), AtTime(k, t)), t)
    BY <1>5, PlusOrder, Zenon
  <1>7. Drop(q, j) \in Seq([index : 0 .. N-1, time : Int])
    BY <1>2, <1>3, DropTyped, Zenon DEF IsAt
  <1>8. AtTime(k, t) \in [index : 0 .. N-1, time : Int]
    BY DEF AtTime
  <1>9. Append(Drop(q, j), AtTime(k, t)) = Plus(Drop(q, j), AtTime(k, t))
    BY <1>7, <1>8, PlusIs, Zenon
  <1> QED
    BY <1>1, <1>3, <1>4, <1>6, <1>9, Zenon DEF AlistOf

\* The oldest index is the first of the list.
LEMMA OldestFirst ==
  ASSUME NEW ch, NEW N, Linked(ch, N), ~ IsEmpty(ch)
  PROVE  /\ IsAt(dchain_alist(ch), dchain_impl_get_oldest_index(ch), 1)
         /\ dchain_impl_get_oldest_index(ch) \in 0 .. N-1
         /\ ch.timestamps[dchain_impl_get_oldest_index(ch)] = dchain_alist(ch)[1].time
  <1>1. PICK q : q = dchain_alist(ch)
    OBVIOUS
  <1>2. Lists(q, ch, N)
    BY <1>1, ListFacts, Zenon
  <1>3. Len(q) \in Nat /\ Len(q) # 0 /\ dchain_impl_get_oldest_index(ch) = q[1].index
    BY <1>2 DEF Lists
  <1>4. 1 \in 1 .. Len(q)
    BY <1>3
  <1>5. q[1].index \in 0 .. N-1 /\ q[1].time = ch.timestamps[q[1].index]
    <2>1. q \in Seq([index : 0 .. N-1, time : Int])
      BY <1>2 DEF Lists
    <2>2. q[1] \in [index : 0 .. N-1, time : Int]
      BY <1>4, <2>1, ElementOfSeq
    <2>3. q[1].time = ch.timestamps[q[1].index]
      BY <1>2, <1>4 DEF Lists
    <2> QED
      BY <2>2, <2>3
  <1> QED
    BY <1>1, <1>3, <1>4, <1>5 DEF IsAt

\* A chain that is not empty has a list that is not.
LEMMA EmptyList ==
  ASSUME NEW ch, NEW N, Linked(ch, N)
  PROVE  IsEmpty(ch) <=> Len(dchain_alist(ch)) = 0
  <1>1. Lists(dchain_alist(ch), ch, N)
    BY ListFacts
  <1> QED
    BY <1>1, Zenon DEF Lists

-----------------------------------------------------------------------------
(***************************************************************************)
(* The memory.                                                             *)
(***************************************************************************)

\* The allocate functions, in the order they are called.
Stages == {"map_allocate", "vector_allocate", "dchain_allocate", "dmap_allocate",
           "ready", "failed"}

\* The functions that have not been called yet.
Later(fn) ==
  CASE fn \in {"map_allocate"} -> {"vector_allocate", "dchain_allocate"}
    [] fn \in {"vector_allocate", "dmap_allocate"} -> {"dchain_allocate"}
    [] OTHER -> {}

\* While a function allocates, the blocks held of it are those it asked for
\* first.
Prefix(fn, n) ==
  /\ n \in 1 .. Len(Blocks(fn))+1
  /\ \A k \in 1 .. Len(Blocks(fn)) : Blocks(fn)[k] \in held <=> k < n

\* The memory invariant: nothing is held of a function to come.
HeldInv ==
  /\ stage \in Stages /\ build \in Builds
  /\ Allocating => \E n : Prefix(stage, n)
  /\ \A fn \in Later(stage) : \A k \in 1 .. Len(Blocks(fn)) : Blocks(fn)[k] \notin held

\* The blocks of a function.
LEMMA BlocksAre ==
  /\ Len(Blocks("map_allocate")) = 6 /\ Len(Blocks("vector_allocate")) = 2
  /\ Len(Blocks("dchain_allocate")) = 3 /\ Len(Blocks("dmap_allocate")) = 12
  /\ Blocks("map_allocate") = map_blocks /\ Blocks("vector_allocate") = vector_blocks
  /\ Blocks("dchain_allocate") = dchain_blocks /\ Blocks("dmap_allocate") = dmap_blocks
  BY DEF Blocks, map_blocks, vector_blocks, dchain_blocks, dmap_blocks

\* No two of them are the same.
LEMMA BlocksDiffer ==
  ASSUME NEW fn \in Stages \ {"ready", "failed"}
  PROVE  /\ Len(Blocks(fn)) \in Nat \ {0}
         /\ \A j, k \in 1 .. Len(Blocks(fn)) : Blocks(fn)[j] = Blocks(fn)[k] => j = k
         /\ \A g \in Later(fn) : \A j \in 1 .. Len(Blocks(fn)), k \in 1 .. Len(Blocks(g)) :
              Blocks(fn)[j] # Blocks(g)[k]
  <1>1. CASE fn = "map_allocate"
    <2>1. \A j \in 1 .. 6 : map_blocks[j] \in {"map", "busybits", "keyps", "khs", "chns", "vals"}
      BY DEF map_blocks
    <2>2. \A j, k \in 1 .. 6 : map_blocks[j] = map_blocks[k] => j = k
      BY DEF map_blocks
    <2>3. \A j \in 1 .. 2 : vector_blocks[j] \in {"vector", "data"}
      BY DEF vector_blocks
    <2>4. \A j \in 1 .. 3 : dchain_blocks[j] \in {"chain", "cells", "timestamps"}
      BY DEF dchain_blocks
    <2>5. Later(fn) = {"vector_allocate", "dchain_allocate"}
      BY <1>1 DEF Later
    <2>6. /\ \A j \in 1 .. 6, k \in 1 .. 2 : map_blocks[j] # vector_blocks[k]
          /\ \A j \in 1 .. 6, k \in 1 .. 3 : map_blocks[j] # dchain_blocks[k]
      BY <2>1, <2>3, <2>4
    <2>7. Blocks(fn) = map_blocks /\ Len(Blocks(fn)) = 6
      BY <1>1, BlocksAre
    <2>8. \A g \in Later(fn) : \A j \in 1 .. 6, k \in 1 .. Len(Blocks(g)) :
            map_blocks[j] # Blocks(g)[k]
      BY <2>5, <2>6, BlocksAre
    <2> QED
      BY <2>2, <2>7, <2>8
  <1>2. CASE fn = "vector_allocate"
    <2>1. \A j \in 1 .. 2 : vector_blocks[j] \in {"vector", "data"}
      BY DEF vector_blocks
    <2>2. \A j, k \in 1 .. 2 : vector_blocks[j] = vector_blocks[k] => j = k
      BY DEF vector_blocks
    <2>3. \A j \in 1 .. 3 : dchain_blocks[j] \in {"chain", "cells", "timestamps"}
      BY DEF dchain_blocks
    <2>4. Later(fn) = {"dchain_allocate"}
      BY <1>2 DEF Later
    <2> QED
      BY <1>2, <2>1, <2>2, <2>3, <2>4, BlocksAre
  <1>3. CASE fn = "dchain_allocate"
    <2>1. \A j, k \in 1 .. 3 : dchain_blocks[j] = dchain_blocks[k] => j = k
      BY DEF dchain_blocks
    <2>2. Later(fn) = {}
      BY <1>3 DEF Later
    <2> QED
      BY <1>3, <2>1, <2>2, BlocksAre
  <1>4. CASE fn = "dmap_allocate"
    <2>1. \A j \in 1 .. 12 : dmap_blocks[j] \in
             {"dmap", "values", "bbs_a", "kps_a", "khs_a", "chns_a", "inds_a",
              "bbs_b", "kps_b", "khs_b", "inds_b", "chns_b"}
      BY DEF dmap_blocks
    <2>2. \A j, k \in 1 .. 12 : dmap_blocks[j] = dmap_blocks[k] => j = k
      BY DEF dmap_blocks
    <2>3. \A j \in 1 .. 3 : dchain_blocks[j] \in {"chain", "cells", "timestamps"}
      BY DEF dchain_blocks
    <2>4. Later(fn) = {"dchain_allocate"}
      BY <1>4 DEF Later
    <2>5. \A j \in 1 .. 12, k \in 1 .. 3 : dmap_blocks[j] # dchain_blocks[k]
      BY <2>1, <2>3
    <2>6. Blocks(fn) = dmap_blocks /\ Len(Blocks(fn)) = 12
      BY <1>4, BlocksAre
    <2>7. \A g \in Later(fn) : \A j \in 1 .. 12, k \in 1 .. Len(Blocks(g)) :
            dmap_blocks[j] # Blocks(g)[k]
      BY <2>4, <2>5, BlocksAre
    <2> QED
      BY <2>2, <2>6, <2>7
  <1> QED
    BY <1>1, <1>2, <1>3, <1>4 DEF Stages

\* What the running function asks for next.
LEMMA NextBlockIs ==
  ASSUME HeldInv, Allocating
  PROVE  Prefix(stage, NextBlock)
  <1>1. stage \in Stages \ {"ready", "failed"}
    BY DEF HeldInv, Allocating
  <1>2. PICK n : Prefix(stage, n)
    BY DEF HeldInv
  <1> QED
    BY <1>2, Zenon DEF NextBlock, Prefix

\* Every step keeps the memory invariant.
LEMMA HeldStep ==
  ASSUME FlowTableAssumption, HeldInv, [Next]_vars
  PROVE  HeldInv'
  <1>1. stage \in Stages /\ build \in Builds
    BY DEF HeldInv
  <1>2. CASE Malloc
    <2>1. Allocating /\ stage \in Stages \ {"ready", "failed"}
      BY <1>1, <1>2 DEF Malloc, Allocating
    <2>2. PICK n : n = NextBlock /\ Prefix(stage, n)
      BY <2>1, NextBlockIs
    <2> DEFINE L == Len(Blocks(stage))  B == Blocks(stage)
    <2>3. /\ n \in 1 .. L /\ held' = held \union {B[n]} /\ stage' = stage /\ build' = build
          /\ L \in Nat
      BY <1>2, <2>1, <2>2, BlocksDiffer DEF Malloc, Prefix
    <2>4. \A k \in 1 .. L : B[k] \in held <=> k < n
      BY <2>2 DEF Prefix
    <2>5. \A j, k \in 1 .. L : B[j] = B[k] => j = k
      BY <2>1, BlocksDiffer
    <2>6. \A k \in 1 .. L : B[k] \in held' <=> k < n+1
      BY <2>3, <2>4, <2>5
    <2>7. Prefix(stage, n+1)'
      BY <2>3, <2>6 DEF Prefix
    <2>8. ASSUME NEW fn \in Later(stage), NEW k \in 1 .. Len(Blocks(fn))
          PROVE  Blocks(fn)[k] \notin held'
      BY <2>1, <2>3, <2>8, BlocksDiffer DEF HeldInv
    <2> QED
      BY <1>1, <2>3, <2>7, <2>8 DEF HeldInv
  <1>3. CASE MallocFails
    <2>1. stage' = "failed" /\ build' = build
      BY <1>3 DEF MallocFails
    <2> QED
      BY <1>1, <2>1 DEF HeldInv, Stages, Allocating, Later
  <1>4. CASE Initialise
    <2>1. held' = held /\ build' = build
      BY <1>4 DEF Initialise
    <2>2. /\ stage \in {"map_allocate", "vector_allocate", "dmap_allocate", "dchain_allocate"}
          /\ stage = "map_allocate" => stage' = "vector_allocate"
          /\ stage \in {"vector_allocate", "dmap_allocate"} => stage' = "dchain_allocate"
          /\ stage = "dchain_allocate" => stage' = "ready"
      BY <1>4 DEF Initialise
    <2>3. \A fn \in Later(stage) : \A k \in 1 .. Len(Blocks(fn)) : Blocks(fn)[k] \notin held
      BY DEF HeldInv
    <2>4. CASE stage = "dchain_allocate"
      BY <1>1, <2>1, <2>2, <2>4 DEF HeldInv, Stages, Allocating, Later
    <2>5. CASE stage # "dchain_allocate"
      <3>1. /\ stage' \in Later(stage) /\ stage' \in Stages \ {"ready", "failed"}
            /\ Later(stage') \subseteq Later(stage)
        BY <2>2, <2>5 DEF Later, Stages
      <3>2. Len(Blocks(stage')) \in Nat
        BY <3>1, BlocksDiffer
      <3>3. Prefix(stage, 1)'
        BY <2>1, <2>3, <3>1, <3>2 DEF Prefix
      <3>4. \A fn \in Later(stage') : \A k \in 1 .. Len(Blocks(fn)) : Blocks(fn)[k] \notin held'
        BY <2>1, <2>3, <3>1
      <3> QED
        BY <1>1, <2>1, <3>1, <3>3, <3>4 DEF HeldInv
    <2> QED
      BY <2>4, <2>5
  <1>5. CASE UNCHANGED <<build, stage, held>>
    BY <1>1, <1>5 DEF HeldInv, Allocating, Prefix
  <1>6. ASSUME ~ Malloc, ~ MallocFails, ~ Initialise PROVE UNCHANGED <<build, stage, held>>
    BY <1>6 DEF Next, GetInternal, AllocateFlow, PutValue, GetExternal, FreeIndex, Expire, Tick,
             Failed, vars
  <1> QED
    BY <1>2, <1>3, <1>4, <1>5, <1>6

\* At the start nothing is held.
LEMMA HeldInit == FlowTableAssumption /\ Init => HeldInv
  <1> SUFFICES ASSUME FlowTableAssumption, Init PROVE HeldInv
    OBVIOUS
  <1>1. stage \in {"map_allocate", "dmap_allocate"} /\ held = {} /\ build \in Builds
    BY DEF Init
  <1>2. Len(Blocks(stage)) \in Nat
    BY <1>1, BlocksDiffer DEF Stages
  <1>3. Prefix(stage, 1)
    BY <1>1, <1>2 DEF Prefix
  <1> QED
    BY <1>1, <1>3 DEF HeldInv, Stages

\* "@returns 0 if the allocation failed": whichever malloc fails, no block of
\* the function that made it is left.
THEOREM AllocationsAreAtomic == Spec => AllocateAtomic
  <1> DEFINE Atomic == Allocating /\ stage' = "failed" =>
                         \A n \in DOMAIN Blocks(stage) : Blocks(stage)[n] \notin held'
  <1>1. ASSUME HeldInv, [Next]_vars PROVE Atomic
    <2> SUFFICES ASSUME Allocating, stage' = "failed", NEW n \in DOMAIN Blocks(stage)
                 PROVE  Blocks(stage)[n] \notin held'
      OBVIOUS
    <2>1. stage \in Stages \ {"ready", "failed"}
      BY <1>1 DEF HeldInv, Allocating
    <2>2. MallocFails
      <3>1. stage' # stage
        BY <2>1
      <3>2. ~ Initialise
        BY DEF Initialise
      <3> QED
        BY <1>1, <3>1, <3>2 DEF Next, Malloc, GetInternal, AllocateFlow, PutValue, GetExternal,
             FreeIndex, Expire, Tick, Failed, vars
    <2>3. PICK b : b = NextBlock /\ Prefix(stage, b)
      BY <1>1, NextBlockIs
    <2>4. held' \subseteq held \ CleanUp(stage, b)
      BY <2>2, <2>3 DEF MallocFails
    <2>5. n \in 1 .. Len(Blocks(stage))
      BY <2>1, BlocksAre DEF Stages, map_blocks, vector_blocks, dchain_blocks, dmap_blocks
    <2>6. CASE n < b
      BY <2>3, <2>4, <2>5, <2>6 DEF CleanUp, Prefix
    <2>7. CASE ~ (n < b)
      BY <2>3, <2>4, <2>5, <2>7 DEF Prefix
    <2> QED
      BY <2>6, <2>7
  <1>2. Init => HeldInv
    BY HeldInit, FlowTableAssumption
  <1>3. HeldInv /\ [Next]_vars => HeldInv'
    BY HeldStep, FlowTableAssumption
  <1>4. HeldInv /\ [Next]_vars => [Atomic]_vars
    BY <1>1
  <1> QED
    BY <1>2, <1>3, <1>4, PTL DEF Spec, AllocateAtomic

-----------------------------------------------------------------------------
(***************************************************************************)
(* The tables.                                                             *)
(***************************************************************************)

\* The indices a chain of N cells has in use.
UsedIn(ch, N) == {k \in 0 .. N-1 : dchain_is_index_allocated(ch, k)}

\* A "map" table of N indices: the map refers to the indices in use, under the
\* keys that the vector holds.
SoundMap(N, p, h, f, v) ==
  /\ Linked(h, N)
  /\ v \in [0 .. N-1 -> Key \union {ZeroKey}] /\ \A k \in UsedIn(h, N) : v[k] \in Key
  /\ Stores(f.t, N, p, v, UsedIn(h, N)) /\ f.size = Cardinality(UsedIn(h, N))

\* A "dmap" table: each of the two hash tables refers to them, under the keys
\* that the values contain.
SoundDmap(N, p, h, d) ==
  /\ Linked(h, N)
  /\ d.values \in [0 .. N-1 -> DValue \union {NoValue}]
  /\ \A k \in UsedIn(h, N) : d.values[k] \in DValue
  /\ Stores(d.a, N, p, KeysA(d), UsedIn(h, N)) /\ Stores(d.b, N, p, KeysB(d), UsedIn(h, N))
  /\ d.n_vals = Cardinality(UsedIn(h, N))

\* What khash() returns for a key.
LEMMA KeyHash ==
  ASSUME FlowTableAssumption, NEW key \in Key
  PROVE  key.hash \in Hashes
  <1>1. PICK x \in Ids : key = [id |-> x, hash |-> x % Buckets]
    BY DEF Key
  <1>2. x \in Nat /\ Buckets \in Nat \ {0} /\ Buckets <= 2^HashBits /\ 2^HashBits \in Nat
    BY MaskAssumption DEF FlowTableAssumption
  <1>3. x % Buckets \in 0 .. Buckets-1
    BY <1>2, DivBounds
  <1> HIDE DEF FlowTableAssumption
  <1>4. key.hash = x % Buckets
    BY <1>1
  <1> QED
    BY <1>2, <1>3, <1>4 DEF Hashes

\* A chain that has just been made has no index in use.
LEMMA InitUsed ==
  ASSUME NEW N \in Nat \ {0}
  PROVE  Linked(dchain_allocate(N), N) /\ UsedIn(dchain_allocate(N), N) = {}
  <1> DEFINE succ == [c \in 0 .. N+1 |->
                 CASE c = ALLOC_LIST_HEAD -> ALLOC_LIST_HEAD
                   [] c = N+1             -> FREE_LIST_HEAD
                   [] OTHER               -> c + 1]
             ch == dchain_allocate(N)
  <1>1. ch.next = succ /\ ch.prev = succ
    BY DEF dchain_allocate, dchain_impl_init
  <1>2. ASSUME NEW k \in 0 .. N-1 PROVE succ[k+2] # 0
    BY DEF ALLOC_LIST_HEAD, FREE_LIST_HEAD
  <1> HIDE DEF succ, ch
  <1>3. \A k \in 0 .. N-1 : ~ dchain_is_index_allocated(ch, k)
    BY <1>1, <1>2 DEF dchain_is_index_allocated, dchain_impl_is_index_allocated,
                      INDEX_SHIFT, ALLOC_LIST_HEAD
  <1> QED
    BY <1>3, InitLinked DEF UsedIn, ch

\* A table starts sound.
LEMMA InitSound ==
  ASSUME NEW N \in Nat \ {0}, NEW p \in BOOLEAN, ~ CapacityRefused(p, N)
  PROVE  /\ SoundMap(N, p, dchain_allocate(N), map_init(p, N), [k \in 0 .. N-1 |-> ZeroKey])
         /\ SoundDmap(N, p, dchain_allocate(N), dmap_init(p, N, N))
  <1> DEFINE h == dchain_allocate(N)  v == [k \in 0 .. N-1 |-> ZeroKey]  i == impl_init(p, N)
             d == dmap_init(p, N, N)
  <1>1. Linked(h, N) /\ UsedIn(h, N) = {}
    BY InitUsed
  <1>2. \A mem : Stores(i, N, p, mem, {})
    BY InitStores
  <1>3. Cardinality({}) = 0
    BY FS_EmptySet
  <1> HIDE DEF h, i
  <1>4. map_init(p, N).t = i /\ map_init(p, N).size = 0
    BY DEF map_init, i
  <1>5. v \in [0 .. N-1 -> Key \union {ZeroKey}]
    OBVIOUS
  <1>6. /\ d.values = [k \in 0 .. N-1 |-> NoValue] /\ d.a = i /\ d.b = i /\ d.n_vals = 0
    BY DEF dmap_init, i
  <1> HIDE DEF v, d
  <1>7. SoundMap(N, p, h, map_init(p, N), v)
    BY <1>1, <1>2, <1>3, <1>4, <1>5 DEF SoundMap
  <1>8. d.values \in [0 .. N-1 -> DValue \union {NoValue}]
    BY <1>6
  <1>9. SoundDmap(N, p, h, d)
    BY <1>1, <1>2, <1>3, <1>6, <1>8 DEF SoundDmap
  <1> QED
    BY <1>7, <1>9 DEF h, v, d

\* Using an index changes nothing but its place in the chain.
LEMMA RejuvenateSound ==
  ASSUME NEW N, NEW h, Linked(h, N), NEW index \in 0 .. N-1, NEW time \in Int
  PROVE  LET new == dchain_rejuvenate_index(h, index, time) IN
         /\ Linked(new, N) /\ UsedIn(new, N) = UsedIn(h, N)
         /\ \A p, f, v : SoundMap(N, p, h, f, v) => SoundMap(N, p, new, f, v)
         /\ \A p, d : SoundDmap(N, p, h, d) => SoundDmap(N, p, new, d)
  <1> DEFINE new == dchain_rejuvenate_index(h, index, time)
  <1>1. Linked(new, N) /\ \A k \in 0 .. N-1 : dchain_is_index_allocated(new, k)
                                                <=> dchain_is_index_allocated(h, k)
    BY RejuvenateLinked
  <1> HIDE DEF new
  <1>2. UsedIn(new, N) = UsedIn(h, N)
    BY <1>1 DEF UsedIn
  <1> QED
    BY <1>1, <1>2 DEF SoundMap, SoundDmap, new

\* A lookup of a key.
LEMMA MapGetFinds ==
  ASSUME FlowTableAssumption, NEW N, NEW p, NEW h, NEW f, NEW v, SoundMap(N, p, h, f, v),
         NEW key \in Key
  PROVE  /\ \A i \in UsedIn(h, N) : v[i] = key => map_get(f, v, key) = i
         /\ (\A i \in UsedIn(h, N) : v[i] # key) => map_get(f, v, key) = NotFound
         /\ map_get(f, v, key) # NotFound
              => map_get(f, v, key) \in UsedIn(h, N) /\ v[map_get(f, v, key)] = key
         /\ map_get(f, v, key) = NotFound => \A i \in UsedIn(h, N) : v[i] # key
  <1>1. key.hash \in Hashes
    BY KeyHash
  <1>2. Stores(f.t, N, p, v, UsedIn(h, N))
    BY DEF SoundMap
  <1>3. map_get(f, v, key) = impl_get(f.t, v, key) /\ NotFound = Mod!NotFound
    BY Zenon DEF map_get, NotFound
  <1>4. /\ \A i \in UsedIn(h, N) : v[i] = key => map_get(f, v, key) = i
        /\ (\A i \in UsedIn(h, N) : v[i] # key) => map_get(f, v, key) = NotFound
    BY <1>1, <1>2, <1>3, GetFinds
  <1>5. \A i \in UsedIn(h, N) : i # NotFound
    BY <1>3 DEF UsedIn, Mod!NotFound
  <1> QED
    BY <1>4, <1>5

\* A new flow.
LEMMA AllocateSound ==
  ASSUME FlowTableAssumption, NEW N, NEW p, NEW h, NEW f, NEW v, SoundMap(N, p, h, f, v),
         NEW key \in Key, \A i \in UsedIn(h, N) : v[i] # key,
         ~ OutOfSpace(h), NEW time \in Int
  PROVE  LET index == NewIndex(h)
         IN  SoundMap(N, p, dchain_allocate_new_index(h, time), map_put(f, key, index, index),
                      [v EXCEPT ![index] = key])
  <1> DEFINE e == NewIndex(h)  new == dchain_allocate_new_index(h, time)  U == UsedIn(h, N)
             v2 == [v EXCEPT ![e] = key]  f2 == map_put(f, key, e, e)
  <1>1. /\ Linked(h, N) /\ Stores(f.t, N, p, v, U) /\ f.size = Cardinality(U)
        /\ v \in [0 .. N-1 -> Key \union {ZeroKey}] /\ \A k \in U : v[k] \in Key
    BY DEF SoundMap
  <1>2. /\ Linked(new, N)
        /\ e \in 0 .. N-1 /\ ~ dchain_is_index_allocated(h, e)
        /\ \A k \in 0 .. N-1 : dchain_is_index_allocated(new, k)
                                 <=> dchain_is_index_allocated(h, k) \/ k = e
    BY <1>1, AllocateLinked
  <1> HIDE DEF e, new
  <1>3. UsedIn(new, N) = U \union {e} /\ e \notin U /\ U \subseteq 0 .. N-1
    BY <1>2 DEF UsedIn
  <1>4. /\ v2[e] = key /\ \A k \in U : v2[k] = v[k]
        /\ v2 \in [0 .. N-1 -> Key \union {ZeroKey}]
    BY <1>1, <1>2, <1>3
  <1> HIDE DEF v2, U
  <1>5. Stores(impl_put(f.t, key, e, e), N, p, v2, U \union {e})
    BY <1>1, <1>2, <1>3, <1>4, KeyHash, PutStores DEF U
  <1>6. f2.t = impl_put(f.t, key, e, e) /\ f2.size = f.size + 1
    BY DEF map_put
  <1> HIDE DEF f2
  <1>7. Cardinality(U \union {e}) = Cardinality(U) + 1
    BY <1>1, <1>3, SizeIs, FS_AddElement
  <1>8. SoundMap(N, p, new, f2, v2)
    BY <1>1, <1>2, <1>3, <1>4, <1>5, <1>6, <1>7 DEF SoundMap
  <1> QED
    BY <1>8 DEF e, new, v2, f2

-----------------------------------------------------------------------------
\* An index and its entry are removed.
LEMMA FreeSound ==
  ASSUME FlowTableAssumption, NEW N, NEW p, NEW h, NEW f, NEW v, SoundMap(N, p, h, f, v),
         NEW index \in UsedIn(h, N)
  PROVE  /\ SoundMap(N, p, dchain_free_index(h, index), map_erase(f, v, v[index]), v)
         /\ UsedIn(dchain_free_index(h, index), N) = UsedIn(h, N) \ {index}
  <1> DEFINE new == dchain_free_index(h, index)  U == UsedIn(h, N)
             f2 == map_erase(f, v, v[index])
  <1>1. /\ Linked(h, N) /\ Stores(f.t, N, p, v, U) /\ f.size = Cardinality(U)
        /\ v \in [0 .. N-1 -> Key \union {ZeroKey}] /\ \A k \in U : v[k] \in Key
    BY DEF SoundMap
  <1>2. index \in 0 .. N-1 /\ dchain_is_index_allocated(h, index)
    BY DEF UsedIn
  <1>3. /\ Linked(new, N)
        /\ \A k \in 0 .. N-1 : dchain_is_index_allocated(new, k)
                                 <=> dchain_is_index_allocated(h, k) /\ k # index
    BY <1>1, <1>2, FreeLinked
  <1> HIDE DEF new
  <1>4. UsedIn(new, N) = U \ {index}
    BY <1>3 DEF UsedIn
  <1>5. v[index].hash \in Hashes
    BY <1>1, KeyHash
  <1>6. Stores(impl_erase(f.t, v, v[index]), N, p, v, U \ {index})
    <2> HIDE DEF U
    <2>1. index \in U
      BY DEF U
    <2> QED
      BY <1>1, <1>5, <2>1, EraseStores
  <1>7. f2.t = impl_erase(f.t, v, v[index]) /\ f2.size = f.size - 1
    BY DEF map_erase
  <1> HIDE DEF f2
  <1>8. Cardinality(U \ {index}) = Cardinality(U) - 1
    BY <1>1, SizeIs, FS_RemoveElement
  <1>9. SoundMap(N, p, new, f2, v)
    BY <1>1, <1>3, <1>4, <1>6, <1>7, <1>8 DEF SoundMap
  <1> QED
    BY <1>4, <1>9 DEF new, f2

\* The keys inside the values.
LEMMA KeysAre ==
  ASSUME NEW N, NEW d, d.values \in [0 .. N-1 -> DValue \union {NoValue}]
  PROVE  \A k \in 0 .. N-1 : KeysA(d)[k] = d.values[k].a /\ KeysB(d)[k] = d.values[k].b
  BY DEF KeysA, KeysB

\* A lookup by either key.
LEMMA DmapGetFinds ==
  ASSUME FlowTableAssumption, NEW N, NEW p, NEW h, NEW d, SoundDmap(N, p, h, d),
         NEW key \in Key
  PROVE  /\ \A i \in UsedIn(h, N) : d.values[i].a = key => dmap_get_a(d, key) = i
         /\ (\A i \in UsedIn(h, N) : d.values[i].a # key) => dmap_get_a(d, key) = NotFound
         /\ dmap_get_a(d, key) = NotFound => \A i \in UsedIn(h, N) : d.values[i].a # key
         /\ \A i \in UsedIn(h, N) : d.values[i].b = key => dmap_get_b(d, key) = i
         /\ (\A i \in UsedIn(h, N) : d.values[i].b # key) => dmap_get_b(d, key) = NotFound
         /\ dmap_get_b(d, key) = NotFound => \A i \in UsedIn(h, N) : d.values[i].b # key
  <1> DEFINE U == UsedIn(h, N)
  <1>1. key.hash \in Hashes
    BY KeyHash
  <1>2. /\ Stores(d.a, N, p, KeysA(d), U) /\ Stores(d.b, N, p, KeysB(d), U)
        /\ d.values \in [0 .. N-1 -> DValue \union {NoValue}]
    BY DEF SoundDmap
  <1>3. NotFound = Mod!NotFound
    BY Zenon DEF NotFound
  <1>4. dmap_get_a(d, key) = impl_get(d.a, KeysA(d), key)
    BY Zenon DEF dmap_get_a
  <1>5. dmap_get_b(d, key) = impl_get(d.b, KeysB(d), key)
    BY Zenon DEF dmap_get_b
  <1>6. U \subseteq 0 .. N-1 /\ \A i \in U : i # NotFound
    BY <1>3 DEF UsedIn, Mod!NotFound
  <1>7. \A k \in U : KeysA(d)[k] = d.values[k].a /\ KeysB(d)[k] = d.values[k].b
    BY <1>2, <1>6, KeysAre
  <1> HIDE DEF U
  <1>8. /\ \A i \in U : d.values[i].a = key => dmap_get_a(d, key) = i
        /\ (\A i \in U : d.values[i].a # key) => dmap_get_a(d, key) = NotFound
    BY <1>1, <1>2, <1>3, <1>4, <1>7, GetFinds
  <1>9. /\ \A i \in U : d.values[i].b = key => dmap_get_b(d, key) = i
        /\ (\A i \in U : d.values[i].b # key) => dmap_get_b(d, key) = NotFound
    BY <1>1, <1>2, <1>3, <1>5, <1>7, GetFinds
  <1> QED
    BY <1>6, <1>8, <1>9 DEF U

\* A new value.
LEMMA DmapPutSound ==
  ASSUME FlowTableAssumption, NEW N, NEW p, NEW h, NEW d, SoundDmap(N, p, h, d),
         NEW value \in DValue,
         \A i \in UsedIn(h, N) : d.values[i].a # value.a /\ d.values[i].b # value.b,
         ~ OutOfSpace(h), NEW time \in Int
  PROVE  SoundDmap(N, p, dchain_allocate_new_index(h, time), dmap_put(d, value, NewIndex(h)))
  <1> DEFINE e == NewIndex(h)  new == dchain_allocate_new_index(h, time)  U == UsedIn(h, N)
             d2 == dmap_put(d, value, e)
  <1>1. /\ Linked(h, N) /\ d.n_vals = Cardinality(U)
        /\ Stores(d.a, N, p, KeysA(d), U) /\ Stores(d.b, N, p, KeysB(d), U)
        /\ d.values \in [0 .. N-1 -> DValue \union {NoValue}] /\ \A k \in U : d.values[k] \in DValue
    BY DEF SoundDmap
  <1>2. /\ Linked(new, N)
        /\ e \in 0 .. N-1 /\ ~ dchain_is_index_allocated(h, e)
        /\ \A k \in 0 .. N-1 : dchain_is_index_allocated(new, k)
                                 <=> dchain_is_index_allocated(h, k) \/ k = e
    BY <1>1, AllocateLinked
  <1> HIDE DEF e, new
  <1>3. UsedIn(new, N) = U \union {e} /\ e \notin U /\ U \subseteq 0 .. N-1
    BY <1>2 DEF UsedIn
  <1>4. /\ d2.values = [d.values EXCEPT ![e] = value]
        /\ d2.a = impl_put(d.a, value.a, e, e) /\ d2.b = impl_put(d.b, value.b, e, e)
        /\ d2.n_vals = d.n_vals + 1
    BY DEF dmap_put
  <1> HIDE DEF d2, U
  <1>5. /\ d2.values[e] = value /\ \A k \in U : d2.values[k] = d.values[k]
        /\ d2.values \in [0 .. N-1 -> DValue \union {NoValue}]
    BY <1>1, <1>2, <1>3, <1>4
  <1>6. value.a \in Key /\ value.b \in Key
    BY DEF DValue
  <1>7. value.a.hash \in Hashes /\ value.b.hash \in Hashes
    BY <1>6, KeyHash
  <1>8. PICK A, B, C, D, x, y : /\ A = KeysA(d) /\ B = KeysB(d) /\ C = KeysA(d2) /\ D = KeysB(d2)
                                /\ x = value.a /\ y = value.b
    OBVIOUS
  <1>K. /\ \A k \in 0 .. N-1 : A[k] = d.values[k].a /\ B[k] = d.values[k].b
        /\ \A k \in 0 .. N-1 : C[k] = d2.values[k].a /\ D[k] = d2.values[k].b
    BY <1>1, <1>5, <1>8, KeysAre
  <1>M. /\ C[e] = x /\ (\A k \in U : C[k] = A[k]) /\ \A k \in U : A[k] # x
        /\ x.hash \in Hashes
    BY <1>2, <1>3, <1>5, <1>7, <1>8, <1>K DEF U
  <1>O. /\ D[e] = y /\ (\A k \in U : D[k] = B[k]) /\ \A k \in U : B[k] # y
        /\ y.hash \in Hashes
    BY <1>2, <1>3, <1>5, <1>7, <1>8, <1>K DEF U
  <1>9. Stores(d2.a, N, p, C, U \union {e})
    <2>1. Stores(d.a, N, p, A, U)
      BY <1>1, <1>8
    <2>2. Stores(impl_put(d.a, x, e, e), N, p, C, U \union {e})
      BY <1>2, <1>3, <1>M, <2>1, PutStores
    <2> QED
      BY <1>4, <1>8, <2>2
  <1>10. Stores(d2.b, N, p, D, U \union {e})
    <2>1. Stores(d.b, N, p, B, U)
      BY <1>1, <1>8
    <2>2. Stores(impl_put(d.b, y, e, e), N, p, D, U \union {e})
      BY <1>2, <1>3, <1>O, <2>1, PutStores
    <2> QED
      BY <1>4, <1>8, <2>2
  <1>11. Cardinality(U \union {e}) = Cardinality(U) + 1
    BY <1>1, <1>3, SizeIs, FS_AddElement
  <1>12. \A k \in U \union {e} : d2.values[k] \in DValue
    BY <1>1, <1>5
  <1>13. SoundDmap(N, p, new, d2)
    BY <1>1, <1>2, <1>3, <1>4, <1>5, <1>8, <1>9, <1>10, <1>11, <1>12 DEF SoundDmap
  <1> QED
    BY <1>13 DEF e, new, d2

\* A value and its index are removed.
LEMMA DmapFreeSound ==
  ASSUME FlowTableAssumption, NEW N, NEW p, NEW h, NEW d, SoundDmap(N, p, h, d),
         NEW index \in UsedIn(h, N)
  PROVE  /\ SoundDmap(N, p, dchain_free_index(h, index), dmap_erase(d, index))
         /\ UsedIn(dchain_free_index(h, index), N) = UsedIn(h, N) \ {index}
  <1> DEFINE new == dchain_free_index(h, index)  U == UsedIn(h, N)  d2 == dmap_erase(d, index)
  <1>1. /\ Linked(h, N) /\ d.n_vals = Cardinality(U)
        /\ Stores(d.a, N, p, KeysA(d), U) /\ Stores(d.b, N, p, KeysB(d), U)
        /\ d.values \in [0 .. N-1 -> DValue \union {NoValue}] /\ \A k \in U : d.values[k] \in DValue
    BY DEF SoundDmap
  <1>2. index \in 0 .. N-1 /\ dchain_is_index_allocated(h, index)
    BY DEF UsedIn
  <1>3. /\ Linked(new, N)
        /\ \A k \in 0 .. N-1 : dchain_is_index_allocated(new, k)
                                 <=> dchain_is_index_allocated(h, k) /\ k # index
    BY <1>1, <1>2, FreeLinked
  <1> HIDE DEF new
  <1>4. UsedIn(new, N) = U \ {index} /\ U \subseteq 0 .. N-1 /\ index \in U
    BY <1>3 DEF UsedIn
  <1>5. /\ d2.values = [d.values EXCEPT ![index] = NoValue]
        /\ d2.a = impl_erase(d.a, KeysA(d), d.values[index].a)
        /\ d2.b = impl_erase(d.b, KeysB(d), d.values[index].b)
        /\ d2.n_vals = d.n_vals - 1
    BY DEF dmap_erase
  <1> HIDE DEF d2, U
  <1>6. /\ \A k \in U \ {index} : d2.values[k] = d.values[k]
        /\ d2.values \in [0 .. N-1 -> DValue \union {NoValue}]
    BY <1>1, <1>2, <1>4, <1>5
  <1>7. PICK A, B, C, D : A = KeysA(d) /\ B = KeysB(d) /\ C = KeysA(d2) /\ D = KeysB(d2)
    OBVIOUS
  <1>K. /\ \A k \in 0 .. N-1 : A[k] = d.values[k].a /\ B[k] = d.values[k].b
        /\ \A k \in 0 .. N-1 : C[k] = d2.values[k].a /\ D[k] = d2.values[k].b
    BY <1>1, <1>6, <1>7, KeysAre
  <1>8. d.values[index].a \in Key /\ d.values[index].b \in Key
    BY <1>1, <1>4 DEF DValue
  <1>M. /\ A[index].hash \in Hashes /\ \A k \in U \ {index} : C[k] = A[k]
        /\ B[index].hash \in Hashes /\ \A k \in U \ {index} : D[k] = B[k]
        /\ A[index] = d.values[index].a /\ B[index] = d.values[index].b
    BY <1>2, <1>4, <1>6, <1>8, <1>K, KeyHash
  <1>9. Stores(d2.a, N, p, C, U \ {index})
    <2>1. Stores(d.a, N, p, A, U)
      BY <1>1, <1>7
    <2>2. Stores(impl_erase(d.a, A, A[index]), N, p, C, U \ {index})
      BY <1>4, <1>M, <2>1, EraseStores
    <2>3. d2.a = impl_erase(d.a, A, A[index])
      BY <1>5, <1>7, <1>M
    <2> QED
      BY <2>2, <2>3
  <1>10. Stores(d2.b, N, p, D, U \ {index})
    <2>1. Stores(d.b, N, p, B, U)
      BY <1>1, <1>7
    <2>2. Stores(impl_erase(d.b, B, B[index]), N, p, D, U \ {index})
      BY <1>4, <1>M, <2>1, EraseStores
    <2>3. d2.b = impl_erase(d.b, B, B[index])
      BY <1>5, <1>7, <1>M
    <2> QED
      BY <2>2, <2>3
  <1>11. Cardinality(U \ {index}) = Cardinality(U) - 1
    BY <1>1, <1>4, SizeIs, FS_RemoveElement
  <1>12. SoundDmap(N, p, new, d2)
    BY <1>1, <1>3, <1>4, <1>5, <1>6, <1>7, <1>9, <1>10, <1>11 DEF SoundDmap
  <1> QED
    BY <1>4, <1>12 DEF new, d2, U

-----------------------------------------------------------------------------
(***************************************************************************)
(* Removal and expiry, on the structures of a table together.              *)
(***************************************************************************)

\* The structures of a table are sound.
Sound(s) ==
  /\ s = [heap |-> s.heap, fm |-> s.fm, dm |-> s.dm]
  /\ build.kind = "map" => SoundMap(build.size, build.pow2, s.heap, s.fm, fv)
  /\ build.kind # "map" => SoundDmap(build.size, build.pow2, s.heap, s.dm)

\* They form a chain whose timestamps are numbers.
LEMMA SoundLinked ==
  ASSUME NEW s, Sound(s)
  PROVE  /\ Linked(s.heap, build.size)
         /\ s.heap.timestamps \in [0 .. build.size-1 -> Int]
  <1>1. Linked(s.heap, build.size)
    BY DEF Sound, SoundMap, SoundDmap
  <1>2. PICK a, m, f, r : Threaded(s.heap, build.size, a, m, f, r)
    BY <1>1 DEF Linked
  <1>3. s.heap \in Chain(build.size)
    BY <1>2 DEF Threaded, Rings
  <1> QED
    BY <1>1, <1>3, ChainRecord

\* An index removed.
Removed(s, index) ==
  [heap |-> dchain_free_index(s.heap, index),
   fm   |-> IF build.kind = "map" THEN map_erase(s.fm, fv, fv[index]) ELSE s.fm,
   dm   |-> IF build.kind = "map" THEN s.dm ELSE dmap_erase(s.dm, index)]

\* What FreeIndex makes of them.
LEMMA RemovedIs ==
  ASSUME NEW s, s = [heap |-> s.heap, fm |-> s.fm, dm |-> s.dm], NEW index, NEW h
  PROVE  /\ RemoveEntry(s, index).heap = s.heap
         /\ h = dchain_free_index(s.heap, index)
              => [RemoveEntry(s, index) EXCEPT !.heap = h] = Removed(s, index)
  <1>1. CASE build.kind = "map"
    <2> DEFINE e == map_erase(s.fm, fv, fv[index])
    <2>1. RemoveEntry(s, index) = [s EXCEPT !.fm = e]
      BY <1>1 DEF RemoveEntry
    <2>2. Removed(s, index) = [heap |-> dchain_free_index(s.heap, index), fm |-> e, dm |-> s.dm]
      BY <1>1 DEF Removed
    <2> HIDE DEF e
    <2>3. [s EXCEPT !.fm = e] = [heap |-> s.heap, fm |-> e, dm |-> s.dm]
      OBVIOUS
    <2>4. RemoveEntry(s, index) = [heap |-> s.heap, fm |-> e, dm |-> s.dm]
      BY <2>1, <2>3, Zenon
    <2> QED
      BY <2>2, <2>4
  <1>2. CASE build.kind # "map"
    <2> DEFINE e == dmap_erase(s.dm, index)
    <2>1. RemoveEntry(s, index) = [s EXCEPT !.dm = e]
      BY <1>2 DEF RemoveEntry
    <2>2. Removed(s, index) = [heap |-> dchain_free_index(s.heap, index), fm |-> s.fm, dm |-> e]
      BY <1>2 DEF Removed
    <2> HIDE DEF e
    <2>3. [s EXCEPT !.dm = e] = [heap |-> s.heap, fm |-> s.fm, dm |-> e]
      OBVIOUS
    <2>4. RemoveEntry(s, index) = [heap |-> s.heap, fm |-> s.fm, dm |-> e]
      BY <2>1, <2>3, Zenon
    <2> QED
      BY <2>2, <2>4
  <1> QED
    BY <1>1, <1>2

\* Removing an index in use.
LEMMA RemovedSound ==
  ASSUME FlowTableAssumption, NEW s, Sound(s), NEW index \in UsedIn(s.heap, build.size)
  PROVE  /\ Sound(Removed(s, index))
         /\ UsedIn(Removed(s, index).heap, build.size) = UsedIn(s.heap, build.size) \ {index}
         /\ Removed(s, index).heap.timestamps = s.heap.timestamps
  <1> DEFINE new == dchain_free_index(s.heap, index)  N == build.size  p == build.pow2
  <1>1. Removed(s, index).heap = new
    BY DEF Removed
  <1>2. index \in 0 .. N-1 /\ dchain_is_index_allocated(s.heap, index) /\ Linked(s.heap, N)
    BY SoundLinked DEF UsedIn
  <1>3. new.timestamps = s.heap.timestamps
    BY <1>2, FreeLinked
  <1>4. CASE build.kind = "map"
    <2> DEFINE e == map_erase(s.fm, fv, fv[index])
    <2>1. SoundMap(N, p, s.heap, s.fm, fv)
      BY <1>4 DEF Sound
    <2>2. SoundMap(N, p, new, e, fv) /\ UsedIn(new, N) = UsedIn(s.heap, N) \ {index}
      BY <2>1, FreeSound
    <2> HIDE DEF e, new
    <2>3. Removed(s, index) = [heap |-> new, fm |-> e, dm |-> s.dm]
      BY <1>4 DEF Removed, e, new
    <2>4. Sound(Removed(s, index))
      <3> DEFINE r == Removed(s, index)
      <3>1. r = [heap |-> r.heap, fm |-> r.fm, dm |-> r.dm] /\ r.heap = new /\ r.fm = e
        BY <2>3
      <3> HIDE DEF r
      <3>2. Sound(r)
        BY <1>4, <2>2, <3>1 DEF Sound
      <3> QED
        BY <3>2 DEF r
    <2> QED
      BY <1>1, <1>3, <2>2, <2>4 DEF new
  <1>5. CASE build.kind # "map"
    <2> DEFINE e == dmap_erase(s.dm, index)
    <2>1. SoundDmap(N, p, s.heap, s.dm)
      BY <1>5 DEF Sound
    <2>2. SoundDmap(N, p, new, e) /\ UsedIn(new, N) = UsedIn(s.heap, N) \ {index}
      BY <2>1, DmapFreeSound
    <2> HIDE DEF e, new
    <2>3. Removed(s, index) = [heap |-> new, fm |-> s.fm, dm |-> e]
      BY <1>5 DEF Removed, e, new
    <2>4. Sound(Removed(s, index))
      <3> DEFINE r == Removed(s, index)
      <3>1. r = [heap |-> r.heap, fm |-> r.fm, dm |-> r.dm] /\ r.heap = new /\ r.dm = e
        BY <2>3
      <3> HIDE DEF r
      <3>2. Sound(r)
        BY <1>5, <2>2, <3>1 DEF Sound
      <3> QED
        BY <3>2 DEF r
    <2> QED
      BY <1>1, <1>3, <2>2, <2>4 DEF new
  <1> QED
    BY <1>4, <1>5

\* What one round of expiry is, when the oldest index is older than time.
LEMMA ExpireOneIs ==
  ASSUME FlowTableAssumption, NEW s, Sound(s), NEW time, OldestExpired(s.heap, time),
         NEW e, e = dchain_impl_get_oldest_index(s.heap)
  PROVE  /\ e \in UsedIn(s.heap, build.size)
         /\ ~ IsEmpty(s.heap) /\ s.heap.timestamps[e] < time
         /\ ExpireOne(s, time) = Removed(s, e)
  <1>1. /\ Linked(s.heap, build.size)
        /\ s = [heap |-> s.heap, fm |-> s.fm, dm |-> s.dm]
    BY SoundLinked DEF Sound
  <1>2. ~ IsEmpty(s.heap) /\ s.heap.timestamps[e] < time
    BY DEF OldestExpired
  <1>3. e \in UsedIn(s.heap, build.size)
    BY <1>1, <1>2, OldestInUse DEF UsedIn
  <1>4. dchain_expire_one_index(s.heap, time) = dchain_free_index(s.heap, e)
    BY DEF dchain_expire_one_index, dchain_free_index
  <1>5. ExpireOne(s, time)
          = [RemoveEntry(s, e) EXCEPT
               !.heap = dchain_expire_one_index(RemoveEntry(s, e).heap, time)]
    BY DEF ExpireOne
  <1>6. ExpireOne(s, time) = Removed(s, e)
    BY <1>1, <1>4, <1>5, RemovedIs
  <1> QED
    BY <1>2, <1>3, <1>6

\* From s to r, what has been used since time stays.
Keeps(s, r, time) ==
  /\ Sound(r) /\ r.heap.timestamps = s.heap.timestamps
  /\ \A k \in UsedIn(s.heap, build.size) :
       s.heap.timestamps[k] >= time => k \in UsedIn(r.heap, build.size)

\* One round of expiry removes the oldest index, if it is older than time.
LEMMA ExpireOneKeeps ==
  ASSUME FlowTableAssumption, NEW s, NEW r, NEW time \in Int, Sound(s), Keeps(s, r, time)
  PROVE  Keeps(s, ExpireOne(r, time), time)
  <1> DEFINE N == build.size  e == dchain_impl_get_oldest_index(r.heap)
  <1>1. CASE ~ OldestExpired(r.heap, time)
    BY <1>1 DEF ExpireOne
  <1>2. CASE OldestExpired(r.heap, time)
    <2>1. Sound(r)
      BY DEF Keeps
    <2>2. /\ e \in UsedIn(r.heap, N) /\ r.heap.timestamps[e] < time
          /\ ExpireOne(r, time) = Removed(r, e)
      BY <1>2, <2>1, ExpireOneIs
    <2> HIDE DEF e
    <2>3. /\ Sound(Removed(r, e)) /\ UsedIn(Removed(r, e).heap, N) = UsedIn(r.heap, N) \ {e}
          /\ Removed(r, e).heap.timestamps = r.heap.timestamps
      BY <2>1, <2>2, RemovedSound
    <2>4. \A k \in UsedIn(s.heap, N) : s.heap.timestamps[k] >= time => k # e
      <3>1. s.heap.timestamps \in [0 .. N-1 -> Int] /\ r.heap.timestamps = s.heap.timestamps
        BY SoundLinked DEF Keeps
      <3>2. e \in 0 .. N-1
        BY <2>2 DEF UsedIn
      <3>3. s.heap.timestamps[e] \in Int /\ s.heap.timestamps[e] < time
        BY <2>2, <3>1, <3>2
      <3> QED
        BY <3>3
    <2> QED
      BY <2>2, <2>3, <2>4 DEF Keeps
  <1> QED
    BY <1>1, <1>2

\* a[n] is what n rounds make of the structures.
IsRounds(a, n, time) ==
  a = [k \in 0 .. n |-> IF k = 0 THEN Structures ELSE ExpireOne(a[k-1], time)]

\* There is such a sequence for every number of rounds.
LEMMA RoundsExist ==
  ASSUME NEW N \in Nat, NEW time
  PROVE  \E a : IsRounds(a, N, time)
  <1> DEFINE T == {n \in Nat : ~ \E a : IsRounds(a, n, time)}
  <1> SUFFICES ASSUME T # {} PROVE FALSE
    OBVIOUS
  <1>1. T \subseteq Nat
    OBVIOUS
  <1> HIDE DEF T
  <1>2. PICK n \in T : \A y \in T : n <= y
    BY <1>1, Smallest
  <1>3. CASE n = 0
    <2> DEFINE a == [k \in 0 .. 0 |-> Structures]
    <2>1. \A k \in 0 .. 0 : a[k] = IF k = 0 THEN Structures ELSE ExpireOne(a[k-1], time)
      OBVIOUS
    <2>2. a = [k \in 0 .. 0 |-> IF k = 0 THEN Structures ELSE ExpireOne(a[k-1], time)]
      BY <2>1
    <2> QED
      BY <1>2, <1>3, <2>2 DEF T, IsRounds
  <1>4. CASE n # 0
    <2>1. n-1 \in Nat /\ n \in Nat /\ n-1 \notin T
      BY <1>1, <1>2, <1>4
    <2>2. PICK b : IsRounds(b, n-1, time)
      BY <2>1 DEF T
    <2> DEFINE a == [k \in 0 .. n |-> IF k = n THEN ExpireOne(b[n-1], time) ELSE b[k]]
    <2>3. \A k \in 0 .. n-1 : b[k] = IF k = 0 THEN Structures ELSE ExpireOne(b[k-1], time)
      <3>1. b = [k \in 0 .. n-1 |-> IF k = 0 THEN Structures ELSE ExpireOne(b[k-1], time)]
        BY <2>2 DEF IsRounds
      <3> QED
        BY <3>1
    <2>4. \A k \in 0 .. n-1 : a[k] = b[k]
      BY <2>1
    <2>5. a[n] = ExpireOne(b[n-1], time)
      BY <2>1
    <2> HIDE DEF a
    <2>6. \A k \in 0 .. n : a[k] = IF k = 0 THEN Structures ELSE ExpireOne(a[k-1], time)
      <3> SUFFICES ASSUME NEW k \in 0 .. n
                   PROVE  a[k] = IF k = 0 THEN Structures ELSE ExpireOne(a[k-1], time)
        OBVIOUS
      <3>1. CASE k = n
        <4>1. n-1 \in 0 .. n-1
          BY <2>1
        <4>2. a[n-1] = b[n-1]
          BY <2>4, <4>1
        <4> QED
          BY <1>4, <2>5, <3>1, <4>2
      <3>2. CASE k # n /\ k # 0
        <4>1. k \in 0 .. n-1 /\ k-1 \in 0 .. n-1
          BY <2>1, <3>2
        <4>2. a[k] = b[k] /\ a[k-1] = b[k-1]
          BY <2>4, <4>1
        <4> QED
          BY <2>3, <3>2, <4>1, <4>2
      <3>3. CASE k # n /\ k = 0
        BY <2>1, <2>3, <2>4, <3>3
      <3> QED
        BY <3>1, <3>2, <3>3
    <2>7. a = [k \in 0 .. n |-> IF k = 0 THEN Structures ELSE ExpireOne(a[k-1], time)]
      <3>1. a = [k \in 0 .. n |-> a[k]]
        BY DEF a
      <3> QED
        BY <2>6, <3>1
    <2> QED
      BY <1>2, <2>7 DEF T, IsRounds
  <1> QED
    BY <1>3, <1>4

\* expire_items keeps the structures sound and what has been used since time.
LEMMA ExpireKeeps ==
  ASSUME FlowTableAssumption, build \in Builds, Sound(Structures), NEW time \in Int
  PROVE  Keeps(Structures, expire_items(time), time)
  <1> DEFINE N == build.size
  <1>1. N \in Nat
    BY DEF FlowTableAssumption
  <1>2. \E a : IsRounds(a, N, time)
    BY <1>1, RoundsExist
  <1>3. PICK a : IsRounds(a, N, time) /\ expire_items(time) = a[N]
    BY <1>2, Zenon DEF expire_items, IsRounds
  <1>4. \A k \in 0 .. N : a[k] = IF k = 0 THEN Structures ELSE ExpireOne(a[k-1], time)
    <2>1. a = [k \in 0 .. N |-> IF k = 0 THEN Structures ELSE ExpireOne(a[k-1], time)]
      BY <1>3 DEF IsRounds
    <2> QED
      BY <2>1
  <1> DEFINE T == {n \in 0 .. N : ~ Keeps(Structures, a[n], time)}
  <1>5. T = {}
    <2> SUFFICES ASSUME T # {} PROVE FALSE
      OBVIOUS
    <2>1. T \subseteq Nat
      OBVIOUS
    <2> HIDE DEF T
    <2>2. PICK n \in T : \A y \in T : n <= y
      BY <2>1, Smallest
    <2>3. n \in 0 .. N /\ ~ Keeps(Structures, a[n], time)
      BY <2>2 DEF T
    <2>4. CASE n = 0
      <3>1. a[n] = Structures
        BY <1>4, <2>3, <2>4
      <3>2. Keeps(Structures, Structures, time)
        BY DEF Keeps
      <3> QED
        BY <2>3, <3>1, <3>2
    <2>5. CASE n # 0
      <3>1. n-1 \in 0 .. N /\ n-1 \notin T
        BY <1>1, <2>2, <2>3, <2>5
      <3>2. Keeps(Structures, a[n-1], time)
        BY <3>1 DEF T
      <3>3. Keeps(Structures, ExpireOne(a[n-1], time), time)
        BY <3>2, ExpireOneKeeps
      <3>4. a[n] = ExpireOne(a[n-1], time)
        BY <1>4, <2>3, <2>5
      <3> QED
        BY <2>3, <3>3, <3>4
    <2> QED
      BY <2>4, <2>5
  <1>6. N \in 0 .. N
    BY <1>1
  <1> QED
    BY <1>3, <1>5, <1>6

-----------------------------------------------------------------------------
(***************************************************************************)
(* Every step.                                                             *)
(***************************************************************************)

\* What has been set up of a table is as it was set up until all of it is
\* ready; from then on the structures are sound.
TableInv ==
  /\ build \in Builds /\ stage \in Stages /\ now \in 0 .. MaxTime
  /\ stage \in {"map_allocate", "vector_allocate"} => build.kind = "map"
  /\ stage = "dmap_allocate" => build.kind # "map"
  /\ stage \in {"vector_allocate", "dchain_allocate", "ready"}
       => ~ CapacityRefused(build.pow2, build.size)
  /\ stage \in {"vector_allocate", "dchain_allocate"} /\ build.kind = "map"
       => fm = map_init(build.pow2, build.size)
  /\ stage = "dchain_allocate" /\ build.kind = "map" => fv = [k \in 0 .. build.size-1 |-> ZeroKey]
  /\ stage = "dchain_allocate" /\ build.kind # "map"
       => dm = dmap_init(build.pow2, build.size, build.size)
  /\ stage = "ready" => Sound(Structures)

\* The sizes and the clock.
LEMMA TableNumbers ==
  ASSUME FlowTableAssumption, TableInv
  PROVE  /\ build.size \in Nat \ {0} /\ build.pow2 \in BOOLEAN /\ build.kind \in {"map", "dmap"}
         /\ now \in Int
  BY DEF FlowTableAssumption, TableInv

\* What is sound of the structures, spelled out.
LEMMA SoundIs ==
  /\ Sound(Structures)
       <=> /\ build.kind = "map" => SoundMap(build.size, build.pow2, heap, fm, fv)
           /\ build.kind # "map" => SoundDmap(build.size, build.pow2, heap, dm)
  /\ Structures.heap = heap /\ Structures.fm = fm /\ Structures.dm = dm
  <1>1. /\ Structures = [heap |-> Structures.heap, fm |-> Structures.fm, dm |-> Structures.dm]
        /\ Structures.heap = heap /\ Structures.fm = fm /\ Structures.dm = dm
    BY DEF Structures
  <1> QED
    BY <1>1 DEF Sound

\* Nothing is set up at the start.
LEMMA TableInit == FlowTableAssumption /\ Init => TableInv
  BY DEF Init, TableInv, Stages, FlowTableAssumption

\* A step on a table that is ready keeps it so and its parts, but for what the
\* step does to the structures.
LEMMA ReadyStep ==
  ASSUME TableInv, stage = "ready", stage' = stage, build' = build, now' \in 0 .. MaxTime,
         build.kind = "map" => SoundMap(build.size, build.pow2, heap', fm', fv'),
         build.kind # "map" => SoundDmap(build.size, build.pow2, heap', dm')
  PROVE  TableInv'
  <1>1. Sound(Structures)'
    <2>1. /\ Structures' = [heap |-> Structures'.heap, fm |-> Structures'.fm, dm |-> Structures'.dm]
          /\ Structures'.heap = heap' /\ Structures'.fm = fm' /\ Structures'.dm = dm'
      BY DEF Structures
    <2> QED
      BY <2>1 DEF Sound
  <1> QED
    BY <1>1 DEF TableInv

\* The time before which a flow has expired, when the product that it is
\* computed with fits the integer it is computed in.
LEMMA LastTime ==
  ASSUME FlowTableAssumption, now \in Int
  PROVE  /\ last_time \in Int
         /\ ExpirationTime * UsToNs < 2^IntBits => last_time = now - ExpirationTime * UsToNs
  <1> DEFINE t == ExpirationTime * UsToNs
  <1>1. t \in Nat /\ 2^IntBits \in Nat \ {0}
    BY DEF FlowTableAssumption
  <1> HIDE DEF t
  <1>2. t % 2^IntBits \in 0 .. 2^IntBits - 1
    BY <1>1, DivBounds
  <1>3. t < 2^IntBits => t % 2^IntBits = t
    <2> SUFFICES ASSUME t < 2^IntBits PROVE t % 2^IntBits = t
      OBVIOUS
    <2>1. t \in 0 .. 2^IntBits - 1 /\ t = 2^IntBits * 0 + t /\ 0 \in Nat
      BY <1>1
    <2> QED
      BY <1>1, <2>1, RemainderIs
  <1> QED
    BY <1>2, <1>3 DEF last_time, t

\* Every step keeps the invariant of the table.
LEMMA TableStep ==
  ASSUME FlowTableAssumption, TableInv, [Next]_vars
  PROVE  TableInv'
  <1> USE FlowTableAssumption
  <1>0. /\ build.size \in Nat \ {0} /\ build.pow2 \in BOOLEAN /\ build.kind \in {"map", "dmap"}
        /\ now \in Int /\ now \in 0 .. MaxTime
    BY TableNumbers DEF TableInv
  <1>R. ASSUME stage = "ready"
        PROVE  /\ build.kind = "map" => SoundMap(build.size, build.pow2, heap, fm, fv)
               /\ build.kind # "map" => SoundDmap(build.size, build.pow2, heap, dm)
               /\ Linked(heap, build.size)
    BY <1>R, SoundIs, SoundLinked DEF TableInv
  <1>1. CASE Malloc
    BY <1>1 DEF Malloc, Allocating, table, TableInv, Stages
  <1>2. CASE MallocFails
    BY <1>2 DEF MallocFails, TableInv, Stages
  <1>3. CASE Initialise
    <2>1. build' = build /\ now' = now /\ ~ Refused
      BY <1>3 DEF Initialise
    <2>2. CASE stage = "map_allocate"
      BY <1>3, <2>1, <2>2 DEF Initialise, TableInv, Stages, Refused
    <2>3. CASE stage = "vector_allocate"
      BY <1>3, <2>1, <2>3 DEF Initialise, TableInv, Stages
    <2>4. CASE stage = "dmap_allocate"
      BY <1>3, <2>1, <2>4 DEF Initialise, TableInv, Stages, Refused
    <2>5. CASE stage = "dchain_allocate"
      <3>1. /\ heap' = dchain_allocate(build.size) /\ stage' = "ready"
            /\ fm' = fm /\ fv' = fv /\ dm' = dm
        BY <1>3, <2>5 DEF Initialise
      <3>2. ~ CapacityRefused(build.pow2, build.size)
        BY <2>5 DEF TableInv
      <3>3. /\ SoundMap(build.size, build.pow2, heap', map_init(build.pow2, build.size),
                        [k \in 0 .. build.size-1 |-> ZeroKey])
            /\ SoundDmap(build.size, build.pow2, heap',
                         dmap_init(build.pow2, build.size, build.size))
        BY <1>0, <3>1, <3>2, InitSound
      <3>4. /\ build.kind = "map" => fm' = map_init(build.pow2, build.size)
                                     /\ fv' = [k \in 0 .. build.size-1 |-> ZeroKey]
            /\ build.kind # "map" => dm' = dmap_init(build.pow2, build.size, build.size)
        BY <2>5, <3>1 DEF TableInv
      <3>5. /\ build.kind = "map" => SoundMap(build.size, build.pow2, heap', fm', fv')
            /\ build.kind # "map" => SoundDmap(build.size, build.pow2, heap', dm')
        BY <3>3, <3>4
      <3>6. Sound(Structures)'
        <4>1. /\ Structures' = [heap |-> Structures'.heap, fm |-> Structures'.fm,
                                dm |-> Structures'.dm]
              /\ Structures'.heap = heap' /\ Structures'.fm = fm' /\ Structures'.dm = dm'
          BY DEF Structures
        <4> QED
          BY <2>1, <3>5, <4>1 DEF Sound
      <3> QED
        BY <2>1, <2>5, <3>1, <3>2, <3>6 DEF TableInv, Stages
    <2> QED
      BY <1>3, <2>2, <2>3, <2>4, <2>5 DEF Initialise
  <1>4. ASSUME NEW key \in Key, GetInternal(key) PROVE TableInv'
    <2> DEFINE i == map_get(fm, fv, key)
    <2>1. /\ stage = "ready" /\ build.kind = "map" /\ i # NotFound
          /\ heap' = dchain_rejuvenate_index(heap, i, now)
          /\ UNCHANGED <<build, stage, fv, fm, dm, now>>
      BY <1>4 DEF GetInternal, MapReady
    <2>2. SoundMap(build.size, build.pow2, heap, fm, fv) /\ Linked(heap, build.size)
      BY <1>R, <2>1
    <2>3. i \in 0 .. build.size-1
      BY <2>1, <2>2, MapGetFinds DEF UsedIn
    <2> HIDE DEF i
    <2>4. SoundMap(build.size, build.pow2, heap', fm, fv)
      BY <1>0, <2>1, <2>2, <2>3, RejuvenateSound
    <2> QED
      BY <1>0, <2>1, <2>4, ReadyStep
  <1>5. ASSUME NEW key \in Key, AllocateFlow(key) PROVE TableInv'
    <2>1. /\ stage = "ready" /\ build.kind = "map" /\ map_get(fm, fv, key) = NotFound
          /\ ~ OutOfSpace(heap) /\ heap' = dchain_allocate_new_index(heap, now)
          /\ fv' = [fv EXCEPT ![NewIndex(heap)] = key]
          /\ fm' = map_put(fm, key, NewIndex(heap), NewIndex(heap))
          /\ UNCHANGED <<build, stage, dm, now>>
      BY <1>5 DEF AllocateFlow, MapReady
    <2>2. SoundMap(build.size, build.pow2, heap, fm, fv)
      BY <1>R, <2>1
    <2>3. \A i \in UsedIn(heap, build.size) : fv[i] # key
      BY <2>1, <2>2, MapGetFinds
    <2>4. SoundMap(build.size, build.pow2, heap', fm', fv')
      BY <1>0, <2>1, <2>2, <2>3, AllocateSound
    <2> QED
      BY <1>0, <2>1, <2>4, ReadyStep
  <1>6. ASSUME NEW v \in DValue, PutValue(v) PROVE TableInv'
    <2>1. /\ stage = "ready" /\ build.kind # "map"
          /\ dmap_get_a(dm, v.a) = NotFound /\ dmap_get_b(dm, v.b) = NotFound
          /\ ~ OutOfSpace(heap) /\ heap' = dchain_allocate_new_index(heap, now)
          /\ dm' = dmap_put(dm, v, NewIndex(heap))
          /\ UNCHANGED <<build, stage, fv, fm, now>>
      BY <1>6 DEF PutValue, DmapReady
    <2>2. SoundDmap(build.size, build.pow2, heap, dm)
      BY <1>R, <2>1
    <2>3. v.a \in Key /\ v.b \in Key
      BY DEF DValue
    <2>4. \A i \in UsedIn(heap, build.size) : dm.values[i].a # v.a /\ dm.values[i].b # v.b
      BY <2>1, <2>2, <2>3, DmapGetFinds
    <2>5. SoundDmap(build.size, build.pow2, heap', dm')
      BY <1>0, <2>1, <2>2, <2>4, DmapPutSound
    <2> QED
      BY <1>0, <2>1, <2>5, ReadyStep
  <1>7. ASSUME NEW index \in 0 .. build.size-1, GetExternal(index) PROVE TableInv'
    <2>1. /\ stage = "ready" /\ heap' = dchain_rejuvenate_index(heap, index, now)
          /\ UNCHANGED <<build, stage, fv, fm, dm, now>>
      BY <1>7 DEF GetExternal
    <2>2. /\ \A p, f, w : SoundMap(build.size, p, heap, f, w)
                            => SoundMap(build.size, p, heap', f, w)
          /\ \A p, d : SoundDmap(build.size, p, heap, d) => SoundDmap(build.size, p, heap', d)
      BY <1>0, <1>R, <2>1, RejuvenateSound
    <2>3. /\ build.kind = "map" => SoundMap(build.size, build.pow2, heap', fm', fv')
          /\ build.kind # "map" => SoundDmap(build.size, build.pow2, heap', dm')
      BY <1>R, <2>1, <2>2
    <2> QED
      BY <1>0, <2>1, <2>3, ReadyStep
  <1>B. ASSUME NEW s, Sound(s), Becomes(s), stage = "ready",
               UNCHANGED <<build, stage, fv, now>>
        PROVE  TableInv'
    <2>1. heap' = s.heap /\ fm' = s.fm /\ dm' = s.dm
      BY <1>B DEF Becomes
    <2>2. /\ build.kind = "map" => SoundMap(build.size, build.pow2, heap', fm', fv')
          /\ build.kind # "map" => SoundDmap(build.size, build.pow2, heap', dm')
      BY <1>B, <2>1 DEF Sound
    <2> QED
      BY <1>0, <1>B, <2>2, ReadyStep
  <1>8. ASSUME NEW index \in 0 .. build.size-1, FreeIndex(index) PROVE TableInv'
    <2>1. /\ stage = "ready" /\ dchain_is_index_allocated(heap, index)
          /\ UNCHANGED <<build, stage, fv, now>>
      BY <1>8 DEF FreeIndex
    <2>2. /\ Structures = [heap |-> Structures.heap, fm |-> Structures.fm, dm |-> Structures.dm]
          /\ Sound(Structures) /\ Structures.heap = heap
      BY <2>1, SoundIs DEF TableInv, Sound
    <2>3. index \in UsedIn(Structures.heap, build.size)
      BY <2>1, <2>2 DEF UsedIn
    <2>4. Becomes([RemoveEntry(Structures, index) EXCEPT
                     !.heap = dchain_free_index(RemoveEntry(Structures, index).heap, index)])
      BY <1>8 DEF FreeIndex
    <2>5. Becomes(Removed(Structures, index))
      BY <2>2, <2>4, RemovedIs
    <2>6. Sound(Removed(Structures, index))
      BY <2>2, <2>3, RemovedSound
    <2> QED
      BY <1>B, <2>1, <2>5, <2>6
  <1>9. CASE Expire
    <2>1. /\ stage = "ready" /\ Becomes(expire_items(last_time))
          /\ UNCHANGED <<build, stage, fv, now>>
      BY <1>9 DEF Expire
    <2>2. last_time \in Int
      BY <1>0, LastTime
    <2>3. Sound(expire_items(last_time))
      BY <2>1, <2>2, ExpireKeeps DEF TableInv, Keeps
    <2> QED
      BY <1>B, <2>1, <2>3
  <1>10. CASE Tick
    <2>1. /\ stage = "ready" /\ now' = now + 1 /\ now < MaxTime
          /\ UNCHANGED <<build, stage, heap, fv, fm, dm>>
      BY <1>10 DEF Tick, table
    <2>2. now' \in 0 .. MaxTime
      BY <1>0, <2>1 DEF FlowTableAssumption
    <2> QED
      BY <1>R, <2>1, <2>2, ReadyStep
  <1>11. CASE UNCHANGED vars
    BY <1>11 DEF vars, table, TableInv, Sound, Structures
  <1> QED
    BY <1>1, <1>2, <1>3, <1>4, <1>5, <1>6, <1>7, <1>8, <1>9, <1>10, <1>11 DEF Next, Failed

-----------------------------------------------------------------------------
(***************************************************************************)
(* What holds of every run.                                                *)
(***************************************************************************)

\* The invariant holds of every state.
THEOREM TableInvariant == Spec => []TableInv
  <1>1. Init => TableInv
    BY TableInit, FlowTableAssumption
  <1>2. TableInv /\ [Next]_vars => TableInv'
    BY TableStep, FlowTableAssumption
  <1> QED
    BY <1>1, <1>2, PTL DEF Spec

\* The links and the counters survive any sequence of calls: the two lists
\* share the cells out between them, each cell counts the keys whose search
\* runs over it, and the counts of entries agree.
THEOREM StructuresStayConsistent == Spec => []StructuresConsistent
  <1>1. ASSUME TableInv PROVE StructuresConsistent
    <2> SUFFICES ASSUME stage = "ready"
                 PROVE  /\ WellLinked(heap)
                        /\ IF build.kind = "map"
                             THEN /\ ChainsExact(fm.t) /\ map_size(fm) = impl_size(fm.t)
                                  /\ map_size(fm) = Cardinality(InUse)
                             ELSE /\ ChainsExact(dm.a) /\ ChainsExact(dm.b)
                                  /\ dmap_size(dm) = impl_size(dm.a)
                                  /\ dmap_size(dm) = impl_size(dm.b)
      BY DEF StructuresConsistent, ChainLinked, CountersExact
    <2>1. Sound(Structures)
      BY <1>1 DEF TableInv
    <2>2. WellLinked(heap)
      BY <2>1, SoundLinked, SoundIs, LinkedWell
    <2>3. InUse = UsedIn(heap, build.size)
      BY DEF InUse, UsedIn
    <2>4. CASE build.kind = "map"
      <3>1. /\ Stores(fm.t, build.size, build.pow2, fv, InUse)
            /\ fm.size = Cardinality(InUse)
        BY <2>1, <2>3, <2>4, SoundIs DEF SoundMap
      <3>2. ChainsExact(fm.t) /\ impl_size(fm.t) = Cardinality(InUse)
        BY <3>1, ChainsAreExact, SizeIs
      <3> QED
        BY <2>2, <2>4, <3>1, <3>2 DEF map_size
    <2>5. CASE build.kind # "map"
      <3>1. /\ Stores(dm.a, build.size, build.pow2, KeysA(dm), InUse)
            /\ Stores(dm.b, build.size, build.pow2, KeysB(dm), InUse)
            /\ dm.n_vals = Cardinality(InUse)
        BY <2>1, <2>3, <2>5, SoundIs DEF SoundDmap
      <3>2. ChainsExact(dm.a) /\ impl_size(dm.a) = Cardinality(InUse)
        BY <3>1, ChainsAreExact, SizeIs
      <3>3. ChainsExact(dm.b) /\ impl_size(dm.b) = Cardinality(InUse)
        BY <3>1, ChainsAreExact, SizeIs
      <3> QED
        BY <2>2, <2>5, <3>1, <3>2, <3>3 DEF dmap_size
    <2> QED
      BY <2>4, <2>5
  <1> QED
    BY <1>1, TableInvariant, PTL

\* A lookup finds a key exactly when an index in use holds it, and that index.
THEOREM LookupsAreExact == Spec => []LookupExact
  <1>1. ASSUME TableInv PROVE LookupExact
    <2> DEFINE H(key, k) ==
                 LET holders == {i \in DOMAIN Contents : Contents[i][k] = key}
                 IN  IF holders = {} THEN NotFound ELSE CHOOSE i \in holders : TRUE
    <2> SUFFICES ASSUME stage = "ready", NEW key \in Key
                 PROVE  IF build.kind = "map" THEN map_get(fm, fv, key) = H(key, "a")
                        ELSE dmap_get_a(dm, key) = H(key, "a") /\ dmap_get_b(dm, key) = H(key, "b")
      BY DEF LookupExact
    <2>1. Sound(Structures)
      BY <1>1 DEF TableInv
    <2>2. InUse = UsedIn(heap, build.size)
      BY DEF InUse, UsedIn
    <2>3. CASE build.kind = "map"
      <3>1. SoundMap(build.size, build.pow2, heap, fm, fv)
        BY <2>1, <2>3, SoundIs
      <3>2. DOMAIN Contents = InUse /\ \A i \in InUse : Contents[i] = [a |-> fv[i]]
        BY <2>3 DEF Contents
      <3>3. \A i \in InUse : Contents[i]["a"] = fv[i]
        BY <3>2
      <3> DEFINE holders == {i \in DOMAIN Contents : Contents[i]["a"] = key}
      <3>4. holders = {i \in InUse : fv[i] = key}
        BY <3>2, <3>3
      <3> HIDE DEF holders
      <3>5. map_get(fm, fv, key)
              = IF holders = {} THEN NotFound ELSE CHOOSE i \in holders : TRUE
        <4>1. /\ \A i \in holders : map_get(fm, fv, key) = i
              /\ holders = {} => map_get(fm, fv, key) = NotFound
          BY <2>2, <3>1, <3>4, MapGetFinds, FlowTableAssumption
        <4>2. holders # {} => (CHOOSE i \in holders : TRUE) \in holders
          OBVIOUS
        <4> QED
          BY <4>1, <4>2
      <3> QED
        BY <2>3, <3>5 DEF holders
    <2>4. CASE build.kind # "map"
      <3>1. SoundDmap(build.size, build.pow2, heap, dm)
        BY <2>1, <2>4, SoundIs
      <3>2. DOMAIN Contents = InUse /\ \A i \in InUse : Contents[i] = dm.values[i]
        BY <2>4 DEF Contents, dmap_get_value
      <3>3. \A i \in InUse : Contents[i]["a"] = dm.values[i].a /\ Contents[i]["b"] = dm.values[i].b
        <4>1. \A i \in InUse : dm.values[i] \in DValue
          BY <2>2, <3>1 DEF SoundDmap
        <4> QED
          BY <3>2, <4>1 DEF DValue
      <3> DEFINE ha == {i \in DOMAIN Contents : Contents[i]["a"] = key}
                 hb == {i \in DOMAIN Contents : Contents[i]["b"] = key}
      <3>4. /\ ha = {i \in InUse : dm.values[i].a = key}
            /\ hb = {i \in InUse : dm.values[i].b = key}
        BY <3>2, <3>3
      <3> HIDE DEF ha, hb
      <3>5. dmap_get_a(dm, key) = IF ha = {} THEN NotFound ELSE CHOOSE i \in ha : TRUE
        <4>1. /\ \A i \in ha : dmap_get_a(dm, key) = i
              /\ ha = {} => dmap_get_a(dm, key) = NotFound
          BY <2>2, <3>1, <3>4, DmapGetFinds, FlowTableAssumption
        <4>2. ha # {} => (CHOOSE i \in ha : TRUE) \in ha
          OBVIOUS
        <4> QED
          BY <4>1, <4>2
      <3>6. dmap_get_b(dm, key) = IF hb = {} THEN NotFound ELSE CHOOSE i \in hb : TRUE
        <4>1. /\ \A i \in hb : dmap_get_b(dm, key) = i
              /\ hb = {} => dmap_get_b(dm, key) = NotFound
          BY <2>2, <3>1, <3>4, DmapGetFinds, FlowTableAssumption
        <4>2. hb # {} => (CHOOSE i \in hb : TRUE) \in hb
          OBVIOUS
        <4> QED
          BY <4>1, <4>2
      <3> QED
        BY <2>4, <3>5, <3>6 DEF ha, hb
    <2> QED
      BY <2>3, <2>4
  <1> QED
    BY <1>1, TableInvariant, PTL

\* The product of flow_manager_expire fits the uint32_t it is computed in.
NoWrap == ExpirationTime * UsToNs < 2^IntBits

\* Expiry removes no flow that has been used within the expiration time.
THEOREM OnlyIdleExpire ==
  ASSUME NoWrap
  PROVE  Spec => ExpiresIdleOnly
  <1> DEFINE IdleOnly ==
        Expire => \A k \in 0 .. build.size-1 :
          dchain_is_index_allocated(heap, k) /\ heap.timestamps[k] >= now - ExpirationTime * UsToNs
            => dchain_is_index_allocated(heap', k)
  <1>1. ASSUME TableInv PROVE IdleOnly
    <2> SUFFICES ASSUME Expire, NEW k \in 0 .. build.size-1, dchain_is_index_allocated(heap, k),
                        heap.timestamps[k] >= now - ExpirationTime * UsToNs
                 PROVE  dchain_is_index_allocated(heap', k)
      OBVIOUS
    <2>1. stage = "ready" /\ heap' = expire_items(last_time).heap
      BY DEF Expire, Becomes
    <2>2. last_time \in Int /\ last_time = now - ExpirationTime * UsToNs
      BY <1>1, TableNumbers, LastTime, FlowTableAssumption DEF NoWrap
    <2>3. build \in Builds /\ Sound(Structures)
      BY <1>1, <2>1 DEF TableInv
    <2>4. Keeps(Structures, expire_items(last_time), last_time)
      BY <2>2, <2>3, ExpireKeeps, FlowTableAssumption
    <2>5. k \in UsedIn(Structures.heap, build.size)
      BY SoundIs DEF UsedIn
    <2>6. k \in UsedIn(expire_items(last_time).heap, build.size)
      BY <2>2, <2>4, <2>5, SoundIs DEF Keeps
    <2> QED
      BY <2>1, <2>6 DEF UsedIn
  <1>2. TableInv => [IdleOnly]_vars
    BY <1>1
  <1> QED
    BY <1>2, TableInvariant, PTL DEF ExpiresIdleOnly

-----------------------------------------------------------------------------
(***************************************************************************)
(* The steps of Emap.                                                      *)
(***************************************************************************)

\* A chain with the list q and n indices.
ChainIs(q, n) == [alist |-> q, size |-> n]

\* What Emap keeps of a list is what Order keeps.
LEMMA AbstractKept ==
  ASSUME NEW q, NEW S
  PROVE  Abstract!Selected(q, S) = Selected(q, S)
  BY Zenon DEF Abstract!Selected, Abstract!Ascending, Abstract!Rank, Abstract!Cardinality,
               Cardinality, Selected, Ascending, Rank

\* A chain whose list has changed.
LEMMA ChainWith ==
  ASSUME NEW q, NEW n, NEW c, c = ChainIs(q, n)
  PROVE  /\ c.alist = q /\ c.size = n
         /\ \A x : [c EXCEPT !.alist = x] = ChainIs(x, n)
  BY DEF ChainIs

\* The indices of a list, the entries since a time, the indices of those before it.
IndicesOf(q) == {q[n].index : n \in DOMAIN q}
SinceTime(q, t) == Selected(q, {k \in DOMAIN q : q[k].time >= t})
BeforeTime(q, t) == {q[k].index : k \in {j \in DOMAIN q : q[j].time < t}}

\* Using an index again moves its entry to the end.
LEMMA EmapRefreshIs ==
  ASSUME NEW q, NEW n, NEW k, NEW t, k \in IndicesOf(q),
         AbstractChain = ChainIs(q, n),
         AbstractChain' = ChainIs(Append(Others(q, k), AtTime(k, t)), n),
         AbstractValues' = AbstractValues
  PROVE  Abstract!emap_refresh_idx(k, t)
  <1>1. PICK c : c = AbstractChain
    OBVIOUS
  <1>2. c.alist = q /\ \A x : [c EXCEPT !.alist = x] = ChainIs(x, n)
    BY <1>1, ChainWith
  <1>3. Abstract!remove_by_index(q, k) = Others(q, k)
    BY AbstractKept, Zenon DEF Abstract!remove_by_index, Others
  <1>4. Abstract!dchain_rejuvenate(c, k, t)
          = [c EXCEPT !.alist = Append(Abstract!remove_by_index(c.alist, k), AtTime(k, t))]
    BY DEF Abstract!dchain_rejuvenate, AtTime
  <1>5. Abstract!dchain_rejuvenate(c, k, t) = ChainIs(Append(Others(q, k), AtTime(k, t)), n)
    BY <1>2, <1>3, <1>4, Zenon
  <1>6. Abstract!dchain_allocated(c, k)
    BY <1>2, Zenon DEF Abstract!dchain_allocated, Abstract!dchain_indexes, IndicesOf
  <1> QED
    BY <1>1, <1>5, <1>6, Zenon DEF Abstract!emap_refresh_idx

\* Two values share no key; values with one more.
Differ(v, w) == \A f \in DOMAIN v \intersect DOMAIN w : w[f] # v[f]
Extended(g, k, v) == [i \in DOMAIN g \union {k} |-> IF i = k THEN v ELSE g[i]]

\* A new entry comes last.
LEMMA EmapAddIs ==
  ASSUME NEW q, NEW n, NEW k, NEW t, NEW v,
         AbstractChain = ChainIs(q, n), ~ (n <= Len(q)),
         AbstractChain' = ChainIs(Append(q, AtTime(k, t)), n),
         k \notin DOMAIN AbstractValues,
         \A i \in DOMAIN AbstractValues : Differ(v, AbstractValues[i]),
         AbstractValues' = Extended(AbstractValues, k, v)
  PROVE  Abstract!emap_add(v, k, t)
  <1>1. PICK c : c = AbstractChain
    OBVIOUS
  <1>2. /\ c.alist = q /\ c.size = n /\ \A x : [c EXCEPT !.alist = x] = ChainIs(x, n)
    BY <1>1, ChainWith
  <1>3. Abstract!dchain_allocate(c, k, t) = [c EXCEPT !.alist = Append(c.alist, AtTime(k, t))]
    BY DEF Abstract!dchain_allocate, AtTime
  <1>4. Abstract!dchain_allocate(c, k, t) = ChainIs(Append(q, AtTime(k, t)), n)
    BY <1>2, <1>3, Zenon
  <1>5. ~ Abstract!dchain_out_of_space(c)
    BY <1>2, Zenon DEF Abstract!dchain_out_of_space
  <1>6. Abstract!no_such_keys(v)
    BY Zenon DEF Abstract!no_such_keys, Differ
  <1> QED
    BY <1>1, <1>4, <1>5, <1>6, Zenon DEF Abstract!emap_add, Extended

\* Erasing an index takes its entry and its value away.
LEMMA EmapEraseIs ==
  ASSUME NEW q, NEW n, NEW k, k \in IndicesOf(q),
         AbstractChain = ChainIs(q, n), AbstractChain' = ChainIs(Others(q, k), n),
         AbstractValues' = [i \in DOMAIN AbstractValues \ {k} |-> AbstractValues[i]]
  PROVE  Abstract!emap_erase(k)
  <1>1. PICK c : c = AbstractChain
    OBVIOUS
  <1>2. c.alist = q /\ \A x : [c EXCEPT !.alist = x] = ChainIs(x, n)
    BY <1>1, ChainWith
  <1>3. Abstract!remove_by_index(q, k) = Others(q, k)
    BY AbstractKept, Zenon DEF Abstract!remove_by_index, Others
  <1>4. Abstract!dchain_remove_index(c, k) = ChainIs(Others(q, k), n)
    BY <1>2, <1>3, Zenon DEF Abstract!dchain_remove_index
  <1>5. Abstract!dchain_allocated(c, k)
    BY <1>2, Zenon DEF Abstract!dchain_allocated, Abstract!dchain_indexes, IndicesOf
  <1>6. AbstractValues' = Abstract!Restrict(AbstractValues, DOMAIN AbstractValues \ {k})
    BY Zenon DEF Abstract!Restrict
  <1> QED
    BY <1>1, <1>4, <1>5, <1>6, Zenon DEF Abstract!emap_erase

\* Expiry takes away all entries before a time.
LEMMA EmapExpireAllIs ==
  ASSUME NEW q, NEW n, NEW t,
         AbstractChain = ChainIs(q, n), AbstractChain' = ChainIs(SinceTime(q, t), n),
         AbstractValues' = [i \in DOMAIN AbstractValues \ BeforeTime(q, t) |-> AbstractValues[i]]
  PROVE  Abstract!emap_expire_all(t)
  <1>1. PICK c : c = AbstractChain
    OBVIOUS
  <1>2. c.alist = q /\ \A x : [c EXCEPT !.alist = x] = ChainIs(x, n)
    BY <1>1, ChainWith
  <1>3. Abstract!dchain_expire_old_indexes(c, t)
          = [c EXCEPT !.alist = Abstract!Selected(c.alist,
                                              {k \in DOMAIN c.alist : c.alist[k].time >= t})]
    BY DEF Abstract!dchain_expire_old_indexes
  <1>4. Abstract!dchain_expire_old_indexes(c, t) = ChainIs(SinceTime(q, t), n)
    BY <1>2, <1>3, AbstractKept, Zenon DEF SinceTime
  <1>5. Abstract!dchain_get_expired_indexes(c, t) = BeforeTime(q, t)
    BY <1>2, Zenon DEF Abstract!dchain_get_expired_indexes, BeforeTime
  <1>6. AbstractValues' = Abstract!Restrict(AbstractValues,
                            DOMAIN AbstractValues \ Abstract!dchain_get_expired_indexes(c, t))
    BY <1>5, Zenon DEF Abstract!Restrict
  <1> QED
    BY <1>1, <1>4, <1>6, Zenon DEF Abstract!emap_expire_all

-----------------------------------------------------------------------------
(***************************************************************************)
(* The abstract state.                                                     *)
(***************************************************************************)

\* What a table holds under an index, and under all.
Item(s, k) == IF build.kind = "map" THEN [a |-> fv[k]] ELSE s.dm.values[k]
Items(s) == [k \in UsedIn(s.heap, build.size) |-> Item(s, k)]

\* The abstract values of a table that is ready.
LEMMA ContentsAre == Contents = Items(Structures)
  <1>1. InUse = UsedIn(heap, build.size)
    BY DEF InUse, UsedIn
  <1>2. Structures.heap = heap /\ Structures.dm = dm
    BY SoundIs
  <1> QED
    BY <1>1, <1>2 DEF Contents, Items, Item, dmap_get_value

\* The abstract state of a table that is ready.
LEMMA AbstractIs ==
  ASSUME stage = "ready"
  PROVE  /\ AbstractChain = ChainIs(dchain_alist(heap), build.size)
         /\ AbstractValues = Items(Structures)
  BY ContentsAre DEF AbstractChain, AbstractValues, ChainIs

\* And after the step.
LEMMA AbstractNextIs ==
  ASSUME stage' = "ready"
  PROVE  /\ AbstractChain' = ChainIs(dchain_alist(heap'), build'.size)
         /\ AbstractValues' = Items(Structures)'
  <1>1. Contents' = Items(Structures)'
    <2>1. InUse' = UsedIn(heap', build'.size)
      BY DEF InUse, UsedIn
    <2>2. Structures'.heap = heap' /\ Structures'.dm = dm'
      BY DEF Structures
    <2> QED
      BY <2>1, <2>2 DEF Contents, Items, Item, dmap_get_value
  <1> QED
    BY <1>1 DEF AbstractChain, AbstractValues, ChainIs

\* The list of a table in use is in the order of its times.
OrderInv == stage = "ready" => InOrder(dchain_alist(heap), now)

\* An index in use is used again.
LEMMA RefreshAbstract ==
  ASSUME FlowTableAssumption, TableInv, OrderInv, NEW k \in 0 .. build.size-1,
         stage = "ready", dchain_is_index_allocated(heap, k),
         heap' = dchain_rejuvenate_index(heap, k, now),
         UNCHANGED <<build, stage, fv, dm, now>>
  PROVE  Abstract!emap_refresh_idx(k, now) /\ OrderInv'
  <1> DEFINE q == dchain_alist(heap)  N == build.size
  <1>1. Linked(heap, N) /\ now \in Int /\ InOrder(q, now)
    BY SoundIs, SoundLinked, TableNumbers DEF TableInv, OrderInv
  <1>2. /\ AlistOf(heap', Append(Others(q, k), AtTime(k, now)))
        /\ InOrder(dchain_alist(heap'), now)
    BY <1>1, RejuvenateStep
  <1>3. Items(Structures)' = Items(Structures)
    <2>1. UsedIn(heap', N) = UsedIn(heap, N)
      BY <1>1, RejuvenateLinked DEF UsedIn
    <2>2. /\ Structures.heap = heap /\ Structures.dm = dm
          /\ Structures'.heap = heap' /\ Structures'.dm = dm'
      BY DEF Structures
    <2> QED
      BY <2>1, <2>2 DEF Items, Item
  <1>4. k \in IndicesOf(q)
    <2>1. PICK j : IsAt(q, k, j)
      BY <1>1, PositionOf
    <2>2. DOMAIN q = 1 .. Len(q)
      BY <1>1, AlistTyped DEF EntryList
    <2> QED
      BY <2>1, <2>2 DEF IsAt, IndicesOf
  <1>5. /\ AbstractChain = ChainIs(q, N) /\ AbstractValues = Items(Structures)
        /\ AbstractChain' = ChainIs(dchain_alist(heap'), N) /\ AbstractValues' = Items(Structures)'
    <2>1. AbstractChain = ChainIs(q, N) /\ AbstractValues = Items(Structures)
      BY AbstractIs
    <2>2. stage' = "ready" /\ build' = build
      OBVIOUS
    <2>3. /\ AbstractChain' = ChainIs(dchain_alist(heap'), build'.size)
          /\ AbstractValues' = Items(Structures)'
      BY <2>2, AbstractNextIs
    <2> QED
      BY <2>1, <2>2, <2>3
  <1>6. /\ AbstractChain' = ChainIs(Append(Others(q, k), AtTime(k, now)), N)
        /\ AbstractValues' = AbstractValues
    BY <1>2, <1>3, <1>5, Zenon DEF AlistOf
  <1>7. Abstract!emap_refresh_idx(k, now)
    BY <1>4, <1>5, <1>6, EmapRefreshIs, Zenon
  <1> QED
    BY <1>2, <1>7 DEF OrderInv

-----------------------------------------------------------------------------
(***************************************************************************)
(* Each call is a step of Emap.                                            *)
(***************************************************************************)

\* A value is given a new index.
LEMMA AllocateAbstract ==
  ASSUME FlowTableAssumption, TableInv, OrderInv, stage = "ready",
         ~ OutOfSpace(heap), heap' = dchain_allocate_new_index(heap, now),
         UNCHANGED <<build, stage, now>>,
         NEW v, NEW e, e = NewIndex(heap), Item(Structures, e)' = v,
         \A i \in UsedIn(heap, build.size) :
           /\ i # e => Item(Structures, i)' = Item(Structures, i)
           /\ Differ(v, Item(Structures, i))
  PROVE  e \in 0 .. build.size-1 /\ Abstract!emap_add(v, e, now) /\ OrderInv'
  <1> DEFINE q == dchain_alist(heap)  N == build.size
  <1>1. Linked(heap, N) /\ now \in Int /\ InOrder(q, now)
    BY SoundIs, SoundLinked, TableNumbers DEF TableInv, OrderInv
  <1>2. /\ AlistOf(heap', Append(q, AtTime(e, now)))
        /\ Len(q) < N /\ e \in 0 .. N-1
        /\ InOrder(dchain_alist(heap'), now)
    BY <1>1, AllocateStep
  <1>3. e \notin UsedIn(heap, N) /\ UsedIn(heap', N) = UsedIn(heap, N) \union {e}
    <2>1. /\ ~ dchain_is_index_allocated(heap, e)
          /\ \A k \in 0 .. N-1 : dchain_is_index_allocated(heap', k)
                                  <=> dchain_is_index_allocated(heap, k) \/ k = e
      BY <1>1, AllocateLinked
    <2> QED
      BY <1>2, <2>1 DEF UsedIn
  <1>4. /\ AbstractChain = ChainIs(q, N) /\ AbstractValues = Items(Structures)
        /\ AbstractChain' = ChainIs(dchain_alist(heap'), N) /\ AbstractValues' = Items(Structures)'
    <2>1. AbstractChain = ChainIs(q, N) /\ AbstractValues = Items(Structures)
      BY AbstractIs
    <2>2. stage' = "ready" /\ build' = build
      OBVIOUS
    <2>3. /\ AbstractChain' = ChainIs(dchain_alist(heap'), build'.size)
          /\ AbstractValues' = Items(Structures)'
      BY <2>2, AbstractNextIs
    <2> QED
      BY <2>1, <2>2, <2>3
  <1>5. /\ Items(Structures) = [i \in UsedIn(heap, N) |-> Item(Structures, i)]
        /\ DOMAIN Items(Structures) = UsedIn(heap, N)
        /\ \A i \in UsedIn(heap, N) : Items(Structures)[i] = Item(Structures, i)
    <2>1. Structures.heap = heap
      BY SoundIs
    <2> QED
      BY <2>1 DEF Items
  <1>6. Items(Structures)' = [i \in UsedIn(heap', N) |-> Item(Structures, i)']
    <2>1. Structures'.heap = heap'
      BY DEF Structures
    <2> QED
      BY <2>1 DEF Items
  <1>7. Items(Structures)' = Extended(Items(Structures), e, v)
    <2>1. \A i \in UsedIn(heap, N) \union {e} :
            Item(Structures, i)' = IF i = e THEN v ELSE Items(Structures)[i]
      BY <1>3, <1>5
    <2> QED
      BY <1>3, <1>5, <1>6, <2>1 DEF Extended
  <1>8. ~ (N <= Len(q))
    <2>1. Len(q) \in Nat /\ N \in Nat
      BY <1>1, AlistTyped, TableNumbers DEF EntryList
    <2> QED
      BY <1>2, <2>1
  <1>9. Abstract!emap_add(v, e, now)
    <2>1. AbstractChain' = ChainIs(Append(q, AtTime(e, now)), N)
      BY <1>2, <1>4, Zenon DEF AlistOf
    <2>2. e \notin DOMAIN AbstractValues
      BY <1>3, <1>4, <1>5
    <2>3. \A i \in DOMAIN AbstractValues : Differ(v, AbstractValues[i])
      BY <1>4, <1>5
    <2>4. AbstractValues' = Extended(AbstractValues, e, v)
      BY <1>4, <1>7
    <2> QED
      BY <1>4, <1>8, <2>1, <2>2, <2>3, <2>4, EmapAddIs, Zenon
  <1> QED
    BY <1>2, <1>9 DEF OrderInv

\* Removing an index leaves what the others hold alone.
LEMMA RemovedItem ==
  ASSUME NEW s, Sound(s), NEW e \in 0 .. build.size-1, NEW i \in 0 .. build.size-1, i # e
  PROVE  Item(Removed(s, e), i) = Item(s, i)
  <1>1. CASE build.kind = "map"
    BY <1>1 DEF Item
  <1>2. CASE build.kind # "map"
    <2>1. Removed(s, e).dm = dmap_erase(s.dm, e)
      BY <1>2 DEF Removed
    <2>2. s.dm.values \in [0 .. build.size-1 -> DValue \union {NoValue}]
      BY <1>2 DEF Sound, SoundDmap
    <2>3. Removed(s, e).dm.values = [s.dm.values EXCEPT ![e] = NoValue]
      BY <2>1 DEF dmap_erase
    <2>4. Removed(s, e).dm.values[i] = s.dm.values[i]
      BY <2>2, <2>3
    <2> QED
      BY <1>2, <2>4 DEF Item
  <1> QED
    BY <1>1, <1>2

\* An index in use is released.
LEMMA FreeAbstract ==
  ASSUME FlowTableAssumption, TableInv, OrderInv, stage = "ready",
         NEW k \in 0 .. build.size-1, dchain_is_index_allocated(heap, k),
         Becomes(Removed(Structures, k)), UNCHANGED <<build, stage, fv, now>>
  PROVE  Abstract!emap_erase(k) /\ OrderInv'
  <1> DEFINE q == dchain_alist(heap)  N == build.size
  <1>1. Linked(heap, N) /\ now \in Int /\ InOrder(q, now)
    BY SoundIs, SoundLinked, TableNumbers DEF TableInv, OrderInv
  <1>H. heap' = dchain_free_index(heap, k)
    BY SoundIs DEF Becomes, Removed
  <1>2. AlistOf(heap', Others(q, k)) /\ InOrder(dchain_alist(heap'), now)
    BY <1>1, <1>H, FreeStep
  <1>3. UsedIn(heap', N) = UsedIn(heap, N) \ {k}
    BY <1>1, <1>H, FreeLinked DEF UsedIn
  <1>4. /\ AbstractChain = ChainIs(q, N) /\ AbstractValues = Items(Structures)
        /\ AbstractChain' = ChainIs(dchain_alist(heap'), N) /\ AbstractValues' = Items(Structures)'
    <2>1. AbstractChain = ChainIs(q, N) /\ AbstractValues = Items(Structures)
      BY AbstractIs
    <2>2. stage' = "ready" /\ build' = build
      OBVIOUS
    <2>3. /\ AbstractChain' = ChainIs(dchain_alist(heap'), build'.size)
          /\ AbstractValues' = Items(Structures)'
      BY <2>2, AbstractNextIs
    <2> QED
      BY <2>1, <2>2, <2>3
  <1>5. /\ DOMAIN Items(Structures) = UsedIn(heap, N)
        /\ \A i \in UsedIn(heap, N) : Items(Structures)[i] = Item(Structures, i)
    <2>1. Structures.heap = heap
      BY SoundIs
    <2> QED
      BY <2>1 DEF Items
  <1>6. Items(Structures)' = [i \in UsedIn(heap', N) |-> Item(Structures, i)']
    <2>1. Structures'.heap = heap'
      BY DEF Structures
    <2> QED
      BY <2>1 DEF Items
  <1>7. ASSUME NEW i \in UsedIn(heap, N) \ {k}
        PROVE  Item(Structures, i)' = Item(Structures, i)
    <2>1. CASE build.kind = "map"
      BY <2>1 DEF Item
    <2>2. CASE build.kind # "map"
      <3>1. dm' = dmap_erase(dm, k)
        BY <2>2, SoundIs DEF Becomes, Removed
      <3>2. dm.values \in [0 .. N-1 -> DValue \union {NoValue}]
        BY <2>2, SoundIs DEF TableInv, SoundDmap
      <3>3. dm'.values = [dm.values EXCEPT ![k] = NoValue]
        BY <3>1 DEF dmap_erase
      <3>4. dm'.values[i] = dm.values[i]
        BY <3>2, <3>3 DEF UsedIn
      <3>5. Structures'.dm = dm' /\ Structures.dm = dm
        BY DEF Structures
      <3> QED
        BY <2>2, <3>4, <3>5 DEF Item
    <2> QED
      BY <2>1, <2>2
  <1>8. Items(Structures)' = [i \in DOMAIN Items(Structures) \ {k} |-> Items(Structures)[i]]
    BY <1>3, <1>5, <1>6, <1>7
  <1>9. k \in IndicesOf(q)
    <2>1. PICK j : IsAt(q, k, j)
      BY <1>1, PositionOf
    <2>2. DOMAIN q = 1 .. Len(q)
      BY <1>1, AlistTyped DEF EntryList
    <2> QED
      BY <2>1, <2>2 DEF IsAt, IndicesOf
  <1>10. Abstract!emap_erase(k)
    <2>1. AbstractChain' = ChainIs(Others(q, k), N)
      BY <1>2, <1>4, Zenon DEF AlistOf
    <2>2. AbstractValues' = [i \in DOMAIN AbstractValues \ {k} |-> AbstractValues[i]]
      BY <1>4, <1>8
    <2> QED
      BY <1>4, <1>9, <2>1, <2>2, EmapEraseIs, Zenon
  <1> QED
    BY <1>2, <1>10 DEF OrderInv

\* A list of no entries, and a function on no number.
LEMMA NothingIs ==
  /\ \A q, S : q \in Seq(S) /\ Len(q) = 0 => q = <<>>
  /\ \A q, U : U = {} /\ DOMAIN q = U /\ q = [k \in U |-> q[k]] => q = <<>>
  <1>1. \A q, S : q \in Seq(S) /\ Len(q) = 0 => q = <<>>
    BY EmptySeq
  <1>2. ASSUME NEW q, DOMAIN q = {}, q = [k \in {} |-> q[k]] PROVE q = <<>>
    <2>1. q \in [1 .. 0 -> {}]
      BY <1>2
    <2>2. q \in Seq({}) /\ Len(q) = 0
      BY <2>1, SequenceIs
    <2> QED
      BY <1>1, <2>2
  <1> QED
    BY <1>1, <1>2

\* A chain that has just been made has an empty list.
LEMMA InitAlist ==
  ASSUME NEW N \in Nat \ {0}
  PROVE  AlistOf(dchain_allocate(N), <<>>)
  <1> DEFINE succ == [c \in 0 .. N+1 |->
                 CASE c = ALLOC_LIST_HEAD -> ALLOC_LIST_HEAD
                   [] c = N+1             -> FREE_LIST_HEAD
                   [] OTHER               -> c + 1]
             ch == dchain_allocate(N)
  <1>1. ch.next = succ
    BY DEF dchain_allocate, dchain_impl_init
  <1>2. succ[0] = 0
    BY DEF ALLOC_LIST_HEAD, FREE_LIST_HEAD
  <1>3. Linked(ch, N)
    BY InitUsed
  <1> HIDE DEF succ, ch
  <1>4. IsEmpty(ch)
    BY <1>1, <1>2 DEF IsEmpty, ALLOC_LIST_HEAD
  <1>5. PICK q : q = dchain_alist(ch)
    OBVIOUS
  <1>6. Len(q) = 0 /\ q \in Seq([index : 0 .. N-1, time : Int])
    BY <1>3, <1>4, <1>5, EmptyList, AlistTyped, Zenon
  <1>7. q = <<>>
    BY <1>6, NothingIs
  <1> QED
    BY <1>5, <1>7 DEF AlistOf, ch

\* A table that has been allocated is empty.
LEMMA CreateAbstract ==
  ASSUME FlowTableAssumption, TableInv, Initialise, stage = "dchain_allocate"
  PROVE  Abstract!Create /\ OrderInv'
  <1>1. /\ heap' = dchain_allocate(build.size) /\ stage' = "ready"
        /\ build' = build /\ now' = now
    BY DEF Initialise
  <1>2. build.size \in Nat \ {0} /\ build \in Builds
    BY TableNumbers DEF TableInv
  <1>3. dchain_alist(heap') = <<>> /\ UsedIn(heap', build.size) = {}
    BY <1>1, <1>2, InitAlist, InitUsed DEF AlistOf
  <1>4. AbstractChain = [alist |-> <<>>, size |-> 0] /\ AbstractValues = <<>>
    BY DEF AbstractChain, AbstractValues
  <1>5. /\ AbstractChain' = [alist |-> <<>>, size |-> build.size]
        /\ AbstractValues' = Items(Structures)'
    <2>1. /\ AbstractChain' = ChainIs(dchain_alist(heap'), build'.size)
          /\ AbstractValues' = Items(Structures)'
      BY <1>1, AbstractNextIs
    <2> QED
      BY <1>1, <1>3, <2>1 DEF ChainIs
  <1>6. Items(Structures)' = <<>>
    <2>1. Structures'.heap = heap'
      BY DEF Structures
    <2>2. PICK w : w = Items(Structures)'
      OBVIOUS
    <2>3. w = [i \in UsedIn(heap', build.size) |-> Item(Structures, i)']
      BY <1>1, <2>1, <2>2 DEF Items
    <2>4. DOMAIN w = {} /\ w = [i \in {} |-> w[i]]
      BY <1>3, <2>3
    <2>5. w = <<>>
      BY <2>4, NothingIs
    <2> QED
      BY <2>2, <2>5
  <1>7. Abstract!Create
    <2>1. AbstractChain.size = 0
      BY <1>4
    <2>2. build.size \in {x.size : x \in Builds}
      BY <1>2
    <2>3. AbstractValues' = AbstractValues
      BY <1>4, <1>5, <1>6
    <2> QED
      BY <1>5, <2>1, <2>2, <2>3 DEF Abstract!Create
  <1>8. InOrder(dchain_alist(heap'), now')
    BY <1>3 DEF InOrder
  <1> QED
    BY <1>7, <1>8 DEF OrderInv

-----------------------------------------------------------------------------
(***************************************************************************)
(* Expiry takes a first part of the list away.                             *)
(***************************************************************************)

\* The first of what is left of a list, and the list without it.
LEMMA AfterIs ==
  ASSUME NEW q, NEW L \in Nat, Len(q) = L, NEW k \in 0 .. L
  PROVE  /\ Len(After(q, k)) = L-k
         /\ \A n \in 1 .. L-k : After(q, k)[n] = q[n+k]
         /\ k < L => Drop(After(q, k), 1) = After(q, k+1)
  <1>1. PICK p : p = After(q, k)
    OBVIOUS
  <1>2. p = [n \in 1 .. L-k |-> q[n+k]]
    BY <1>1 DEF After
  <1>3. Len(p) = L-k
    <2> DEFINE S == {p[n] : n \in 1 .. L-k}
    <2>1. L-k \in Nat /\ p \in [1 .. L-k -> S]
      BY <1>2
    <2> QED
      BY <2>1, SequenceIs, Zenon
  <1>4. \A n \in 1 .. L-k : p[n] = q[n+k]
    BY <1>2
  <1>5. ASSUME k < L PROVE Drop(p, 1) = After(q, k+1)
    <2>1. Drop(p, 1) = [n \in 1 .. L-k-1 |-> p[n+1]]
      BY <1>3 DEF Drop
    <2>2. ASSUME NEW n \in 1 .. L-k-1 PROVE p[n+1] = q[n+(k+1)]
      <3>1. n+1 \in 1 .. L-k /\ (n+1)+k = n+(k+1)
        OBVIOUS
      <3> QED
        BY <1>4, <3>1
    <2>3. L-k-1 = L-(k+1)
      OBVIOUS
    <2> QED
      BY <2>1, <2>2, <2>3 DEF After
  <1> QED
    BY <1>1, <1>3, <1>4, <1>5

\* Entries of a list in the order of their times, after some of them.
LEMMA AfterOrder ==
  ASSUME NEW q, EntryList(q), NEW k \in 0 .. Len(q), NEW t, InOrder(q, t)
  PROVE  InOrder(After(q, k), t)
  <1>1. PICK p, L : p = After(q, k) /\ L = Len(q)
    OBVIOUS
  <1>2. L \in Nat /\ k \in 0 .. L
    BY <1>1 DEF EntryList
  <1>3. Len(p) = L-k /\ \A n \in 1 .. L-k : p[n] = q[n+k]
    BY <1>1, <1>2, AfterIs, Zenon
  <1>4. /\ \A n \in 1 .. L : q[n].time <= t
        /\ \A i, j \in 1 .. L : i <= j => q[i].time <= q[j].time
    BY <1>1 DEF InOrder
  <1>5. \A n \in 1 .. L-k : p[n].time <= t
    <2>1. \A n \in 1 .. L-k : n+k \in 1 .. L
      BY <1>2
    <2> QED
      BY <1>3, <1>4, <2>1
  <1>6. ASSUME NEW i \in 1 .. L-k, NEW j \in 1 .. L-k, i <= j
        PROVE  p[i].time <= p[j].time
    <2>1. i+k \in 1 .. L /\ j+k \in 1 .. L /\ i+k <= j+k
      BY <1>2, <1>6
    <2> QED
      BY <1>3, <1>4, <2>1
  <1> QED
    BY <1>1, <1>3, <1>5, <1>6 DEF InOrder

\* What r holds, s holds too.
Within(r, s) ==
  \A x \in UsedIn(r.heap, build.size) :
    x \in UsedIn(s.heap, build.size) /\ Item(r, x) = Item(s, x)

\* After n rounds of expiry the first k entries of the list q are gone, all of
\* them older than time; fewer than n only when the next is not.
Gone(r, q, n, k, time) ==
  /\ Sound(r) /\ k \in 0 .. Len(q)
  /\ AlistOf(r.heap, After(q, k))
  /\ \A i \in 1 .. k : q[i].time < time
  /\ k = n \/ ~ OldestExpired(r.heap, time)
  /\ Within(r, Structures)

\* One round more.
LEMMA OneMoreGone ==
  ASSUME FlowTableAssumption, build \in Builds, NEW q, Len(q) \in Nat,
         NEW r, NEW n \in Nat, NEW k, NEW time, Gone(r, q, n, k, time)
  PROVE  \E j : Gone(ExpireOne(r, time), q, n+1, j, time)
  <1> DEFINE N == build.size
  <1>1. CASE ~ OldestExpired(r.heap, time)
    <2>1. ExpireOne(r, time) = r
      BY <1>1 DEF ExpireOne
    <2> QED
      BY <1>1, <2>1 DEF Gone
  <1>2. CASE OldestExpired(r.heap, time)
    <2>1. /\ Sound(r) /\ k \in 0 .. Len(q) /\ k = n /\ AlistOf(r.heap, After(q, k))
          /\ Within(r, Structures) /\ \A i \in 1 .. k : q[i].time < time
      BY <1>2 DEF Gone
    <2>2. PICK e : e = dchain_impl_get_oldest_index(r.heap)
      OBVIOUS
    <2>3. PICK s : s = Removed(r, e)
      OBVIOUS
    <2>4. /\ e \in UsedIn(r.heap, N) /\ ~ IsEmpty(r.heap) /\ r.heap.timestamps[e] < time
          /\ ExpireOne(r, time) = s
      BY <1>2, <2>1, <2>2, <2>3, ExpireOneIs
    <2>5. Sound(s) /\ UsedIn(s.heap, N) = UsedIn(r.heap, N) \ {e}
      <3>1. Sound(r) /\ e \in UsedIn(r.heap, N)
        BY <2>1, <2>4
      <3>2. /\ Sound(Removed(r, e))
            /\ UsedIn(Removed(r, e).heap, N) = UsedIn(r.heap, N) \ {e}
        BY <3>1, RemovedSound
      <3> QED
        BY <2>3, <3>2
    <2>6. Linked(r.heap, N)
      BY <2>1, SoundLinked
    <2>P. PICK p : p = After(q, k)
      OBVIOUS
    <2>7. IsAt(p, e, 1) /\ e \in 0 .. N-1 /\ r.heap.timestamps[e] = p[1].time
      <3>1. dchain_alist(r.heap) = p
        BY <2>1, <2>P, Zenon DEF AlistOf
      <3> QED
        BY <2>2, <2>4, <2>6, <3>1, OldestFirst, Zenon
    <2>8. s.heap = dchain_free_index(r.heap, e)
      BY <2>3 DEF Removed
    <2>9. AlistOf(s.heap, Drop(p, 1))
      <3>1. dchain_alist(r.heap) = p
        BY <2>1, <2>P, Zenon DEF AlistOf
      <3> QED
        BY <2>6, <2>7, <2>8, <3>1, FreeAlist, Zenon
    <2>10. k < Len(q) /\ p[1] = q[k+1] /\ Drop(p, 1) = After(q, k+1)
      <3>1. PICK L : L = Len(q)
        OBVIOUS
      <3>2. /\ Len(p) = L-k /\ \A i \in 1 .. L-k : p[i] = q[i+k]
            /\ k < L => Drop(p, 1) = After(q, k+1)
        BY <2>1, <2>P, <3>1, AfterIs, Zenon
      <3>3. 1 \in 1 .. L-k
        BY <2>7, <3>2 DEF IsAt
      <3>4. p[1] = q[1+k]
        BY <3>2, <3>3
      <3>5. k < L /\ 1+k = k+1
        BY <2>1, <3>1, <3>3
      <3> QED
        BY <3>1, <3>2, <3>4, <3>5
    <2>11. \A i \in 1 .. k+1 : q[i].time < time
      <3>1. q[k+1].time < time
        BY <2>4, <2>7, <2>10
      <3>2. \A i \in 1 .. k+1 : i = k+1 \/ i \in 1 .. k
        BY <2>1
      <3> QED
        BY <2>1, <3>1, <3>2
    <2>12. Within(s, Structures)
      <3> SUFFICES ASSUME NEW x \in UsedIn(s.heap, N)
                   PROVE  x \in UsedIn(Structures.heap, N) /\ Item(s, x) = Item(Structures, x)
        BY DEF Within
      <3>1. x \in UsedIn(r.heap, N) /\ x # e
        BY <2>5
      <3>2. x \in 0 .. N-1
        BY <3>1 DEF UsedIn
      <3>3. Item(s, x) = Item(r, x)
        BY <2>1, <2>3, <2>7, <3>1, <3>2, RemovedItem
      <3> QED
        BY <2>1, <3>1, <3>3 DEF Within
    <2>13. k+1 \in 0 .. Len(q) /\ k+1 = n+1
      BY <2>1, <2>10
    <2>14. Gone(s, q, n+1, k+1, time)
      BY <2>5, <2>9, <2>10, <2>11, <2>12, <2>13 DEF Gone
    <2> QED
      BY <2>4, <2>14
  <1> QED
    BY <1>1, <1>2

\* All the rounds.
LEMMA AllGone ==
  ASSUME FlowTableAssumption, build \in Builds, Sound(Structures), NEW time,
         NEW q, q = dchain_alist(heap)
  PROVE  \E k : Gone(expire_items(time), q, build.size, k, time)
  <1> DEFINE N == build.size
  <1>1. N \in Nat
    BY DEF FlowTableAssumption
  <1>2. \E a : IsRounds(a, N, time)
    BY <1>1, RoundsExist
  <1>3. PICK a : IsRounds(a, N, time) /\ expire_items(time) = a[N]
    BY <1>2, Zenon DEF expire_items, IsRounds
  <1>4. \A k \in 0 .. N : a[k] = IF k = 0 THEN Structures ELSE ExpireOne(a[k-1], time)
    <2>1. a = [k \in 0 .. N |-> IF k = 0 THEN Structures ELSE ExpireOne(a[k-1], time)]
      BY <1>3 DEF IsRounds
    <2> QED
      BY <2>1
  <1>5. EntryList(q)
    BY SoundLinked, SoundIs, AlistTyped
  <1>6. Len(q) \in Nat
    BY <1>5 DEF EntryList
  <1> DEFINE T == {n \in 0 .. N : ~ \E k : Gone(a[n], q, n, k, time)}
  <1>7. T = {}
    <2> SUFFICES ASSUME T # {} PROVE FALSE
      OBVIOUS
    <2>1. T \subseteq Nat
      OBVIOUS
    <2> HIDE DEF T
    <2>2. PICK n \in T : \A y \in T : n <= y
      BY <2>1, Smallest
    <2>3. n \in 0 .. N /\ ~ \E k : Gone(a[n], q, n, k, time)
      BY <2>2 DEF T
    <2>4. CASE n = 0
      <3>1. a[n] = Structures
        BY <1>4, <2>3, <2>4
      <3>2. After(q, 0) = q
        <4>1. q = [i \in 1 .. Len(q) |-> q[i]]
          <5>1. q \in Seq([index : 0 .. N-1, time : Int])
            BY SoundLinked, SoundIs, AlistTyped
          <5> QED
            BY <5>1
        <4>2. After(q, 0) = [i \in 1 .. Len(q) |-> q[i+0]]
          BY <1>6 DEF After
        <4>3. \A i \in 1 .. Len(q) : q[i+0] = q[i]
          BY <1>6
        <4> QED
          BY <4>1, <4>2, <4>3
      <3>3. AlistOf(Structures.heap, After(q, 0))
        BY <3>2, SoundIs DEF AlistOf
      <3>4. Within(Structures, Structures)
        BY DEF Within
      <3>5. 0 \in 0 .. Len(q) /\ \A i \in 1 .. 0 : q[i].time < time
        BY <1>6
      <3>6. Gone(Structures, q, 0, 0, time)
        BY <3>3, <3>4, <3>5 DEF Gone
      <3> QED
        BY <2>3, <2>4, <3>1, <3>6
    <2>5. CASE n # 0
      <3>1. n-1 \in 0 .. N /\ n-1 \notin T /\ n-1 \in Nat /\ n-1+1 = n
        BY <1>1, <2>2, <2>3, <2>5
      <3>2. PICK k : Gone(a[n-1], q, n-1, k, time)
        BY <3>1 DEF T
      <3>3. \E j : Gone(ExpireOne(a[n-1], time), q, n-1+1, j, time)
        BY <1>6, <3>1, <3>2, OneMoreGone
      <3>4. a[n] = ExpireOne(a[n-1], time)
        BY <1>4, <2>3, <2>5
      <3> QED
        BY <2>3, <3>1, <3>3, <3>4
    <2> QED
      BY <2>4, <2>5
  <1>8. N \in 0 .. N
    BY <1>1
  <1> QED
    BY <1>3, <1>7, <1>8

\* Entries up to k are older than time, those after it are not.
SplitAt(q, k, time) ==
  /\ k \in 0 .. Len(q)
  /\ \A i \in 1 .. k : q[i].time < time
  /\ \A i \in k+1 .. Len(q) : q[i].time >= time

\* When all rounds are made what is left is as young as time.
LEMMA GoneSplits ==
  ASSUME FlowTableAssumption, NEW r, NEW q, NEW k, NEW time \in Int, NEW t,
         Gone(r, q, build.size, k, time), EntryList(q), Len(q) <= build.size,
         build.size \in Nat, InOrder(q, t)
  PROVE  SplitAt(q, k, time)
  <1>1. PICK L, p : L = Len(q) /\ p = After(q, k)
    OBVIOUS
  <1>2. /\ L \in Nat /\ \A n \in 1 .. L : q[n].time \in Int
        /\ \A i, j \in 1 .. L : i <= j => q[i].time <= q[j].time
    BY <1>1 DEF EntryList, InOrder
  <1>3. /\ Sound(r) /\ k \in 0 .. L /\ dchain_alist(r.heap) = p
        /\ \A i \in 1 .. k : q[i].time < time
        /\ k = build.size \/ ~ OldestExpired(r.heap, time)
    BY <1>1 DEF Gone, AlistOf
  <1>4. Linked(r.heap, build.size)
    BY <1>3, SoundLinked
  <1>5. Len(p) = L-k /\ \A n \in 1 .. L-k : p[n] = q[n+k]
    <2>1. L \in Nat /\ Len(q) = L /\ k \in 0 .. L
      BY <1>1, <1>2, <1>3
    <2>2. Len(After(q, k)) = L-k /\ \A n \in 1 .. L-k : After(q, k)[n] = q[n+k]
      BY <2>1, AfterIs
    <2> QED
      BY <1>1, <2>2, Zenon
  <1>6. ASSUME k < L PROVE q[k+1].time >= time
    <2>1. k # build.size
      <3>1. L <= build.size /\ build.size \in Nat
        BY <1>1
      <3> QED
        BY <1>2, <1>3, <1>6, <3>1
    <2>2. ~ IsEmpty(r.heap)
      <3>1. IsEmpty(r.heap) <=> Len(p) = 0
        BY <1>3, <1>4, EmptyList
      <3> QED
        BY <1>2, <1>3, <1>5, <1>6, <3>1
    <2>3. r.heap.timestamps[dchain_impl_get_oldest_index(r.heap)] = p[1].time
      BY <1>3, <1>4, <2>2, OldestFirst
    <2>4. ~ (p[1].time < time)
      BY <1>3, <2>1, <2>2, <2>3 DEF OldestExpired
    <2>5. p[1] = q[k+1]
      <3>1. 1 \in 1 .. L-k /\ 1+k = k+1
        BY <1>2, <1>3, <1>6
      <3> QED
        BY <1>5, <3>1
    <2>6. q[k+1].time \in Int
      BY <1>2, <1>3, <1>6
    <2> QED
      BY <2>4, <2>5, <2>6
  <1>7. ASSUME NEW i \in k+1 .. L PROVE q[i].time >= time
    <2>1. k+1 \in 1 .. L /\ i \in 1 .. L /\ k < L /\ k+1 <= i
      BY <1>2, <1>3
    <2>2. q[k+1].time >= time /\ q[k+1].time <= q[i].time
      BY <1>2, <1>6, <2>1
    <2>3. q[k+1].time \in Int /\ q[i].time \in Int
      BY <1>2, <2>1
    <2> QED
      BY <2>2, <2>3
  <1> QED
    BY <1>1, <1>3, <1>7 DEF SplitAt

\* What Emap keeps of a list that splits, and what it removes.
LEMMA SplitKeeps ==
  ASSUME NEW q, EntryList(q), NEW k, NEW time \in Int, SplitAt(q, k, time)
  PROVE  /\ SinceTime(q, time) = After(q, k)
         /\ BeforeTime(q, time) = {q[i].index : i \in 1 .. k}
  <1>1. PICK L : L = Len(q)
    OBVIOUS
  <1>2. L \in Nat /\ DOMAIN q = 1 .. L /\ \A n \in 1 .. L : q[n].time \in Int
    BY <1>1 DEF EntryList
  <1>3. /\ k \in 0 .. L
        /\ \A i \in 1 .. k : q[i].time < time
        /\ \A i \in k+1 .. L : q[i].time >= time
    BY <1>1 DEF SplitAt
  <1>4. \A n \in 1 .. L : n \in 1 .. k \/ n \in k+1 .. L
    BY <1>2, <1>3
  <1>5. \A n \in 1 .. L : /\ q[n].time >= time <=> n \in k+1 .. L
                          /\ q[n].time < time <=> n \in 1 .. k
    <2> SUFFICES ASSUME NEW n \in 1 .. L
                 PROVE  /\ q[n].time >= time <=> n \in k+1 .. L
                        /\ q[n].time < time <=> n \in 1 .. k
      OBVIOUS
    <2>1. q[n].time \in Int
      BY <1>2
    <2>2. CASE n \in 1 .. k
      <3>1. q[n].time < time
        BY <1>3, <2>2
      <3> QED
        BY <1>3, <2>1, <2>2, <3>1
    <2>3. CASE n \in k+1 .. L
      <3>1. q[n].time >= time
        BY <1>3, <2>3
      <3> QED
        BY <1>3, <2>1, <2>3, <3>1
    <2> QED
      BY <1>4, <2>2, <2>3
  <1>6. k+1 .. L \subseteq 1 .. L /\ 1 .. k \subseteq 1 .. L
    BY <1>2, <1>3
  <1>7. {n \in DOMAIN q : q[n].time >= time} = k+1 .. L
    BY <1>2, <1>5, <1>6
  <1>8. {n \in DOMAIN q : q[n].time < time} = 1 .. k
    BY <1>2, <1>5, <1>6
  <1>9. SinceTime(q, time) = After(q, k)
    <2>1. Selected(q, k+1 .. L) = After(q, k)
      BY <1>1, <1>2, <1>3, KeptAfter
    <2> QED
      BY <1>7, <2>1, Zenon DEF SinceTime
  <1> QED
    BY <1>8, <1>9, Zenon DEF BeforeTime

\* The indices a chain has in use are those of its list.
LEMMA UsedListed ==
  ASSUME NEW ch, NEW N, Linked(ch, N), NEW q, AlistOf(ch, q)
  PROVE  UsedIn(ch, N) = {q[n].index : n \in 1 .. Len(q)}
  <1>1. Lists(q, ch, N)
    BY ListFacts, Zenon DEF AlistOf
  <1>2. \A n \in 1 .. Len(q) : q[n].index \in 0 .. N-1
    <2>1. q \in Seq([index : 0 .. N-1, time : Int])
      BY <1>1 DEF Lists
    <2>2. \A n \in 1 .. Len(q) : q[n] \in [index : 0 .. N-1, time : Int]
      BY <2>1, ElementOfSeq
    <2> QED
      BY <2>2
  <1>3. \A k \in 0 .. N-1 : dchain_is_index_allocated(ch, k)
                              <=> \E n \in 1 .. Len(q) : q[n].index = k
    BY <1>1 DEF Lists
  <1> QED
    BY <1>2, <1>3 DEF UsedIn

\* Expiry removes the entries that are older than time, and no other.
LEMMA ExpireAbstract ==
  ASSUME FlowTableAssumption, TableInv, OrderInv, Expire
  PROVE  Abstract!emap_expire_all(last_time) /\ OrderInv'
  <1> DEFINE N == build.size
  <1>1. /\ stage = "ready" /\ Becomes(expire_items(last_time))
        /\ UNCHANGED <<build, stage, fv, now>>
    BY DEF Expire
  <1>2. /\ last_time \in Int /\ now \in Int /\ N \in Nat
        /\ build \in Builds /\ Sound(Structures) /\ Linked(heap, N)
    BY <1>1, TableNumbers, LastTime, SoundLinked, SoundIs DEF TableInv
  <1>3. PICK q, r, t : q = dchain_alist(heap) /\ r = expire_items(last_time) /\ t = last_time
    OBVIOUS
  <1>4. EntryList(q) /\ InOrder(q, now) /\ AlistOf(heap, q) /\ Lists(q, heap, N)
    BY <1>1, <1>2, <1>3, AlistTyped, ListFacts DEF OrderInv, AlistOf
  <1>5. PICK k : Gone(r, q, N, k, t)
    BY <1>2, <1>3, AllGone
  <1>6. SplitAt(q, k, t)
    <2>1. Len(q) <= N
      BY <1>2, <1>4 DEF Lists
    <2> QED
      BY <1>2, <1>3, <1>4, <1>5, <2>1, GoneSplits
  <1>7. SinceTime(q, t) = After(q, k) /\ BeforeTime(q, t) = {q[i].index : i \in 1 .. k}
    BY <1>2, <1>3, <1>4, <1>6, SplitKeeps
  <1>8. Sound(r) /\ Linked(r.heap, N) /\ AlistOf(r.heap, After(q, k)) /\ Within(r, Structures)
    BY <1>5, SoundLinked DEF Gone
  <1>9. heap' = r.heap /\ dm' = r.dm
    BY <1>1, <1>3 DEF Becomes
  <1>10. PICK L : L = Len(q)
    OBVIOUS
  <1>11. L \in Nat /\ k \in 0 .. L /\ DOMAIN q = 1 .. L
    BY <1>4, <1>6, <1>10 DEF EntryList, SplitAt
  <1>12. UsedIn(r.heap, N) = UsedIn(heap, N) \ BeforeTime(q, t)
    <2>1. UsedIn(heap, N) = {q[i].index : i \in 1 .. L}
      BY <1>2, <1>4, <1>10, UsedListed
    <2>2. PICK p : p = After(q, k)
      OBVIOUS
    <2>3. Len(p) = L-k /\ \A n \in 1 .. L-k : p[n] = q[n+k]
      <3>1. Len(After(q, k)) = L-k /\ \A n \in 1 .. L-k : After(q, k)[n] = q[n+k]
        BY ZenonT(40), <1>10, <1>11, AfterIs
      <3> QED
        BY <2>2, <3>1, Zenon
    <2>4. UsedIn(r.heap, N) = {p[i].index : i \in 1 .. L-k}
      BY <1>8, <2>2, <2>3, UsedListed
    <2>5. \A i, j \in 1 .. L : q[i].index = q[j].index => i = j
      BY <1>4, <1>10 DEF Lists
    <2>6. {p[i].index : i \in 1 .. L-k} = {q[i].index : i \in k+1 .. L}
      <3>1. \A i \in 1 .. L-k : i+k \in k+1 .. L /\ p[i] = q[i+k]
        BY <1>11, <2>3
      <3>2. ASSUME NEW j \in k+1 .. L PROVE \E i \in 1 .. L-k : p[i] = q[j]
        <4>1. j-k \in 1 .. L-k /\ (j-k)+k = j
          BY <1>11
        <4> QED
          BY <2>3, <4>1
      <3> QED
        BY <3>1, <3>2
    <2>7. {q[i].index : i \in k+1 .. L}
            = {q[i].index : i \in 1 .. L} \ {q[i].index : i \in 1 .. k}
      <3>1. \A i \in 1 .. L : i \in 1 .. k \/ i \in k+1 .. L
        BY <1>11
      <3>2. /\ \A i \in k+1 .. L : i \in 1 .. L /\ i \notin 1 .. k
            /\ \A i \in 1 .. k : i \in 1 .. L
        BY <1>11
      <3> QED
        BY <2>5, <3>1, <3>2
    <2> QED
      BY <1>7, <2>1, <2>4, <2>6, <2>7
  <1>13. AbstractChain = ChainIs(q, N) /\ AbstractChain' = ChainIs(SinceTime(q, t), N)
    <2>1. AbstractChain = ChainIs(q, N)
      BY <1>1, <1>3, AbstractIs
    <2>2. stage' = "ready" /\ build' = build
      BY <1>1
    <2>3. AbstractChain' = ChainIs(dchain_alist(heap'), build'.size)
      BY <2>2, AbstractNextIs
    <2>4. dchain_alist(heap') = SinceTime(q, t)
      BY <1>7, <1>8, <1>9 DEF AlistOf
    <2> QED
      BY <2>1, <2>2, <2>3, <2>4
  <1>14. AbstractValues' = [i \in DOMAIN AbstractValues \ BeforeTime(q, t) |-> AbstractValues[i]]
    <2>1. AbstractValues = Items(Structures) /\ Structures.heap = heap /\ Structures.dm = dm
      BY <1>1, AbstractIs, SoundIs
    <2>2. /\ DOMAIN AbstractValues = UsedIn(heap, N)
          /\ \A i \in UsedIn(heap, N) : AbstractValues[i] = Item(Structures, i)
      BY <2>1 DEF Items
    <2>3. stage' = "ready" /\ build' = build /\ fv' = fv
      BY <1>1
    <2>4. AbstractValues' = Items(Structures)'
      BY <2>3, AbstractNextIs
    <2>5. Items(Structures)' = [i \in UsedIn(r.heap, N) |-> Item(r, i)]
      <3>1. Structures'.heap = heap' /\ Structures'.dm = dm'
        BY DEF Structures
      <3> QED
        BY <1>9, <2>3, <3>1 DEF Items, Item
    <2>6. \A i \in UsedIn(r.heap, N) : Item(r, i) = Item(Structures, i)
      BY <1>8 DEF Within
    <2> QED
      BY <1>12, <2>2, <2>4, <2>5, <2>6
  <1>15. Abstract!emap_expire_all(t)
    BY <1>13, <1>14, EmapExpireAllIs, Zenon
  <1>16. InOrder(dchain_alist(heap'), now)
    <2>1. InOrder(After(q, k), now)
      BY <1>4, <1>10, <1>11, AfterOrder
    <2> QED
      BY <1>8, <1>9, <2>1, Zenon DEF AlistOf
  <1> QED
    BY <1>1, <1>3, <1>15, <1>16 DEF OrderInv

-----------------------------------------------------------------------------
(***************************************************************************)
(* Every step is a step of Emap.                                           *)
(***************************************************************************)

\* A flow is given an index.
LEMMA AllocateFlowAbstract ==
  ASSUME FlowTableAssumption, TableInv, OrderInv, NEW key \in Key, AllocateFlow(key)
  PROVE  \E e \in 0 .. build.size-1 : Abstract!emap_add([a |-> key], e, now) /\ OrderInv'
  <1> DEFINE N == build.size  v == [a |-> key]
  <1>1. PICK e : e = NewIndex(heap)
    OBVIOUS
  <1>2. /\ stage = "ready" /\ build.kind = "map" /\ map_get(fm, fv, key) = NotFound
        /\ ~ OutOfSpace(heap) /\ heap' = dchain_allocate_new_index(heap, now)
        /\ fv' = [fv EXCEPT ![e] = key]
        /\ UNCHANGED <<build, stage, now>>
    BY <1>1 DEF AllocateFlow, MapReady
  <1>3. SoundMap(N, build.pow2, heap, fm, fv) /\ Linked(heap, N) /\ N \in Nat
    BY <1>2, SoundIs, SoundLinked, TableNumbers DEF TableInv
  <1>4. \A i \in UsedIn(heap, N) : fv[i] # key
    BY <1>2, <1>3, MapGetFinds
  <1>5. e \in 0 .. N-1
    BY <1>1, <1>2, <1>3, TableNumbers, AllocateLinked
  <1>6. fv \in [0 .. N-1 -> Key \union {ZeroKey}]
    BY <1>3 DEF SoundMap
  <1>7. \A i : Item(Structures, i) = [a |-> fv[i]] /\ Item(Structures, i)' = [a |-> fv'[i]]
    BY <1>2 DEF Item
  <1>8. Item(Structures, e)' = v
    BY <1>2, <1>5, <1>6, <1>7
  <1>9. ASSUME NEW i \in UsedIn(heap, N)
        PROVE  /\ i # e => Item(Structures, i)' = Item(Structures, i)
               /\ Differ(v, Item(Structures, i))
    <2>1. i \in 0 .. N-1
      BY DEF UsedIn
    <2>2. i # e => fv'[i] = fv[i]
      BY <1>2, <1>6, <2>1
    <2>3. Differ(v, Item(Structures, i))
      BY <1>4, <1>7 DEF Differ
    <2> QED
      BY <1>7, <2>2, <2>3
  <1> HIDE DEF v
  <1>10. e \in 0 .. build.size-1 /\ Abstract!emap_add(v, e, now) /\ OrderInv'
    BY <1>1, <1>2, <1>8, <1>9, AllocateAbstract
  <1> QED
    BY <1>10 DEF v

\* A value is put into a double map.
LEMMA PutValueAbstract ==
  ASSUME FlowTableAssumption, TableInv, OrderInv, NEW v \in DValue, PutValue(v)
  PROVE  \E e \in 0 .. build.size-1 : Abstract!emap_add(v, e, now) /\ OrderInv'
  <1> DEFINE N == build.size
  <1>1. PICK e : e = NewIndex(heap)
    OBVIOUS
  <1>2. /\ stage = "ready" /\ build.kind # "map"
        /\ dmap_get_a(dm, v.a) = NotFound /\ dmap_get_b(dm, v.b) = NotFound
        /\ ~ OutOfSpace(heap) /\ heap' = dchain_allocate_new_index(heap, now)
        /\ dm' = dmap_put(dm, v, e)
        /\ UNCHANGED <<build, stage, now>>
    BY <1>1 DEF PutValue, DmapReady
  <1>3. SoundDmap(N, build.pow2, heap, dm) /\ Linked(heap, N) /\ N \in Nat
    BY <1>2, SoundIs, SoundLinked, TableNumbers DEF TableInv
  <1>4. \A i \in UsedIn(heap, N) : dm.values[i].a # v.a /\ dm.values[i].b # v.b
    <2>1. v.a \in Key /\ v.b \in Key
      BY DEF DValue
    <2> QED
      BY <1>2, <1>3, <2>1, DmapGetFinds
  <1>5. e \in 0 .. N-1
    BY <1>1, <1>2, <1>3, TableNumbers, AllocateLinked
  <1>6. /\ dm.values \in [0 .. N-1 -> DValue \union {NoValue}]
        /\ \A i \in UsedIn(heap, N) : dm.values[i] \in DValue
    BY <1>3 DEF SoundDmap
  <1>7. \A i : Item(Structures, i) = dm.values[i] /\ Item(Structures, i)' = dm'.values[i]
    <2>1. Structures.dm = dm /\ Structures'.dm = dm'
      BY DEF Structures
    <2> QED
      BY <1>2, <2>1 DEF Item
  <1>8. dm'.values = [dm.values EXCEPT ![e] = v]
    BY <1>2 DEF dmap_put
  <1>9. Item(Structures, e)' = v
    BY <1>5, <1>6, <1>7, <1>8
  <1>10. ASSUME NEW i \in UsedIn(heap, N)
         PROVE  /\ i # e => Item(Structures, i)' = Item(Structures, i)
                /\ Differ(v, Item(Structures, i))
    <2>1. i \in 0 .. N-1
      BY DEF UsedIn
    <2>2. i # e => dm'.values[i] = dm.values[i]
      BY <1>6, <1>8, <2>1
    <2>3. Differ(v, dm.values[i])
      <3>1. v \in [a : Key, b : Key]
        BY DEF DValue
      <3>2. \A f \in DOMAIN v : f = "a" \/ f = "b"
        BY <3>1
      <3> QED
        BY <1>4, <3>2 DEF Differ
    <2> QED
      BY <1>7, <2>2, <2>3
  <1>11. e \in 0 .. build.size-1 /\ Abstract!emap_add(v, e, now) /\ OrderInv'
    BY <1>1, <1>2, <1>9, <1>10, AllocateAbstract
  <1> QED
    BY <1>11

\* Times that flow tables deal with.
LEMMA TimesAre ==
  ASSUME FlowTableAssumption, TableInv
  PROVE  now \in (0 - ExpirationTime * UsToNs) .. MaxTime
         /\ last_time \in (0 - ExpirationTime * UsToNs) .. MaxTime
  <1> DEFINE t == ExpirationTime * UsToNs
  <1>1. t \in Nat /\ 2^IntBits \in Nat \ {0} /\ now \in 0 .. MaxTime /\ MaxTime \in Nat
    BY DEF FlowTableAssumption, TableInv
  <1> HIDE DEF t
  <1>2. t % 2^IntBits \in Nat /\ t % 2^IntBits <= t
    <2>1. PICK w : w = 2^IntBits
      OBVIOUS
    <2>2. t % w \in 0 .. w-1
      BY <1>1, <2>1, DivBounds
    <2>3. t % w <= t
      <3>1. CASE t < w
        <4>1. t \in 0 .. w-1 /\ t = w * 0 + t /\ 0 \in Nat
          BY <1>1, <2>1, <3>1
        <4>2. t % w = t
          BY <1>1, <2>1, <4>1, RemainderIs
        <4> QED
          BY <1>1, <4>2
      <3>2. CASE ~ (t < w)
        BY <1>1, <2>1, <2>2, <3>2
      <3> QED
        BY <3>1, <3>2
    <2> QED
      BY <1>1, <2>1, <2>2, <2>3
  <1>3. last_time = now - (t % 2^IntBits)
    BY DEF last_time, t
  <1>4. now \in (0-t) .. MaxTime /\ last_time \in (0-t) .. MaxTime
    BY <1>1, <1>2, <1>3
  <1> QED
    BY <1>4 DEF t

\* The steps of the calls are steps of Emap.
LEMMA StepsOfEmap ==
  ASSUME stage = "ready"
  PROVE  /\ \A i \in 0 .. build.size-1, t \in (0 - ExpirationTime * UsToNs) .. MaxTime :
              /\ \A v \in {[a |-> key] : key \in Key} \union DValue :
                   Abstract!emap_add(v, i, t) => Abstract!Next
              /\ Abstract!emap_refresh_idx(i, t) => Abstract!Next
         /\ \A i \in 0 .. build.size-1 : Abstract!emap_erase(i) => Abstract!Next
         /\ \A t \in (0 - ExpirationTime * UsToNs) .. MaxTime :
              Abstract!emap_expire_all(t) => Abstract!Next
  <1>1. AbstractChain.size = build.size
    BY DEF AbstractChain
  <1> QED
    BY <1>1, Zenon DEF Abstract!Next

\* Every step of a table is a step of Emap or changes nothing of it, and keeps
\* the list in order.
LEMMA TableStepIsEmapStep ==
  ASSUME FlowTableAssumption, TableInv, OrderInv, [Next]_vars
  PROVE  [Abstract!Next]_(Abstract!vars) /\ OrderInv'
  <1> USE FlowTableAssumption
  <1> DEFINE T == (0 - ExpirationTime * UsToNs) .. MaxTime
  <1>0. now \in T /\ last_time \in T
    BY TimesAre
  <1>R. ASSUME stage = "ready"
        PROVE  /\ build.kind = "map" => SoundMap(build.size, build.pow2, heap, fm, fv)
               /\ Linked(heap, build.size)
    BY <1>R, SoundIs, SoundLinked DEF TableInv
  <1>N. ASSUME stage # "ready", stage' # "ready"
        PROVE  Abstract!vars' = Abstract!vars /\ OrderInv'
    BY <1>N DEF Abstract!vars, AbstractChain, AbstractValues, OrderInv
  <1>1. CASE Malloc
    BY <1>1, <1>N DEF Malloc, Allocating
  <1>2. CASE MallocFails
    BY <1>2, <1>N DEF MallocFails, Allocating
  <1>3. CASE Initialise
    <2>1. CASE stage = "dchain_allocate"
      BY <1>3, <2>1, CreateAbstract DEF Abstract!Next
    <2>2. CASE stage # "dchain_allocate"
      BY <1>3, <1>N, <2>2 DEF Initialise, Allocating
    <2> QED
      BY <2>1, <2>2
  <1>4. ASSUME NEW k \in 0 .. build.size-1, stage = "ready", dchain_is_index_allocated(heap, k),
               heap' = dchain_rejuvenate_index(heap, k, now),
               UNCHANGED <<build, stage, fv, dm, now>>
        PROVE  Abstract!Next /\ OrderInv'
    <2>1. Abstract!emap_refresh_idx(k, now) /\ OrderInv'
      BY <1>4, RefreshAbstract
    <2> QED
      BY <1>0, <1>4, <2>1, StepsOfEmap
  <1>5. ASSUME NEW key \in Key, GetInternal(key) PROVE Abstract!Next /\ OrderInv'
    <2> DEFINE i == map_get(fm, fv, key)
    <2>1. /\ stage = "ready" /\ build.kind = "map" /\ i # NotFound
          /\ heap' = dchain_rejuvenate_index(heap, i, now)
          /\ UNCHANGED <<build, stage, fv, dm, now>>
      BY <1>5 DEF GetInternal, MapReady
    <2>2. i \in UsedIn(heap, build.size)
      BY <1>R, <2>1, MapGetFinds
    <2>3. i \in 0 .. build.size-1 /\ dchain_is_index_allocated(heap, i)
      BY <2>2 DEF UsedIn
    <2> HIDE DEF i
    <2> QED
      BY <1>4, <2>1, <2>3
  <1>6. ASSUME NEW key \in Key, AllocateFlow(key) PROVE Abstract!Next /\ OrderInv'
    <2>1. stage = "ready"
      BY <1>6 DEF AllocateFlow, MapReady
    <2>2. PICK e \in 0 .. build.size-1 : Abstract!emap_add([a |-> key], e, now) /\ OrderInv'
      BY <1>6, AllocateFlowAbstract
    <2>3. PICK v : v = [a |-> key]
      OBVIOUS
    <2>4. v \in {[a |-> x] : x \in Key} \union DValue
      BY <2>3
    <2> QED
      BY <1>0, <2>1, <2>2, <2>3, <2>4, StepsOfEmap, Zenon
  <1>7. ASSUME NEW v \in DValue, PutValue(v) PROVE Abstract!Next /\ OrderInv'
    <2>1. stage = "ready"
      BY <1>7 DEF PutValue, DmapReady
    <2>2. PICK e \in 0 .. build.size-1 : Abstract!emap_add(v, e, now) /\ OrderInv'
      BY <1>7, PutValueAbstract
    <2>3. v \in {[a |-> x] : x \in Key} \union DValue
      OBVIOUS
    <2> QED
      BY <1>0, <2>1, <2>2, <2>3, StepsOfEmap, Zenon
  <1>8. ASSUME NEW index \in 0 .. build.size-1, GetExternal(index) PROVE Abstract!Next /\ OrderInv'
    BY <1>4, <1>8 DEF GetExternal
  <1>9. ASSUME NEW index \in 0 .. build.size-1, FreeIndex(index) PROVE Abstract!Next /\ OrderInv'
    <2>1. /\ stage = "ready" /\ dchain_is_index_allocated(heap, index)
          /\ UNCHANGED <<build, stage, fv, now>>
      BY <1>9 DEF FreeIndex
    <2>2. /\ Structures = [heap |-> Structures.heap, fm |-> Structures.fm, dm |-> Structures.dm]
          /\ Structures.heap = heap
      BY <2>1, SoundIs DEF TableInv, Sound
    <2>3. Becomes([RemoveEntry(Structures, index) EXCEPT
                     !.heap = dchain_free_index(RemoveEntry(Structures, index).heap, index)])
      BY <1>9 DEF FreeIndex
    <2>4. Becomes(Removed(Structures, index))
      BY <2>2, <2>3, RemovedIs
    <2>5. Abstract!emap_erase(index) /\ OrderInv'
      BY <2>1, <2>4, FreeAbstract
    <2> QED
      BY <2>1, <2>5, StepsOfEmap
  <1>10. CASE Expire
    <2>1. stage = "ready" /\ Abstract!emap_expire_all(last_time) /\ OrderInv'
      BY <1>10, ExpireAbstract DEF Expire
    <2> QED
      BY <1>0, <2>1, StepsOfEmap
  <1>11. CASE Tick
    <2>1. /\ stage = "ready" /\ now' = now + 1 /\ heap' = heap /\ stage' = stage
          /\ UNCHANGED <<build, heap, fv, dm>>
      BY <1>11 DEF Tick, table
    <2>2. Abstract!vars' = Abstract!vars
      <3>1. InUse' = InUse /\ Contents' = Contents
        BY <2>1 DEF InUse, Contents
      <3> QED
        BY <2>1, <3>1 DEF Abstract!vars, AbstractChain, AbstractValues
    <2>3. InOrder(dchain_alist(heap), now + 1)
      <3>1. PICK q : q = dchain_alist(heap)
        OBVIOUS
      <3>2. EntryList(q) /\ InOrder(q, now) /\ now \in Int
        BY <1>R, <2>1, <3>1, AlistTyped, TableNumbers DEF OrderInv
      <3>3. InOrder(q, now + 1)
        BY <3>2 DEF InOrder, EntryList
      <3> QED
        BY <3>1, <3>3
    <2> QED
      BY <2>1, <2>2, <2>3 DEF OrderInv
  <1>12. CASE UNCHANGED vars
    <2>1. UNCHANGED <<build, stage, heap, fv, dm, now>>
      BY <1>12 DEF vars, table
    <2>2. Abstract!vars' = Abstract!vars
      <3>1. InUse' = InUse /\ Contents' = Contents
        BY <2>1 DEF InUse, Contents
      <3> QED
        BY <2>1, <3>1 DEF Abstract!vars, AbstractChain, AbstractValues
    <2> QED
      BY <2>1, <2>2 DEF OrderInv
  <1> QED
    BY <1>1, <1>2, <1>3, <1>5, <1>6, <1>7, <1>8, <1>9, <1>10, <1>11, <1>12 DEF Next, Failed

\* The data structures implement the ordered collection of entries that the
\* contracts of the C functions promise.
THEOREM TableRefinesEmap == Spec => ImplementsEmap
  <1>1. Init => OrderInv /\ Abstract!Init
    BY DEF Init, OrderInv, Abstract!Init, AbstractChain, AbstractValues
  <1>2. TableInv /\ OrderInv /\ [Next]_vars => [Abstract!Next]_(Abstract!vars) /\ OrderInv'
    BY TableStepIsEmapStep, FlowTableAssumption
  <1> QED
    BY <1>1, <1>2, TableInvariant, PTL DEF Spec, ImplementsEmap, Abstract!Spec

-----------------------------------------------------------------------------
(***************************************************************************)
(* Filling the table of consistent hashing.                                *)
(***************************************************************************)

\* What two numbers with the same remainder differ by has none.
LEMMA SameRemainder ==
  ASSUME NEW a \in Nat, NEW b \in Nat, NEW p \in Nat \ {0}, a <= b, a % p = b % p
  PROVE  (b - a) % p = 0
  <1> DEFINE u == a \div p  v == b \div p  r == a % p
  <1>1. u \in Nat /\ a = p * u + r /\ r \in 0 .. p-1
    BY DivBounds
  <1>2. v \in Nat /\ b = p * v + r
    BY DivBounds
  <1>3. u <= v
    BY DivMono
  <1> HIDE DEF u, v, r
  <1>4. b - a = p * (v - u) + 0
    BY <1>1, <1>2
  <1>5. v - u \in Nat /\ b - a \in Nat /\ 0 \in 0 .. p-1
    BY <1>1, <1>2, <1>3
  <1> QED
    BY <1>4, <1>5, RemainderIs

\* A backend prefers the hashes in an order in which no hash comes twice.
LEMMA PreferenceInjective ==
  ASSUME NEW p, Prime(p), NEW j \in Nat
  PROVE  /\ \A i \in 0 .. p-1 : Hashing!permutation(j, i, p) \in 0 .. p-1
         /\ \A i, k \in 0 .. p-1 : Hashing!permutation(j, i, p) = Hashing!permutation(j, k, p) => i = k
  <1> DEFINE s == Hashing!base_shift(j, p) + 1
             o == Hashing!loop(j * 31, p)
             P(i) == Hashing!permutation(j, i, p)
  <1>1. p \in Nat \ {0} /\ p-1 \in Nat \ {0} /\ j * 31 \in Nat
    BY DEF Prime
  <1>2. s \in 1 .. p-1
    <2>1. j % (p-1) \in 0 .. (p-1)-1
      BY <1>1, DivBounds
    <2> QED
      BY <1>1, <2>1 DEF Hashing!base_shift, Hashing!loop
  <1>3. o \in 0 .. p-1
    BY <1>1, DivBounds DEF Hashing!loop
  <1>4. \A i : P(i) = (o + s * i) % p
    BY DEF Hashing!permutation, Hashing!loop
  <1> HIDE DEF s, o, P
  <1>5. \A i \in 0 .. p-1 : o + s * i \in Nat
    <2>1. ASSUME NEW i \in 0 .. p-1 PROVE o + s * i \in Nat
      <3>1. i \in Nat /\ s \in Nat
        BY <1>1, <1>2
      <3>2. s * i \in Nat
        BY <3>1
      <3> QED
        BY <1>3, <3>2
    <2> QED
      BY <2>1
  <1>6. \A i \in 0 .. p-1 : P(i) \in 0 .. p-1
    BY <1>1, <1>4, <1>5, DivBounds
  <1>7. ASSUME NEW i \in 0 .. p-1, NEW k \in 0 .. p-1, P(i) = P(k), i < k
        PROVE  FALSE
    <2>1. k - i \in 1 .. p-1 /\ i \in Nat /\ k \in Nat /\ s \in Nat
      BY <1>1, <1>2, <1>7
    <2>2. (o + s * k) - (o + s * i) = s * (k - i)
      <3>1. s * k \in Nat /\ s * i \in Nat /\ s * (k - i) = s * k - s * i
        BY <2>1
      <3> QED
        BY <1>3, <3>1
    <2>3. o + s * i <= o + s * k
      <3>1. i * s <= k * s
        BY <1>7, <2>1, MulMono
      <3>2. i * s = s * i /\ k * s = s * k /\ s * i \in Nat /\ s * k \in Nat
        BY <2>1
      <3> QED
        BY <1>3, <3>1, <3>2
    <2>4. (s * (k - i)) % p = 0
      BY <1>1, <1>4, <1>5, <1>7, <2>2, <2>3, SameRemainder
    <2> QED
      BY <1>2, <2>1, <2>4 DEF Prime
  <1>8. ASSUME NEW i \in 0 .. p-1, NEW k \in 0 .. p-1, P(i) = P(k)
        PROVE  i = k
    <2>1. i < k \/ k < i \/ i = k
      BY <1>1
    <2> QED
      BY <1>7, <1>8, <2>1
  <1> QED
    BY <1>6, <1>8 DEF P

\* An order of preference in which no hash comes twice has them all.
LEMMA PreferenceOnto ==
  ASSUME NEW p, Prime(p), NEW j \in Nat, NEW b \in 0 .. p-1
  PROVE  \E i \in 0 .. p-1 : Hashing!permutation(j, i, p) = b
  <1> DEFINE S == 0 .. p-1
             h == [i \in S |-> Hashing!permutation(j, i, p)]
  <1>1. p \in Nat /\ IsFiniteSet(S)
    BY FS_Interval DEF Prime
  <1>2. h \in [S -> S] /\ \A i, k \in S : h[i] = h[k] => i = k
    BY PreferenceInjective
  <1> HIDE DEF h, S
  <1>3. h \in Injection(S, S)
    BY <1>2 DEF Injection, IsInjective
  <1>4. h \in Surjection(S, S)
    BY <1>1, <1>3, FS_Injection
  <1>5. \E i \in S : h[i] = b
    BY <1>4 DEF Surjection, S
  <1> QED
    BY <1>5 DEF h, S

-----------------------------------------------------------------------------

\* The hash whose row the m-th visit goes to, the visits of a row, and the place
\* that a visit fills: the next one in its row.
RowOf(m, p, c) == Hashing!permutation(m % c, m \div c, p)

VisitsOf(b, p, c) == {m \in 0 .. p*c - 1 : RowOf(m, p, c) = b}

PlaceOf(m, p, c) == c * RowOf(m, p, c) + Rank(VisitsOf(RowOf(m, p, c), p, c), m)

\* Every backend visits every row once.
LEMMA VisitsAre ==
  ASSUME NEW p, Prime(p), NEW c \in 1 .. p-1
  PROVE  /\ p \in Nat /\ c \in Nat \ {0} /\ p*c \in Nat
         /\ \A m \in 0 .. p*c - 1 : /\ m \in Nat /\ m % c \in 0 .. c-1 /\ m \div c \in 0 .. p-1
                                    /\ RowOf(m, p, c) \in 0 .. p-1
         /\ \A b \in 0 .. p-1 : /\ VisitsOf(b, p, c) \subseteq Nat /\ IsFiniteSet(VisitsOf(b, p, c))
                                /\ Cardinality(VisitsOf(b, p, c)) <= c
                                /\ Cardinality(VisitsOf(b, p, c)) \in Nat
                                /\ \A j \in 0 .. c-1 : \E m \in VisitsOf(b, p, c) : m % c = j
  <1> DEFINE T == p*c
  <1>1. p \in Nat \ {0} /\ c \in Nat \ {0} /\ T \in Nat
    BY DEF Prime
  <1>2. ASSUME NEW m \in 0 .. T-1
        PROVE  /\ m \in Nat /\ m % c \in 0 .. c-1 /\ m \div c \in 0 .. p-1
               /\ m = c * (m \div c) + (m % c) /\ RowOf(m, p, c) \in 0 .. p-1
    <2>1. m \in Nat /\ m < T
      BY <1>1
    <2>2. m % c \in 0 .. c-1 /\ m \div c \in Nat /\ m = c * (m \div c) + (m % c)
      BY <1>1, <2>1, DivBounds
    <2>3. m \div c < p
      BY <1>1, <2>1, DivAtLeast
    <2>4. m \div c \in 0 .. p-1 /\ m % c \in Nat
      BY <1>1, <2>2, <2>3
    <2>5. RowOf(m, p, c) \in 0 .. p-1
      BY <2>4, PreferenceInjective, Zenon DEF RowOf
    <2> QED
      BY <2>1, <2>2, <2>4, <2>5
  <1>3. ASSUME NEW b \in 0 .. p-1, NEW j \in 0 .. c-1
        PROVE  \E m \in VisitsOf(b, p, c) : m % c = j
    <2>1. j \in Nat
      BY <1>1
    <2>2. PICK i \in 0 .. p-1 : Hashing!permutation(j, i, p) = b
      BY <2>1, PreferenceOnto
    <2> DEFINE m == c * i + j
    <2>3. i \in Nat /\ m \in Nat
      <3>1. i \in Nat /\ c * i \in Nat
        BY <1>1
      <3> QED
        BY <2>1, <3>1
    <2>4. m < T
      <3>1. (i + 1) * c <= p * c
        BY <1>1, <2>3, MulMono
      <3>2. (i + 1) * c = c * i + c /\ c * i \in Nat
        BY <1>1, <2>3
      <3> QED
        BY <1>1, <3>1, <3>2
    <2> HIDE DEF T
    <2>5. m % c = j
      BY <1>1, <2>3, RemainderIs
    <2>6. m \div c = i
      <3>1. m = c * (m \div c) + j /\ m \div c \in Nat
        BY <1>1, <2>3, <2>5, DivBounds
      <3> DEFINE q == m \div c
      <3>2. q \in Nat /\ c * i + j = c * q + j
        BY <3>1
      <3> HIDE DEF q
      <3>3. c * i = c * q
        <4>1. c * i \in Nat /\ c * q \in Nat
          BY <1>1, <2>3, <3>2
        <4> QED
          BY <2>1, <3>2, <4>1
      <3>4. i = q
        BY <1>1, <2>3, <3>2, <3>3
      <3> QED
        BY <3>4 DEF q
    <2>7. m \in 0 .. T-1
      BY <1>1, <2>3, <2>4
    <2> HIDE DEF m
    <2>8. m \in VisitsOf(b, p, c)
      BY <2>2, <2>5, <2>6, <2>7 DEF VisitsOf, RowOf, T
    <2> QED
      BY <2>5, <2>8
  <1>4. ASSUME NEW b \in 0 .. p-1
        PROVE  /\ VisitsOf(b, p, c) \subseteq Nat /\ IsFiniteSet(VisitsOf(b, p, c))
               /\ Cardinality(VisitsOf(b, p, c)) <= c
               /\ Cardinality(VisitsOf(b, p, c)) \in Nat
    <2> DEFINE V == VisitsOf(b, p, c)
               h == [m \in V |-> m % c]
    <2>1. V \subseteq 0 .. T-1 /\ \A m \in V : RowOf(m, p, c) = b
      BY DEF VisitsOf
    <2> HIDE DEF V, T
    <2>2. h \in [V -> 0 .. c-1]
      BY <1>2, <2>1
    <2>3. ASSUME NEW m \in V, NEW k \in V, m % c = k % c PROVE m = k
      <3>1. /\ m \in 0 .. T-1 /\ k \in 0 .. T-1
            /\ m % c \in Nat /\ m \div c \in 0 .. p-1 /\ k \div c \in 0 .. p-1
            /\ m = c * (m \div c) + (m % c) /\ k = c * (k \div c) + (k % c)
        BY <1>1, <1>2, <2>1
      <3>2. Hashing!permutation(m % c, m \div c, p) = Hashing!permutation(m % c, k \div c, p)
        BY <2>1, <2>3, Zenon DEF RowOf
      <3>3. m \div c = k \div c
        BY <3>1, <3>2, PreferenceInjective
      <3> QED
        BY <2>3, <3>1, <3>3
    <2>4. h \in Injection(V, 0 .. c-1)
      BY <2>2, <2>3 DEF Injection, IsInjective
    <2>5. IsFiniteSet(0 .. c-1) /\ Cardinality(0 .. c-1) = c
      <3>1. 0 \in Int /\ c-1 \in Int /\ ~ (0 > c-1) /\ (c-1) - 0 + 1 = c
        BY <1>1
      <3> QED
        BY <3>1, FS_Interval
    <2> HIDE DEF h
    <2>6. IsFiniteSet(V) /\ Cardinality(V) <= c
      BY <2>4, <2>5, FS_Injection
    <2>7. V \subseteq Nat
      BY <1>1, <2>1
    <2> QED
      BY <2>6, <2>7, FS_CardinalityType DEF V
  <1> QED
    BY <1>1, <1>2, <1>3, <1>4 DEF T
\* A row has a place for each visit to it, and no two visits fill the same one.
LEMMA PlacesAre ==
  ASSUME NEW p, Prime(p), NEW c \in 1 .. p-1
  PROVE  /\ \A m \in 0 .. p*c - 1 : /\ PlaceOf(m, p, c) \in 0 .. p*c - 1
                                    /\ \E i \in 0 .. c-1 : PlaceOf(m, p, c) = RowOf(m, p, c) * c + i
         /\ \A m, k \in 0 .. p*c - 1 : PlaceOf(m, p, c) = PlaceOf(k, p, c) => m = k
  <1> DEFINE T == p*c
             row(m) == RowOf(m, p, c)
             rank(m) == Rank(VisitsOf(row(m), p, c), m)
             place(m) == PlaceOf(m, p, c)
  <1>1. p \in Nat /\ c \in Nat \ {0} /\ T \in Nat
    BY VisitsAre
  <1>2. \A m \in 0 .. T-1 : row(m) \in 0 .. p-1 /\ m \in VisitsOf(row(m), p, c)
    BY VisitsAre DEF VisitsOf
  <1>3. ASSUME NEW m \in 0 .. T-1 PROVE rank(m) \in 0 .. c-1
    <2> DEFINE V == VisitsOf(row(m), p, c)
    <2>1. V \subseteq Nat /\ IsFiniteSet(V) /\ Cardinality(V) <= c /\ Cardinality(V) \in Nat
      BY <1>2, VisitsAre
    <2>2. m \in V
      BY <1>2
    <2> HIDE DEF V
    <2>3. Rank(V, m) \in 0 .. Cardinality(V)-1
      BY <2>1, <2>2, RankFacts
    <2>4. Rank(V, m) \in 0 .. c-1
      BY <1>1, <2>1, <2>3
    <2> QED
      BY <2>4 DEF V
  <1>4. ASSUME NEW m \in 0 .. T-1, NEW k \in 0 .. T-1, row(m) = row(k), rank(m) = rank(k)
        PROVE  m = k
    <2> DEFINE V == VisitsOf(row(m), p, c)
    <2>1. V \subseteq Nat /\ IsFiniteSet(V) /\ m \in V /\ k \in V
      BY <1>2, <1>4, VisitsAre
    <2>2. Rank(V, m) = Rank(V, k)
      BY <1>4
    <2> HIDE DEF V
    <2> QED
      BY <2>1, <2>2, RankFacts
  <1>5. \A m : place(m) = c * row(m) + rank(m)
    BY DEF PlaceOf
  <1> HIDE DEF row, rank, place
  <1>6. ASSUME NEW m \in 0 .. T-1
        PROVE  /\ place(m) \in 0 .. T-1 /\ place(m) \div c = row(m) /\ place(m) % c = rank(m)
               /\ place(m) = row(m) * c + rank(m)
    <2> DEFINE a == row(m)  i == rank(m)  n == place(m)
    <2>1. a \in Nat /\ a + 1 <= p /\ i \in 0 .. c-1 /\ i \in Nat /\ n = c * a + i
      BY <1>1, <1>2, <1>3, <1>5
    <2> HIDE DEF a, i, n
    <2>2. c * a \in Nat /\ c * a = a * c
      BY <1>1, <2>1
    <2>3. n \in Nat
      BY <2>1, <2>2
    <2>4. (a + 1) * c <= p * c
      BY <1>1, <2>1, MulMono
    <2>5. (a + 1) * c = c * a + c
      BY <1>1, <2>1
    <2>6. n \in 0 .. T-1
      BY <1>1, <2>1, <2>2, <2>3, <2>4, <2>5
    <2>7. n % c = i
      BY <1>1, <2>1, <2>3, RemainderIs
    <2>8. n \div c = a
      <3> DEFINE q == n \div c
      <3>1. q \in Nat /\ n = c * q + i
        BY <1>1, <2>3, <2>7, DivBounds
      <3> HIDE DEF q
      <3>2. c * q = c * a
        <4>1. c * q \in Nat
          BY <1>1, <3>1
        <4> QED
          BY <2>1, <2>2, <3>1, <4>1
      <3>3. q = a
        BY <1>1, <2>1, <3>1, <3>2
      <3> QED
        BY <3>3 DEF q
    <2> QED
      BY <2>1, <2>2, <2>6, <2>7, <2>8 DEF a, i, n
  <1> HIDE DEF T
  <1>7. \A m, k \in 0 .. T-1 : place(m) = place(k) => m = k
    <2>1. ASSUME NEW m \in 0 .. T-1, NEW k \in 0 .. T-1, place(m) = place(k) PROVE m = k
      <3>1. row(m) = row(k) /\ rank(m) = rank(k)
        BY <1>6, <2>1
      <3> QED
        BY <1>4, <3>1
    <2> QED
      BY <2>1
  <1> QED
    BY <1>3, <1>6, <1>7 DEF T, place, row

\* One number more may come before the next number.
LEMMA RankGrows ==
  ASSUME NEW S, S \subseteq Nat, IsFiniteSet(S), NEW n \in Nat
  PROVE  /\ Rank(S, n) \in Nat
         /\ Rank(S, n+1) = Rank(S, n) + (IF n \in S THEN 1 ELSE 0)
  <1> DEFINE B == {o \in S : o < n}
             C == {o \in S : o < n+1}
  <1>1. IsFiniteSet(B) /\ Cardinality(B) \in Nat
    <2>1. B \subseteq S
      OBVIOUS
    <2> HIDE DEF B
    <2> QED
      BY <2>1, FS_Subset, FS_CardinalityType
  <1>2. n \notin B
    OBVIOUS
  <1>3. C = IF n \in S THEN B \union {n} ELSE B
    <2>1. \A o \in S : o < n+1 <=> o < n \/ o = n
      OBVIOUS
    <2> QED
      BY <2>1, Zenon
  <1>4. Rank(S, n) = Cardinality(B) /\ Rank(S, n+1) = Cardinality(C)
    BY Zenon DEF Rank
  <1> HIDE DEF B, C
  <1>5. Cardinality(B \union {n}) = Cardinality(B) + 1
    BY <1>1, <1>2, FS_AddElement, Zenon
  <1>6. CASE n \in S
    BY <1>1, <1>3, <1>4, <1>5, <1>6
  <1>7. CASE n \notin S
    BY <1>1, <1>3, <1>4, <1>7
  <1> QED
    BY <1>6, <1>7

\* What cht_fill_cht fills a vector of zeros with: at the place of a visit the
\* backend that came.
LEMMA FillIs ==
  ASSUME NEW p, Prime(p), NEW c \in 1 .. p-1
  PROVE  LET v == Hashing!cht_fill_cht([k \in 0 .. p*c - 1 |-> 0], p, c)
         IN  /\ v \in [0 .. p*c - 1 -> 0 .. c-1]
             /\ \A m \in 0 .. p*c - 1 : v[PlaceOf(m, p, c)] = m % c
  <1> DEFINE T == p*c
             row(m) == RowOf(m, p, c)
             place(m) == PlaceOf(m, p, c)
             zeros == [k \in 0 .. T-1 |-> 0]
             At(k) == CHOOSE m \in 0 .. T-1 : place(m) = k
             IsFilled(r) == r = [n \in 0 .. T |->
                IF n = 0 THEN [cht |-> zeros, next |-> [b \in 0 .. p-1 |-> 0]]
                ELSE Hashing!FillOne(r[n-1], (n-1) \div c, (n-1) % c, p, c)]
             filled == CHOOSE r : IsFilled(r)
             C(n) == [k \in 0 .. T-1 |-> IF \E m \in 0 .. n-1 : place(m) = k THEN At(k) % c ELSE 0]
             N(n) == [b \in 0 .. p-1 |-> Rank(VisitsOf(b, p, c), n)]
             g == [n \in 0 .. T |-> [cht |-> C(n), next |-> N(n)]]
  <1>1. p \in Nat /\ c \in Nat \ {0} /\ T \in Nat
    BY VisitsAre
  <1>2. /\ \A m \in 0 .. T-1 : place(m) \in 0 .. T-1
        /\ \A m, k \in 0 .. T-1 : place(m) = place(k) => m = k
    BY PlacesAre
  <1>3. \A m \in 0 .. T-1 : At(place(m)) = m
    BY <1>2
  <1>4. \A m \in 0 .. T-1 : m \in Nat /\ m % c \in 0 .. c-1 /\ row(m) \in 0 .. p-1
    BY VisitsAre
  <1>5. \A m \in 0 .. T-1 : place(m) = c * row(m) + Rank(VisitsOf(row(m), p, c), m)
    BY DEF PlaceOf
  <1>6. g[0] = [cht |-> zeros, next |-> [b \in 0 .. p-1 |-> 0]]
    <2>1. C(0) = zeros
      OBVIOUS
    <2>2. ASSUME NEW b \in 0 .. p-1 PROVE Rank(VisitsOf(b, p, c), 0) = 0
      <3> DEFINE V == VisitsOf(b, p, c)
      <3>1. V \subseteq Nat
        BY VisitsAre
      <3>2. Rank(V, 0) = Cardinality({o \in V : o < 0})
        BY Zenon DEF Rank
      <3> HIDE DEF V
      <3>3. \A o \in V : ~ (o < 0)
        BY <3>1
      <3>4. {o \in V : o < 0} = {}
        BY <3>3, Zenon
      <3>5. Rank(V, 0) = 0
        BY <3>2, <3>4, FS_EmptySet, Zenon
      <3> QED
        BY <3>5 DEF V
    <2>3. N(0) = [b \in 0 .. p-1 |-> 0]
      BY <2>2
    <2>4. 0 \in 0 .. T
      BY <1>1
    <2> HIDE DEF C, N, zeros
    <2> QED
      BY <2>1, <2>3, <2>4
  <1>7. ASSUME NEW n \in 1 .. T
        PROVE  g[n] = Hashing!FillOne(g[n-1], (n-1) \div c, (n-1) % c, p, c)
    <2> DEFINE m == n-1  b == row(m)
    <2>1. m \in 0 .. T-1 /\ m \in 0 .. T /\ n \in 0 .. T /\ m \in Nat /\ n = m + 1
      BY <1>1
    <2>2. g[n] = [cht |-> C(n), next |-> N(n)] /\ g[m] = [cht |-> C(m), next |-> N(m)]
      BY <2>1
    <2> HIDE DEF m, g
    <2>3. b \in 0 .. p-1 /\ b = Hashing!permutation(m % c, m \div c, p)
      BY <1>4, <2>1 DEF RowOf
    <2>4. place(m) = c * b + N(m)[b]
      BY <1>5, <2>1, <2>3
    <2>5. ASSUME NEW a \in 0 .. p-1 PROVE N(n)[a] = IF a = b THEN N(m)[a] + 1 ELSE N(m)[a]
      <3> DEFINE V == VisitsOf(a, p, c)
      <3>1. V \subseteq Nat /\ IsFiniteSet(V)
        BY VisitsAre
      <3>2. m \in V <=> a = b
        BY <2>1 DEF VisitsOf
      <3>3. N(n)[a] = Rank(V, n) /\ N(m)[a] = Rank(V, m)
        OBVIOUS
      <3> HIDE DEF V, N
      <3>4. Rank(V, m) \in Nat /\ Rank(V, n) = Rank(V, m) + (IF m \in V THEN 1 ELSE 0)
        BY <2>1, <3>1, RankGrows
      <3>5. CASE m \in V
        BY <3>2, <3>3, <3>4, <3>5
      <3>6. CASE m \notin V
        BY <3>2, <3>3, <3>4, <3>6
      <3> QED
        BY <3>5, <3>6
    <2>6. ASSUME NEW k \in 0 .. T-1 PROVE C(n)[k] = IF k = place(m) THEN m % c ELSE C(m)[k]
      <3>1. C(n)[k] = (IF \E e \in 0 .. n-1 : place(e) = k THEN At(k) % c ELSE 0)
            /\ C(m)[k] = (IF \E e \in 0 .. m-1 : place(e) = k THEN At(k) % c ELSE 0)
        OBVIOUS
      <3>2. 0 .. n-1 = (0 .. m-1) \union {m}
        BY <2>1
      <3> HIDE DEF C, place, At
      <3>3. CASE k = place(m)
        BY <1>3, <2>1, <3>1, <3>2, <3>3
      <3>4. CASE k # place(m)
        BY <3>1, <3>2, <3>4
      <3> QED
        BY <3>3, <3>4
    <2>7. Hashing!FillOne(g[m], m \div c, m % c, p, c) =
            [cht  |-> [k \in 0 .. T-1 |-> IF k = place(m) THEN m % c ELSE C(m)[k]],
             next |-> [N(m) EXCEPT ![b] = @ + 1]]
      <3>1. DOMAIN C(m) = 0 .. T-1
        OBVIOUS
      <3>2. place(m) = c * Hashing!permutation(m % c, m \div c, p) + N(m)[Hashing!permutation(m % c, m \div c, p)]
        BY <2>3, <2>4
      <3> HIDE DEF C, N, place, b
      <3> QED
        <4> DEFINE A == C(m)  B == N(m)  k == place(m)
        <4>1. b = Hashing!permutation(m % c, m \div c, p) /\ k = c * b + B[b]
          BY <2>3, <2>4
        <4>2. g[m].cht = A /\ g[m].next = B
          BY <2>2
        <4> HIDE DEF A, B, k
        <4>3. Hashing!FillOne(g[m], m \div c, m % c, p, c) =
                [cht |-> [x \in DOMAIN A |-> IF x = k THEN m % c ELSE A[x]], next |-> [B EXCEPT ![b] = @ + 1]]
          BY Zenon, <4>1, <4>2 DEF Hashing!FillOne
        <4> QED
          BY <3>1, <4>3, Zenon DEF A, B, k
    <2>8. C(n) = [k \in 0 .. T-1 |-> IF k = place(m) THEN m % c ELSE C(m)[k]]
      <3>1. C(n) = [k \in 0 .. T-1 |-> C(n)[k]]
        OBVIOUS
      <3> HIDE DEF C
      <3> QED
        BY <2>6, <3>1
    <2>9. N(n) = [N(m) EXCEPT ![b] = @ + 1]
      <3>1. N(n) = [a \in 0 .. p-1 |-> N(n)[a]] /\ N(m) = [a \in 0 .. p-1 |-> N(m)[a]]
        OBVIOUS
      <3> HIDE DEF N, b
      <3> QED
        BY <2>3, <2>5, <3>1
    <2> HIDE DEF C, N, b, place
    <2> QED
      BY <2>2, <2>7, <2>8, <2>9 DEF m
  <1> HIDE DEF C, N
  <1>8. ASSUME NEW r, IsFilled(r) PROVE r = g
    <2>1. \A n \in 0 .. T : r[n] = IF n = 0 THEN [cht |-> zeros, next |-> [b \in 0 .. p-1 |-> 0]]
                                   ELSE Hashing!FillOne(r[n-1], (n-1) \div c, (n-1) % c, p, c)
      BY <1>8
    <2>2. \A n \in 0 .. T : r[n] = g[n]
      <3> DEFINE Bad == {n \in 0 .. T : r[n] # g[n]}
      <3>1. SUFFICES ASSUME Bad # {} PROVE FALSE
        OBVIOUS
      <3>2. PICK n \in Bad : \A k \in Bad : n <= k
        <4>1. Bad \subseteq Nat
          OBVIOUS
        <4> QED
          BY <3>1, <4>1, Smallest
      <3> HIDE DEF g, T
      <3>3. 0 \in 0 .. T /\ n \in 0 .. T
        BY <1>1, <3>2
      <3>4. n # 0
        BY <1>6, <2>1, <3>2, <3>3
      <3>5. n \in 1 .. T /\ n-1 \in 0 .. T /\ n-1 \notin Bad
        BY <1>1, <3>2, <3>3, <3>4
      <3>6. r[n-1] = g[n-1]
        BY <3>5
      <3>7. r[n] = g[n]
        BY <1>7, <2>1, <3>3, <3>4, <3>5, <3>6
      <3> QED
        BY <3>2, <3>7
    <2>3. r = [n \in 0 .. T |-> r[n]]
      BY <1>8
    <2> QED
      BY <2>2, <2>3
  <1>9. IsFilled(g)
    <2>1. \A n \in 0 .. T : g[n] = IF n = 0 THEN [cht |-> zeros, next |-> [b \in 0 .. p-1 |-> 0]]
                                   ELSE Hashing!FillOne(g[n-1], (n-1) \div c, (n-1) % c, p, c)
      <3>1. ASSUME NEW n \in 0 .. T, n # 0 PROVE n \in 1 .. T
        BY <1>1, <3>1
      <3> HIDE DEF g, T
      <3> QED
        BY <1>6, <1>7, <3>1
    <2>2. g = [n \in 0 .. T |-> g[n]]
      OBVIOUS
    <2> HIDE DEF g, T
    <2> QED
      BY <2>1, <2>2
  <1>10. filled = g
    <2>1. IsFilled(filled)
      BY <1>9, Zenon
    <2> HIDE DEF IsFilled, filled, g
    <2> QED
      BY <1>8, <2>1
  <1> DEFINE v == Hashing!cht_fill_cht(zeros, p, c)
  <1>11. v = filled[T].cht
    BY Zenon DEF Hashing!cht_fill_cht
  <1>12. v = C(T)
    <2>1. T \in 0 .. T
      BY <1>1
    <2>2. g[T] = [cht |-> C(T), next |-> N(T)]
      BY <2>1
    <2> HIDE DEF v, T, g, filled
    <2> QED
      BY <1>10, <1>11, <2>2
  <1> HIDE DEF v, At
  <1>13. v = [k \in 0 .. T-1 |-> IF \E m \in 0 .. T-1 : place(m) = k THEN At(k) % c ELSE 0]
    BY <1>12 DEF C
  <1> HIDE DEF T, place
  <1>14. \A m \in 0 .. T-1 : v[place(m)] = m % c
    BY <1>2, <1>3, <1>13
  <1>15. v \in [0 .. T-1 -> 0 .. c-1]
    <2>1. ASSUME NEW k \in 0 .. T-1
          PROVE  (IF \E m \in 0 .. T-1 : place(m) = k THEN At(k) % c ELSE 0) \in 0 .. c-1
      <3>1. CASE \E m \in 0 .. T-1 : place(m) = k
        BY <1>3, <1>4, <3>1
      <3>2. CASE ~ \E m \in 0 .. T-1 : place(m) = k
        BY <1>1, <3>2
      <3> QED
        BY <3>1, <3>2
    <2> QED
      BY <1>13, <2>1
  <1> QED
    BY <1>14, <1>15 DEF v, T, place

\* A row of the table names every backend, and nothing else.
IsRow(v, b, c) == /\ \A i \in 0 .. c-1 : v[b * c + i] \in 0 .. c-1
                  /\ \A j \in 0 .. c-1 : \E i \in 0 .. c-1 : v[b * c + i] = j

\* All rows do.
LEMMA RowsAre ==
  ASSUME NEW p, Prime(p), NEW c \in 1 .. p-1, NEW b \in 0 .. p-1
  PROVE  IsRow(Hashing!cht_fill_cht([k \in 0 .. p*c - 1 |-> 0], p, c), b, c)
  <1> DEFINE v == Hashing!cht_fill_cht([k \in 0 .. p*c - 1 |-> 0], p, c)
             T == p*c
  <1>1. p \in Nat /\ c \in Nat \ {0} /\ T \in Nat
    BY VisitsAre
  <1>2. v \in [0 .. T-1 -> 0 .. c-1] /\ \A m \in 0 .. T-1 : v[PlaceOf(m, p, c)] = m % c
    BY FillIs
  <1> HIDE DEF v
  <1>3. ASSUME NEW i \in 0 .. c-1 PROVE v[b * c + i] \in 0 .. c-1
    <2>1. b \in Nat /\ b + 1 <= p /\ i \in Nat /\ i < c
      BY <1>1
    <2>2. (b + 1) * c <= p * c
      BY <1>1, <2>1, MulMono
    <2>3. (b + 1) * c = b * c + c /\ b * c \in Nat
      BY <1>1, <2>1
    <2>4. b * c + i \in 0 .. T-1
      BY <1>1, <2>1, <2>2, <2>3
    <2> HIDE DEF T
    <2> QED
      BY <1>2, <2>4
  <1>4. ASSUME NEW j \in 0 .. c-1 PROVE \E i \in 0 .. c-1 : v[b * c + i] = j
    <2>1. PICK m \in VisitsOf(b, p, c) : m % c = j
      BY VisitsAre
    <2>2. m \in 0 .. T-1 /\ RowOf(m, p, c) = b
      BY DEF VisitsOf
    <2>3. PICK i \in 0 .. c-1 : PlaceOf(m, p, c) = b * c + i
      BY <2>2, PlacesAre
    <2> HIDE DEF T
    <2> QED
      BY <1>2, <2>1, <2>2, <2>3
  <1> QED
    BY <1>3, <1>4 DEF v, IsRow

-----------------------------------------------------------------------------
(***************************************************************************)
(* Consistent hashing, whatever the number of backends.                    *)
(***************************************************************************)

\* The table as cht_fill_cht leaves it.
FilledTable(z) ==
  Hashing!cht_fill_cht([k \in 0 .. z.height * z.capacity - 1 |-> 0], z.height, z.capacity)

\* The table is filled or not, once and for all, and the chain's links are in order.
HashingInv ==
  part = "cht" => /\ size \in ChtSizes
                  /\ cht \in {Unset, FilledTable(size)}
                  /\ Linked(active, size.capacity)

\* The sizes are numbers, and every row of a filled table names every backend.
LEMMA SizesAre ==
  ASSUME NEW z \in ChtSizes
  PROVE  /\ z.height \in Nat \ {0} /\ z.capacity \in Nat \ {0}
         /\ \A h \in 0 .. z.height - 1 : IsRow(FilledTable(z), h, z.capacity)
  <1> DEFINE p == z.height  c == z.capacity
  <1>1. Prime(p) /\ c \in 1 .. p-1
    BY SteeringAssumption
  <1>2. p \in Nat \ {0}
    BY <1>1 DEF Prime
  <1>3. FilledTable(z) = Hashing!cht_fill_cht([k \in 0 .. p*c - 1 |-> 0], p, c)
    BY DEF FilledTable
  <1>4. ASSUME NEW h \in 0 .. p-1 PROVE IsRow(FilledTable(z), h, c)
    <2> HIDE DEF p, c
    <2> QED
      BY <1>1, <1>3, RowsAre
  <1>5. c \in Nat \ {0}
    <2> HIDE DEF p, c
    <2> QED
      BY <1>1, <1>2
  <1> QED
    BY <1>2, <1>4, <1>5

\* The structure keeps its table and its chain in order.
LEMMA SteeringInitHashing == SteeringInit => HashingInv
  <1> SUFFICES ASSUME SteeringInit, part = "cht"
               PROVE  size \in ChtSizes /\ cht = Unset /\ Linked(active, size.capacity)
    BY DEF HashingInv
  <1>1. size \in ChtSizes /\ cht = Unset /\ active = dchain_allocate(size.capacity)
    BY DEF SteeringInit
  <1> QED
    BY <1>1, SizesAre, InitLinked

\* And so does every call.
LEMMA SteeringNextHashing == HashingInv /\ [SteeringNext]_steering_vars => HashingInv'
  <1> SUFFICES ASSUME HashingInv, [SteeringNext]_steering_vars, part' = "cht"
               PROVE  size' \in ChtSizes /\ cht' \in {Unset, FilledTable(size')} /\ Linked(active', size'.capacity)
    BY DEF HashingInv
  <1>1. part = "cht" /\ size' = size
    BY DEF SteeringNext, steering_vars, Update, Fill, Activate, Deactivate, Full
  <1>2. size \in ChtSizes /\ cht \in {Unset, FilledTable(size)} /\ Linked(active, size.capacity)
    BY <1>1 DEF HashingInv
  <1>3. CASE Fill
    <2>1. cht' = FilledTable(size) /\ active' = active
      BY <1>3 DEF Fill, FilledTable
    <2> QED
      BY <1>1, <1>2, <2>1
  <1>4. CASE Activate
    <2>1. cht' = cht /\ ~ OutOfSpace(active) /\ active' = dchain_allocate_new_index(active, 0)
      BY <1>4 DEF Activate
    <2>2. Linked(active', size.capacity)
      BY <1>2, <2>1, AllocateLinked
    <2> QED
      BY <1>1, <1>2, <2>1, <2>2
  <1>5. ASSUME NEW b \in 0 .. size.capacity - 1, Deactivate(b) PROVE /\ cht' = cht
                                                                    /\ Linked(active', size.capacity)
    <2>1. cht' = cht /\ dchain_is_index_allocated(active, b) /\ active' = dchain_free_index(active, b)
      BY <1>5 DEF Deactivate
    <2> QED
      BY <1>2, <2>1, FreeLinked
  <1>6. CASE UNCHANGED steering_vars
    BY <1>1, <1>2, <1>6 DEF steering_vars
  <1>7. ASSUME NEW r \in Rule, Update(r) PROVE FALSE
    BY <1>1, <1>7 DEF Update
  <1>8. CASE Full
    BY <1>1, <1>8 DEF Full
  <1> QED
    BY <1>1, <1>2, <1>3, <1>4, <1>5, <1>6, <1>7, <1>8 DEF SteeringNext

\* Of the theorem below, for one state.
LEMMA HashingRows == HashingInv => ChtRowsArePermutations
  <1> SUFFICES ASSUME HashingInv, part = "cht", cht # Unset, NEW h \in 0 .. size.height - 1
               PROVE  {Row(h)[i] : i \in Backends} = Backends
    BY DEF ChtRowsArePermutations
  <1>1. size \in ChtSizes /\ cht = FilledTable(size)
    BY DEF HashingInv
  <1>2. IsRow(cht, h, size.capacity)
    BY <1>1, SizesAre
  <1>3. \A i \in Backends : Row(h)[i] = cht[h * size.capacity + i]
    BY DEF Row
  <1>4. /\ \A i \in Backends : Row(h)[i] \in Backends
        /\ \A j \in Backends : \E i \in Backends : Row(h)[i] = j
    BY <1>2, <1>3, Zenon DEF IsRow, Backends
  <1> QED
    BY <1>4

\* Every row of a filled table of consistent hashing names every backend once,
\* whatever prime height and capacity cht_fill_cht is given.
THEOREM ChtRowsStayPermutations == SteeringSpec => []ChtRowsArePermutations
  <1>1. SteeringSpec => []HashingInv
    BY SteeringInitHashing, SteeringNextHashing, PTL DEF SteeringSpec
  <1> QED
    BY <1>1, HashingRows, PTL

-----------------------------------------------------------------------------

\* No index is in use exactly when the list of those in use is empty.
LEMMA EmptyIsUnused ==
  ASSUME NEW ch, NEW N, Linked(ch, N)
  PROVE  IsEmpty(ch) <=> \A k \in 0 .. N-1 : ~ dchain_is_index_allocated(ch, k)
  <1>1. ASSUME IsEmpty(ch), NEW k \in 0 .. N-1 PROVE ~ dchain_is_index_allocated(ch, k)
    <2>1. PICK a, m, f, r : Threaded(ch, N, a, m, f, r)
      BY DEF Linked
    <2>2. ch.next[0] = 0
      BY <1>1 DEF IsEmpty, ALLOC_LIST_HEAD
    <2>3. m \in Nat /\ N \in Nat /\ Ring(a, m, 0, N) /\ \A n \in 0 .. m : ch.next[a[n]] = a[n+1]
      BY <2>1 DEF Threaded, Rings, Ring
    <2>4. a[0] = 0 /\ \A i, j \in 0 .. m : a[i] = a[j] => i = j
      BY <2>3 DEF Ring
    <2>5. a[1] = 0
      BY <2>2, <2>3, <2>4
    <2>6. ~ (1 <= m)
      BY <2>3, <2>4, <2>5
    <2>7. ~ Member(a, m, k)
      BY <2>3, <2>6 DEF Member
    <2> QED
      BY <2>1, <2>7, InUseAreListed
  <1> QED
    BY <1>1, OldestInUse

\* The backend of the i-th preference of a hash.
Candidate(t, h, z, i) == t[(h % z.height) * z.capacity + i]

\* The backend of a hash is the first of its row that is active.
LEMMA PreferredIs ==
  ASSUME NEW z \in ChtSizes, NEW ch, NEW h \in Nat
  PROVE  LET t == FilledTable(z)
             q == Hashing!cht_find_preferred_available_backend(h, t, ch, z.height, z.capacity)
             B == 0 .. z.capacity - 1
         IN  /\ \A i \in B : Candidate(t, h, z, i) \in B
             /\ (q = Hashing!NoBackend /\ \A b \in B : ~ dchain_is_index_allocated(ch, b))
                \/ \E i \in B : /\ q = Candidate(t, h, z, i) /\ q \in B /\ q # Hashing!NoBackend
                                /\ dchain_is_index_allocated(ch, q)
                                /\ \A k \in B : dchain_is_index_allocated(ch, Candidate(t, h, z, k)) => i <= k
  <1> DEFINE t == FilledTable(z)
             p == z.height  c == z.capacity
             q == Hashing!cht_find_preferred_available_backend(h, t, ch, p, c)
             B == 0 .. c - 1
             available == {i \in B : dchain_is_index_allocated(ch, Candidate(t, h, z, i))}
             first == CHOOSE i \in available : \A k \in available : i <= k
  <1>1. p \in Nat \ {0} /\ c \in Nat \ {0} /\ h % p \in 0 .. p-1
    BY SizesAre, DivBounds
  <1>2. IsRow(t, h % p, c)
    BY <1>1, SizesAre
  <1>3. /\ \A i \in B : Candidate(t, h, z, i) \in B
        /\ \A b \in B : \E i \in B : Candidate(t, h, z, i) = b
    BY <1>2, Zenon DEF IsRow, Candidate
  <1>4. q = IF available = {} THEN Hashing!NoBackend ELSE Candidate(t, h, z, first)
    <2>1. \A i : Hashing!candidate_idx(Hashing!loop(h, p), i, c) = (h % p) * c + i
      BY DEF Hashing!candidate_idx, Hashing!loop
    <2> HIDE DEF p, c, t
    <2>2. \A i : t[Hashing!candidate_idx(Hashing!loop(h, p), i, c)] = Candidate(t, h, z, i)
      BY <2>1, Zenon DEF Candidate, p, c
    <2>3. \A i : Hashing!dchain_is_index_allocated(ch, t[Hashing!candidate_idx(Hashing!loop(h, p), i, c)])
                   <=> dchain_is_index_allocated(ch, Candidate(t, h, z, i))
      BY <2>2 DEF Hashing!dchain_is_index_allocated, Hashing!dchain_impl_is_index_allocated,
                  Hashing!INDEX_SHIFT, Hashing!ALLOC_LIST_HEAD,
                  dchain_is_index_allocated, dchain_impl_is_index_allocated, INDEX_SHIFT, ALLOC_LIST_HEAD
    <2>4. {i \in B : Hashing!dchain_is_index_allocated(ch, t[Hashing!candidate_idx(Hashing!loop(h, p), i, c)])}
             = available
      BY <2>3
    <2> QED
      BY <2>2, <2>4, Zenon DEF Hashing!cht_find_preferred_available_backend
  <1> HIDE DEF q, t, p
  <1>5. CASE available = {}
    <2>1. \A b \in B : ~ dchain_is_index_allocated(ch, b)
      BY <1>3, <1>5
    <2> QED
      BY <1>3, <1>4, <1>5, <2>1 DEF q, t, p
  <1>6. CASE available # {}
    <2>1. available \subseteq Nat
      BY <1>1
    <2>2. first \in available /\ \A k \in available : first <= k
      BY <1>6, <2>1, Smallest
    <2> HIDE DEF first
    <2>3. first \in B /\ dchain_is_index_allocated(ch, Candidate(t, h, z, first))
      BY <2>2
    <2>4. \A k \in B : dchain_is_index_allocated(ch, Candidate(t, h, z, k)) => first <= k
      BY <2>2
    <2>5. q = Candidate(t, h, z, first)
      BY <1>4, <1>6
    <2>6. q \in B /\ q # Hashing!NoBackend
      BY <1>1, <1>3, <2>3, <2>5 DEF Hashing!NoBackend
    <2> QED
      BY <1>3, <2>3, <2>4, <2>5, <2>6 DEF q, t, p
  <1> QED
    BY <1>5, <1>6

\* One table, two sets of active backends.
LEMMA PreferenceKept ==
  ASSUME NEW z \in ChtSizes, NEW one, NEW two, NEW h \in Nat
  PROVE  LET q(ch) == Hashing!cht_find_preferred_available_backend(h, FilledTable(z), ch, z.height, z.capacity)
         IN  q(two) # q(one) => ~ Up(two, q(one)) \/ ~ Up(one, q(two))
  <1> DEFINE t == FilledTable(z)
             B == 0 .. z.capacity - 1
             q(ch) == Hashing!cht_find_preferred_available_backend(h, t, ch, z.height, z.capacity)
  <1>1. SUFFICES ASSUME Up(two, q(one)), Up(one, q(two)) PROVE q(two) = q(one)
    OBVIOUS
  <1>2. ASSUME NEW ch, q(ch) # Hashing!NoBackend
        PROVE  \E i \in B : /\ q(ch) = Candidate(t, h, z, i)
                            /\ \A k \in B : dchain_is_index_allocated(ch, Candidate(t, h, z, k)) => i <= k
    BY <1>2, PreferredIs
  <1> HIDE DEF q, t
  <1>3. q(one) # Hashing!NoBackend /\ dchain_is_index_allocated(two, q(one))
        /\ q(two) # Hashing!NoBackend /\ dchain_is_index_allocated(one, q(two))
    BY <1>1 DEF Up
  <1>4. PICK i \in B : /\ q(one) = Candidate(t, h, z, i)
                       /\ \A k \in B : dchain_is_index_allocated(one, Candidate(t, h, z, k)) => i <= k
    BY <1>2, <1>3
  <1>5. PICK j \in B : /\ q(two) = Candidate(t, h, z, j)
                       /\ \A k \in B : dchain_is_index_allocated(two, Candidate(t, h, z, k)) => j <= k
    BY <1>2, <1>3
  <1>6. i <= j /\ j <= i /\ z.capacity \in Nat
    BY <1>3, <1>4, <1>5, SizesAre
  <1>7. i = j
    BY <1>6
  <1> QED
    BY <1>4, <1>5, <1>7

\* What a step may do to the backends of the flows.
LEMMA HashingStep ==
  ASSUME HashingInv, [SteeringNext]_steering_vars, part = "cht", cht # Unset,
         NEW h \in 0 .. 2 * size.height
  PROVE  /\ Preferred(h)' # Preferred(h) => ~ Up(active', Preferred(h)) \/ ~ Up(active, Preferred(h)')
         /\ (Preferred(h) = Hashing!NoBackend) <=> IsEmpty(active)
  <1> DEFINE q(ch) == Hashing!cht_find_preferred_available_backend(h, FilledTable(size), ch, size.height, size.capacity)
  <1>1. size \in ChtSizes /\ cht = FilledTable(size) /\ Linked(active, size.capacity)
    BY DEF HashingInv
  <1>2. cht' = cht /\ size' = size
    BY DEF SteeringNext, steering_vars, Update, Fill, Activate, Deactivate, Full
  <1>3. h \in Nat
    BY <1>1, SizesAre
  <1>4. Preferred(h) = q(active) /\ Preferred(h)' = q(active')
    BY <1>1, <1>2 DEF Preferred
  <1>5. q(active') # q(active) => ~ Up(active', q(active)) \/ ~ Up(active, q(active'))
    BY <1>1, <1>3, PreferenceKept
  <1>6. q(active) = Hashing!NoBackend <=> \A b \in 0 .. size.capacity - 1 : ~ dchain_is_index_allocated(active, b)
    <2>1. \/ q(active) = Hashing!NoBackend /\ \A b \in 0 .. size.capacity - 1 : ~ dchain_is_index_allocated(active, b)
          \/ /\ q(active) \in 0 .. size.capacity - 1 /\ q(active) # Hashing!NoBackend
             /\ dchain_is_index_allocated(active, q(active))
      BY <1>1, <1>3, PreferredIs
    <2> HIDE DEF q
    <2> QED
      BY <2>1
  <1>7. IsEmpty(active) <=> \A b \in 0 .. size.capacity - 1 : ~ dchain_is_index_allocated(active, b)
    BY <1>1, EmptyIsUnused
  <1> HIDE DEF q
  <1> QED
    BY <1>4, <1>5, <1>6, <1>7

\* Consistent hashing, whatever the number of backends: when one comes or goes, a
\* flow changes its backend only if its own went away or the one that came is the
\* one it prefers, and a flow is served exactly while some backend is active.
THEOREM FlowsStayWithTheirBackend == SteeringSpec => FlowsMoveOnlyIfTheyMust
  <1>1. SteeringSpec => []HashingInv
    BY SteeringInitHashing, SteeringNextHashing, PTL DEF SteeringSpec
  <1>2. HashingInv /\ [SteeringNext]_steering_vars
          => [part = "cht" /\ cht # Unset =>
                \A h \in 0 .. 2 * size.height :
                  /\ Preferred(h)' # Preferred(h) => ~ Up(active', Preferred(h)) \/ ~ Up(active, Preferred(h)')
                  /\ (Preferred(h) = Hashing!NoBackend) <=> IsEmpty(active)]_steering_vars
    BY HashingStep
  <1> QED
    BY <1>1, <1>2, PTL DEF SteeringSpec, FlowsMoveOnlyIfTheyMust

-----------------------------------------------------------------------------
(***************************************************************************)
(* Addresses cut up into first bits, last bits and what a rule masks.      *)
(***************************************************************************)

\* A quotient and a remainder are what they have to be.
LEMMA QuotientIs ==
  ASSUME NEW n \in Nat, NEW d \in Nat \ {0}, NEW q \in Nat, NEW r \in 0 .. d-1, n = d * q + r
  PROVE  n \div d = q /\ n % d = r
  <1>1. n \div d \in Nat /\ n % d \in 0 .. d-1 /\ n = d * (n \div d) + (n % d)
    BY DivBounds
  <1> DEFINE x == n \div d
  <1>2. x \in Nat /\ n % d \in 0 .. d-1 /\ n = d * x + (n % d)
    BY <1>1
  <1> HIDE DEF x
  <1>3. CASE x <= q - 1
    <2>1. d * (q - x) >= d
      BY <1>2, <1>3
    <2>2. d * (q - x) = d * q - d * x
      BY <1>2
    <2>3. d * q - d * x = (n % d) - r
      BY <1>2
    <2> QED
      BY <1>2, <2>1, <2>2, <2>3
  <1>4. CASE x >= q + 1
    <2>1. d * (x - q) >= d
      BY <1>2, <1>4
    <2>2. d * (x - q) = d * x - d * q
      BY <1>2
    <2>3. d * x - d * q = r - (n % d)
      BY <1>2
    <2> QED
      BY <1>2, <2>1, <2>2, <2>3
  <1>5. CASE x = q
    BY <1>2, <1>5 DEF x
  <1> QED
    BY <1>2, <1>3, <1>4, <1>5

\* Multiples of a positive number are told apart by their factors.
LEMMA FactorIs ==
  ASSUME NEW x \in Nat, NEW y \in Nat, NEW d \in Nat \ {0}, x * d = y * d
  PROVE  x = y
  <1>1. x * d \in Nat /\ d * x = x * d /\ d * y = x * d
    OBVIOUS
  <1>2. x * d = d * x + 0 /\ x * d = d * y + 0 /\ 0 \in 0 .. d-1
    BY <1>1
  <1>3. (x * d) \div d = x
    BY <1>1, <1>2, QuotientIs
  <1>4. (x * d) \div d = y
    BY <1>1, <1>2, QuotientIs
  <1> QED
    BY <1>3, <1>4

\* Dividing by one factor, then by the other, is dividing by the product.
LEMMA QuotientTwice ==
  ASSUME NEW a \in Nat, NEW b \in Nat \ {0}, NEW s \in Nat \ {0}
  PROVE  /\ b * s \in Nat \ {0}
         /\ (a \div b) \div s = a \div (b * s)
  <1> DEFINE q == a \div b  r == a % b  t == q \div s  u == q % s
  <1>1. q \in Nat /\ r \in 0 .. b-1 /\ a = b * q + r
    BY DivBounds
  <1>2. t \in Nat /\ u \in 0 .. s-1 /\ q = s * t + u
    BY <1>1, DivBounds
  <1> HIDE DEF q, r, t, u
  <1>3. b * s \in Nat \ {0}
    OBVIOUS
  <1>4. b * q = (b * s) * t + b * u
    BY <1>2
  <1>5. b * u \in Nat /\ b * u <= b * (s-1) /\ b * (s-1) = b * s - b
    BY <1>2
  <1>6. b * u + r \in 0 .. b * s - 1
    BY <1>1, <1>3, <1>5
  <1>7. a = (b * s) * t + (b * u + r)
    BY <1>1, <1>2, <1>3, <1>4, <1>5
  <1> DEFINE m == b * s  w == b * u + r
  <1>8. a \div m = t
    <2>1. m \in Nat \ {0} /\ w \in 0 .. m-1 /\ a = m * t + w
      BY <1>3, <1>6, <1>7
    <2> HIDE DEF m, w
    <2> QED
      BY <1>2, <2>1, QuotientIs
  <1> QED
    BY <1>3, <1>8 DEF t, q

\* A number is in the run of s numbers from t * s on exactly when t is its quotient.
LEMMA InRun ==
  ASSUME NEW x \in Nat, NEW t \in Nat, NEW s \in Nat \ {0}
  PROVE  x \in t * s .. t * s + s - 1 <=> x \div s = t
  <1> DEFINE q == x \div s  r == x % s
  <1>1. q \in Nat /\ r \in 0 .. s-1 /\ x = s * q + r
    BY DivBounds
  <1>2. t * s \in Nat /\ t * s = s * t
    OBVIOUS
  <1>3. ASSUME x \in t * s .. t * s + s - 1 PROVE q = t
    <2>1. x - t * s \in 0 .. s-1 /\ x = s * t + (x - t * s)
      BY <1>2, <1>3
    <2> DEFINE w == x - t * s
    <2>2. w \in 0 .. s-1 /\ x = s * t + w
      BY <2>1
    <2> HIDE DEF w
    <2> QED
      BY <2>2, QuotientIs
  <1>4. ASSUME q = t PROVE x \in t * s .. t * s + s - 1
    <2> HIDE DEF q, r
    <2> QED
      BY <1>1, <1>2, <1>4
  <1> QED
    BY <1>3, <1>4

\* The sizes of the two tables, and where an address looks.
LEMMA AddressesAre ==
  /\ FirstBits \in Nat /\ LastBits \in Nat /\ AddressBits \in Nat /\ AddressBits = FirstBits + LastBits
  /\ 2^FirstBits \in Nat \ {0} /\ 2^LastBits \in Nat \ {0}
  /\ \A a \in Addresses : /\ a \in Nat /\ lpm_24_extract_first_index(a) \in 0 .. 2^FirstBits - 1
                          /\ lpm_24_extract_first_index(a) = a \div 2^LastBits
                          /\ a % 2^LastBits \in 0 .. 2^LastBits - 1
                          /\ \A b \in Nat : lpm_long_extract_first_index(a, AddressBits, b)
                                              = b * 2^LastBits + (a % 2^LastBits)
  <1> DEFINE F == 2^FirstBits  B == 2^LastBits
  <1>1. FirstBits \in Nat /\ LastBits \in Nat /\ AddressBits = FirstBits + LastBits
    BY LpmAssumption DEF AddressBits
  <1>2. FirstBits \in 0 .. AddressBits /\ LastBits \in 0 .. AddressBits /\ 0 \in 0 .. AddressBits
    BY <1>1
  <1>3. F \in Nat \ {0} /\ B \in Nat \ {0} /\ 2^AddressBits = F * B
    BY <1>1, <1>2, PowersAssumption
  <1>4. ASSUME NEW a \in Addresses
        PROVE  /\ a \in Nat /\ a \div B \in 0 .. F-1 /\ a % B \in 0 .. B-1
               /\ \A b \in Nat : lpm_long_extract_first_index(a, AddressBits, b) = b * B + (a % B)
    <2>1. F * B \in Nat \ {0} /\ a \in 0 .. F * B - 1
      BY <1>3 DEF Addresses
    <2>2. a \in Nat /\ a < F * B
      BY <2>1
    <2> HIDE DEF F, B
    <2>3. a \div B < F /\ a \div B \in Nat /\ a % B \in 0 .. B-1
      BY <1>3, <2>2, DivAtLeast, DivBounds
    <2>4. Masked(a, AddressBits) = (a \div 2^(AddressBits - AddressBits)) * 2^(AddressBits - AddressBits)
      BY DEF Masked
    <2>5. AddressBits - AddressBits = 0
      BY <1>1
    <2>6. 2^0 = 1
      OBVIOUS
    <2>7. a \div 1 = a
      BY <2>2
    <2>8. Masked(a, AddressBits) = a
      <3>1. Masked(a, AddressBits) = (a \div 1) * 1
        BY <2>4, <2>5, <2>6, Zenon
      <3> QED
        BY <2>2, <2>7, <3>1
    <2> QED
      BY <1>3, <2>2, <2>3, <2>8 DEF lpm_long_extract_first_index, B
  <1> QED
    BY <1>1, <1>3, <1>4 DEF lpm_24_extract_first_index

\* What masking keeps of an address.
LEMMA MaskedIs ==
  ASSUME NEW len \in 0 .. AddressBits, NEW p \in Nat, NEW a \in Nat
  PROVE  LET d == 2^(AddressBits - len)
         IN  /\ d \in Nat \ {0}
             /\ Masked(p, len) = (p \div d) * d /\ Masked(p, len) \in Nat /\ Masked(p, len) <= p
             /\ Masked(Masked(p, len), len) = Masked(p, len)
             /\ Masked(a, len) = Masked(p, len) <=> a \div d = p \div d
  <1> DEFINE d == 2^(AddressBits - len)  q == p \div d  x == a \div d
  <1>1. AddressBits - len \in 0 .. AddressBits
    BY AddressesAre
  <1>2. d \in Nat \ {0}
    BY <1>1, PowersAssumption
  <1>3. Masked(p, len) = q * d /\ Masked(a, len) = x * d
    BY DEF Masked
  <1>4. Masked(q * d, len) = ((q * d) \div d) * d
    BY DEF Masked
  <1> HIDE DEF d
  <1>5. q \in Nat /\ x \in Nat /\ d * q <= p
    BY <1>2, DivBounds
  <1> HIDE DEF q, x
  <1>6. q * d \in Nat /\ q * d = d * q + 0 /\ 0 \in 0 .. d-1
    BY <1>2, <1>5
  <1>7. (q * d) \div d = q
    BY <1>2, <1>5, <1>6, QuotientIs
  <1>8. ASSUME x * d = q * d PROVE x = q
    <2>1. \A u, v \in Nat : u * d = v * d => u = v
      BY <1>2, FactorIs
    <2> QED
      BY <1>5, <1>8, <2>1
  <1>9. Masked(p, len) \in Nat /\ Masked(p, len) <= p
    <2>1. q * d = d * q
      BY <1>2, <1>5
    <2>2. q * d <= p
      BY <1>5, <2>1
    <2> QED
      BY <1>3, <1>6, <2>2, Zenon
  <1>10. Masked(Masked(p, len), len) = Masked(p, len)
    BY <1>3, <1>4, <1>7
  <1>11. Masked(a, len) = Masked(p, len) <=> x = q
    BY <1>3, <1>8
  <1> QED
    BY <1>2, <1>3, <1>9, <1>10, <1>11 DEF d, q, x

\* The entries that a rule of at most FirstBits bits takes are those of the
\* addresses it covers.
LEMMA ShortRule ==
  ASSUME NEW len \in 0 .. FirstBits, NEW p \in Addresses, NEW a \in Addresses
  PROVE  LET first == lpm_24_extract_first_index(Masked(p, len))
         IN  lpm_24_extract_first_index(a) \in first .. first + compute_rule_size(len) - 1
               <=> Masked(a, len) = Masked(p, len)
  <1> DEFINE d == 2^(AddressBits - len)  s == 2^(FirstBits - len)  B == 2^LastBits  t == p \div d
  <1>1. len \in 0 .. AddressBits /\ p \in Nat /\ a \in Nat /\ B \in Nat \ {0} /\ len <= FirstBits
    BY AddressesAre
  <1>2. FirstBits - len \in 0 .. AddressBits /\ LastBits \in 0 .. AddressBits
        /\ AddressBits - len = (FirstBits - len) + LastBits /\ (FirstBits - len) + LastBits <= AddressBits
    BY AddressesAre
  <1>3. s \in Nat \ {0} /\ d = s * B
    <2>1. 2^((FirstBits - len) + LastBits) = 2^(FirstBits - len) * 2^LastBits
      BY <1>2, PowersAssumption
    <2>2. s \in Nat \ {0}
      BY <1>2, PowersAssumption
    <2> QED
      BY <1>2, <2>1, <2>2
  <1>4. compute_rule_size(len) = s
    BY <1>1 DEF compute_rule_size
  <1>5. Masked(p, len) = t * d /\ (Masked(a, len) = Masked(p, len) <=> a \div d = t)
    BY <1>1, MaskedIs
  <1>6. lpm_24_extract_first_index(a) = a \div B /\ lpm_24_extract_first_index(t * d) = (t * d) \div B
    BY DEF lpm_24_extract_first_index
  <1> HIDE DEF d, s, B
  <1>7. d = B * s /\ d \in Nat \ {0}
    BY <1>1, <1>3
  <1>8. t \in Nat
    BY <1>1, <1>7, DivBounds
  <1> HIDE DEF t
  <1>9. t * s \in Nat /\ t * d = B * (t * s) + 0 /\ t * d \in Nat /\ 0 \in 0 .. B-1
    BY <1>1, <1>3, <1>7, <1>8
  <1>10. (t * d) \div B = t * s
    <2> DEFINE n == t * d  q == t * s
    <2>1. n \in Nat /\ q \in Nat /\ n = B * q + 0
      BY <1>9
    <2> HIDE DEF n, q
    <2>2. n \div B = q
      BY <1>1, <1>9, <2>1, QuotientIs
    <2> QED
      BY <2>2 DEF n, q
  <1>11. a \div B \in Nat /\ (a \div B) \div s = a \div d
    <2>1. a \div B \in Nat
      BY <1>1, DivBounds
    <2>2. \A n \in Nat : (n \div B) \div s = n \div (B * s)
      BY <1>1, <1>3, QuotientTwice
    <2> QED
      BY <1>1, <1>7, <2>1, <2>2
  <1>12. a \div B \in t * s .. t * s + s - 1 <=> (a \div B) \div s = t
    BY <1>3, <1>8, <1>11, InRun
  <1> QED
    BY <1>4, <1>5, <1>6, <1>10, <1>11, <1>12

\* The entries that a longer rule takes lie in the block it is given; those in
\* that block are the ones of the addresses it covers.
LEMMA LongRule ==
  ASSUME NEW len \in FirstBits+1 .. AddressBits, NEW p \in Addresses, NEW a \in Addresses,
         NEW base \in Nat, NEW other \in Nat
  PROVE  LET first == lpm_long_extract_first_index(p, len, base)
             B     == 2^LastBits
             run   == first .. first + compute_rule_size(len) - 1
         IN  /\ Masked(p, len) \div B = p \div B
             /\ Masked(p, len) <= p
             /\ run \subseteq base * B .. base * B + B - 1
             /\ a \div B = p \div B =>
                  (base * B + (a % B) \in run <=> Masked(a, len) = Masked(p, len))
             /\ other # base => \A i \in 0 .. B-1 : other * B + i \notin run
  <1> DEFINE d == 2^(AddressBits - len)  e == 2^(len - FirstBits)  B == 2^LastBits
             t == p \div d  bp == p \div B  rp == p % B  u == rp \div d
             ba == a \div B  ra == a % B
  <1>1. /\ len \in 0 .. AddressBits /\ p \in Nat /\ a \in Nat /\ B \in Nat \ {0} /\ len > FirstBits
        /\ FirstBits \in Nat /\ LastBits \in Nat /\ AddressBits = FirstBits + LastBits
    BY AddressesAre
  <1>2. AddressBits - len \in 0 .. AddressBits /\ len - FirstBits \in 0 .. AddressBits
        /\ (AddressBits - len) + (len - FirstBits) = LastBits /\ LastBits <= AddressBits
    BY <1>1
  <1>3. d \in Nat \ {0} /\ e \in Nat \ {0} /\ B = d * e
    <2>1. 2^((AddressBits - len) + (len - FirstBits)) = 2^(AddressBits - len) * 2^(len - FirstBits)
      BY <1>2, PowersAssumption
    <2>2. d \in Nat \ {0} /\ e \in Nat \ {0}
      BY <1>2, PowersAssumption
    <2> QED
      BY <1>2, <2>1, <2>2
  <1>4. compute_rule_size(len) = d
    BY <1>1 DEF compute_rule_size
  <1>5. /\ Masked(p, len) = t * d /\ Masked(p, len) <= p
        /\ Masked(a, len) = Masked(p, len) <=> a \div d = t
    BY <1>1, MaskedIs
  <1>6. lpm_long_extract_first_index(p, len, base) = base * B + (Masked(p, len) % B)
    BY DEF lpm_long_extract_first_index
  <1> HIDE DEF d, e, B
  <1>7. bp \in Nat /\ rp \in 0 .. B-1 /\ p = B * bp + rp /\ ba \in Nat /\ ra \in 0 .. B-1 /\ a = B * ba + ra
    BY <1>1, DivBounds
  <1> HIDE DEF bp, rp, ba, ra
  <1>8. ASSUME NEW b \in Nat, NEW r \in 0 .. B-1
        PROVE  (B * b + r) \div d = e * b + (r \div d) /\ r \div d \in 0 .. e-1
    <2> DEFINE q == r \div d  w == r % d
    <2>1. q \in Nat /\ w \in 0 .. d-1 /\ r = d * q + w /\ r \in Nat
      <3>1. r \in Nat
        BY <1>1
      <3> QED
        BY <1>3, <3>1, DivBounds
    <2>2. r < e * d
      BY <1>3
    <2>3. q < e
      BY <1>3, <2>1, <2>2, DivAtLeast
    <2> HIDE DEF q, w
    <2>4. B * b = d * (e * b) /\ e * b \in Nat
      BY <1>3
    <2> DEFINE x == e * b
    <2>5. x \in Nat /\ B * b = d * x
      BY <2>4
    <2> HIDE DEF x
    <2>6. d * (x + q) = d * x + d * q
      BY <1>3, <2>1, <2>5
    <2> DEFINE n == B * b + r  y == x + q
    <2>7. n = d * y + w /\ n \in Nat /\ y \in Nat
      BY <1>1, <1>3, <2>1, <2>5, <2>6
    <2> HIDE DEF n, y
    <2>8. n \div d = y
      BY <1>3, <2>1, <2>7, QuotientIs
    <2> QED
      BY <1>3, <2>1, <2>3, <2>8 DEF n, y, x, q
  <1>9. t = e * bp + u /\ u \in 0 .. e-1 /\ a \div d = e * ba + (ra \div d) /\ ra \div d \in 0 .. e-1
    BY <1>7, <1>8
  <1> HIDE DEF t, u
  <1>10. u * d \in 0 .. B-1 /\ u * d + d <= B
    <2>1. u \in Nat /\ u + 1 <= e
      BY <1>3, <1>9
    <2>2. (u + 1) * d <= e * d
      BY <1>3, <2>1, MulMono
    <2>3. (u + 1) * d = u * d + d /\ u * d \in Nat
      BY <1>3, <2>1
    <2> QED
      BY <1>3, <2>2, <2>3
  <1>11. t * d = B * bp + u * d /\ t * d \in Nat
    <2>1. u \in Nat /\ e * bp \in Nat
      BY <1>3, <1>7, <1>9
    <2>2. t * d = (e * bp) * d + u * d
      BY <1>3, <1>9, <2>1
    <2>3. (e * bp) * d = B * bp
      BY <1>3, <1>7
    <2>4. B * bp \in Nat
      BY <1>1, <1>7
    <2> QED
      BY <1>10, <2>2, <2>3, <2>4
  <1>12. (t * d) \div B = bp /\ (t * d) % B = u * d
    <2> DEFINE n == t * d  w == u * d
    <2>1. n \in Nat /\ w \in 0 .. B-1 /\ n = B * bp + w
      BY <1>10, <1>11
    <2> HIDE DEF n, w
    <2>2. n \div B = bp /\ n % B = w
      BY <1>1, <1>7, <2>1, QuotientIs
    <2> QED
      BY <2>2 DEF n, w
  <1> DEFINE run == base * B + u * d .. base * B + u * d + d - 1
  <1>13. base * B \in Nat /\ run \subseteq base * B .. base * B + B - 1
    <2>1. base * B \in Nat
      BY <1>1
    <2> QED
      BY <1>1, <1>3, <1>10, <2>1
  <1>14. base * B + ra \in run <=> ra \div d = u
    <2>1. ra \in Nat /\ u \in Nat /\ u * d \in Nat
      BY <1>1, <1>3, <1>7, <1>9, <1>10
    <2>2. ra \in u * d .. u * d + d - 1 <=> ra \div d = u
      BY <1>3, <2>1, InRun
    <2>3. base * B + ra \in run <=> ra \in u * d .. u * d + d - 1
      BY <1>3, <1>13, <2>1
    <2> QED
      BY <2>2, <2>3
  <1>15. ASSUME other # base, NEW i \in 0 .. B-1 PROVE other * B + i \notin run
    <2>1. ASSUME other * B + i \in base * B .. base * B + B - 1 PROVE FALSE
      <3> DEFINE n == other * B + i  w == n - base * B
      <3>1. other * B \in Nat /\ other * B = B * other /\ base * B = B * base /\ B * base \in Nat
        BY <1>1
      <3>2. n \in Nat /\ n = B * other + i /\ n = B * base + w /\ w \in 0 .. B-1
        BY <1>1, <1>7, <2>1, <3>1
      <3> HIDE DEF n, w
      <3>3. n \div B = other /\ n \div B = base
        BY <1>1, <1>7, <3>2, QuotientIs
      <3> QED
        BY <1>15, <3>3
    <2> QED
      BY <1>13, <2>1
  <1>16. ba = bp => (ra \div d = u <=> a \div d = t)
    <2>1. e * bp \in Nat /\ u \in Nat /\ ra \div d \in Nat
      BY <1>3, <1>7, <1>9
    <2> QED
      BY <1>9, <2>1
  <1> HIDE DEF run
  <1>17. lpm_long_extract_first_index(p, len, base) = base * B + u * d
    BY <1>5, <1>6, <1>12
  <1>18. run = base * B + u * d .. base * B + u * d + compute_rule_size(len) - 1
    BY <1>4 DEF run
  <1>19. Masked(p, len) \div B = bp
    BY <1>5, <1>12
  <1> QED
    BY <1>5, <1>13, <1>14, <1>15, <1>16, <1>17, <1>18, <1>19 DEF B, ba, bp, ra

-----------------------------------------------------------------------------
(***************************************************************************)
(* What one rule more changes.                                             *)
(***************************************************************************)

\* The latest of some rules is one of them.
LEMMA LatestIs ==
  ASSUME NEW L \in Nat, NEW S, S \subseteq 1 .. L, S # {}
  PROVE  Latest(S) \in S /\ \A k \in S : k <= Latest(S)
  <1> DEFINE T == {L - k : k \in S}
  <1>1. T \subseteq Nat /\ T # {}
    OBVIOUS
  <1>2. PICK x \in T : \A y \in T : x <= y
    BY <1>1, Smallest
  <1>3. PICK n \in S : x = L - n
    OBVIOUS
  <1>4. ASSUME NEW k \in S PROVE k <= n
    <2>1. L - k \in T
      OBVIOUS
    <2>2. L - n <= L - k
      BY <1>2, <1>3, <2>1
    <2> QED
      BY <2>2
  <1>5. \E m \in S : \A k \in S : k <= m
    BY <1>4
  <1> QED
    BY <1>5 DEF Latest

\* One rule more that is not the last of those that count.
LEMMA LatestWith ==
  ASSUME NEW L \in Nat, NEW S, S \subseteq 1 .. L
  PROVE  Latest(S \union {L+1}) = L+1
  <1> DEFINE T == S \union {L+1}
  <1>1. T \subseteq 1 .. L+1 /\ T # {} /\ L+1 \in Nat
    OBVIOUS
  <1>2. Latest(T) \in T /\ \A k \in T : k <= Latest(T)
    BY <1>1, LatestIs
  <1>3. L+1 <= Latest(T) /\ Latest(T) \in 1 .. L+1
    BY <1>1, <1>2
  <1> QED
    BY <1>3

\* The rules that count are among the rules.
LEMMA AnswerSets ==
  ASSUME NEW R \in Seq(Rule), NEW a
  PROVE  /\ Shorts(R, a) \subseteq 1 .. Len(R) /\ Since(R, a) \in 0 .. Len(R)
         /\ Longs(R, a) \subseteq 1 .. Len(R) /\ Fitting(R, a) \subseteq Longs(R, a)
  <1>1. Len(R) \in Nat /\ DOMAIN R = 1 .. Len(R)
    OBVIOUS
  <1>2. Shorts(R, a) \subseteq 1 .. Len(R)
    BY <1>1 DEF Shorts
  <1>3. CASE Shorts(R, a) = {}
    BY <1>1, <1>2, <1>3 DEF Since, Longs, Fitting
  <1>4. CASE Shorts(R, a) # {}
    <2>1. Latest(Shorts(R, a)) \in 1 .. Len(R)
      BY <1>1, <1>2, <1>4, LatestIs
    <2>2. Since(R, a) \in 1 .. Len(R)
      BY <1>4, <2>1 DEF Since
    <2> QED
      BY <1>1, <1>2, <2>2 DEF Longs, Fitting
  <1> QED
    BY <1>3, <1>4

\* One more short rule.
LEMMA ShortAppended ==
  ASSUME NEW R \in Seq(Rule), NEW r \in Rule, ~ Long(r), NEW a
  PROVE  LET R2 == Append(R, r)
         IN  /\ Covers(r, a) => Longs(R2, a) = {} /\ Answer(R2, a) = r.hop
             /\ ~ Covers(r, a) => Longs(R2, a) = Longs(R, a) /\ Answer(R2, a) = Answer(R, a)
  <1> DEFINE R2 == Append(R, r)  L == Len(R)
  <1>1. /\ L \in Nat /\ DOMAIN R = 1 .. L /\ Len(R2) = L+1 /\ DOMAIN R2 = 1 .. L+1
        /\ R2[L+1] = r /\ \A n \in 1 .. L : R2[n] = R[n]
    OBVIOUS
  <1>2. Shorts(R, a) \subseteq 1 .. L /\ Since(R, a) \in 0 .. L /\ Longs(R, a) \subseteq 1 .. L
        /\ Fitting(R, a) \subseteq Longs(R, a)
    BY AnswerSets
  <1> HIDE DEF R2, L
  <1>3. CASE Covers(r, a)
    <2>1. Shorts(R2, a) = Shorts(R, a) \union {L+1}
      BY <1>1, <1>3 DEF Shorts
    <2>2. Since(R2, a) = L+1
      BY <1>1, <1>2, <2>1, LatestWith DEF Since
    <2>3. Longs(R2, a) = {}
      BY <1>1, <2>2 DEF Longs
    <2>4. Fitting(R2, a) = {}
      BY <2>3 DEF Fitting
    <2>5. Answer(R2, a) = R2[L+1].hop
      BY <1>1, <2>2, <2>3, <2>4 DEF Answer
    <2> QED
      BY <1>1, <1>3, <2>3, <2>5 DEF R2
  <1>4. CASE ~ Covers(r, a)
    <2>1. Shorts(R2, a) = Shorts(R, a)
      BY <1>1, <1>4 DEF Shorts
    <2>2. Since(R2, a) = Since(R, a)
      BY <2>1 DEF Since
    <2>3. Longs(R2, a) = Longs(R, a)
      BY <1>1, <1>2, <2>2 DEF Longs
    <2>4. Fitting(R2, a) = Fitting(R, a)
      BY <1>1, <1>2, <2>3 DEF Fitting
    <2>5. Fitting(R, a) # {} => R2[Latest(Fitting(R, a))] = R[Latest(Fitting(R, a))]
      BY <1>1, <1>2, LatestIs
    <2>6. Since(R, a) # 0 => R2[Since(R, a)] = R[Since(R, a)]
      BY <1>1, <1>2
    <2>7. Answer(R2, a) = Answer(R, a)
      BY <2>2, <2>3, <2>4, <2>5, <2>6 DEF Answer
    <2> QED
      BY <1>4, <2>3, <2>7 DEF R2
  <1> QED
    BY <1>3, <1>4

\* One more long rule.
LEMMA LongAppended ==
  ASSUME NEW R \in Seq(Rule), NEW r \in Rule, Long(r), NEW a
  PROVE  LET R2 == Append(R, r)
         IN  /\ SameBlock(r, a) =>
                  /\ Longs(R2, a) # {}
                  /\ Answer(R2, a) = IF Covers(r, a) THEN r.hop
                                     ELSE IF Longs(R, a) = {} THEN INVALID ELSE Answer(R, a)
             /\ ~ SameBlock(r, a) => Longs(R2, a) = Longs(R, a) /\ Answer(R2, a) = Answer(R, a)
  <1> DEFINE R2 == Append(R, r)  L == Len(R)
  <1>1. /\ L \in Nat /\ DOMAIN R = 1 .. L /\ Len(R2) = L+1 /\ DOMAIN R2 = 1 .. L+1
        /\ R2[L+1] = r /\ \A n \in 1 .. L : R2[n] = R[n]
    OBVIOUS
  <1>2. Shorts(R, a) \subseteq 1 .. L /\ Since(R, a) \in 0 .. L /\ Longs(R, a) \subseteq 1 .. L
        /\ Fitting(R, a) \subseteq Longs(R, a)
    BY AnswerSets
  <1> HIDE DEF R2, L
  <1>3. Shorts(R2, a) = Shorts(R, a)
    BY <1>1 DEF Shorts
  <1>4. Since(R2, a) = Since(R, a)
    BY <1>3 DEF Since
  <1>5. Longs(R2, a) = IF SameBlock(r, a) THEN Longs(R, a) \union {L+1} ELSE Longs(R, a)
    BY <1>1, <1>2, <1>4 DEF Longs
  <1>6. Fitting(R2, a) = IF SameBlock(r, a) /\ Covers(r, a) THEN Fitting(R, a) \union {L+1} ELSE Fitting(R, a)
    BY <1>1, <1>2, <1>5 DEF Fitting
  <1>7. Fitting(R, a) # {} => R2[Latest(Fitting(R, a))] = R[Latest(Fitting(R, a))]
    BY <1>1, <1>2, LatestIs
  <1>8. Since(R, a) # 0 => R2[Since(R, a)] = R[Since(R, a)]
    BY <1>1, <1>2
  <1>9. CASE ~ SameBlock(r, a)
    BY <1>4, <1>5, <1>6, <1>7, <1>8, <1>9 DEF Answer, R2
  <1>10. CASE SameBlock(r, a) /\ Covers(r, a)
    <2>1. Latest(Fitting(R2, a)) = L+1 /\ Fitting(R2, a) # {}
      BY <1>1, <1>2, <1>6, <1>10, LatestWith
    <2> QED
      BY <1>1, <1>5, <1>10, <2>1 DEF Answer, R2
  <1>11. CASE SameBlock(r, a) /\ ~ Covers(r, a)
    <2>1. Fitting(R2, a) = Fitting(R, a) /\ Longs(R2, a) # {}
      BY <1>5, <1>6, <1>11
    <2>2. Longs(R, a) = {} => Fitting(R, a) = {}
      BY <1>2
    <2>3. Answer(R2, a) = IF Longs(R, a) = {} THEN INVALID ELSE Answer(R, a)
      BY <1>7, <2>1, <2>2 DEF Answer
    <2> QED
      BY <1>11, <2>1, <2>3 DEF R2
  <1> QED
    BY <1>9, <1>10, <1>11

-----------------------------------------------------------------------------
(***************************************************************************)
(* The table of prefixes, whatever its size.                               *)
(***************************************************************************)

LpmTable == [lpm_24 : [0 .. 2^FirstBits - 1 -> Nat], lpm_long : [0 .. LongOffsetMax * 2^LastBits - 1 -> Nat],
             lpm_long_index : 0 .. LongOffsetMax]

FirstIndex(a) == lpm_24_extract_first_index(a)

\* An entry of the first table leads to a block of the second, and to which.
Flagged(l, f) == l.lpm_24[f] # INVALID /\ lpm_24_entry_flag(l.lpm_24[f])
Base(l, f)    == l.lpm_24[f] % FlagMask

\* No two entries lead to one block, and those not given out yet are as they were
\* allocated.
BlocksApart(l) ==
  /\ l \in LpmTable
  /\ \A f \in 0 .. 2^FirstBits - 1 : Flagged(l, f) => Base(l, f) \in 0 .. l.lpm_long_index - 1
  /\ \A f, g \in 0 .. 2^FirstBits - 1 : Flagged(l, f) /\ Flagged(l, g) /\ Base(l, f) = Base(l, g) => f = g
  /\ \A b \in l.lpm_long_index .. LongOffsetMax - 1 : \A i \in 0 .. 2^LastBits - 1 :
       l.lpm_long[b * 2^LastBits + i] = INVALID

\* An entry leads to a block exactly when a longer rule came since the last one
\* that covers it whole, and the table answers by the latest rule.
LpmHolds(l, R) ==
  /\ BlocksApart(l)
  /\ R \in Seq(Rule)
  /\ \A a \in Addresses : Flagged(l, FirstIndex(a)) <=> Longs(R, a) # {}
  /\ \A a \in Addresses : lpm_lookup_elem(l, a) = Answer(R, a)

\* Entries with the flag and without it.
LEMMA EntryIs ==
  /\ FlagMask \in Nat \ {0} /\ INVALID \in Nat
  /\ \A v \in 0 .. FlagMask - 1 : ~ lpm_24_entry_flag(v)
  /\ \A b \in 0 .. LongOffsetMax - 1 : LET v == lpm_24_entry_set_flag(b)
                                       IN  v # INVALID /\ lpm_24_entry_flag(v) /\ v % FlagMask = b /\ v \in Nat
  <1> DEFINE M == FlagMask
  <1>1. M \in Nat \ {0} /\ LongOffsetMax \in Nat /\ LongOffsetMax <= M - 1 /\ INVALID = 2 * M - 1
    BY LpmAssumption DEF INVALID
  <1> HIDE DEF M
  <1>2. ASSUME NEW v \in 0 .. M-1 PROVE v \div M = 0
    <2>1. v \in Nat /\ v = M * 0 + v
      BY <1>1
    <2> QED
      BY <1>1, <2>1, QuotientIs
  <1>3. ASSUME NEW b \in 0 .. LongOffsetMax - 1
        PROVE  b + M # INVALID /\ (b + M) \div M = 1 /\ (b + M) % M = b /\ b + M \in Nat
    <2> DEFINE n == b + M
    <2>1. n \in Nat /\ b \in 0 .. M-1 /\ n = M * 1 + b /\ n # INVALID
      BY <1>1
    <2> HIDE DEF n
    <2>2. n \div M = 1 /\ n % M = b
      BY <1>1, <2>1, QuotientIs
    <2> QED
      BY <2>1, <2>2 DEF n
  <1> QED
    BY <1>1, <1>2, <1>3 DEF M, lpm_24_entry_flag, lpm_24_entry_set_flag

\* Where a look-up ends.
LEMMA LookupIs ==
  ASSUME NEW l \in LpmTable, NEW a \in Addresses
  PROVE  LET f == FirstIndex(a)
         IN  /\ f \in 0 .. 2^FirstBits - 1 /\ a % 2^LastBits \in 0 .. 2^LastBits - 1
             /\ Base(l, f) \in Nat
             /\ lpm_lookup_elem(l, a) = IF Flagged(l, f) THEN l.lpm_long[Base(l, f) * 2^LastBits + (a % 2^LastBits)]
                                                         ELSE l.lpm_24[f]
  <1> DEFINE f == FirstIndex(a)
  <1>1. f \in 0 .. 2^FirstBits - 1 /\ a % 2^LastBits \in 0 .. 2^LastBits - 1
    BY AddressesAre DEF FirstIndex
  <1>2. l.lpm_24[f] \in Nat
    BY <1>1 DEF LpmTable
  <1>3. Base(l, f) \in Nat
    BY <1>2, EntryIs, DivBounds DEF Base
  <1>4. lpm_long_extract_first_index(a, AddressBits, Base(l, f)) = Base(l, f) * 2^LastBits + (a % 2^LastBits)
    BY <1>3, AddressesAre
  <1>5. lpm_lookup_elem(l, a) = IF Flagged(l, f) THEN l.lpm_long[lpm_long_extract_first_index(a, AddressBits, Base(l, f))]
                                                 ELSE l.lpm_24[f]
    BY Zenon DEF lpm_lookup_elem, Flagged, Base, FirstIndex
  <1> QED
    BY <1>1, <1>3, <1>4, <1>5

\* The blocks are in the second table.
LEMMA InBlocks ==
  ASSUME NEW b \in 0 .. LongOffsetMax - 1, NEW i \in 0 .. 2^LastBits - 1
  PROVE  b * 2^LastBits + i \in 0 .. LongOffsetMax * 2^LastBits - 1
  <1> DEFINE B == 2^LastBits
  <1>1. B \in Nat \ {0} /\ LongOffsetMax \in Nat
    BY AddressesAre, LpmAssumption
  <1> HIDE DEF B
  <1>2. b \in Nat /\ b + 1 <= LongOffsetMax /\ i \in 0 .. B-1
    BY <1>1 DEF B
  <1>3. (b + 1) * B <= LongOffsetMax * B
    BY <1>1, <1>2, MulMono
  <1>4. (b + 1) * B = b * B + B /\ b * B \in Nat /\ LongOffsetMax * B \in Nat
    BY <1>1, <1>2
  <1>5. b * B + i \in 0 .. LongOffsetMax * B - 1
    BY <1>1, <1>2, <1>3, <1>4
  <1> QED
    BY <1>5 DEF B

\* A table just allocated.
LEMMA LpmAllocated == LpmHolds(lpm_allocate, <<>>)
  <1> DEFINE l == lpm_allocate
  <1>1. 2^FirstBits \in Nat \ {0} /\ 2^LastBits \in Nat \ {0} /\ LongOffsetMax \in Nat /\ INVALID \in Nat
    BY AddressesAre, EntryIs, LpmAssumption
  <1>2. /\ l.lpm_24 = [i \in 0 .. 2^FirstBits - 1 |-> INVALID]
        /\ l.lpm_long = [i \in 0 .. LongOffsetMax * 2^LastBits - 1 |-> INVALID]
        /\ l.lpm_long_index = 0
    BY DEF lpm_allocate, fill_invalid
  <1>3. l \in LpmTable
    BY <1>1 DEF lpm_allocate, fill_invalid, LpmTable
  <1> HIDE DEF l
  <1>4. \A f \in 0 .. 2^FirstBits - 1 : ~ Flagged(l, f)
    BY <1>2 DEF Flagged
  <1>5. ASSUME NEW b \in 0 .. LongOffsetMax - 1, NEW i \in 0 .. 2^LastBits - 1
        PROVE  l.lpm_long[b * 2^LastBits + i] = INVALID
    BY <1>2, InBlocks
  <1>6. <<>> \in Seq(Rule)
    OBVIOUS
  <1>7. ASSUME NEW a \in Addresses PROVE Longs(<<>>, a) = {} /\ Answer(<<>>, a) = INVALID
                                         /\ lpm_lookup_elem(l, a) = INVALID /\ ~ Flagged(l, FirstIndex(a))
    <2>1. Longs(<<>>, a) = {} /\ Since(<<>>, a) = 0 /\ Fitting(<<>>, a) = {}
      <3>1. Len(<<>>) = 0
        OBVIOUS
      <3> DEFINE R == <<>>
      <3>2. R \in Seq(Rule) /\ Len(R) = 0
        BY <1>6, <3>1
      <3> HIDE DEF R
      <3>3. /\ Since(R, a) \in 0 .. Len(R)
            /\ Longs(R, a) \subseteq 1 .. Len(R) /\ Fitting(R, a) \subseteq Longs(R, a)
        BY <3>2, AnswerSets
      <3>4. Longs(R, a) = {} /\ Since(R, a) = 0 /\ Fitting(R, a) = {}
        BY <3>2, <3>3
      <3> QED
        BY <3>4 DEF R
    <2>2. Answer(<<>>, a) = INVALID
      BY <2>1 DEF Answer
    <2>3. lpm_lookup_elem(l, a) = l.lpm_24[FirstIndex(a)] /\ FirstIndex(a) \in 0 .. 2^FirstBits - 1
      BY <1>3, <1>4, LookupIs
    <2> QED
      BY <1>2, <1>4, <2>1, <2>2, <2>3
  <1> QED
    BY <1>2, <1>3, <1>4, <1>5, <1>6, <1>7 DEF LpmHolds, BlocksApart, l

-----------------------------------------------------------------------------

\* The rule as the history keeps it, without the bits beyond its length.
Kept(r) == [r EXCEPT !.prefix = Masked(@, r.len)]

\* It covers the same addresses.
LEMMA KeptIs ==
  ASSUME NEW r \in Rule
  PROVE  /\ Kept(r) \in Rule /\ Kept(r).len = r.len /\ Kept(r).hop = r.hop
         /\ r.prefix \in Addresses /\ r.len \in 0 .. AddressBits /\ r.hop \in 0 .. FlagMask - 1
         /\ Long(Kept(r)) <=> r.len > FirstBits
         /\ \A a \in Addresses : Covers(Kept(r), a) <=> Masked(a, r.len) = Masked(r.prefix, r.len)
         /\ r.len > FirstBits => \A a \in Addresses : SameBlock(Kept(r), a) <=> FirstIndex(a) = FirstIndex(r.prefix)
  <1> DEFINE q == Kept(r)  p == r.prefix  len == r.len
  <1>1. p \in Addresses /\ len \in 0 .. AddressBits /\ r.hop \in NextHops
    BY DEF Rule
  <1>2. r.hop \in 0 .. FlagMask - 1
    BY <1>1, SteeringAssumption
  <1>3. p \in Nat
    BY <1>1, AddressesAre
  <1>4. Masked(p, len) \in Nat /\ Masked(p, len) <= p /\ Masked(Masked(p, len), len) = Masked(p, len)
    BY <1>1, <1>3, MaskedIs
  <1>5. Masked(p, len) \in Addresses
    <2> DEFINE x == Masked(p, len)  N == 2^AddressBits
    <2>1. N \in Nat /\ p \in 0 .. N-1
      <3>1. AddressBits \in 0 .. AddressBits /\ 0 \in 0 .. AddressBits
        BY AddressesAre
      <3> QED
        BY <1>1, <3>1, PowersAssumption DEF Addresses
    <2>2. x \in Nat /\ x <= p
      BY <1>4
    <2> HIDE DEF x, N
    <2>3. x \in 0 .. N-1
      BY <2>1, <2>2
    <2> QED
      BY <2>3 DEF Addresses, x, N
  <1>6. q.prefix = Masked(p, len) /\ q.len = len /\ q.hop = r.hop
    BY DEF Kept, Rule
  <1>7. q \in Rule
    BY <1>1, <1>5 DEF Kept, Rule
  <1> HIDE DEF q, p, len
  <1>8. \A a : Covers(q, a) <=> Masked(a, len) = Masked(p, len)
    BY <1>4, <1>6 DEF Covers
  <1>9. Long(q) <=> len > FirstBits
    BY <1>6 DEF Long
  <1>10. ASSUME len > FirstBits, NEW a PROVE SameBlock(q, a) <=> FirstIndex(a) = FirstIndex(p)
    <2>1. len \in FirstBits+1 .. AddressBits
      BY <1>1, <1>10, AddressesAre
    <2>2. Masked(p, len) \div 2^LastBits = p \div 2^LastBits
      BY <1>1, <2>1, LongRule
    <2> QED
      BY <1>6, <2>2 DEF SameBlock, FirstIndex, lpm_24_extract_first_index
  <1> QED
    BY <1>1, <1>2, <1>6, <1>7, <1>8, <1>9, <1>10 DEF q, p, len

\* Entries that are the same lead to the same.
LEMMA SameEntry ==
  ASSUME NEW l, NEW m, NEW f, l.lpm_24[f] = m.lpm_24[f]
  PROVE  (Flagged(l, f) <=> Flagged(m, f)) /\ Base(l, f) = Base(m, f)
  BY Zenon DEF Flagged, Base

\* A rule for whole entries.
LEMMA UpdateShortHolds ==
  ASSUME NEW l, NEW R, LpmHolds(l, R), NEW r \in Rule, r.len <= FirstBits
  PROVE  LpmHolds(UpdateShort(l, r.prefix, r.len, r.hop), Append(R, Kept(r)))
  <1> DEFINE m == UpdateShort(l, r.prefix, r.len, r.hop)
             first == lpm_24_extract_first_index(Masked(r.prefix, r.len))
             run == first .. first + compute_rule_size(r.len) - 1
             E == 0 .. 2^FirstBits - 1
  <1>1. l \in LpmTable /\ R \in Seq(Rule)
    BY DEF LpmHolds, BlocksApart
  <1>2. r.hop \in Nat /\ r.hop \in 0 .. FlagMask - 1
    BY KeptIs, EntryIs
  <1>3. /\ m.lpm_24 = [f \in E |-> IF f \in run THEN r.hop ELSE l.lpm_24[f]]
        /\ m.lpm_long = l.lpm_long /\ m.lpm_long_index = l.lpm_long_index
    <2> HIDE DEF run
    <2> QED
      BY <1>1 DEF UpdateShort, Stored, LpmTable, run
  <1>4. m \in LpmTable
    <2>1. Stored(l.lpm_24, first, r.len, r.hop) \in [E -> Nat]
      BY <1>1, <1>2 DEF Stored, LpmTable
    <2> QED
      BY <1>1, <2>1 DEF UpdateShort, LpmTable
  <1> HIDE DEF m
  <1>5. ASSUME NEW f \in E, f \in run PROVE m.lpm_24[f] = r.hop /\ ~ Flagged(m, f)
    <2>1. m.lpm_24[f] = r.hop
      BY <1>3, <1>5
    <2> QED
      BY <1>2, <2>1, EntryIs DEF Flagged
  <1>6. ASSUME NEW f \in E, f \notin run
        PROVE  m.lpm_24[f] = l.lpm_24[f] /\ (Flagged(m, f) <=> Flagged(l, f)) /\ Base(m, f) = Base(l, f)
    <2>1. m.lpm_24[f] = l.lpm_24[f]
      BY <1>3, <1>6
    <2> QED
      BY <2>1, SameEntry
  <1> HIDE DEF run
  <1>7. BlocksApart(m)
    <2>1. \A f \in E : Flagged(m, f) => Flagged(l, f) /\ Base(m, f) = Base(l, f)
      BY <1>5, <1>6
    <2> QED
      BY <1>3, <1>4, <2>1 DEF BlocksApart, LpmHolds
  <1>8. ASSUME NEW a \in Addresses
        PROVE  /\ Flagged(m, FirstIndex(a)) <=> Longs(Append(R, Kept(r)), a) # {}
               /\ lpm_lookup_elem(m, a) = Answer(Append(R, Kept(r)), a)
    <2> DEFINE f == FirstIndex(a)
    <2>1. f \in E
      BY <1>1, LookupIs
    <2>2. Kept(r) \in Rule /\ ~ Long(Kept(r)) /\ Kept(r).hop = r.hop
      <3>1. r.len \in 0 .. AddressBits /\ ~ (r.len > FirstBits)
        BY KeptIs, AddressesAre
      <3> QED
        BY <3>1, KeptIs
    <2>3. f \in run <=> Covers(Kept(r), a)
      <3>1. r.len \in 0 .. FirstBits /\ r.prefix \in Addresses
        BY KeptIs, AddressesAre
      <3>2. f \in run <=> Masked(a, r.len) = Masked(r.prefix, r.len)
        BY <3>1, ShortRule DEF run, FirstIndex
      <3> QED
        BY <3>2, KeptIs
    <2>4. /\ lpm_lookup_elem(m, a) = IF Flagged(m, f) THEN m.lpm_long[Base(m, f) * 2^LastBits + (a % 2^LastBits)]
                                                      ELSE m.lpm_24[f]
          /\ lpm_lookup_elem(l, a) = IF Flagged(l, f) THEN l.lpm_long[Base(l, f) * 2^LastBits + (a % 2^LastBits)]
                                                      ELSE l.lpm_24[f]
      BY <1>1, <1>4, LookupIs
    <2>5. (Flagged(l, f) <=> Longs(R, a) # {}) /\ lpm_lookup_elem(l, a) = Answer(R, a)
      BY DEF LpmHolds
    <2> HIDE DEF f
    <2>6. CASE f \in run
      <3>1. m.lpm_24[f] = r.hop /\ ~ Flagged(m, f)
        BY <1>5, <2>1, <2>6
      <3>2. Longs(Append(R, Kept(r)), a) = {} /\ Answer(Append(R, Kept(r)), a) = r.hop
        BY <1>1, <2>2, <2>3, <2>6, ShortAppended
      <3> QED
        BY <2>4, <3>1, <3>2 DEF f
    <2>7. CASE f \notin run
      <3>1. m.lpm_24[f] = l.lpm_24[f] /\ (Flagged(m, f) <=> Flagged(l, f)) /\ Base(m, f) = Base(l, f)
        BY <1>6, <2>1, <2>7
      <3>2. Longs(Append(R, Kept(r)), a) = Longs(R, a) /\ Answer(Append(R, Kept(r)), a) = Answer(R, a)
        BY <1>1, <2>2, <2>3, <2>7, ShortAppended
      <3>3. CASE Flagged(l, f)
        <4>1. lpm_lookup_elem(m, a) = l.lpm_long[Base(l, f) * 2^LastBits + (a % 2^LastBits)]
          BY <1>3, <2>4, <3>1, <3>3
        <4>2. lpm_lookup_elem(l, a) = l.lpm_long[Base(l, f) * 2^LastBits + (a % 2^LastBits)]
          BY <2>4, <3>3
        <4> QED
          BY <2>5, <3>1, <3>2, <4>1, <4>2 DEF f
      <3>4. CASE ~ Flagged(l, f)
        <4>1. lpm_lookup_elem(m, a) = l.lpm_24[f] /\ lpm_lookup_elem(l, a) = l.lpm_24[f]
          BY <2>4, <3>1, <3>4
        <4> QED
          BY <2>5, <3>1, <3>2, <4>1 DEF f
      <3> QED
        BY <3>3, <3>4
    <2> QED
      BY <2>6, <2>7
  <1>9. Append(R, Kept(r)) \in Seq(Rule)
    BY <1>1, KeptIs
  <1> QED
    BY <1>7, <1>8, <1>9 DEF LpmHolds, m

\* Before a longer rule is stored: the entry f of its address leads to a block, and
\* if that block is new, nothing is stored in it yet.
BlockReady(l, R, f) ==
  /\ BlocksApart(l)
  /\ R \in Seq(Rule)
  /\ f \in 0 .. 2^FirstBits - 1 /\ Flagged(l, f)
  /\ \A a \in Addresses : FirstIndex(a) # f => (Flagged(l, FirstIndex(a)) <=> Longs(R, a) # {})
  /\ \A a \in Addresses : lpm_lookup_elem(l, a) =
       IF FirstIndex(a) = f /\ Longs(R, a) = {} THEN INVALID ELSE Answer(R, a)

\* The block that the entry leads to already.
LEMMA OldBlockReady ==
  ASSUME NEW l, NEW R, LpmHolds(l, R), NEW p \in Addresses, ~ need_new_index(l, p)
  PROVE  BlockReady(l, R, FirstIndex(p))
  <1> DEFINE f == FirstIndex(p)
  <1>1. Flagged(l, f)
    BY DEF need_new_index, Flagged, FirstIndex
  <1>2. f \in 0 .. 2^FirstBits - 1
    BY AddressesAre DEF FirstIndex
  <1>3. ASSUME NEW a \in Addresses, FirstIndex(a) = f PROVE Longs(R, a) # {}
    BY <1>1, <1>3 DEF LpmHolds
  <1> QED
    BY <1>1, <1>2, <1>3 DEF LpmHolds, BlockReady

\* A new block.
LEMMA NewBlockReady ==
  ASSUME NEW l, NEW R, LpmHolds(l, R), NEW p \in Addresses, need_new_index(l, p),
         ~ (l.lpm_long_index >= LongOffsetMax)
  PROVE  BlockReady(TakeBlock(l, p), R, FirstIndex(p))
  <1> DEFINE m == TakeBlock(l, p)  f == FirstIndex(p)  x == l.lpm_long_index
             E == 0 .. 2^FirstBits - 1  v == lpm_24_entry_set_flag(x)
  <1>1. l \in LpmTable /\ R \in Seq(Rule) /\ BlocksApart(l)
    BY DEF LpmHolds, BlocksApart
  <1>2. f \in E /\ LongOffsetMax \in Nat /\ x \in Nat /\ x \in 0 .. LongOffsetMax - 1
    BY <1>1, AddressesAre, LpmAssumption DEF FirstIndex, LpmTable
  <1>3. v # INVALID /\ lpm_24_entry_flag(v) /\ v % FlagMask = x /\ v \in Nat
    BY <1>2, EntryIs
  <1>4. m.lpm_24 = [l.lpm_24 EXCEPT ![f] = v] /\ m.lpm_long = l.lpm_long /\ m.lpm_long_index = x + 1
    <2> HIDE DEF v
    <2> QED
      BY <1>1 DEF TakeBlock, LpmTable, FirstIndex, v
  <1>5. m \in LpmTable
    <2>1. [l.lpm_24 EXCEPT ![f] = v] \in [E -> Nat] /\ x + 1 \in 0 .. LongOffsetMax
      BY <1>1, <1>2, <1>3 DEF LpmTable
    <2> HIDE DEF v
    <2> QED
      BY <1>1, <2>1 DEF TakeBlock, LpmTable, FirstIndex, v
  <1>6. ~ Flagged(l, f)
    BY DEF need_new_index, Flagged, FirstIndex
  <1> HIDE DEF m, v
  <1>7. m.lpm_24[f] = v /\ \A g \in E : g # f => m.lpm_24[g] = l.lpm_24[g]
    BY <1>1, <1>2, <1>4 DEF LpmTable
  <1>8. Flagged(m, f) /\ Base(m, f) = x
    BY <1>3, <1>7 DEF Flagged, Base
  <1>9. ASSUME NEW g \in E, g # f PROVE (Flagged(m, g) <=> Flagged(l, g)) /\ Base(m, g) = Base(l, g)
    BY <1>7, <1>9, SameEntry
  <1>10. BlocksApart(m)
    <2>1. ASSUME NEW g \in E, Flagged(m, g) PROVE Base(m, g) \in 0 .. x
      <3>1. CASE g = f
        BY <1>2, <1>8, <3>1
      <3>2. CASE g # f
        <4>1. Base(l, g) \in 0 .. x - 1
          BY <1>1, <1>9, <2>1, <3>2 DEF BlocksApart
        <4> QED
          BY <1>2, <1>9, <3>2, <4>1
      <3> QED
        BY <3>1, <3>2
    <2>2. ASSUME NEW g \in E, g # f, Flagged(m, g) PROVE Base(m, g) # x
      <3>1. Base(l, g) \in 0 .. x - 1
        BY <1>1, <1>9, <2>2 DEF BlocksApart
      <3> QED
        BY <1>2, <1>9, <2>2, <3>1
    <2>3. ASSUME NEW g \in E, NEW h \in E, Flagged(m, g), Flagged(m, h), Base(m, g) = Base(m, h) PROVE g = h
      <3>1. CASE g # f /\ h # f
        BY <1>1, <1>9, <2>3, <3>1 DEF BlocksApart
      <3>2. CASE g = f \/ h = f
        BY <1>8, <2>2, <2>3, <3>2
      <3> QED
        BY <3>1, <3>2
    <2>4. \A b \in x + 1 .. LongOffsetMax - 1 : b \in x .. LongOffsetMax - 1
      BY <1>2
    <2>5. ASSUME NEW b \in x + 1 .. LongOffsetMax - 1, NEW i \in 0 .. 2^LastBits - 1
          PROVE  m.lpm_long[b * 2^LastBits + i] = INVALID
      <3>1. b \in x .. LongOffsetMax - 1
        BY <2>4
      <3>2. l.lpm_long[b * 2^LastBits + i] = INVALID
        BY <1>1, <3>1 DEF BlocksApart
      <3> QED
        BY <1>4, <3>2
    <2>6. m.lpm_long_index - 1 = x
      <3>1. m.lpm_long_index = x + 1
        BY <1>4
      <3> QED
        BY <1>2, <3>1
    <2> HIDE DEF x
    <2> QED
      BY <1>4, <1>5, <2>1, <2>3, <2>5, <2>6 DEF BlocksApart
  <1>11. ASSUME NEW a \in Addresses
         PROVE  lpm_lookup_elem(m, a) = IF FirstIndex(a) = f /\ Longs(R, a) = {} THEN INVALID ELSE Answer(R, a)
    <2> DEFINE g == FirstIndex(a)  i == a % 2^LastBits
    <2>1. g \in E /\ i \in 0 .. 2^LastBits - 1
      BY <1>1, LookupIs
    <2>2. /\ lpm_lookup_elem(m, a) = IF Flagged(m, g) THEN m.lpm_long[Base(m, g) * 2^LastBits + i] ELSE m.lpm_24[g]
          /\ lpm_lookup_elem(l, a) = IF Flagged(l, g) THEN l.lpm_long[Base(l, g) * 2^LastBits + i] ELSE l.lpm_24[g]
      BY <1>1, <1>5, LookupIs
    <2>3. (Flagged(l, g) <=> Longs(R, a) # {}) /\ lpm_lookup_elem(l, a) = Answer(R, a)
      BY DEF LpmHolds
    <2> HIDE DEF g, i
    <2>4. CASE g = f
      <3>1. lpm_lookup_elem(m, a) = l.lpm_long[x * 2^LastBits + i]
        BY <1>4, <1>8, <2>2, <2>4
      <3>2. x \in x .. LongOffsetMax - 1
        BY <1>2
      <3>3. l.lpm_long[x * 2^LastBits + i] = INVALID
        BY <1>1, <2>1, <3>2 DEF BlocksApart
      <3>4. Longs(R, a) = {}
        BY <1>6, <2>3, <2>4
      <3> QED
        BY <2>4, <3>1, <3>3, <3>4 DEF g
    <2>5. CASE g # f
      <3>1. (Flagged(m, g) <=> Flagged(l, g)) /\ Base(m, g) = Base(l, g) /\ m.lpm_24[g] = l.lpm_24[g]
        BY <1>7, <1>9, <2>1, <2>5
      <3>2. lpm_lookup_elem(m, a) = lpm_lookup_elem(l, a)
        <4>1. CASE Flagged(l, g)
          BY <1>4, <2>2, <3>1, <4>1
        <4>2. CASE ~ Flagged(l, g)
          BY <2>2, <3>1, <4>2
        <4> QED
          BY <4>1, <4>2
      <3> QED
        BY <2>3, <2>5, <3>2 DEF g
    <2> QED
      BY <2>4, <2>5
  <1>12. ASSUME NEW a \in Addresses, FirstIndex(a) # f PROVE Flagged(m, FirstIndex(a)) <=> Longs(R, a) # {}
    <2>1. FirstIndex(a) \in E
      BY <1>1, LookupIs
    <2> QED
      BY <1>9, <1>12, <2>1 DEF LpmHolds
  <1> QED
    BY <1>1, <1>2, <1>8, <1>10, <1>11, <1>12 DEF BlockReady, m

\* Storing the rule in its block.
LEMMA UpdateLongHolds ==
  ASSUME NEW l, NEW R, NEW r \in Rule, r.len > FirstBits, BlockReady(l, R, FirstIndex(r.prefix))
  PROVE  LpmHolds(UpdateLong(l, r.prefix, r.len, r.hop), Append(R, Kept(r)))
  <1> DEFINE m == UpdateLong(l, r.prefix, r.len, r.hop)
             f == FirstIndex(r.prefix)
             base == Base(l, f)
             first == lpm_long_extract_first_index(r.prefix, r.len, base)
             run == first .. first + compute_rule_size(r.len) - 1
             E == 0 .. 2^FirstBits - 1
             B == 2^LastBits
             D == 0 .. LongOffsetMax * B - 1
  <1>1. l \in LpmTable /\ R \in Seq(Rule) /\ BlocksApart(l) /\ Flagged(l, f) /\ f \in E
    BY DEF BlockReady, BlocksApart
  <1>2. r.hop \in Nat /\ r.prefix \in Addresses /\ r.len \in FirstBits+1 .. AddressBits
    BY KeptIs, EntryIs, AddressesAre
  <1>3. m.lpm_24 = l.lpm_24 /\ m.lpm_long_index = l.lpm_long_index
        /\ m.lpm_long = [k \in D |-> IF k \in run THEN r.hop ELSE l.lpm_long[k]]
    <2> DEFINE S == Stored(l.lpm_long, first, r.len, r.hop)
    <2>1. m = [l EXCEPT !.lpm_long = S]
      BY Zenon DEF UpdateLong, Base, FirstIndex
    <2>2. S = [k \in D |-> IF k \in run THEN r.hop ELSE l.lpm_long[k]]
      <3>1. DOMAIN l.lpm_long = D
        BY <1>1 DEF LpmTable
      <3> HIDE DEF first, D
      <3> QED
        BY <3>1 DEF Stored
    <2> HIDE DEF S, m
    <2>3. m.lpm_24 = l.lpm_24 /\ m.lpm_long_index = l.lpm_long_index /\ m.lpm_long = S
      BY <1>1, <2>1 DEF LpmTable
    <2> QED
      BY <2>2, <2>3
  <1>4. m \in LpmTable
    <2> DEFINE S == Stored(l.lpm_long, first, r.len, r.hop)
    <2>1. m = [l EXCEPT !.lpm_long = S]
      BY Zenon DEF UpdateLong, Base, FirstIndex
    <2>2. S \in [D -> Nat]
      BY <1>1, <1>2 DEF Stored, LpmTable
    <2> HIDE DEF S, m
    <2> QED
      BY <1>1, <2>1, <2>2 DEF LpmTable
  <1>5. base \in Nat /\ base \in 0 .. l.lpm_long_index - 1 /\ l.lpm_long_index \in Nat /\ LongOffsetMax \in Nat
        /\ l.lpm_long_index <= LongOffsetMax
    <2>1. l.lpm_long_index \in 0 .. LongOffsetMax /\ LongOffsetMax \in Nat
      BY <1>1, LpmAssumption DEF LpmTable
    <2>2. base \in 0 .. l.lpm_long_index - 1
      BY <1>1 DEF BlocksApart
    <2> QED
      BY <2>1, <2>2
  <1>6. ASSUME NEW a \in Addresses, FirstIndex(a) = f
        PROVE  base * B + (a % B) \in run <=> Masked(a, r.len) = Masked(r.prefix, r.len)
    <2>1. a \div B = r.prefix \div B
      BY <1>6 DEF FirstIndex, lpm_24_extract_first_index
    <2> QED
      BY <1>2, <1>5, <2>1, LongRule
  <1>7. ASSUME NEW b \in Nat, b # base, NEW i \in 0 .. B-1 PROVE b * B + i \notin run
    BY <1>2, <1>5, <1>7, LongRule
  <1> HIDE DEF m, run
  <1>8. ASSUME NEW b \in 0 .. LongOffsetMax - 1, NEW i \in 0 .. B-1
        PROVE  m.lpm_long[b * B + i] = IF b * B + i \in run THEN r.hop ELSE l.lpm_long[b * B + i]
    <2>1. b * B + i \in D
      BY InBlocks
    <2> HIDE DEF D, B
    <2> QED
      BY <1>3, <2>1
  <1>9. ASSUME NEW g PROVE (Flagged(m, g) <=> Flagged(l, g)) /\ Base(m, g) = Base(l, g)
    BY <1>3, SameEntry
  <1>10. BlocksApart(m)
    <2>1. ASSUME NEW b \in l.lpm_long_index .. LongOffsetMax - 1, NEW i \in 0 .. B-1
          PROVE  m.lpm_long[b * B + i] = INVALID
      <3>1. b \in Nat /\ b # base /\ b \in 0 .. LongOffsetMax - 1
        BY <1>5
      <3>2. m.lpm_long[b * B + i] = l.lpm_long[b * B + i]
        BY <1>7, <1>8, <3>1
      <3> QED
        BY <1>1, <3>2 DEF BlocksApart
    <2> QED
      BY <1>1, <1>3, <1>4, <1>9, <2>1 DEF BlocksApart
  <1>11. ASSUME NEW a \in Addresses
         PROVE  /\ Flagged(m, FirstIndex(a)) <=> Longs(Append(R, Kept(r)), a) # {}
                /\ lpm_lookup_elem(m, a) = Answer(Append(R, Kept(r)), a)
    <2> DEFINE g == FirstIndex(a)  i == a % B  R2 == Append(R, Kept(r))
    <2>1. g \in E /\ i \in 0 .. B-1
      BY <1>1, LookupIs
    <2>2. /\ lpm_lookup_elem(m, a) = IF Flagged(m, g) THEN m.lpm_long[Base(m, g) * B + i] ELSE m.lpm_24[g]
          /\ lpm_lookup_elem(l, a) = IF Flagged(l, g) THEN l.lpm_long[Base(l, g) * B + i] ELSE l.lpm_24[g]
      BY <1>1, <1>4, LookupIs
    <2>3. /\ g # f => (Flagged(l, g) <=> Longs(R, a) # {})
          /\ lpm_lookup_elem(l, a) = IF g = f /\ Longs(R, a) = {} THEN INVALID ELSE Answer(R, a)
      BY DEF BlockReady
    <2>4. Kept(r) \in Rule /\ Long(Kept(r)) /\ Kept(r).hop = r.hop
          /\ (Covers(Kept(r), a) <=> Masked(a, r.len) = Masked(r.prefix, r.len)) /\ (SameBlock(Kept(r), a) <=> g = f)
      BY KeptIs
    <2>5. /\ g = f => /\ Longs(R2, a) # {}
                      /\ Answer(R2, a) = IF Covers(Kept(r), a) THEN r.hop
                                         ELSE IF Longs(R, a) = {} THEN INVALID ELSE Answer(R, a)
          /\ g # f => Longs(R2, a) = Longs(R, a) /\ Answer(R2, a) = Answer(R, a)
      BY <1>1, <2>4, LongAppended
    <2>6. g = f => (base * B + i \in run <=> Covers(Kept(r), a))
      BY <1>6, <2>4
    <2>7. Flagged(l, g) => Base(l, g) \in 0 .. LongOffsetMax - 1 /\ Base(l, g) \in Nat
      <3>1. Flagged(l, g) => Base(l, g) \in 0 .. l.lpm_long_index - 1
        BY <1>1, <2>1 DEF BlocksApart
      <3> QED
        BY <1>5, <3>1
    <2>8. Flagged(l, g) /\ g # f => Base(l, g) # base
      BY <1>1, <2>1 DEF BlocksApart
    <2> HIDE DEF g, i, R2, f, base, B
    <2>9. CASE g = f
      <3>1. Flagged(l, g) /\ Flagged(m, g) /\ Base(m, g) = base /\ Base(l, g) = base
        BY <1>1, <1>9, <2>9 DEF base
      <3>2. m.lpm_long[base * B + i] = IF base * B + i \in run THEN r.hop ELSE l.lpm_long[base * B + i]
        BY <1>8, <2>1, <2>7, <3>1
      <3>3. lpm_lookup_elem(m, a) = IF Covers(Kept(r), a) THEN r.hop ELSE lpm_lookup_elem(l, a)
        BY <2>2, <2>6, <2>9, <3>1, <3>2
      <3> QED
        BY <2>3, <2>5, <2>9, <3>1, <3>3 DEF g, R2
    <2>10. CASE g # f
      <3>1. lpm_lookup_elem(m, a) = lpm_lookup_elem(l, a)
        <4>1. CASE Flagged(l, g)
          <5>1. Base(l, g) * B + i \notin run
            BY <1>7, <2>1, <2>7, <2>8, <2>10, <4>1
          <5>2. m.lpm_long[Base(l, g) * B + i] = l.lpm_long[Base(l, g) * B + i]
            BY <1>8, <2>1, <2>7, <4>1, <5>1
          <5> QED
            BY <1>9, <2>2, <4>1, <5>2
        <4>2. CASE ~ Flagged(l, g)
          BY <1>3, <1>9, <2>2, <4>2
        <4> QED
          BY <4>1, <4>2
      <3> QED
        BY <1>9, <2>3, <2>5, <2>10, <3>1 DEF g, R2
    <2> QED
      BY <2>9, <2>10
  <1>12. Append(R, Kept(r)) \in Seq(Rule)
    BY <1>1, KeptIs
  <1> QED
    BY <1>10, <1>11, <1>12 DEF LpmHolds, m

-----------------------------------------------------------------------------

\* The table holds what the rules say, and so whatever call comes.
LEMMA SteeringInitLpm == SteeringInit => LpmHolds(lpm, rules)
  BY LpmAllocated DEF SteeringInit

\* Every call keeps it.
LEMMA SteeringNextLpm == LpmHolds(lpm, rules) /\ [SteeringNext]_steering_vars => LpmHolds(lpm, rules)'
  <1> SUFFICES ASSUME LpmHolds(lpm, rules), [SteeringNext]_steering_vars PROVE LpmHolds(lpm', rules')
    OBVIOUS
  <1>1. ASSUME NEW r \in Rule, Update(r) PROVE LpmHolds(lpm', rules')
    <2>1. ~ LongFull(lpm, r.prefix, r.len) /\ lpm' = lpm_update_elem(lpm, r.prefix, r.len, r.hop)
          /\ rules' = Append(rules, Kept(r))
      BY <1>1 DEF Update, Kept
    <2>2. r.prefix \in Addresses /\ r.len \in Nat /\ FirstBits \in Nat
      BY KeptIs, AddressesAre
    <2>3. CASE r.len <= FirstBits
      BY <2>1, <2>3, UpdateShortHolds DEF lpm_update_elem
    <2>4. CASE ~ (r.len <= FirstBits)
      <3>1. r.len > FirstBits
        BY <2>2, <2>4
      <3>2. CASE need_new_index(lpm, r.prefix)
        <4>1. BlockReady(TakeBlock(lpm, r.prefix), rules, FirstIndex(r.prefix))
          BY <2>1, <2>2, <3>1, <3>2, NewBlockReady DEF LongFull
        <4>2. lpm' = UpdateLong(TakeBlock(lpm, r.prefix), r.prefix, r.len, r.hop)
          BY <2>1, <2>4, <3>2 DEF lpm_update_elem
        <4> QED
          BY <2>1, <3>1, <4>1, <4>2, UpdateLongHolds
      <3>3. CASE ~ need_new_index(lpm, r.prefix)
        <4>1. BlockReady(lpm, rules, FirstIndex(r.prefix))
          BY <2>2, <3>3, OldBlockReady
        <4>2. lpm' = UpdateLong(lpm, r.prefix, r.len, r.hop)
          BY <2>1, <2>4, <3>3 DEF lpm_update_elem
        <4> QED
          BY <2>1, <3>1, <4>1, <4>2, UpdateLongHolds
      <3> QED
        BY <3>2, <3>3
    <2> QED
      BY <2>3, <2>4
  <1>2. ~ (\E r \in Rule : Update(r)) => lpm' = lpm /\ rules' = rules
    BY DEF SteeringNext, steering_vars, Fill, Activate, Deactivate, Full
  <1> QED
    BY <1>1, <1>2

\* The table of prefixes answers by the latest rule, whatever the numbers of bits
\* and of blocks and whatever rules come in whatever order (lpm_update_elem,
\* lpm_lookup_elem).
THEOREM LookupStaysLatestRule == SteeringSpec => []LookupIsLatestRule
  <1>1. SteeringSpec => []LpmHolds(lpm, rules)
    BY SteeringInitLpm, SteeringNextLpm, PTL DEF SteeringSpec
  <1>2. LpmHolds(lpm, rules) => LookupIsLatestRule
    BY DEF LpmHolds, LookupIsLatestRule
  <1> QED
    BY <1>1, <1>2, PTL

=============================================================================
