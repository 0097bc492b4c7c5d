------------------------- MODULE PacketPath_proofs -------------------------
(***************************************************************************)
(* Theorems about module PacketPath: where the mbufs are, what the         *)
(* counters of a sketch add up to, and which line of a rule file decides.  *)
(***************************************************************************)
EXTENDS PacketPath, Numbers_proofs

-----------------------------------------------------------------------------
(***************************************************************************)
(* How often a sequence holds a buffer.                                    *)
(***************************************************************************)

\* A finite sequence holds a buffer a finite number of times.
LEMMA OccurrencesType ==
  ASSUME NEW S, NEW s \in Seq(S), NEW m
  PROVE  Occurrences(s, m) \in Nat
  <1> DEFINE O == {j \in DOMAIN s : s[j] = m}
  <1>1. IsFiniteSet(1 .. Len(s)) /\ DOMAIN s = 1 .. Len(s)
    BY FS_Interval
  <1>2. IsFiniteSet(O)
    BY <1>1, FS_Subset, O \in SUBSET (1 .. Len(s))
  <1> QED
    BY <1>2, FS_CardinalityType DEF Occurrences

\* The empty sequence holds none.
LEMMA OccurrencesEmpty ==
  ASSUME NEW m
  PROVE  Occurrences(<<>>, m) = 0
  <1>1. {j \in DOMAIN <<>> : <<>>[j] = m} = {}
    OBVIOUS
  <1> QED
    BY <1>1, FS_EmptySet DEF Occurrences

\* Two sequences end to end hold what each of them holds.
LEMMA OccurrencesConcat ==
  ASSUME NEW S, NEW s \in Seq(S), NEW t \in Seq(S), NEW m
  PROVE  Occurrences(s \o t, m) = Occurrences(s, m) + Occurrences(t, m)
  <1> DEFINE a == Len(s)
             b == Len(t)
             A == {j \in 1 .. a : s[j] = m}
             B == {j \in 1 .. b : t[j] = m}
             C == {j \in a+1 .. a+b : (s \o t)[j] = m}
             f == [j \in B |-> j + a]
  <1>1. /\ a \in Nat /\ b \in Nat /\ DOMAIN s = 1 .. a /\ DOMAIN t = 1 .. b
        /\ DOMAIN (s \o t) = 1 .. a+b
        /\ \A j \in 1 .. a : (s \o t)[j] = s[j]
        /\ \A j \in 1 .. b : (s \o t)[j + a] = t[j]
    OBVIOUS
  <1> HIDE DEF a, b
  <1>2. {j \in DOMAIN (s \o t) : (s \o t)[j] = m} = A \cup C /\ A \cap C = {}
    BY <1>1
  <1>3. IsFiniteSet(A) /\ IsFiniteSet(B)
    <2>1. IsFiniteSet(1 .. a) /\ IsFiniteSet(1 .. b)
      BY <1>1, FS_Interval
    <2>2. A \in SUBSET (1 .. a) /\ B \in SUBSET (1 .. b)
      OBVIOUS
    <2> QED
      BY <2>1, <2>2, FS_Subset
  <1>4. f \in Bijection(B, C)
    <2>1. \A j \in B : j \in Int /\ j + a \in C
      BY <1>1
    <2>2. \A j, i \in B : j + a = i + a => j = i
      BY <1>1
    <2>3. \A c \in C : \E j \in B : j + a = c
      <3> SUFFICES ASSUME NEW c \in C PROVE \E j \in B : j + a = c
        OBVIOUS
      <3>1. c \in a+1 .. a+b /\ (s \o t)[c] = m
        OBVIOUS
      <3>2. PICK j \in 1 .. b : j + a = c
        <4>1. c - a \in 1 .. b /\ (c - a) + a = c
          BY <1>1, <3>1
        <4> QED
          BY <4>1
      <3> QED
        BY <1>1, <3>1, <3>2
    <2> HIDE DEF B, C
    <2> QED
      BY <2>1, <2>2, <2>3 DEF Bijection, Injection, Surjection, IsInjective
  <1>5. IsFiniteSet(C) /\ Cardinality(C) = Cardinality(B)
    <2>1. ExistsBijection(B, C)
      BY <1>4 DEF ExistsBijection
    <2> QED
      BY <1>3, <2>1, FS_Bijection
  <1>6. Cardinality(A \cup C) = Cardinality(A) + Cardinality(C)
    <2> HIDE DEF A, B, C
    <2>1. Cardinality(A \cup C) = Cardinality(A) + Cardinality(C) - Cardinality(A \cap C)
      BY <1>3, <1>5, FS_Union
    <2>2. Cardinality(A \cap C) = 0 /\ Cardinality(A) \in Nat /\ Cardinality(C) \in Nat
      BY <1>2, <1>3, <1>5, FS_EmptySet, FS_CardinalityType
    <2> QED
      BY <2>1, <2>2
  <1>7. Occurrences(s, m) = Cardinality(A) /\ Occurrences(t, m) = Cardinality(B)
    BY <1>1 DEF Occurrences
  <1>8. Occurrences(s \o t, m) = Cardinality(A \cup C)
    BY <1>2, Zenon DEF Occurrences
  <1> HIDE DEF A, B, C
  <1> QED
    BY <1>5, <1>6, <1>7, <1>8

\* A set in increasing order holds each of its members once.
LEMMA OccurrencesAscending ==
  ASSUME NEW S, S \subseteq Nat, IsFiniteSet(S), NEW m
  PROVE  Occurrences(Ascending(S), m) = IF m \in S THEN 1 ELSE 0
  <1> DEFINE n == Cardinality(S)
             O == {j \in 1 .. n : Ascending(S)[j] = m}
  <1>1. /\ n \in Nat /\ \A j \in 1 .. n : Ascending(S)[j] \in S
        /\ \A j \in 1 .. n : Rank(S, Ascending(S)[j]) = j - 1
    BY AscendingFacts
  <1>2. DOMAIN Ascending(S) = 1 .. n
    BY AscendingFacts
  <1> HIDE DEF n
  <1>3. CASE m \notin S
    <2>1. O = {}
      BY <1>1, <1>3
    <2> QED
      BY <1>2, <1>3, <2>1, FS_EmptySet DEF Occurrences
  <1>4. CASE m \in S
    <2>1. PICK j \in 1 .. n : Rank(S, m) = j - 1
      <3>1. Rank(S, m) \in 0 .. n-1
        BY <1>4, RankFacts DEF n
      <3>2. Rank(S, m) + 1 \in 1 .. n /\ Rank(S, m) = (Rank(S, m) + 1) - 1
        BY <1>1, <3>1
      <3> QED
        BY <3>2
    <2>2. \A i \in 1 .. n : Ascending(S)[i] = m <=> i = j
      <3> SUFFICES ASSUME NEW i \in 1 .. n PROVE Ascending(S)[i] = m <=> i = j
        OBVIOUS
      <3>1. /\ Rank(S, Ascending(S)[i]) = i - 1 /\ Ascending(S)[i] \in S
            /\ Rank(S, Ascending(S)[j]) = j - 1 /\ Ascending(S)[j] \in S
        BY <1>1
      <3>2. \A x, y \in S : Rank(S, x) = Rank(S, y) => x = y
        BY RankFacts
      <3>3. Ascending(S)[j] = m
        BY <1>4, <2>1, <3>1, <3>2, Zenon
      <3>4. ASSUME Ascending(S)[i] = m PROVE i = j
        <4>1. i - 1 = j - 1
          BY <2>1, <3>1, <3>4, Zenon
        <4> QED
          BY <4>1
      <3> QED
        BY <3>3, <3>4
    <2>3. O = {j}
      BY <2>1, <2>2
    <2>4. Cardinality(O) = 1
      BY <2>3, FS_Singleton
    <2> QED
      BY <1>2, <1>4, <2>4 DEF Occurrences
  <1> QED
    BY <1>3, <1>4

-----------------------------------------------------------------------------
(***************************************************************************)
(* Where the mbufs are.                                                    *)
(***************************************************************************)

\* The points of an lcore's program.
Points == {"init", "idle", "prepare", "process", "send", "stop", "exit"}

\* The sequences an lcore holds contain buffers; between bursts it holds none.
HeldInv ==
  /\ pc \in [Lcore -> Points]
  /\ burst \in [Lcore -> Seq(Mbufs)]
  /\ tx_batch \in [Lcore -> Seq(Mbufs)]
  /\ \A l \in Lcore : pc[l] \in {"init", "idle"} => burst[l] = <<>>

\* Unless prepare_one_packet has freed a packet, each buffer is in one place.
PlacesInv ==
  /\ HeldInv
  /\ corrupt \/ (pool \in [Mbufs -> Nat] /\ \A m \in Mbufs : Uses(m) = 1)

\* The places in one line, for each of the two lcores.
LEMMA UsesOf ==
  ASSUME NEW m
  PROVE  Uses(m) = pool[m] + Occurrences(burst[0], m) + Occurrences(burst[1], m)
                     + Occurrences(tx_batch[0], m) + Occurrences(tx_batch[1], m)
  BY Zenon DEF Uses

\* A step that moves the buffers of one lcore's sequence b and batch t, and of the
\* pool, without making or losing one.
LEMMA Moved ==
  ASSUME PlacesInv, HeldInv', NEW l \in Lcore,
         burst' = [burst EXCEPT ![l] = burst'[l]],
         tx_batch' = [tx_batch EXCEPT ![l] = tx_batch'[l]],
         corrupt' = corrupt,
         pool \in [Mbufs -> Nat] => pool' \in [Mbufs -> Nat],
         (~ corrupt /\ pool \in [Mbufs -> Nat] /\ \A m \in Mbufs : Uses(m) = 1) =>
         \A m \in Mbufs :
           pool'[m] + Occurrences(burst'[l], m) + Occurrences(tx_batch'[l], m)
             = pool[m] + Occurrences(burst[l], m) + Occurrences(tx_batch[l], m)
  PROVE  PlacesInv'
  <1> SUFFICES ASSUME ~ corrupt PROVE pool' \in [Mbufs -> Nat] /\ \A m \in Mbufs : Uses(m)' = 1
    BY DEF PlacesInv
  <1>1. pool \in [Mbufs -> Nat] /\ \A m \in Mbufs : Uses(m) = 1
    BY DEF PlacesInv
  <1>2. ASSUME NEW m \in Mbufs PROVE Uses(m)' = 1
    <2> DEFINE B(e) == Occurrences(burst[e], m)   T(e) == Occurrences(tx_batch[e], m)
               C(e) == Occurrences(burst'[e], m)  U(e) == Occurrences(tx_batch'[e], m)
    <2>1. 0 \in Lcore /\ 1 \in Lcore /\ l \in {0, 1}
      BY DEF Lcore
    <2>2. /\ burst[0] \in Seq(Mbufs) /\ burst[1] \in Seq(Mbufs)
          /\ tx_batch[0] \in Seq(Mbufs) /\ tx_batch[1] \in Seq(Mbufs)
          /\ burst'[0] \in Seq(Mbufs) /\ burst'[1] \in Seq(Mbufs)
          /\ tx_batch'[0] \in Seq(Mbufs) /\ tx_batch'[1] \in Seq(Mbufs)
      BY <2>1 DEF PlacesInv, HeldInv
    <2>3. /\ B(0) \in Nat /\ B(1) \in Nat /\ T(0) \in Nat /\ T(1) \in Nat
          /\ C(0) \in Nat /\ C(1) \in Nat /\ U(0) \in Nat /\ U(1) \in Nat
      BY <2>2, OccurrencesType
    <2>4. pool[m] \in Nat /\ pool'[m] \in Nat
      BY <1>1
    <2>5. pool[m] + B(0) + B(1) + T(0) + T(1) = 1
      BY <1>1, UsesOf
    <2>6. Uses(m)' = pool'[m] + C(0) + C(1) + U(0) + U(1)
      BY Zenon DEF Uses
    <2>7. pool'[m] + C(l) + U(l) = pool[m] + B(l) + T(l)
      BY <1>1
    <2>8. \A e \in Lcore : e # l => C(e) = B(e) /\ U(e) = T(e)
      BY DEF PlacesInv, HeldInv
    <2> HIDE DEF B, C, T, U
    <2> QED
      BY <2>1, <2>3, <2>4, <2>5, <2>6, <2>7, <2>8
  <1> QED
    BY <1>1, <1>2

\* A buffer that is free is nowhere else, so that none is received twice.
LEMMA FreeIsFree ==
  ASSUME HeldInv, pool \in [Mbufs -> Nat], NEW m \in Mbufs, Uses(m) = 1, pool[m] > 0
  PROVE  pool[m] = 1
  <1>1. 0 \in Lcore /\ 1 \in Lcore
    BY DEF Lcore
  <1>2. /\ Occurrences(burst[0], m) \in Nat /\ Occurrences(burst[1], m) \in Nat
        /\ Occurrences(tx_batch[0], m) \in Nat /\ Occurrences(tx_batch[1], m) \in Nat
    BY <1>1, OccurrencesType DEF HeldInv
  <1> QED
    BY <1>2, UsesOf

\* The NIC receives into free buffers.
LEMMA ReceivePlaces ==
  ASSUME PlacesInv, NEW l \in Lcore, NEW n \in 1 .. MaxPktBurst, Receive(l, n)
  PROVE  PlacesInv'
  <1> DEFINE free == {m \in Mbufs : pool[m] > 0}
             into == FirstOf(free, n)
  <1>1. into \subseteq Mbufs /\ into \subseteq Nat /\ IsFiniteSet(into)
    <2>1. into \subseteq Mbufs
      BY DEF FirstOf
    <2> HIDE DEF into
    <2> QED
      BY <2>1, PacketPathAssumption, FS_Subset
  <1>2. \A m \in into : pool[m] > 0
    BY DEF FirstOf
  <1>3. /\ pc[l] = "idle"
        /\ burst' = [burst EXCEPT ![l] = Ascending(into)]
        /\ pool' = [m \in Mbufs |-> IF m \in into THEN pool[m] - 1 ELSE pool[m]]
        /\ tx_batch' = tx_batch /\ corrupt' = corrupt
        /\ pc' = [pc EXCEPT ![l] = IF build.program = "nf-chain" THEN "prepare" ELSE "process"]
    BY Zenon DEF Receive, Goto
  <1> HIDE DEF into
  <1>4. Ascending(into) \in Seq(Mbufs)
    <2>1. /\ Cardinality(into) \in Nat
          /\ Ascending(into) \in [1 .. Cardinality(into) -> into]
      BY <1>1, AscendingFacts
    <2>2. Ascending(into) \in [1 .. Cardinality(into) -> Mbufs]
      BY <1>1, <2>1
    <2> QED
      BY <2>1, <2>2
  <1>5. HeldInv'
    BY <1>3, <1>4 DEF PlacesInv, HeldInv, Points
  <1>6. burst'[l] = Ascending(into) /\ burst[l] = <<>> /\ tx_batch'[l] = tx_batch[l]
    BY <1>3 DEF PlacesInv, HeldInv
  <1>7. pool \in [Mbufs -> Nat] => pool' \in [Mbufs -> Nat]
    BY <1>2, <1>3
  <1>8. ASSUME ~ corrupt, pool \in [Mbufs -> Nat], \A m \in Mbufs : Uses(m) = 1, NEW m \in Mbufs
        PROVE  pool'[m] + Occurrences(burst'[l], m) + Occurrences(tx_batch'[l], m)
                 = pool[m] + Occurrences(burst[l], m) + Occurrences(tx_batch[l], m)
    <2>1. Occurrences(burst'[l], m) = IF m \in into THEN 1 ELSE 0
      BY <1>1, <1>6, OccurrencesAscending
    <2>2. Occurrences(burst[l], m) = 0
      BY <1>6, OccurrencesEmpty
    <2>3. m \in into => pool[m] = 1
      BY <1>2, <1>8, FreeIsFree DEF PlacesInv
    <2>4. pool[m] \in Nat /\ pool'[m] = IF m \in into THEN pool[m] - 1 ELSE pool[m]
      BY <1>3, <1>8
    <2>5. Occurrences(tx_batch[l], m) \in Nat
      BY OccurrencesType DEF PlacesInv, HeldInv
    <2> QED
      BY <1>6, <2>1, <2>2, <2>3, <2>4, <2>5
  <1> QED
    BY <1>3, <1>5, <1>6, <1>7, <1>8, Moved DEF PlacesInv, HeldInv

\* Freeing a sequence gives the pool what the sequence holds.
LEMMA FreedFacts ==
  ASSUME NEW s \in Seq(Mbufs)
  PROVE  /\ pool \in [Mbufs -> Nat] => Freed(s) \in [Mbufs -> Nat]
         /\ \A m \in Mbufs : Freed(s)[m] = pool[m] + Occurrences(s, m)
  BY OccurrencesType DEF Freed

\* prepare_one_packet frees nothing, or the run is corrupt from here on.
LEMMA PreparePlaces ==
  ASSUME PlacesInv, NEW l \in Lcore, prepare_acl_parameter(l)
  PROVE  PlacesInv'
  <1> DEFINE unfit == SelectSeq(burst[l], LAMBDA m : Unfit(head[m]))
  <1>1. /\ pool' = Freed(unfit) /\ corrupt' = (corrupt \/ unfit # <<>>)
        /\ pc' = [pc EXCEPT ![l] = "process"] /\ burst' = burst /\ tx_batch' = tx_batch
        /\ pc[l] = "prepare"
    BY DEF prepare_acl_parameter, Goto
  <1> HIDE DEF unfit
  <1>2. HeldInv'
    BY <1>1 DEF PlacesInv, HeldInv, Points
  <1>3. CASE corrupt \/ unfit # <<>>
    BY <1>1, <1>2, <1>3 DEF PlacesInv
  <1>4. CASE ~ corrupt /\ unfit = <<>>
    <2>1. pool \in [Mbufs -> Nat] /\ \A m \in Mbufs : Uses(m) = 1
      BY <1>4 DEF PlacesInv
    <2>2. pool' = [m \in Mbufs |-> pool[m] + 0]
      BY <1>1, <1>4, OccurrencesEmpty DEF Freed
    <2>3. pool' = pool
      BY <2>1, <2>2
    <2>4. \A m \in Mbufs : Uses(m)' = Uses(m)
      BY <1>1, <2>3 DEF Uses
    <2> QED
      BY <1>2, <2>1, <2>3, <2>4 DEF PlacesInv
  <1> QED
    BY <1>3, <1>4

\* The burst goes back to the pool: sent on a single core, or captured.
LEMMA BurstFreedPlaces ==
  ASSUME PlacesInv, NEW l \in Lcore, TransmitSingle(l) \/ CaptureBurst(l)
  PROVE  PlacesInv'
  <1>1. /\ pool' = Freed(burst[l]) /\ burst' = [j \in Lcore |-> IF j = l THEN <<>> ELSE burst[j]]
        /\ tx_batch' = tx_batch /\ corrupt' = corrupt /\ pc' = [pc EXCEPT ![l] = "idle"]
    BY DEF TransmitSingle, CaptureBurst, Goto, Emptied
  <1>2. HeldInv'
    BY <1>1 DEF PlacesInv, HeldInv, Points
  <1>3. /\ burst'[l] = <<>> /\ burst' = [burst EXCEPT ![l] = burst'[l]]
        /\ tx_batch' = [tx_batch EXCEPT ![l] = tx_batch'[l]] /\ tx_batch'[l] = tx_batch[l]
        /\ burst[l] \in Seq(Mbufs) /\ tx_batch[l] \in Seq(Mbufs)
    BY <1>1 DEF PlacesInv, HeldInv
  <1>4. ASSUME pool \in [Mbufs -> Nat], NEW m \in Mbufs
        PROVE  pool'[m] + Occurrences(burst'[l], m) + Occurrences(tx_batch'[l], m)
                 = pool[m] + Occurrences(burst[l], m) + Occurrences(tx_batch[l], m)
    <2>1. pool'[m] = pool[m] + Occurrences(burst[l], m)
      BY <1>1, <1>3, FreedFacts
    <2>2. Occurrences(burst'[l], m) = 0
      BY <1>3, OccurrencesEmpty
    <2>3. pool[m] \in Nat /\ Occurrences(burst[l], m) \in Nat
      BY <1>3, <1>4, OccurrencesType
    <2> QED
      BY <1>3, <2>1, <2>2, <2>3
  <1>5. pool \in [Mbufs -> Nat] => pool' \in [Mbufs -> Nat]
    BY <1>1, <1>3, FreedFacts
  <1> QED
    BY <1>1, <1>2, <1>3, <1>4, <1>5, Moved

\* The burst joins tx_batch, which is sent before it would overflow.
LEMMA AccumulatePlaces ==
  ASSUME PlacesInv, NEW l \in Lcore, Accumulate(l)
  PROVE  PlacesInv'
  <1>1. /\ pool' = IF NearlyFull(l) THEN Freed(tx_batch[l]) ELSE pool
        /\ tx_batch' = [tx_batch EXCEPT ![l] = Left(l) \o burst[l]]
        /\ burst' = [j \in Lcore |-> IF j = l THEN <<>> ELSE burst[j]]
        /\ corrupt' = corrupt /\ pc' = [pc EXCEPT ![l] = "idle"]
    BY Zenon DEF Accumulate, Goto, Emptied
  <1>2. /\ burst[l] \in Seq(Mbufs) /\ tx_batch[l] \in Seq(Mbufs)
        /\ Left(l) \in Seq(Mbufs) /\ Left(l) \o burst[l] \in Seq(Mbufs)
    <2>1. burst[l] \in Seq(Mbufs) /\ tx_batch[l] \in Seq(Mbufs)
      BY DEF PlacesInv, HeldInv
    <2>2. Left(l) \in Seq(Mbufs)
      BY <2>1 DEF Left
    <2> QED
      BY <2>1, <2>2
  <1>3. HeldInv'
    BY <1>1, <1>2 DEF PlacesInv, HeldInv, Points
  <1>4. /\ burst'[l] = <<>> /\ burst' = [burst EXCEPT ![l] = burst'[l]]
        /\ tx_batch'[l] = Left(l) \o burst[l]
        /\ tx_batch' = [tx_batch EXCEPT ![l] = tx_batch'[l]]
    BY <1>1 DEF PlacesInv, HeldInv
  <1>5. ASSUME pool \in [Mbufs -> Nat], NEW m \in Mbufs
        PROVE  pool'[m] + Occurrences(burst'[l], m) + Occurrences(tx_batch'[l], m)
                 = pool[m] + Occurrences(burst[l], m) + Occurrences(tx_batch[l], m)
    <2>1. Occurrences(burst'[l], m) = 0
      BY <1>4, OccurrencesEmpty
    <2>2. Occurrences(tx_batch'[l], m) = Occurrences(Left(l), m) + Occurrences(burst[l], m)
      BY <1>2, <1>4, OccurrencesConcat
    <2>3. /\ pool[m] \in Nat /\ Occurrences(burst[l], m) \in Nat
          /\ Occurrences(tx_batch[l], m) \in Nat
      BY <1>2, <1>5, OccurrencesType
    <2>4. CASE NearlyFull(l)
      <3>1. Occurrences(Left(l), m) = 0
        BY <2>4, OccurrencesEmpty DEF Left
      <3>2. pool'[m] = pool[m] + Occurrences(tx_batch[l], m)
        BY <1>1, <1>2, <2>4, FreedFacts
      <3> QED
        BY <2>1, <2>2, <2>3, <3>1, <3>2
    <2>5. CASE ~ NearlyFull(l)
      <3>1. Left(l) = tx_batch[l] /\ pool' = pool
        BY <1>1, <2>5 DEF Left
      <3> QED
        BY <2>1, <2>2, <2>3, <3>1
    <2> QED
      BY <2>4, <2>5
  <1>6. pool \in [Mbufs -> Nat] => pool' \in [Mbufs -> Nat]
    BY <1>1, <1>2, FreedFacts
  <1> QED
    BY <1>1, <1>3, <1>4, <1>5, <1>6, Moved

\* What tx_batch holds at the end of a sweep is sent.
LEMMA EndSweepPlaces ==
  ASSUME PlacesInv, NEW l \in Lcore, EndSweep(l)
  PROVE  PlacesInv'
  <1>1. /\ pool' = Freed(tx_batch[l]) /\ tx_batch' = [tx_batch EXCEPT ![l] = <<>>]
        /\ burst' = burst /\ corrupt' = corrupt /\ pc' = pc
    BY DEF EndSweep
  <1>2. HeldInv'
    BY <1>1 DEF PlacesInv, HeldInv
  <1>3. /\ tx_batch'[l] = <<>> /\ tx_batch' = [tx_batch EXCEPT ![l] = tx_batch'[l]]
        /\ burst' = [burst EXCEPT ![l] = burst'[l]] /\ burst'[l] = burst[l]
        /\ burst[l] \in Seq(Mbufs) /\ tx_batch[l] \in Seq(Mbufs)
    BY <1>1 DEF PlacesInv, HeldInv
  <1>4. ASSUME pool \in [Mbufs -> Nat], NEW m \in Mbufs
        PROVE  pool'[m] + Occurrences(burst'[l], m) + Occurrences(tx_batch'[l], m)
                 = pool[m] + Occurrences(burst[l], m) + Occurrences(tx_batch[l], m)
    <2>1. pool'[m] = pool[m] + Occurrences(tx_batch[l], m)
      BY <1>1, <1>3, FreedFacts
    <2>2. Occurrences(tx_batch'[l], m) = 0
      BY <1>3, OccurrencesEmpty
    <2>3. /\ pool[m] \in Nat /\ Occurrences(burst[l], m) \in Nat
          /\ Occurrences(tx_batch[l], m) \in Nat
      BY <1>3, <1>4, OccurrencesType
    <2> QED
      BY <1>3, <2>1, <2>2, <2>3
  <1>5. pool \in [Mbufs -> Nat] => pool' \in [Mbufs -> Nat]
    BY <1>1, <1>3, FreedFacts
  <1> QED
    BY <1>1, <1>2, <1>3, <1>4, <1>5, Moved

\* The other steps leave the buffers where they are.
LEMMA PlacesKept ==
  ASSUME PlacesInv, HeldInv', UNCHANGED <<pool, burst, tx_batch, corrupt>>
  PROVE  PlacesInv'
  <1>1. \A m \in Mbufs : Uses(m)' = Uses(m)
    BY DEF Uses
  <1> QED
    BY <1>1 DEF PlacesInv

\* Every step keeps each buffer in one place.
LEMMA PlacesInvStep ==
  ASSUME PlacesInv, [Next]_vars
  PROVE  PlacesInv'
  <1>1. CASE LoadRules \/ LoadFails
    <2>1. /\ pc' \in [Lcore -> Points] /\ UNCHANGED <<pool, burst, tx_batch, corrupt>>
          /\ \A l \in Lcore : pc'[l] \in {"init", "idle"} => pc[l] \in {"init", "idle"}
      BY <1>1 DEF LoadRules, LoadFails, PlacesInv, HeldInv, Points, mbufs
    <2>2. HeldInv'
      BY <2>1 DEF PlacesInv, HeldInv
    <2> QED
      BY <2>1, <2>2, PlacesKept
  <1>2. ASSUME NEW l \in Lcore, StopReceived(l) \/ ProcessPacket(l) PROVE PlacesInv'
    <2>1. /\ UNCHANGED <<pool, burst, tx_batch, corrupt>>
          /\ \E p \in {"stop", "send", "process"} : pc' = [pc EXCEPT ![l] = p]
      BY <1>2 DEF StopReceived, ProcessPacket, mbufs, Goto
    <2>2. HeldInv'
      BY <2>1 DEF PlacesInv, HeldInv, Points
    <2> QED
      BY <2>1, <2>2, PlacesKept
  <1>3. CASE (\E l \in Lcore : EmptyBurst(l)) \/ UNCHANGED vars
    <2>1. UNCHANGED <<pc, pool, burst, tx_batch, corrupt>>
      BY <1>3 DEF EmptyBurst, vars, mbufs
    <2>2. HeldInv'
      BY <2>1 DEF PlacesInv, HeldInv
    <2> QED
      BY <2>1, <2>2, PlacesKept
  <1> QED
    BY <1>1, <1>2, <1>3, ReceivePlaces, PreparePlaces, BurstFreedPlaces, AccumulatePlaces,
       EndSweepPlaces, Zenon DEF Next

\* All buffers start in the pool.
LEMMA PlacesInvInit == Init => PlacesInv
  <1> SUFFICES ASSUME Init PROVE PlacesInv
    OBVIOUS
  <1>1. HeldInv
    BY DEF Init, HeldInv, Points
  <1>2. ASSUME NEW m \in Mbufs PROVE Uses(m) = 1
    <2>1. /\ burst[0] = <<>> /\ burst[1] = <<>> /\ tx_batch[0] = <<>> /\ tx_batch[1] = <<>>
          /\ pool[m] = 1
      BY DEF Init, Lcore
    <2> QED
      BY <2>1, UsesOf, OccurrencesEmpty
  <1>3. pool \in [Mbufs -> Nat]
    BY DEF Init
  <1> QED
    BY <1>1, <1>2, <1>3 DEF PlacesInv

\* Every mbuf is in exactly one place, so that none is received into while it is
\* in use and none is lost, until prepare_one_packet frees one in the burst.
THEOREM MbufsInOnePlace == Spec => []MbufInOnePlace
  <1>1. PlacesInv => MbufInOnePlace
    BY DEF PlacesInv, MbufInOnePlace
  <1> QED
    BY <1>1, PlacesInvInit, PlacesInvStep, PTL DEF Spec

-----------------------------------------------------------------------------
(***************************************************************************)
(* Sums over finite sets.                                                  *)
(***************************************************************************)

\* A function gives the sum over each subset of T.
IsSum(sum, f, T) ==
  sum = [S \in SUBSET T |->
           IF S = {} THEN 0 ELSE LET x == CHOOSE x \in S : TRUE IN f[x] + sum[S \ {x}]]

\* The one that Total takes.
Sum(f, T) == CHOOSE sum : IsSum(sum, f, T)

\* The function that Total computes exists: it is built up by size.
LEMMA SumExists ==
  ASSUME NEW f, NEW T, IsFiniteSet(T)
  PROVE  IsSum(Sum(f, T), f, T)
  <1> DEFINE pick(S) == CHOOSE x \in S : TRUE
             Small(n) == {S \in SUBSET T : Cardinality(S) <= n}
             Next1(s, S) == IF S = {} THEN 0 ELSE f[pick(S)] + s[S \ {pick(S)}]
             Sums(s, n) == s = [S \in Small(n) |-> Next1(s, S)]
             Bad == {n \in Nat : ~ \E s : Sums(s, n)}
  <1>1. ASSUME NEW S \in SUBSET T, S # {}
        PROVE  /\ pick(S) \in S /\ S \ {pick(S)} \in SUBSET T
               /\ Cardinality(S) \in Nat \ {0}
               /\ Cardinality(S \ {pick(S)}) = Cardinality(S) - 1
    <2>1. IsFiniteSet(S)
      BY FS_Subset
    <2>2. pick(S) \in S
      BY <1>1
    <2>3. Cardinality(S) \in Nat /\ Cardinality(S) # 0
      BY <1>1, <2>1, FS_CardinalityType, FS_EmptySet
    <2> HIDE DEF pick
    <2> QED
      BY <2>1, <2>2, <2>3, FS_RemoveElement
  <1>2. \A S \in SUBSET T : Cardinality(S) \in Nat
    BY FS_Subset, FS_CardinalityType
  <1> HIDE DEF pick
  <1>3. Bad = {}
    <2> SUFFICES ASSUME Bad # {} PROVE FALSE
      OBVIOUS
    <2>1. PICK n \in Bad : \A e \in Bad : n <= e
      <3> HIDE DEF Bad
      <3>1. Bad \subseteq Nat
        BY DEF Bad
      <3> QED
        BY <3>1, Smallest
    <2>2. n \in Nat /\ ~ \E s : Sums(s, n)
      BY <2>1
    <2>3. CASE n = 0
      <3>1. \A S \in Small(0) : S = {}
        <4> SUFFICES ASSUME NEW S \in Small(0), S # {} PROVE FALSE
          OBVIOUS
        <4>1. S \in SUBSET T /\ Cardinality(S) <= 0
          OBVIOUS
        <4>2. Cardinality(S) \in Nat \ {0}
          BY <1>1, <4>1
        <4> QED
          BY <4>1, <4>2
      <3> DEFINE s == [S \in Small(0) |-> 0]
      <3>2. \A S \in Small(0) : Next1(s, S) = 0
        BY <3>1
      <3>3. Sums(s, 0)
        BY <3>2, Zenon
      <3> QED
        BY <2>2, <2>3, <3>3
    <2>4. CASE n # 0
      <3>1. n-1 \in Nat /\ ~ (n <= n-1)
        BY <2>2, <2>4
      <3>2. PICK s : Sums(s, n-1)
        BY <2>1, <3>1
      <3> DEFINE t == [S \in Small(n) |-> Next1(s, S)]
      <3>3. ASSUME NEW S \in Small(n), S # {}
            PROVE  S \ {pick(S)} \in Small(n-1) /\ S \ {pick(S)} \in Small(n)
        <4>1. /\ S \ {pick(S)} \in SUBSET T
              /\ Cardinality(S \ {pick(S)}) = Cardinality(S) - 1
              /\ Cardinality(S) \in Nat /\ Cardinality(S) <= n
          BY <1>1, <3>3
        <4> QED
          BY <2>2, <4>1
      <3>4. Small(n-1) \subseteq Small(n)
        BY <1>2, <2>2
      <3> HIDE DEF Small
      <3>5. \A R \in Small(n-1) : s[R] = Next1(s, R) /\ t[R] = Next1(s, R)
        BY <3>2, <3>4
      <3>6. \A R \in Small(n-1) : s[R] = t[R]
        <4> HIDE DEF Next1
        <4> QED
          BY <3>5, Zenon
      <3> HIDE DEF t
      <3>7. \A S \in Small(n) : Next1(s, S) = Next1(t, S)
        BY <3>3, <3>6, Zenon
      <3>8. Sums(t, n)
        BY <3>7, Zenon DEF t
      <3> QED
        BY <2>2, <3>8
    <2> QED
      BY <2>3, <2>4
  <1>4. PICK s : Sums(s, Cardinality(T))
    <2>1. Cardinality(T) \in Nat
      BY FS_CardinalityType
    <2> HIDE DEF Sums
    <2> QED
      BY <1>3, <2>1
  <1>5. Small(Cardinality(T)) = SUBSET T
    BY <1>2, FS_Subset
  <1> HIDE DEF Small
  <1>6. s = [S \in SUBSET T |-> Next1(s, S)]
    BY <1>4, <1>5, Zenon
  <1>7. IsSum(s, f, T)
    BY <1>6, Zenon DEF IsSum, pick
  <1> QED
    BY <1>7, Zenon DEF Sum

\* Its value, subset by subset.
LEMMA SumFacts ==
  ASSUME NEW f, NEW T, IsFiniteSet(T)
  PROVE  /\ Total(f, T) = Sum(f, T)[T]
         /\ Sum(f, T)[{}] = 0
         /\ \A S \in SUBSET T : S # {} =>
              \E x \in S : /\ x = CHOOSE y \in S : TRUE
                           /\ Sum(f, T)[S] = f[x] + Sum(f, T)[S \ {x}]
  <1> DEFINE s == Sum(f, T)
  <1>1. s = [S \in SUBSET T |-> IF S = {} THEN 0
               ELSE LET x == CHOOSE x \in S : TRUE IN f[x] + s[S \ {x}]]
    <2>1. IsSum(s, f, T)
      BY SumExists
    <2> HIDE DEF s
    <2> QED
      BY <2>1, Zenon DEF IsSum
  <1>2. Total(f, T) = s[T]
    BY Zenon DEF Total, Sum, IsSum
  <1> HIDE DEF s
  <1>3. s[{}] = 0
    BY <1>1
  <1>4. ASSUME NEW S \in SUBSET T, S # {}
        PROVE  \E x \in S : x = (CHOOSE y \in S : TRUE) /\ s[S] = f[x] + s[S \ {x}]
    <2> DEFINE p == CHOOSE y \in S : TRUE
    <2>1. p \in S
      BY <1>4
    <2>2. s[S] = f[p] + s[S \ {p}]
      BY <1>1, <1>4, Zenon
    <2> QED
      BY <2>1, <2>2, Zenon
  <1> QED
    BY <1>2, <1>3, <1>4 DEF s

\* One more for a member of the set is one more in the sum.
LEMMA TotalIncrement ==
  ASSUME NEW T, IsFiniteSet(T), NEW f, NEW g, NEW key, \A x \in T : f[x] \in Nat,
         \A x \in T : g[x] = IF x = key THEN f[x] + 1 ELSE f[x]
  PROVE  Total(f, T) \in Nat /\ Total(g, T) = Total(f, T) + (IF key \in T THEN 1 ELSE 0)
  <1> DEFINE F == Sum(f, T)
             G == Sum(g, T)
             Right(S) == F[S] \in Nat /\ G[S] = F[S] + (IF key \in S THEN 1 ELSE 0)
             Bad == {n \in Nat : \E S \in SUBSET T : Cardinality(S) = n /\ ~ Right(S)}
  <1>1. \A S \in SUBSET T : IsFiniteSet(S) /\ Cardinality(S) \in Nat
    BY FS_Subset, FS_CardinalityType
  <1>2. /\ Total(f, T) = F[T] /\ Total(g, T) = G[T] /\ F[{}] = 0 /\ G[{}] = 0
    BY SumFacts
  <1>3. ASSUME NEW S \in SUBSET T, S # {}
        PROVE  \E x \in S : F[S] = f[x] + F[S \ {x}] /\ G[S] = g[x] + G[S \ {x}]
    <2>1. PICK x \in S : x = (CHOOSE y \in S : TRUE) /\ F[S] = f[x] + F[S \ {x}]
      BY <1>3, SumFacts
    <2>2. PICK z \in S : z = (CHOOSE y \in S : TRUE) /\ G[S] = g[z] + G[S \ {z}]
      BY <1>3, SumFacts
    <2> HIDE DEF F, G
    <2> QED
      BY <2>1, <2>2, Zenon
  <1> HIDE DEF F, G
  <1>4. Bad = {}
    <2> SUFFICES ASSUME Bad # {} PROVE FALSE
      OBVIOUS
    <2>1. PICK n \in Bad : \A e \in Bad : n <= e
      <3> HIDE DEF Bad
      <3>1. Bad \subseteq Nat
        BY DEF Bad
      <3> QED
        BY <3>1, Smallest
    <2>2. PICK S \in SUBSET T : Cardinality(S) = n /\ ~ Right(S)
      BY <2>1
    <2>3. S # {}
      BY <1>2, <2>2
    <2>4. PICK x \in S : F[S] = f[x] + F[S \ {x}] /\ G[S] = g[x] + G[S \ {x}]
      BY <1>3, <2>3
    <2> DEFINE R == S \ {x}
    <2>5. R \in SUBSET T /\ Cardinality(R) = n - 1 /\ n - 1 \in Nat
      <3>1. IsFiniteSet(S) /\ n \in Nat
        BY <1>1, <2>1
      <3>2. Cardinality(R) = n - 1
        BY <2>2, <3>1, FS_RemoveElement
      <3> QED
        BY <1>1, <3>1, <3>2
    <2>6. Right(R)
      <3>1. ~ (n <= n - 1)
        BY <2>5
      <3> HIDE DEF Right, R
      <3> QED
        BY <2>1, <2>5, <3>1
    <2>7. /\ f[x] \in Nat /\ g[x] = (IF x = key THEN f[x] + 1 ELSE f[x])
          /\ F[R] \in Nat /\ G[R] = F[R] + (IF key \in R THEN 1 ELSE 0)
          /\ F[S] = f[x] + F[R] /\ G[S] = g[x] + G[R]
          /\ x \in S /\ (key \in S <=> key \in R \/ x = key) /\ ~ (x = key /\ key \in R)
      BY <2>4, <2>6
    <2> HIDE DEF R
    <2>8. Right(S)
      BY <2>7
    <2> QED
      BY <2>2, <2>8
  <1>5. Right(T)
    BY <1>1, <1>4
  <1> QED
    BY <1>2, <1>5

\* Nothing adds up to nothing.
LEMMA TotalOfZeros ==
  ASSUME NEW T, IsFiniteSet(T), NEW f, \A x \in T : f[x] = 0
  PROVE  Total(f, T) = 0
  <1> DEFINE F == Sum(f, T)
             Bad == {n \in Nat : \E S \in SUBSET T : Cardinality(S) = n /\ F[S] # 0}
  <1>1. \A S \in SUBSET T : IsFiniteSet(S) /\ Cardinality(S) \in Nat
    BY FS_Subset, FS_CardinalityType
  <1>2. Total(f, T) = F[T] /\ F[{}] = 0
    BY SumFacts
  <1>3. \A S \in SUBSET T : S # {} => \E x \in S : F[S] = f[x] + F[S \ {x}]
    BY SumFacts
  <1> HIDE DEF F
  <1>4. Bad = {}
    <2> SUFFICES ASSUME Bad # {} PROVE FALSE
      OBVIOUS
    <2>1. PICK n \in Bad : \A e \in Bad : n <= e
      <3> HIDE DEF Bad
      <3>1. Bad \subseteq Nat
        BY DEF Bad
      <3> QED
        BY <3>1, Smallest
    <2>2. PICK S \in SUBSET T : Cardinality(S) = n /\ F[S] # 0
      BY <2>1
    <2>3. PICK x \in S : F[S] = f[x] + F[S \ {x}]
      BY <1>2, <1>3, <2>2
    <2> DEFINE R == S \ {x}
    <2>4. R \in SUBSET T /\ Cardinality(R) = n - 1 /\ n - 1 \in Nat
      <3>1. IsFiniteSet(S) /\ n \in Nat
        BY <1>1, <2>1
      <3>2. Cardinality(R) = n - 1
        BY <2>2, <3>1, FS_RemoveElement
      <3> QED
        BY <1>1, <3>1, <3>2
    <2>5. F[R] = 0
      <3>1. ~ (n <= n - 1)
        BY <2>4
      <3> HIDE DEF R
      <3> QED
        BY <2>1, <2>4, <3>1
    <2> QED
      BY <2>2, <2>3, <2>5
  <1>5. Cardinality(T) \in Nat
    BY <1>1
  <1> QED
    BY <1>2, <1>4, <1>5

-----------------------------------------------------------------------------
(***************************************************************************)
(* The count-min sketches.                                                 *)
(***************************************************************************)

\* The counters and the counts they stand for.
SketchInv ==
  /\ build \in Builds
  /\ values \in [Lcore -> [Row0 -> [Columns -> Nat]]]
  /\ counted \in [Lcore -> [Keys -> Nat]]
  /\ SketchCounts

\* The keys that share a counter.
Sharing(r, c) == {key \in Keys : Hash[r][key] % build.columns = c}

\* count_add: in every row one counter goes up, the one the key shares.
LEMMA CountAdd ==
  ASSUME SketchInv, build' = build, NEW l \in Lcore, NEW p, NEW key \in Keys,
         count_add(l, p, key)
  PROVE  SketchInv'
  <1>1. CASE p.type # "ipv4"
    <2>1. values' = values /\ counted' = counted
      BY <1>1 DEF count_add, sketch
    <2>2. SketchCounts'
      BY <2>1 DEF SketchInv, SketchCounts, Columns
    <2> QED
      BY <2>1, <2>2 DEF SketchInv, Columns
  <1>2. CASE p.type = "ipv4"
    <2> DEFINE Hit(r) == Hash[r][key] % build.columns
    <2>1. /\ values' = [values EXCEPT ![l] = [r \in Row0 |-> [c \in Columns |->
                          IF r \in Row0 /\ c = Hit(r) THEN values[l][r][c] + 1
                                                      ELSE values[l][r][c]]]]
          /\ counted' = [counted EXCEPT ![l][key] = @ + 1]
      BY <1>2, Zenon DEF count_add, RowsCounted
    <2>2. Columns' = Columns
      BY DEF Columns
    <2>3. values' \in [Lcore -> [Row0 -> [Columns -> Nat]]]
      BY <2>1 DEF SketchInv
    <2>4. counted' \in [Lcore -> [Keys -> Nat]]
      BY <2>1 DEF SketchInv
    <2>5. ASSUME NEW m \in Lcore, NEW r \in Row0, NEW c \in Columns
          PROVE  values'[m][r][c] = Total(counted'[m], Sharing(r, c))
      <3>1. values[m][r][c] = Total(counted[m], Sharing(r, c))
        BY DEF SketchInv, SketchCounts, Sharing
      <3>2. CASE m # l
        <4>1. values'[m] = values[m] /\ counted'[m] = counted[m]
          BY <2>1, <3>2 DEF SketchInv
        <4> QED
          BY <3>1, <4>1
      <3>3. CASE m = l
        <4>1. IsFiniteSet(Sharing(r, c)) /\ Sharing(r, c) \subseteq Keys
          BY PacketPathAssumption, FS_Subset, Sharing(r, c) \in SUBSET Keys DEF Sharing
        <4>2. /\ \A x \in Sharing(r, c) : counted[l][x] \in Nat
              /\ \A x \in Sharing(r, c) :
                   counted'[l][x] = IF x = key THEN counted[l][x] + 1 ELSE counted[l][x]
          BY <2>1, <4>1 DEF SketchInv
        <4>3. Total(counted'[l], Sharing(r, c)) =
                Total(counted[l], Sharing(r, c)) + (IF key \in Sharing(r, c) THEN 1 ELSE 0)
          BY <4>1, <4>2, TotalIncrement
        <4>4. values'[l][r][c] = IF c = Hit(r) THEN values[l][r][c] + 1 ELSE values[l][r][c]
          BY <2>1 DEF SketchInv
        <4>5. key \in Sharing(r, c) <=> c = Hit(r)
          BY DEF Sharing
        <4>6. values[l][r][c] \in Nat
          BY DEF SketchInv
        <4> HIDE DEF Hit
        <4> QED
          BY <3>1, <3>3, <4>3, <4>4, <4>5, <4>6
      <3> QED
        BY <3>2, <3>3
    <2>6. SketchCounts'
      BY <2>2, <2>5 DEF SketchCounts, Sharing
    <2> QED
      BY <2>2, <2>3, <2>4, <2>6 DEF SketchInv
  <1> QED
    BY <1>1, <1>2

\* Other steps leave the sketches alone.
LEMMA SketchKept ==
  ASSUME SketchInv, UNCHANGED <<build, values, counted>>
  PROVE  SketchInv'
  <1>1. Columns' = Columns
    BY DEF Columns
  <1>2. SketchCounts'
    BY <1>1 DEF SketchInv, SketchCounts
  <1> QED
    BY <1>1, <1>2 DEF SketchInv

\* Every step keeps the sketches exact.
LEMMA SketchInvStep ==
  ASSUME SketchInv, [Next]_vars
  PROVE  SketchInv'
  <1>1. ASSUME NEW l \in Lcore, ProcessPacket(l) PROVE SketchInv'
    <2>1. PICK key \in Keys : count_add(l, Current(l), key)
      BY <1>1, Zenon DEF ProcessPacket
    <2>2. build' = build
      BY <1>1 DEF ProcessPacket
    <2> QED
      BY <2>1, <2>2, CountAdd
  <1>2. CASE \/ LoadRules \/ LoadFails \/ UNCHANGED vars
             \/ \E l \in Lcore :
                  \/ \E n \in 1 .. MaxPktBurst : Receive(l, n)
                  \/ prepare_acl_parameter(l) \/ StopReceived(l)
                  \/ TransmitSingle(l) \/ Accumulate(l) \/ EndSweep(l)
                  \/ CaptureBurst(l) \/ EmptyBurst(l)
    <2>1. UNCHANGED <<build, values, counted>>
      BY <1>2 DEF LoadRules, LoadFails, Receive, prepare_acl_parameter, StopReceived,
                  TransmitSingle, Accumulate, EndSweep, CaptureBurst, EmptyBurst, vars, sketch
    <2> QED
      BY <2>1, SketchKept
  <1> QED
    BY <1>1, <1>2, Zenon DEF Next

\* All counters start at zero.
LEMMA SketchInvInit == Init => SketchInv
  <1> SUFFICES ASSUME Init PROVE SketchInv
    OBVIOUS
  <1>1. /\ build \in Builds
        /\ values = [l \in Lcore |-> [r \in Row0 |-> [c \in Columns |-> 0]]]
        /\ counted = [l \in Lcore |-> [key \in Keys |-> 0]]
    BY DEF Init
  <1>2. SketchCounts
    <2> SUFFICES ASSUME NEW l \in Lcore, NEW r \in Row0, NEW c \in Columns
                 PROVE  values[l][r][c] = Total(counted[l], Sharing(r, c))
      BY DEF SketchCounts, Sharing
    <2>1. IsFiniteSet(Sharing(r, c)) /\ Sharing(r, c) \subseteq Keys
      BY PacketPathAssumption, FS_Subset, Sharing(r, c) \in SUBSET Keys DEF Sharing
    <2>2. \A x \in Sharing(r, c) : counted[l][x] = 0
      BY <1>1, <2>1
    <2>3. Total(counted[l], Sharing(r, c)) = 0
      BY <2>1, <2>2, TotalOfZeros
    <2> QED
      BY <1>1, <2>3
  <1> QED
    BY <1>1, <1>2 DEF SketchInv

\* A counter is the number of packets of the keys that share it, in every row and
\* for every lcore.
THEOREM SketchesExact == Spec => []SketchCounts
  <1>1. SketchInv => SketchCounts
    BY DEF SketchInv
  <1> QED
    BY <1>1, SketchInvInit, SketchInvStep, PTL DEF Spec

-----------------------------------------------------------------------------
(***************************************************************************)
(* The rules.                                                              *)
(***************************************************************************)

\* The line that decides over a packet: the first of the rules that match it.
Hits(f, p) == {j \in DOMAIN f : f[j].lead \in {"R", "@"} /\ p \in f[j].match}
IsFirst(f, p, j) == j \in Hits(f, p) /\ \A i \in Hits(f, p) : j <= i

\* The context is the one that the accepted file makes.
AclInv ==
  /\ build \in Builds /\ file \in build.files
  /\ acl # {} => acl = setup_acl(file) /\ ~ RulesRejected(file, Ports)

\* A rule file that add_rules() accepts has rules only, each route on a port that
\* is enabled.
LEMMA AcceptedLines ==
  ASSUME NEW f, ~ RulesRejected(f, Ports), NEW j \in Parsed(f)
  PROVE  f[j].lead \in {"R", "@"} /\ (f[j].lead = "R" => f[j].port \in Ports)
  BY DEF RulesRejected, enabled

\* Of two rules the earlier one has the higher priority, whichever array each one is
\* parsed into.
LEMMA EarlierIsHigher ==
  ASSUME NEW f, Len(f) \in Nat, DOMAIN f = 1 .. Len(f)
  PROVE  /\ \A j \in Parsed(f) : priority(f, j) \in Int
         /\ \A j, e \in Parsed(f) : j < e => priority(f, j) > priority(f, e)
  <1>1. Parsed(f) \subseteq Nat /\ IsFiniteSet(Parsed(f))
    <2>1. Parsed(f) \in SUBSET (1 .. Len(f))
      BY DEF Parsed
    <2>2. IsFiniteSet(1 .. Len(f))
      BY FS_Interval
    <2> QED
      BY <2>1, <2>2, FS_Subset
  <1>2. \A j \in Parsed(f) : priority(f, j) = RTE_ACL_MAX_PRIORITY - Rank(Parsed(f), j)
    BY Zenon DEF priority, total_num, Rank
  <1>3. RTE_ACL_MAX_PRIORITY \in Nat
    BY PacketPathAssumption
  <1>4. \A j \in Parsed(f) : Rank(Parsed(f), j) \in Nat
    <2>1. Cardinality(Parsed(f)) \in Nat
      BY <1>1, FS_CardinalityType
    <2> QED
      BY <1>1, <2>1, RankFacts
  <1>5. \A j, e \in Parsed(f) : j < e => Rank(Parsed(f), j) < Rank(Parsed(f), e)
    BY <1>1, RankFacts
  <1> HIDE DEF Parsed, priority
  <1> QED
    BY <1>2, <1>3, <1>4, <1>5

\* The number of entries before a line.
LEMMA BeforeType ==
  ASSUME NEW f, Len(f) \in Nat, DOMAIN f = 1 .. Len(f), NEW e, NEW lead
  PROVE  Before(f, e, lead) \in Nat
  <1> DEFINE B == {j \in Parsed(f) : j < e /\ f[j].lead = lead}
  <1>1. B \in SUBSET (1 .. Len(f)) /\ IsFiniteSet(1 .. Len(f))
    BY FS_Interval DEF Parsed
  <1>2. Before(f, e, lead) = Cardinality(B)
    BY DEF Before
  <1> HIDE DEF B
  <1>3. IsFiniteSet(B)
    BY <1>1, FS_Subset
  <1> QED
    BY <1>2, <1>3, FS_CardinalityType

\* The entry of the first rule that matches is the one of highest priority.
LEMMA FirstIsClassified ==
  ASSUME NEW f, Len(f) \in Nat, DOMAIN f = 1 .. Len(f), ~ RulesRejected(f, Ports),
         NEW p, NEW j, IsFirst(f, p, j)
  PROVE  rte_acl_classify(setup_acl(f), p) = userdata(f, j)
  <1> DEFINE hits == {e \in setup_acl(f) : p \in e.match}
             best(e) == e \in hits /\ \A g \in hits : e.priority >= g.priority
  <1>1. j \in Parsed(f) /\ j \in Nat /\ p \in f[j].match
    <2>1. j \in DOMAIN f /\ f[j].lead \in {"R", "@"} /\ p \in f[j].match
      BY Zenon DEF IsFirst, Hits
    <2>2. f[j].lead \notin {"#", " "}
      BY <2>1
    <2>3. j \in Parsed(f)
      BY <2>1, <2>2, Zenon DEF Parsed, is_bypass_line
    <2>4. j \in Nat
      BY <2>1
    <2> QED
      BY <2>1, <2>3, <2>4
  <1>2. \A e : e \in setup_acl(f) <=> \E i \in Parsed(f) : e = Entry(f, i)
    BY AcceptedLines DEF setup_acl, add_rules
  <1>3. \A i \in Parsed(f) : p \in f[i].match => i \in Hits(f, p)
    BY AcceptedLines DEF Hits, Parsed
  <1>4. Entry(f, j) \in hits
    BY <1>1, <1>2 DEF Entry
  <1>5. \A e \in hits : \E i \in Parsed(f) : e = Entry(f, i) /\ j <= i /\ i \in Nat
    <2> SUFFICES ASSUME NEW e \in hits
                 PROVE  \E i \in Parsed(f) : e = Entry(f, i) /\ j <= i /\ i \in Nat
      OBVIOUS
    <2>1. PICK i \in Parsed(f) : e = Entry(f, i)
      BY <1>2
    <2>2. e.match = f[i].match
      BY <2>1 DEF Entry
    <2>3. i \in Hits(f, p)
      BY <1>3, <2>1, <2>2
    <2>4. j <= i /\ i \in Nat
      BY <2>1, <2>3 DEF IsFirst, Parsed
    <2> QED
      BY <2>1, <2>4
  <1>6. \A e \in hits : e = Entry(f, j) \/ Entry(f, j).priority > e.priority
    <2> SUFFICES ASSUME NEW e \in hits, e # Entry(f, j) PROVE Entry(f, j).priority > e.priority
      OBVIOUS
    <2>1. PICK i \in Parsed(f) : e = Entry(f, i) /\ j <= i /\ i \in Nat
      BY <1>5
    <2>2. j < i
      BY <1>1, <2>1
    <2>3. priority(f, j) > priority(f, i)
      BY <1>1, <2>1, <2>2, EarlierIsHigher
    <2> QED
      BY <2>1, <2>3 DEF Entry
  <1>7. Entry(f, j).priority \in Int /\ \A e \in hits : e.priority \in Int
    <2>1. \A i \in Parsed(f) : Entry(f, i).priority \in Int
      BY EarlierIsHigher DEF Entry
    <2> HIDE DEF hits
    <2> QED
      BY <1>1, <1>5, <2>1
  <1> HIDE DEF hits
  <1>8. best(Entry(f, j)) /\ \A e : best(e) => e = Entry(f, j)
    BY <1>4, <1>6, <1>7
  <1>9. (CHOOSE e \in hits : \A g \in hits : e.priority >= g.priority) = Entry(f, j)
    BY <1>8
  <1>10. rte_acl_classify(setup_acl(f), p) = Entry(f, j).userdata
    <2>1. hits # {}
      BY <1>4
    <2> QED
      BY <1>9, <2>1, Zenon DEF rte_acl_classify, hits
  <1> QED
    BY <1>10 DEF Entry

\* The userdata of a route is read back as its port, that of an ACL entry as a drop.
LEMMA Verdict ==
  ASSUME NEW f, Len(f) \in Nat, DOMAIN f = 1 .. Len(f), ~ RulesRejected(f, Ports),
         NEW j \in Parsed(f)
  PROVE  send_one_packet(userdata(f, j)) = IF f[j].lead = "R" THEN f[j].port ELSE -1
  <1>1. /\ FWD_PORT_SHIFT \in Nat \ {0} /\ ACL_DENY_SIGNATURE \in Nat /\ Ports \subseteq Nat
        /\ \A q \in Ports : q + FWD_PORT_SHIFT < ACL_DENY_SIGNATURE
    BY PacketPathAssumption
  <1>2. Before(f, j, "@") \in Nat
    BY BeforeType
  <1>3. f[j].lead = "R" => f[j].port \in Ports
    BY AcceptedLines
  <1>4. CASE f[j].lead = "R"
    <2>1. userdata(f, j) = f[j].port + FWD_PORT_SHIFT
      BY <1>4 DEF userdata
    <2>2. f[j].port \in Ports /\ f[j].port \in Nat
      BY <1>1, <1>3, <1>4
    <2>3. userdata(f, j) # 0 /\ userdata(f, j) < ACL_DENY_SIGNATURE
      BY <1>1, <2>1, <2>2
    <2>4. send_one_packet(userdata(f, j)) = userdata(f, j) - FWD_PORT_SHIFT
      BY <2>3, Zenon DEF send_one_packet
    <2>5. userdata(f, j) - FWD_PORT_SHIFT = f[j].port
      BY <1>1, <2>1, <2>2
    <2> QED
      BY <1>4, <2>4, <2>5
  <1>5. CASE f[j].lead # "R"
    <2>1. userdata(f, j) = ACL_DENY_SIGNATURE + Before(f, j, "@")
      BY <1>5 DEF userdata
    <2>2. ~ (userdata(f, j) < ACL_DENY_SIGNATURE)
      BY <1>1, <1>2, <2>1
    <2> QED
      BY <1>5, <2>2 DEF send_one_packet
  <1> QED
    BY <1>4, <1>5

\* The context is made from the file or not at all.
LEMMA AclInvStep ==
  ASSUME AclInv, [Next]_vars
  PROVE  AclInv'
  <1>1. UNCHANGED <<build, file>>
    BY DEF Next, vars, acls, LoadRules, LoadFails, Receive, prepare_acl_parameter, StopReceived,
           ProcessPacket, TransmitSingle, Accumulate, EndSweep, CaptureBurst, EmptyBurst
  <1>2. CASE LoadRules
    BY <1>1, <1>2 DEF AclInv, LoadRules
  <1>3. CASE ~ LoadRules
    <2>1. UNCHANGED acl
      BY <1>3 DEF Next, vars, acls, LoadFails, Receive, prepare_acl_parameter, StopReceived,
           ProcessPacket, TransmitSingle, Accumulate, EndSweep, CaptureBurst, EmptyBurst
    <2> QED
      BY <1>1, <2>1 DEF AclInv
  <1> QED
    BY <1>2, <1>3

\* The first line of the rule file that matches a packet decides what becomes of it.
THEOREM FirstLineDecides == Spec => []FirstMatchDecides
  <1>1. Init => AclInv
    BY DEF Init, AclInv
  <1>2. AclInv => FirstMatchDecides
    <2> SUFFICES ASSUME AclInv, acl # {}, NEW p, Hits(file, p) # {}
                 PROVE  LET first == CHOOSE j \in Hits(file, p) : \A i \in Hits(file, p) : j <= i
                        IN  send_one_packet(rte_acl_classify(acl, p))
                              = IF file[first].lead = "R" THEN file[first].port ELSE -1
      BY DEF FirstMatchDecides, Hits
    <2> DEFINE first == CHOOSE j \in Hits(file, p) : \A i \in Hits(file, p) : j <= i
    <2>1. Len(file) \in Nat /\ DOMAIN file = 1 .. Len(file)
      BY PacketPathAssumption DEF AclInv
    <2>2. Hits(file, p) \subseteq Nat
      BY <2>1 DEF Hits
    <2>3. \E j \in Hits(file, p) : \A i \in Hits(file, p) : j <= i
      BY <2>2, Smallest
    <2>4. IsFirst(file, p, first)
      BY <2>3, Zenon DEF IsFirst
    <2>5. first \in Parsed(file)
      BY <2>4 DEF IsFirst, Hits, Parsed, is_bypass_line
    <2>6. acl = setup_acl(file) /\ ~ RulesRejected(file, Ports)
      BY DEF AclInv
    <2> HIDE DEF first
    <2>7. rte_acl_classify(acl, p) = userdata(file, first)
      BY <2>1, <2>4, <2>6, FirstIsClassified, Zenon
    <2>8. send_one_packet(userdata(file, first))
            = IF file[first].lead = "R" THEN file[first].port ELSE -1
      BY <2>1, <2>5, <2>6, Verdict, Zenon
    <2> QED
      BY <2>7, <2>8 DEF first
  <1> QED
    BY <1>1, <1>2, AclInvStep, PTL DEF Spec

=============================================================================
