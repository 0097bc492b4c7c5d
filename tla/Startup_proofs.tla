--------------------------- MODULE Startup_proofs ---------------------------
(***************************************************************************)
(* Proofs about Startup and the division of the ports, for every machine   *)
(* and every command line.                                                 *)
(***************************************************************************)
EXTENDS Startup, Numbers_proofs

-----------------------------------------------------------------------------
(***************************************************************************)
(* The smallest and the largest member of a set.                           *)
(***************************************************************************)

\* Min finds the smallest member of a set of natural numbers.
LEMMA MinFacts ==
  ASSUME NEW S, S \subseteq Nat, S # {}
  PROVE  Min(S) \in S /\ \A y \in S : Min(S) <= y
  <1> DEFINE R == OpToRel(<, Nat)
  <1>1. \E x \in S : \A y \in S : ~ (<<y, x>> \in R)
    <2>1. IsWellFoundedOn(R, Nat)
      BY NatLessThanWellFounded
    <2> HIDE DEF R
    <2> QED
      BY <2>1, WFMin
  <1>2. \A x, y \in Nat : y < x => <<y, x>> \in R
    BY DEF OpToRel
  <1> HIDE DEF R
  <1>3. \A x, y \in Nat : ~ (y < x) => x <= y
    OBVIOUS
  <1>4. \E x \in S : \A y \in S : x <= y
    BY <1>1, <1>2, <1>3
  <1> QED
    BY <1>4, Zenon DEF Min

\* Max finds the largest member of a finite set of natural numbers.
LEMMA MaxFacts ==
  ASSUME NEW S, S \subseteq Nat, IsFiniteSet(S), S # {}
  PROVE  Max(S) \in S /\ \A y \in S : y <= Max(S)
  <1>1. Cardinality(S) \in Nat /\ Cardinality(S) # 0
    BY FS_CardinalityType, FS_EmptySet
  <1>2. Cardinality(S)-1 \in 0 .. Cardinality(S)-1
    BY <1>1
  <1>3. PICK x \in S : Rank(S, x) = Cardinality(S)-1
    BY <1>2, RankFacts, Zenon
  <1>4. ASSUME NEW y \in S PROVE x >= y
    <2>1. Rank(S, y) \in 0 .. Cardinality(S)-1 /\ (x < y => Rank(S, x) < Rank(S, y))
      BY RankFacts
    <2> QED
      BY <1>1, <1>3, <2>1
  <1>5. \E z \in S : \A y \in S : z >= y
    BY <1>4
  <1>6. Max(S) \in S /\ \A y \in S : Max(S) >= y
    BY <1>5, Zenon DEF Max
  <1> QED
    BY <1>6

\* Alternate ports are paired both ways, and the odd one out with itself.
LEMMA DstAlternateFacts ==
  ASSUME NEW S, S \subseteq Nat, IsFiniteSet(S), NEW p \in S
  PROVE  DstAlternate(S, p) \in S /\ DstAlternate(S, DstAlternate(S, p)) = p
  <1> DEFINE Below(x) == {o \in S : o < x}
             Above(x) == {o \in S : o > x}
  <1>0. \A x \in S : x \in Nat /\ Rank(S, x) \in Nat
    <2>1. Cardinality(S) \in Nat
      BY FS_CardinalityType
    <2>2. \A x \in S : Rank(S, x) \in 0 .. Cardinality(S)-1
      BY RankFacts, Zenon
    <2> QED
      BY <2>1, <2>2
  <1>1. ASSUME NEW x \in S
        PROVE  /\ Rank(S, x) % 2 = 1 => DstAlternate(S, x) = Max(Below(x))
               /\ Rank(S, x) % 2 # 1 /\ Above(x) # {} => DstAlternate(S, x) = Min(Above(x))
               /\ Rank(S, x) % 2 # 1 /\ Above(x) = {} => DstAlternate(S, x) = x
    BY Zenon DEF DstAlternate
  <1>2. ASSUME NEW x \in S, Below(x) # {}
        PROVE  Max(Below(x)) \in Below(x) /\ \A y \in Below(x) : y <= Max(Below(x))
    <2>1. Below(x) \subseteq Nat /\ IsFiniteSet(Below(x))
      BY FS_Subset
    <2> QED
      BY <1>2, <2>1, MaxFacts
  <1>3. ASSUME NEW x \in S, Above(x) # {}
        PROVE  Min(Above(x)) \in Above(x) /\ \A y \in Above(x) : Min(Above(x)) <= y
    <2>1. Above(x) \subseteq Nat
      OBVIOUS
    <2> QED
      BY <1>3, <2>1, MinFacts
  <1>4. CASE Rank(S, p) % 2 = 1
    <2>1. Below(p) # {}
      <3> SUFFICES ASSUME Below(p) = {} PROVE FALSE
        OBVIOUS
      <3>1. Rank(S, p) = 0
        BY FS_EmptySet DEF Rank
      <3> QED
        BY <1>4, <3>1
    <2>2. PICK q \in S : q = Max(Below(p)) /\ q < p /\ \A y \in S : y < p => y <= q
      BY <1>2, <2>1
    <2>3. Rank(S, p) = Rank(S, q) + 1
      <3>1. \A o \in S : ~ (q < o /\ o < p)
        BY <1>0, <2>2
      <3> QED
        BY <2>2, <3>1, NextRank
    <2>4. Rank(S, q) % 2 # 1
      BY <1>0, <1>4, <2>3
    <2>5. Above(q) # {} /\ p \in Above(q)
      BY <1>0, <2>2
    <2>6. Min(Above(q)) = p
      <3>1. PICK m \in S : m = Min(Above(q)) /\ m > q /\ m <= p
        BY <1>3, <2>5
      <3> QED
        BY <1>0, <2>2, <3>1
    <2> QED
      BY <1>1, <1>4, <2>2, <2>4, <2>5, <2>6
  <1>5. CASE Rank(S, p) % 2 # 1 /\ Above(p) # {}
    <2>1. PICK q \in S : q = Min(Above(p)) /\ p < q /\ \A y \in S : y > p => q <= y
      BY <1>0, <1>3, <1>5
    <2>2. Rank(S, q) = Rank(S, p) + 1
      <3>1. \A o \in S : ~ (p < o /\ o < q)
        BY <1>0, <2>1
      <3> QED
        BY <2>1, <3>1, NextRank
    <2>3. Rank(S, q) % 2 = 1
      BY <1>0, <1>5, <2>2
    <2>4. Below(q) # {} /\ p \in Below(q)
      BY <1>0, <2>1
    <2>5. Max(Below(q)) = p
      <3>1. PICK m \in S : m = Max(Below(q)) /\ m < q /\ p <= m
        BY <1>2, <2>4
      <3> QED
        BY <1>0, <2>1, <3>1
    <2> QED
      BY <1>1, <1>5, <2>1, <2>3, <2>5
  <1>6. CASE Rank(S, p) % 2 # 1 /\ Above(p) = {}
    BY <1>1, <1>6
  <1> QED
    BY <1>4, <1>5, <1>6

\* Each port of a pair is the other's destination.
LEMMA DstOfPairFacts ==
  ASSUME NEW pairs \in Seq(Nat \X Nat),
         \A i, j \in DOMAIN pairs : i # j => PairPorts(pairs[i]) \cap PairPorts(pairs[j]) = {},
         NEW p \in PairMask(pairs)
  PROVE  /\ DstOfPair(pairs, p) \in PairMask(pairs)
         /\ DstOfPair(pairs, DstOfPair(pairs, p)) = p
  <1>1. PICK i \in DOMAIN pairs : p \in PairPorts(pairs[i])
    BY DEF PairMask
  <1>2. i \in Nat
    OBVIOUS
  <1>3. ASSUME NEW o \in PairPorts(pairs[i])
        PROVE  DstOfPair(pairs, o) = IF pairs[i][2] = o THEN pairs[i][1] ELSE pairs[i][2]
    <2>1. {j \in DOMAIN pairs : o \in PairPorts(pairs[j])} = {i}
      BY <1>3
    <2>2. Max({i}) = i
      BY <1>2 DEF Max
    <2> QED
      BY <2>1, <2>2, Zenon DEF DstOfPair
  <1>4. \A o \in PairPorts(pairs[i]) : o \in PairMask(pairs)
    BY DEF PairMask
  <1>5. PICK a, b : a = pairs[i][1] /\ b = pairs[i][2]
    OBVIOUS
  <1>6. PairPorts(pairs[i]) = {a, b}
    BY <1>5 DEF PairPorts
  <1> QED
    BY <1>1, <1>3, <1>4, <1>5, <1>6

\* The ports in a list.
Listed(list) == {list[i] : i \in DOMAIN list}

\* locality gives an lcore the enabled ports whose rank is in its share.
LEMMA RxPortListFacts ==
  ASSUME NEW S, S \subseteq Nat, IsFiniteSet(S),
         NEW L, L \subseteq Nat, IsFiniteSet(L),
         NEW each \in Nat \ {0}, NEW l \in L, NEW p
  PROVE  p \in Listed(rx_port_list(S, L, each)[l]) <=>
           p \in S /\ Rank(S, p) \in each * Rank(L, l) .. each * (Rank(L, l) + 1) - 1
  <1> DEFINE n == Cardinality(S)
             from == each * Rank(L, l)
             upto == each * (Rank(L, l) + 1)
             last == Min({upto, n})
             list == rx_port_list(S, L, each)[l]
  <1>1. n \in Nat /\ Rank(L, l) \in Nat
    <2>1. Cardinality(L) \in Nat /\ Rank(L, l) \in 0 .. Cardinality(L)-1
      BY RankFacts, FS_CardinalityType
    <2> QED
      BY <2>1, FS_CardinalityType
  <1>2. from \in Nat /\ upto \in Nat /\ upto = from + each
    BY <1>1
  <1> HIDE DEF from, upto
  <1>3. last \in Nat /\ last <= upto /\ last <= n /\ (last = upto \/ last = n)
    BY <1>1, <1>2, MinFacts, {upto, n} \subseteq Nat, {upto, n} # {}
  <1>4. list = SubSeq(Ascending(S), from + 1, last)
    BY Zenon DEF rx_port_list, from, upto
  <1> HIDE DEF n, last, list
  <1>5. Ascending(S) \in Seq(S) /\ Len(Ascending(S)) = n
    BY AscendingFacts DEF n
  <1>6. /\ DOMAIN list = 1 .. last - from
        /\ \A i \in 1 .. last - from : list[i] = Ascending(S)[from + i]
    BY <1>1, <1>2, <1>3, <1>4, <1>5
  <1>7. ASSUME NEW i \in 1 .. last - from
        PROVE  list[i] \in S /\ Rank(S, list[i]) = from + i - 1
    <2>1. from + i \in 1 .. n
      BY <1>1, <1>2, <1>3
    <2>2. /\ \A j \in 1 .. n : Ascending(S)[j] \in S
          /\ \A j \in 1 .. n : Rank(S, Ascending(S)[j]) = j - 1
      BY AscendingFacts DEF n
    <2>3. PICK j \in 1 .. n : j = from + i
      BY <2>1
    <2>4. list[i] = Ascending(S)[j]
      BY <1>6, <2>3
    <2>5. Ascending(S)[j] \in S /\ Rank(S, Ascending(S)[j]) = j - 1
      BY <2>2
    <2>6. list[i] \in S /\ Rank(S, list[i]) = j - 1
      BY <2>4, <2>5, Zenon
    <2> QED
      BY <1>2, <2>3, <2>6
  <1>8. ASSUME NEW x \in S, Rank(S, x) \in from .. upto - 1
        PROVE  \E i \in 1 .. last - from : x = list[i]
    <2>1. Rank(S, x) \in 0 .. n-1
      BY RankFacts DEF n
    <2>2. Rank(S, x) - from + 1 \in 1 .. last - from
      BY <1>1, <1>2, <1>3, <1>8, <2>1
    <2>3. PICK i \in 1 .. last - from : i = Rank(S, x) - from + 1
      BY <2>2
    <2>4. Rank(S, list[i]) = Rank(S, x) /\ list[i] \in S
      BY <1>1, <1>2, <1>7, <2>1, <2>3
    <2>5. x = list[i]
      BY <2>4, RankFacts
    <2> QED
      BY <2>5
  <1>9. \A i \in 1 .. last - from : Rank(S, list[i]) \in from .. upto - 1
    BY <1>1, <1>2, <1>3, <1>7
  <1>10. p \in Listed(list) <=> p \in S /\ Rank(S, p) \in from .. upto - 1
    BY <1>6, <1>7, <1>8, <1>9 DEF Listed
  <1> QED
    BY <1>10 DEF list, from, upto

\* Exactly one lcore has the port in its list.
OnePoller(p, L, lists) == \E l \in L : \A m \in L : p \in Listed(lists[m]) <=> m = l

\* With enough lcores every enabled port is polled by exactly one of them.
LEMMA OnePollerEach ==
  ASSUME NEW S, S \subseteq Nat, IsFiniteSet(S),
         NEW L, L \subseteq Nat, IsFiniteSet(L),
         NEW each \in Nat \ {0}, EnoughCores(S, L, each), NEW p \in S
  PROVE  OnePoller(p, L, rx_port_list(S, L, each))
  <1> DEFINE r == Rank(S, p)
             k == r \div each
  <1>1. r \in Nat /\ r < Cardinality(S) /\ Cardinality(S) \in Nat /\ Cardinality(L) \in Nat
    <2>1. Cardinality(S) \in Nat /\ r \in 0 .. Cardinality(S)-1
      BY RankFacts, FS_CardinalityType
    <2> QED
      BY <2>1, FS_CardinalityType
  <1> HIDE DEF r
  <1>2. k \in Nat /\ each * k <= r /\ r < each * k + each
    BY <1>1, DivBounds
  <1>3. k < Cardinality(L)
    <2>1. r < Cardinality(L) * each
      BY <1>1 DEF EnoughCores
    <2> QED
      BY <1>1, <2>1, DivAtLeast
  <1>4. ASSUME NEW j \in Nat PROVE r \in each * j .. each * (j + 1) - 1 <=> j = k
    <2>1. each * j \in Nat /\ each * (j + 1) \in Nat /\ each * (j + 1) = each * j + each
      OBVIOUS
    <2>2. each * k \in Nat /\ each * (k + 1) = each * k + each
      BY <1>2
    <2>3. CASE j = k
      BY <1>1, <1>2, <2>1, <2>2, <2>3
    <2>4. CASE j < k
      <3>1. (j + 1) * each <= k * each
        BY <1>2, <2>4, MulMono
      <3> QED
        BY <1>1, <1>2, <2>1, <2>2, <2>4, <3>1
    <2>5. CASE j > k
      <3>1. (k + 1) * each <= j * each
        BY <1>2, <2>5, MulMono
      <3> QED
        BY <1>1, <1>2, <2>1, <2>2, <2>5, <3>1
    <2> QED
      BY <1>2, <2>3, <2>4, <2>5
  <1> HIDE DEF k
  <1>5. PICK l \in L : Rank(L, l) = k
    <2>1. k \in 0 .. Cardinality(L)-1
      BY <1>1, <1>2, <1>3
    <2>2. \A j \in 0 .. Cardinality(L)-1 : \E l \in L : Rank(L, l) = j
      BY RankFacts
    <2> QED
      BY <2>1, <2>2
  <1>6. ASSUME NEW m \in L
        PROVE  p \in Listed(rx_port_list(S, L, each)[m]) <=> m = l
    <2>1. Rank(L, m) \in Nat
      <3>1. Rank(L, m) \in 0 .. Cardinality(L)-1
        BY RankFacts, Zenon
      <3> QED
        BY <1>1, <3>1
    <2>2. r \in each * Rank(L, m) .. each * (Rank(L, m) + 1) - 1 <=> Rank(L, m) = k
      BY <1>4, <2>1
    <2>3. Rank(L, m) = k <=> m = l
      <3>1. \A x, y \in L : Rank(L, x) = Rank(L, y) => x = y
        BY RankFacts
      <3> QED
        BY <1>5, <3>1
    <2>4. p \in Listed(rx_port_list(S, L, each)[m]) <=>
            p \in S /\ Rank(S, p) \in each * Rank(L, m) .. each * (Rank(L, m) + 1) - 1
      BY RxPortListFacts, Zenon
    <2> QED
      BY <2>2, <2>3, <2>4, Zenon DEF r
  <1> QED
    BY <1>6, Zenon DEF OnePoller

-----------------------------------------------------------------------------
(***************************************************************************)
(* The inductive invariant, in parts.                                      *)
(***************************************************************************)

\* The values an int can have.
IntRange == -(2^(IntBits-1)) .. 2^(IntBits-1) - 1

\* The entries of --config.
Param == [port_id : Nat, queue_id : Nat, lcore_id : Nat]

\* The options of qflow.h, in the types they are stored in.
QflowOpts ==
  [aggressive : BOOLEAN, penalty : BOOLEAN, penalty_turns : Int, latency : BOOLEAN,
   latency_queue : IntRange, latency_period : Int, mode : {"single", "partitioned", "shared"}]

\* What parsing keeps true, however often an option is given; the number of
\* queues is a uint16_t where a latency queue is compared with it.
OptionsInv ==
  /\ pc \in {"parse", "checked", "pools", "clear", "running", "exit", "crashed"}
  /\ machine \in Machines
  /\ qflow \in QflowOpts
  /\ queues \in Nat \ {0}
  /\ machine.app # "locality" => queues < 2^ShortBits
  /\ machine.app = "locality" => qflow.mode = "single"
  /\ enabled_port_mask \subseteq Nat /\ IsFiniteSet(enabled_port_mask)
  /\ lcore_params \in Seq(Param)
  /\ port_pair_params \subseteq Portmaps

\* The command line has been accepted.
Accepted == pc \in {"checked", "pools", "clear", "running"}

\* The polled ports of locality: each has one lcore, and they are paired up.
LocalityInv ==
  /\ enabled_port_mask \subseteq Present
  /\ \A p \in enabled_port_mask :
       /\ dst_ports[p] \in enabled_port_mask /\ dst_ports[dst_ports[p]] = p
       /\ OnePoller(p, machine.lcores, rx_ports)
  /\ \A l \in machine.lcores : Listed(rx_ports[l]) \subseteq enabled_port_mask

\* What an accepted command line has established.
AcceptedInv ==
  Accepted =>
    /\ machine.app # "locality" => ~ Rejected
    /\ machine.app = "mica" => /\ active_io_lcores \in Nat \ {0}
                               /\ active_io_lcores <= queues
    /\ machine.app = "nf-chain" =>
         /\ \A l \in machine.lcores : rx_ports[l] \in Seq(enabled_port_mask \cap Present)
         /\ lcore_params # <<>> => enabled_port_mask \cap Present # {}
    /\ machine.app = "locality" => LocalityInv

\* What the set-up has built so far.
SetupInv ==
  /\ pc = "parse" => active_io_lcores = 1
  /\ pc \in {"parse", "checked"} => rx_pool = <<>> /\ ports_up = <<>>
  /\ pc \in {"pools", "clear", "running"} /\ machine.app # "locality" =>
       /\ qflow.mode = "partitioned" => mbuf_pools = Pollers
       /\ \A x \in DOMAIN rx_pool : x \in 0 .. queues-1 /\ rx_pool[x] = PoolFor(x)
       /\ ports_up # <<>> => \A k \in Pollers : k < n_tx_queue
  /\ pc \in {"clear", "running"} => PortsLeft = {}

\* The inductive invariant.
StartInv == OptionsInv /\ AcceptedInv /\ SetupInv

\* The machine has lcores, and finitely many.
LEMMA MachineFacts ==
  ASSUME machine \in Machines
  PROVE  /\ machine.app \in {"mica", "nf-chain", "locality"}
         /\ machine.lcores \subseteq Nat /\ IsFiniteSet(machine.lcores)
         /\ nb_lcores \in Nat \ {0}
         /\ machine.max_tx_queues \in Nat /\ machine.nb_ports \in Nat
  <1>1. /\ machine.app \in {"mica", "nf-chain", "locality"}
        /\ machine.lcores \subseteq Nat /\ IsFiniteSet(machine.lcores) /\ machine.lcores # {}
        /\ machine.max_tx_queues \in Nat /\ machine.nb_ports \in Nat
    BY StartupAssumption
  <1>2. nb_lcores \in Nat \ {0}
    BY <1>1, FS_CardinalityType, FS_EmptySet DEF nb_lcores
  <1> QED
    BY <1>1, <1>2

\* Narrowing to an unsigned and to a signed type.
LEMMA Narrowing ==
  ASSUME NEW v \in Nat
  PROVE  /\ ToUnsigned(ShortBits, v) \in Nat /\ ToUnsigned(ShortBits, v) < 2^ShortBits
         /\ ToUnsigned(IntBits, v) \in Nat
         /\ ToInt(IntBits, v) \in IntRange
  <1> DEFINE h == 2^(IntBits-1)  s == 2^ShortBits
  <1>1. h \in Nat \ {0} /\ s \in Nat \ {0} /\ 2^IntBits = 2 * h
    BY WidthAssumption
  <1> HIDE DEF h, s
  <1>2. v % s \in 0 .. s-1 /\ v % (2 * h) \in 0 .. 2*h - 1
    <2>1. 2 * h \in Nat \ {0}
      BY <1>1
    <2> QED
      BY <1>1, <2>1, DivBounds
  <1>3. /\ ToUnsigned(ShortBits, v) = v % s /\ ToUnsigned(IntBits, v) = v % (2 * h)
        /\ ToInt(IntBits, v) = IF v % (2 * h) >= h THEN (v % (2 * h)) - 2 * h ELSE v % (2 * h)
    BY <1>1, Zenon DEF ToUnsigned, ToInt, h, s
  <1>4. IntRange = -h .. h - 1
    BY DEF IntRange, h
  <1>5. v % s \in Nat /\ v % s < s /\ v % (2 * h) \in Nat
    BY <1>1, <1>2
  <1>6. ToInt(IntBits, v) \in -h .. h - 1
    BY <1>1, <1>2, <1>3
  <1> QED
    BY <1>3, <1>4, <1>5, <1>6 DEF s

\* A latency queue that qflow_check() accepts is a queue, although it is an int
\* that is compared as an unsigned one.
LEMMA LatencyQueueExists ==
  ASSUME NEW q \in IntRange, NEW n \in Nat, n < 2^ShortBits, ToUnsigned(IntBits, q) < n
  PROVE  q \in 0 .. n-1
  <1> DEFINE h == 2^(IntBits-1)
  <1>1. h \in Nat \ {0} /\ 2^IntBits = 2 * h /\ n < h
    BY WidthAssumption
  <1> HIDE DEF h
  <1>2. q \in -h .. h-1 /\ q % (2 * h) < n
    BY <1>1, Zenon DEF IntRange, ToUnsigned, h
  <1>3. CASE q >= 0
    <2>1. q % (2 * h) = q
      BY <1>1, <1>2, <1>3
    <2> QED
      BY <1>1, <1>2, <1>3, <2>1
  <1>4. CASE q < 0
    <2>1. q % (2 * h) = q + 2 * h
      BY <1>1, <1>2, <1>4
    <2> QED
      BY <1>1, <1>2, <1>4, <2>1
  <1> QED
    BY <1>1, <1>2, <1>3, <1>4

-----------------------------------------------------------------------------
(***************************************************************************)
(* The invariant is inductive: one lemma for each kind of step.            *)
(***************************************************************************)

\* The program starts with the default options, on some machine.
LEMMA StartInvInit == Init => StartInv
  <1> SUFFICES ASSUME Init PROVE StartInv
    OBVIOUS
  <1> USE DEF Init
  <1>1. qflow \in QflowOpts
    <2>1. 0 \in IntRange
      <3>1. 2^(IntBits-1) \in Nat \ {0}
        BY WidthAssumption
      <3> QED
        BY <3>1 DEF IntRange
    <2> QED
      BY <2>1, StartupAssumption DEF QflowOpts
  <1>2. lcore_params \in Seq(Param)
    <2>1. \A p, q, l \in Nat : LcoreParam(p, q, l) \in Param
      BY DEF LcoreParam, Param
    <2>2. /\ LcoreParam(0, 0, 2) \in Param /\ LcoreParam(0, 1, 2) \in Param
          /\ LcoreParam(0, 2, 2) \in Param /\ LcoreParam(1, 0, 2) \in Param
          /\ LcoreParam(1, 1, 2) \in Param /\ LcoreParam(1, 2, 2) \in Param
          /\ LcoreParam(2, 0, 2) \in Param /\ LcoreParam(3, 0, 3) \in Param
          /\ LcoreParam(3, 1, 3) \in Param
      BY <2>1
    <2> QED
      BY <2>2 DEF lcore_params_array_default
  <1>3. OptionsInv
    BY <1>1, <1>2, StartupAssumption, WidthAssumption, FS_EmptySet DEF OptionsInv
  <1> QED
    BY <1>3 DEF StartInv, AcceptedInv, Accepted, SetupInv

\* A step of the parser.
LEMMA ParseStep ==
  ASSUME StartInv, pc = "parse", pc' = "parse", UNCHANGED <<machine, roles, setup>>, OptionsInv'
  PROVE  StartInv'
  BY DEF StartInv, AcceptedInv, Accepted, SetupInv, roles, setup

\* Each option keeps the options in their ranges.
LEMMA QflowStep ==
  ASSUME StartInv, ParsingQflow, qflow' \in QflowOpts
  PROVE  StartInv'
  <1>1. OptionsInv'
    BY DEF ParsingQflow, Parsing, StartInv, OptionsInv
  <1> QED
    BY <1>1, ParseStep DEF ParsingQflow, Parsing

\* An option that was parsed leaves the values in their ranges.
LEMMA OptionsStep ==
  ASSUME StartInv,
         \/ \E p \in Policies : ParsePolicy(p)
         \/ \E v \in Turns : ParsePenalty(v) \/ ParseLatencyPeriod(v)
         \/ \E v \in Numbers : ParseLatencyQueue(v) \/ ParseQueues(v)
         \/ \E m \in {"partitioned", "shared"} : ParseMulticore(m)
         \/ \E m \in Masks : ParsePortmask(m)
         \/ \E c \in Configs : ParseConfig(c)
         \/ \E pairs \in Portmaps : ParsePortmap(pairs)
  PROVE  StartInv'
  <1>0. qflow \in QflowOpts /\ OptionsInv
    BY DEF StartInv, OptionsInv
  <1>1. ASSUME NEW p \in Policies, ParsePolicy(p) PROVE StartInv'
    <2>1. PICK S, R : qflow' = [qflow EXCEPT !.aggressive = p \in S, !.penalty = p \in R]
      BY <1>1, Zenon DEF ParsePolicy
    <2>2. PICK a \in BOOLEAN, b \in BOOLEAN : a = (p \in S) /\ b = (p \in R)
      <3>1. (p \in S) \in BOOLEAN /\ (p \in R) \in BOOLEAN
        BY SMT
      <3> QED
        BY <3>1, Zenon
    <2>3. qflow' = [qflow EXCEPT !.aggressive = a, !.penalty = b]
      BY <2>1, <2>2, Zenon
    <2>4. [qflow EXCEPT !.aggressive = a, !.penalty = b] \in QflowOpts
      BY <1>0 DEF QflowOpts
    <2>5. qflow' \in QflowOpts
      BY <2>3, <2>4
    <2> QED
      BY <1>1, <2>5, QflowStep DEF ParsePolicy
  <1>2. ASSUME NEW v \in Turns, ParsePenalty(v) PROVE StartInv'
    <2>1. ToUnsigned(IntBits, v) \in Int
      BY Narrowing, StartupAssumption
    <2> QED
      BY <1>0, <1>2, <2>1, QflowStep DEF ParsePenalty, QflowOpts
  <1>3. ASSUME NEW v \in Turns, ParseLatencyPeriod(v) PROVE StartInv'
    <2>1. ToInt(IntBits, v) \in Int
      BY Narrowing, StartupAssumption, WidthAssumption DEF IntRange
    <2> QED
      BY <1>0, <1>3, <2>1, QflowStep DEF ParseLatencyPeriod, QflowOpts
  <1>4. ASSUME NEW v \in Numbers, ParseLatencyQueue(v) PROVE StartInv'
    <2>1. ToInt(IntBits, v) \in IntRange
      BY Narrowing, StartupAssumption
    <2> QED
      BY <1>0, <1>4, <2>1, QflowStep DEF ParseLatencyQueue, QflowOpts
  <1>5. ASSUME NEW m \in {"partitioned", "shared"}, ParseMulticore(m) PROVE StartInv'
    <2>1. qflow' \in QflowOpts
      BY <1>0, <1>5 DEF ParseMulticore, QflowOpts
    <2> QED
      BY <1>5, <2>1, QflowStep DEF ParseMulticore
  <1>6. ASSUME NEW v \in Numbers, ParseQueues(v) PROVE StartInv'
    <2>1. v \in Nat
      BY StartupAssumption
    <2>2. queues' \in Nat \ {0} /\ (machine.app # "locality" => queues' < 2^ShortBits)
      <3>1. CASE machine.app = "locality"
        BY <1>6, <2>1, <3>1, Narrowing DEF ParseQueues
      <3>2. CASE machine.app # "locality"
        BY <1>6, <2>1, <3>2, Narrowing DEF ParseQueues
      <3> QED
        BY <3>1, <3>2
    <2>3. OptionsInv'
      BY <1>0, <1>6, <2>2 DEF ParseQueues, Parsing, OptionsInv
    <2> QED
      BY <1>6, <2>3, ParseStep DEF ParseQueues, Parsing
  <1>7. ASSUME NEW m \in Masks, ParsePortmask(m) PROVE StartInv'
    <2>1. OptionsInv'
      BY <1>0, <1>7, StartupAssumption DEF ParsePortmask, Parsing, OptionsInv
    <2> QED
      BY <1>7, <2>1, ParseStep DEF ParsePortmask, Parsing
  <1>8. ASSUME NEW c \in Configs, ParseConfig(c) PROVE StartInv'
    <2>1. OptionsInv'
      BY <1>0, <1>8, StartupAssumption DEF ParseConfig, Parsing, OptionsInv, Param
    <2> QED
      BY <1>8, <2>1, ParseStep DEF ParseConfig, Parsing
  <1>9. ASSUME NEW pairs \in Portmaps, ParsePortmap(pairs) PROVE StartInv'
    <2>1. OptionsInv'
      BY <1>0, <1>9 DEF ParsePortmap, Parsing, OptionsInv
    <2> QED
      BY <1>9, <2>1, ParseStep DEF ParsePortmap, Parsing
  <1> QED
    BY <1>1, <1>2, <1>3, <1>4, <1>5, <1>6, <1>7, <1>8, <1>9

\* Steps that end the program.
LEMMA ExitStep ==
  ASSUME StartInv, pc' \in {"exit", "crashed"}, UNCHANGED <<machine, options, roles, setup>>
  PROVE  StartInv'
  BY DEF StartInv, OptionsInv, AcceptedInv, Accepted, SetupInv, options, roles, setup

\* The smallest of the three limits of active_io_lcores.
LEMMA ActiveLcores ==
  ASSUME NEW a \in Nat \ {0}, NEW b \in Nat \ {0}, NEW c \in Nat \ {0}
  PROVE  Min({a, b, c}) \in Nat \ {0} /\ Min({a, b, c}) <= b
  BY MinFacts, {a, b, c} \subseteq Nat, {a, b, c} # {}

\* mica accepts a command line.
LEMMA CheckMicaStep ==
  ASSUME StartInv, CheckMica
  PROVE  StartInv'
  <1> USE DEF CheckMica
  <1>0. OptionsInv /\ OptionsInv'
    BY DEF StartInv, OptionsInv, options, setup
  <1>1. active_io_lcores' \in Nat \ {0} /\ active_io_lcores' <= queues
    <2>1. queues \in Nat \ {0} /\ machine \in Machines /\ active_io_lcores = 1
      BY <1>0 DEF OptionsInv, StartInv, SetupInv
    <2>2. CASE qflow.mode # "single"
      <3>1. machine.max_tx_queues \in Nat \ {0} /\ nb_lcores \in Nat \ {0}
        BY <2>1, <2>2, MachineFacts DEF MicaRefuses
      <3> QED
        BY <2>1, <2>2, <3>1, ActiveLcores
    <2>3. CASE qflow.mode = "single"
      BY <2>1, <2>3
    <2> QED
      BY <2>2, <2>3
  <1>2. AcceptedInv'
    BY <1>1 DEF AcceptedInv, Rejected, LatencyQueueMissing, nb_lcores, options
  <1> QED
    BY <1>0, <1>2 DEF StartInv, SetupInv, setup

\* nf-chain accepts a command line: the ports of every list are those of entries
\* of --config, which are enabled and present.
LEMMA CheckNfStep ==
  ASSUME StartInv, CheckNf
  PROVE  StartInv'
  <1> USE DEF CheckNf
  <1>0. OptionsInv /\ OptionsInv'
    BY DEF StartInv, OptionsInv, options, setup
  <1> DEFINE usable == enabled_port_mask \cap Present
  <1>1. /\ lcore_params \in Seq(Param)
        /\ \A i \in DOMAIN lcore_params : lcore_params[i].port_id \in usable
    BY <1>0 DEF OptionsInv, NfRefuses, check_port_config
  <1> HIDE DEF usable
  <1>2. ASSUME NEW l \in machine.lcores PROVE rx_ports'[l] \in Seq(usable)
    <2> DEFINE I == {i \in DOMAIN lcore_params : lcore_params[i].lcore_id = l}
    <2>1. I \subseteq Nat /\ IsFiniteSet(I)
      <3>1. DOMAIN lcore_params = 1 .. Len(lcore_params) /\ Len(lcore_params) \in Nat
        BY <1>1
      <3>2. IsFiniteSet(1 .. Len(lcore_params))
        BY <3>1, FS_Interval
      <3> QED
        BY <3>1, <3>2, FS_Subset
    <2>2. rx_ports'[l] = [n \in DOMAIN Ascending(I) |-> lcore_params[Ascending(I)[n]].port_id]
      BY Zenon DEF init_lcore_rx_queues
    <2>3. I \subseteq DOMAIN lcore_params
      OBVIOUS
    <2> HIDE DEF I
    <2>4. /\ Ascending(I) \in [1 .. Cardinality(I) -> I] /\ Cardinality(I) \in Nat
      BY <2>1, AscendingFacts
    <2>5. rx_ports'[l] \in [1 .. Cardinality(I) -> usable]
      BY <1>1, <2>2, <2>3, <2>4
    <2> QED
      BY <2>4, <2>5
  <1>3. lcore_params # <<>> => usable # {}
    <2> SUFFICES ASSUME lcore_params # <<>> PROVE usable # {}
      OBVIOUS
    <2>1. 1 \in DOMAIN lcore_params
      BY <1>1
    <2> QED
      BY <1>1, <2>1
  <1>4. AcceptedInv'
    BY <1>2, <1>3 DEF AcceptedInv, Rejected, LatencyQueueMissing, nb_lcores, options, usable,
                        Present
  <1> QED
    BY <1>0, <1>4 DEF StartInv, SetupInv, setup

\* locality accepts a command line: the ports that stay enabled are paired up and
\* dealt out to the lcores.
LEMMA CheckLocalityStep ==
  ASSUME StartInv, CheckLocality
  PROVE  StartInv'
  <1> USE DEF CheckLocality
  <1>0. /\ OptionsInv /\ machine \in Machines /\ queues \in Nat \ {0}
        /\ port_pair_params \subseteq Portmaps
    BY DEF StartInv, OptionsInv
  <1> DEFINE E == EnabledPorts
             L == machine.lcores
  <1>1. /\ L \subseteq Nat /\ IsFiniteSet(L) /\ machine.nb_ports \in Nat
    BY <1>0, MachineFacts
  <1>2. E \subseteq Present /\ E \subseteq Nat /\ IsFiniteSet(E)
    <2>1. E \subseteq Present
      BY DEF LocalityRefuses
    <2>2. Present \subseteq Nat /\ IsFiniteSet(Present)
      BY <1>1, FS_Interval DEF Present
    <2> QED
      BY <2>1, <2>2, FS_Subset
  <1>3. EnoughCores(E, L, queues)
    BY DEF LocalityRefuses
  <1>4. /\ enabled_port_mask' = E /\ rx_ports' = rx_port_list(E, L, queues)
        /\ dst_ports' = [p \in E |-> IF Mapped THEN DstOfPair(Pairs, p) ELSE DstAlternate(E, p)]
        /\ machine' = machine /\ Present' = Present
    BY DEF Present
  <1>5. ASSUME NEW p \in E PROVE dst_ports'[p] \in E /\ dst_ports'[dst_ports'[p]] = p
    <2>1. CASE Mapped
      <3>1. Pairs \in Seq(Nat \X Nat)
        <4>1. Pairs \in port_pair_params
          BY <2>1, Zenon DEF Mapped, Pairs
        <4> QED
          BY <4>1, <1>0, StartupAssumption
      <3>2. E = PairMask(Pairs)
        BY <2>1 DEF EnabledPorts
      <3>3. \A i, j \in DOMAIN Pairs : i # j => PairPorts(Pairs[i]) \cap PairPorts(Pairs[j]) = {}
        BY <2>1 DEF LocalityRefuses, check_port_pair_config
      <3>4. DstOfPair(Pairs, p) \in PairMask(Pairs) /\ DstOfPair(Pairs, DstOfPair(Pairs, p)) = p
        BY <3>1, <3>2, <3>3, DstOfPairFacts
      <3> HIDE DEF E
      <3>5. \A o \in E : dst_ports'[o] = DstOfPair(Pairs, o)
        BY <1>4, <2>1
      <3> QED
        BY <3>2, <3>4, <3>5
    <2>2. CASE ~ Mapped
      <3> HIDE DEF E
      <3>1. DstAlternate(E, p) \in E /\ DstAlternate(E, DstAlternate(E, p)) = p
        BY <1>2, DstAlternateFacts
      <3>2. \A o \in E : dst_ports'[o] = DstAlternate(E, o)
        BY <1>4, <2>2
      <3> QED
        BY <3>1, <3>2
    <2> QED
      BY <2>1, <2>2
  <1> HIDE DEF E
  <1>6. ASSUME NEW p \in E
        PROVE  OnePoller(p, L, rx_port_list(E, L, queues))
    <2> HIDE DEF L
    <2>1. /\ L \subseteq Nat /\ IsFiniteSet(L)
      BY <1>1
    <2>2. EnoughCores(E, L, queues)
      BY <1>3
    <2>3. E \subseteq Nat /\ IsFiniteSet(E) /\ p \in E
      BY <1>2, <1>6
    <2>4. queues \in Nat \ {0}
      BY <1>0
    <2> QED
      BY <2>1, <2>2, <2>3, <2>4, OnePollerEach
  <1>7. ASSUME NEW l \in L PROVE Listed(rx_port_list(E, L, queues)[l]) \subseteq E
    <2> HIDE DEF L
    <2> SUFFICES ASSUME NEW p \in Listed(rx_port_list(E, L, queues)[l]) PROVE p \in E
      OBVIOUS
    <2> QED
      BY <1>0, <1>1, <1>2, RxPortListFacts
  <1>9. LocalityInv'
    <2>1. (enabled_port_mask \subseteq Present)'
      BY <1>2, <1>4
    <2>3. L = machine'.lcores
      BY <1>4
    <2> HIDE DEF L
    <2> QED
      BY <1>4, <1>5, <1>6, <1>7, <2>1, <2>3, Zenon DEF LocalityInv
  <1>10. AcceptedInv'
    BY <1>9 DEF AcceptedInv
  <1>11. OptionsInv'
    BY <1>0, <1>2, <1>4 DEF OptionsInv
  <1> QED
    BY <1>10, <1>11 DEF StartInv, SetupInv, setup

\* LocalityInv depends on the machine and what CheckLocality decided, not on pc.
LEMMA SameLocality ==
  ASSUME LocalityInv, UNCHANGED <<machine, enabled_port_mask, rx_ports, dst_ports>>
  PROVE  LocalityInv'
  <1>1. Present' = Present
    BY DEF Present
  <1> QED
    BY <1>1 DEF LocalityInv, OnePoller

\* An accepted command line stays accepted while the options and roles do.
LEMMA SameAccepted ==
  ASSUME AcceptedInv, Accepted,
         UNCHANGED <<machine, qflow, enabled_port_mask, lcore_params, roles>>,
         machine.app # "locality" => queues' = queues
  PROVE  AcceptedInv'
  <1>1. CASE machine.app = "locality"
    BY <1>1, SameLocality DEF AcceptedInv, Accepted, roles
  <1>2. CASE machine.app # "locality"
    <2>1. Present' = Present /\ Rejected' = Rejected
      BY <1>2 DEF Present, Rejected, LatencyQueueMissing, nb_lcores
    <2> QED
      BY <1>2, <2>1 DEF AcceptedInv, roles
  <1> QED
    BY <1>1, <1>2

\* Who polls, and which pool a queue gets, depends on the options and roles.
LEMMA SamePools ==
  ASSUME UNCHANGED <<machine, qflow, queues, active_io_lcores>>
  PROVE  Pollers' = Pollers /\ \A x : PoolFor(x)' = PoolFor(x)
  <1>1. nb_lcores' = nb_lcores
    BY DEF nb_lcores
  <1>2. Pollers' = Pollers
    BY <1>1 DEF Pollers
  <1>3. ASSUME NEW x PROVE PoolFor(x)' = PoolFor(x)
    BY <1>1, Zenon DEF PoolFor
  <1> QED
    BY <1>2, <1>3

\* The pools of Partitioned are those of the lcores that will poll.
LEMMA CreatePoolsStep ==
  ASSUME StartInv, CreatePools
  PROVE  StartInv'
  <1> USE DEF CreatePools
  <1>1. OptionsInv /\ OptionsInv'
    BY DEF StartInv, OptionsInv, options
  <1>2. AcceptedInv'
    BY SameAccepted DEF StartInv, Accepted, options
  <1>3. Pollers' = Pollers /\ rx_pool = <<>> /\ ports_up = <<>>
    BY SamePools DEF StartInv, SetupInv, options, roles
  <1>4. DOMAIN rx_pool' = {}
    BY <1>3
  <1> QED
    BY <1>1, <1>2, <1>3, <1>4 DEF StartInv, SetupInv, options

\* A port is set up: the queues of mica and nf-chain keep their number and get
\* the pool of their owner, and every polling lcore has a TX queue.
LEMMA SetupPortStep ==
  ASSUME StartInv, NEW reported \in NicQueues, SetupPort(reported)
  PROVE  StartInv'
  <1> USE DEF SetupPort
  <1>0. OptionsInv /\ machine \in Machines /\ reported \in Nat \ {0}
    BY StartupAssumption DEF StartInv, OptionsInv
  <1>1. machine.app # "locality" => queues' = queues
    BY DEF DeviceRefuses
  <1>2. OptionsInv'
    BY <1>0, <1>1 DEF OptionsInv
  <1>3. AcceptedInv'
    BY <1>1, SameAccepted DEF StartInv, Accepted
  <1>4. ASSUME machine.app # "locality"
        PROVE  /\ qflow'.mode = "partitioned" => mbuf_pools' = Pollers'
               /\ \A x \in DOMAIN rx_pool' : x \in 0 .. queues'-1 /\ rx_pool'[x] = PoolFor(x)'
               /\ \A k \in Pollers' : k < n_tx_queue'
    <2>1. Pollers' = Pollers /\ \A x : PoolFor(x)' = PoolFor(x)
      BY <1>1, <1>4, SamePools DEF roles
    <2>2. qflow'.mode = "partitioned" => mbuf_pools' = Pollers'
      BY <1>4, <2>1 DEF StartInv, SetupInv
    <2>3. \A x \in DOMAIN rx_pool' : x \in 0 .. queues'-1 /\ rx_pool'[x] = PoolFor(x)'
      BY <2>1
    <2>4. Pollers \subseteq TxQueueSetUp /\ Pollers \subseteq Int /\ TxQueues \in Int
      <3>1. nb_lcores \in Nat \ {0}
        BY <1>0, MachineFacts
      <3>2. CASE machine.app = "mica"
        <4>1. TxQueues = active_io_lcores /\ active_io_lcores \in Nat
          BY <3>2 DEF TxQueues, StartInv, AcceptedInv, Accepted
        <4> QED
          BY <3>2, <4>1 DEF Pollers, TxQueueSetUp
      <3>3. CASE machine.app = "nf-chain"
        <4>1. TxQueues = Min({nb_lcores, MaxTxQueuePerPort})
          BY <3>3 DEF TxQueues
        <4>2. {nb_lcores, MaxTxQueuePerPort} \subseteq Nat /\ {nb_lcores, MaxTxQueuePerPort} # {}
          BY <3>1, StartupAssumption
        <4>3. TxQueues \in Nat
          BY <4>1, <4>2, MinFacts
        <4> QED
          BY <3>1, <3>3, <4>3 DEF Pollers, TxQueueSetUp
      <3> QED
        BY <1>0, <1>4, <3>2, <3>3, MachineFacts
    <2>5. n_tx_queue' = TxQueues /\ \A t \in TxQueueSetUp : ~ (t >= TxQueues)
      BY DEF DeviceRefuses
    <2>6. \A k \in Pollers' : k < n_tx_queue'
      BY <2>1, <2>4, <2>5
    <2> QED
      BY <2>2, <2>3, <2>6
  <1>5. SetupInv'
    BY <1>4 DEF SetupInv
  <1> QED
    BY <1>2, <1>3, <1>5 DEF StartInv

\* A step that changes only the program counter, to or past the point where all
\* ports are set up.
LEMMA PcStep ==
  ASSUME StartInv, pc \in {"pools", "clear"}, pc' \in {"clear", "running"},
         UNCHANGED <<machine, options, roles, setup>>, PortsLeft = {}
  PROVE  StartInv'
  <1>1. OptionsInv'
    BY DEF StartInv, OptionsInv, options
  <1>2. AcceptedInv'
    BY SameAccepted DEF StartInv, Accepted, options
  <1>3. PortsLeft' = {}
    BY DEF PortsLeft, Present, options, setup
  <1>4. SetupInv'
    BY <1>3, SamePools DEF StartInv, SetupInv, options, roles, setup
  <1> QED
    BY <1>1, <1>2, <1>4 DEF StartInv

\* Nothing changes.
LEMMA StutterStep ==
  ASSUME StartInv, UNCHANGED vars
  PROVE  StartInv'
  <1> USE DEF vars, options, roles, setup
  <1>1. OptionsInv'
    BY DEF StartInv, OptionsInv
  <1>2. AcceptedInv'
    BY SameAccepted DEF StartInv, Accepted, AcceptedInv
  <1>3. PortsLeft' = PortsLeft
    BY DEF PortsLeft, Present
  <1>4. SetupInv'
    BY <1>3, SamePools DEF StartInv, SetupInv
  <1> QED
    BY <1>1, <1>2, <1>4 DEF StartInv

\* Every step keeps the invariant.
LEMMA StartInvStep ==
  ASSUME StartInv, [Next]_vars
  PROVE  StartInv'
  <1>1. CASE \/ \E p \in Policies : ParsePolicy(p)
             \/ \E v \in Turns : ParsePenalty(v) \/ ParseLatencyPeriod(v)
             \/ \E v \in Numbers : ParseLatencyQueue(v) \/ ParseQueues(v)
             \/ \E m \in {"partitioned", "shared"} : ParseMulticore(m)
             \/ \E m \in Masks : ParsePortmask(m)
             \/ \E c \in Configs : ParseConfig(c)
             \/ \E pairs \in Portmaps : ParsePortmap(pairs)
    BY <1>1, OptionsStep
  <1>2. CASE \/ ParseError \/ CheckFails \/ CreateFails \/ SetupFails \/ NoPortEnabled
             \/ ClearFails \/ ClearCrashes
    BY <1>2, ExitStep DEF ParseError, CheckFails, CreateFails, SetupFails, NoPortEnabled,
                          ClearFails, ClearCrashes, Exit
  <1>3. CASE CheckMica
    BY <1>3, CheckMicaStep
  <1>4. CASE CheckNf
    BY <1>4, CheckNfStep
  <1>5. CASE CheckLocality
    BY <1>5, CheckLocalityStep
  <1>6. CASE CreatePools
    BY <1>6, CreatePoolsStep
  <1>7. CASE \E reported \in NicQueues : SetupPort(reported)
    BY <1>7, SetupPortStep
  <1>8. CASE PortsDone
    BY <1>8, PcStep DEF PortsDone
  <1>9. CASE ClearPackets
    BY <1>9, PcStep DEF ClearPackets, StartInv, SetupInv
  <1>10. CASE Stopped \/ UNCHANGED vars
    BY <1>10, StutterStep DEF Stopped
  <1> QED
    BY <1>1, <1>2, <1>3, <1>4, <1>5, <1>6, <1>7, <1>8, <1>9, <1>10 DEF Next

-----------------------------------------------------------------------------
(***************************************************************************)
(* What follows from the invariant.                                        *)
(***************************************************************************)

\* The invariant holds in every reachable state.
THEOREM StartInvariant == Spec => []StartInv
  <1>1. Init => StartInv
    BY StartInvInit
  <1>2. StartInv /\ [Next]_vars => StartInv'
    BY StartInvStep
  <1> QED
    BY <1>1, <1>2, PTL DEF Spec

\* Whatever was given on the command line, the loops of mica and nf-chain start
\* with a configuration they are written for (qflow_check() and main()).
THEOREM LaunchedValid == Spec => []LaunchedConfigValid
  <1>1. ASSUME StartInv PROVE LaunchedConfigValid
    <2> SUFFICES ASSUME pc = "running", machine.app # "locality" PROVE
           /\ queues > 0
           /\ qflow.mode = "single" => nb_lcores = 1
           /\ qflow.mode = "partitioned" => \A k \in Pollers : k < queues
           /\ qflow.latency => qflow.latency_queue \in 0 .. queues-1
           /\ ports_up # <<>> => \A k \in Pollers : k < n_tx_queue
      BY Zenon DEF LaunchedConfigValid, Running
    <2>1. /\ queues \in Nat \ {0} /\ queues < 2^ShortBits /\ machine \in Machines
          /\ qflow.latency_queue \in IntRange
      BY <1>1 DEF StartInv, OptionsInv, QflowOpts
    <2>2. ~ Rejected /\ nb_lcores \in Nat \ {0}
      BY <1>1, <2>1, MachineFacts DEF StartInv, AcceptedInv, Accepted
    <2>3. qflow.mode = "single" => nb_lcores = 1
      BY <2>2 DEF Rejected
    <2>4. qflow.mode = "partitioned" => \A k \in Pollers : k < queues
      <3>1. CASE machine.app = "mica"
        <4>1. active_io_lcores \in Nat /\ active_io_lcores <= queues
          BY <1>1, <3>1 DEF StartInv, AcceptedInv, Accepted
        <4> QED
          BY <2>1, <3>1, <4>1 DEF Pollers
      <3>2. CASE machine.app # "mica"
        BY <2>1, <2>2, <3>2 DEF Rejected, Pollers
      <3> QED
        BY <3>1, <3>2
    <2>5. qflow.latency => qflow.latency_queue \in 0 .. queues-1
      <3> SUFFICES ASSUME qflow.latency PROVE qflow.latency_queue \in 0 .. queues-1
        OBVIOUS
      <3>1. ToUnsigned(IntBits, qflow.latency_queue) \in Int
        <4>1. 2^IntBits \in Nat \ {0}
          BY WidthAssumption
        <4>2. qflow.latency_queue \in Int
          BY <2>1, WidthAssumption DEF IntRange
        <4> DEFINE n == 2^IntBits
        <4> HIDE DEF n
        <4>3. qflow.latency_queue % n \in Int
          BY <4>1, <4>2 DEF n
        <4> QED
          BY <4>3 DEF ToUnsigned, n
      <3>2. ~ (ToUnsigned(IntBits, qflow.latency_queue) >= queues)
        BY <2>2 DEF Rejected, LatencyQueueMissing
      <3>3. ToUnsigned(IntBits, qflow.latency_queue) < queues
        BY <2>1, <3>1, <3>2
      <3> QED
        BY <2>1, <3>3, LatencyQueueExists
    <2>6. ports_up # <<>> => \A k \in Pollers : k < n_tx_queue
      BY <1>1 DEF StartInv, SetupInv
    <2> QED
      BY <2>1, <2>3, <2>4, <2>5, <2>6
  <1> QED
    BY <1>1, StartInvariant, PTL

\* In Partitioned the mbuf pool main() gives to a queue is that of the lcore whose
\* slice, computed apart in the loop, holds the queue.
THEOREM PoolsOfPollers == Spec => []PoolOfPoller
  <1>1. ASSUME StartInv PROVE PoolOfPoller
    <2> SUFFICES ASSUME pc = "running", qflow.mode = "partitioned", NEW x \in DOMAIN rx_pool
                 PROVE  /\ rx_pool[x] \in mbuf_pools
                        /\ IF machine.app = "mica"
                             THEN /\ MicaFirst(queues, active_io_lcores, rx_pool[x]) <= x
                                  /\ x < MicaLast(queues, active_io_lcores, rx_pool[x])
                             ELSE /\ NfFirst(queues, nb_lcores, rx_pool[x]) <= x
                                  /\ x < NfLast(queues, nb_lcores, rx_pool[x])
      BY Zenon DEF PoolOfPoller, Running
    <2>1. /\ queues \in Nat \ {0} /\ machine \in Machines /\ machine.app # "locality"
          /\ mbuf_pools = Pollers /\ x \in 0 .. queues-1 /\ rx_pool[x] = PoolFor(x)
      BY <1>1 DEF StartInv, OptionsInv, SetupInv
    <2>2. machine.app \in {"mica", "nf-chain"} /\ nb_lcores \in Nat \ {0}
      BY <2>1, MachineFacts
    <2>3. CASE machine.app = "mica"
      <3> DEFINE a == active_io_lcores
                 o == MicaOwner(queues, a, x)
      <3>1. a \in Nat \ {0} /\ a <= queues
        BY <1>1, <2>3 DEF StartInv, AcceptedInv, Accepted
      <3>2. rx_pool[x] = o
        BY <2>1, <2>3 DEF PoolFor
      <3>3. o \in 0 .. a-1
        BY <2>1, <3>1, MicaOwnerPolls
      <3>4. x \in MicaFirst(queues, a, o) .. MicaLast(queues, a, o) - 1
        BY <2>1, <3>1, <3>3, MicaOwnerPolls
      <3>5. MicaFirst(queues, a, o) \in Nat /\ MicaLast(queues, a, o) \in Nat
        BY <2>1, <3>1, <3>3, MicaSliceOrder
      <3> HIDE DEF o
      <3> QED
        BY <2>1, <2>3, <3>2, <3>3, <3>4, <3>5 DEF Pollers
    <2>4. CASE machine.app = "nf-chain"
      <3> DEFINE n == nb_lcores
                 o == NfOwner(queues, n, x)
      <3>2. rx_pool[x] = o
        BY <2>1, <2>4 DEF PoolFor
      <3>3. o \in 0 .. n-1
        BY <2>1, <2>2, NfOwnerPolls
      <3>4. x \in NfFirst(queues, n, o) .. NfLast(queues, n, o) - 1
        BY <2>1, <2>2, <3>3, NfOwnerPolls
      <3>5. NfFirst(queues, n, o) \in Nat /\ NfLast(queues, n, o) \in Nat
        BY <2>1, <2>2, <3>3, NfSliceOrder
      <3> HIDE DEF o
      <3> QED
        BY <2>1, <2>2, <2>4, <3>2, <3>3, <3>4, <3>5 DEF Pollers
    <2> QED
      BY <2>2, <2>3, <2>4
  <1> QED
    BY <1>1, StartInvariant, PTL

\* The ports left to set up are none, so that each of these is set up.
LEMMA AllSetUp ==
  ASSUME StartInv, pc = "running"
  PROVE  /\ machine.app = "mica" => 0 \in DOMAIN ports_up
         /\ machine.app # "mica" => enabled_port_mask \cap Present \subseteq DOMAIN ports_up
  BY DEF StartInv, SetupInv, PortsLeft

\* No lcore polls, or flushes the TX buffer of, a port that main() has not set up.
THEOREM PolledPortsAreSetUp == Spec => []PolledPortsSetUp
  <1>1. ASSUME StartInv PROVE PolledPortsSetUp
    <2> SUFFICES ASSUME pc = "running", lcore_params # <<>>, NEW l \in machine.lcores
                 PROVE  /\ PolledPorts(l) \subseteq DOMAIN ports_up \cup
                             (IF machine.app = "nf-chain" /\ qflow.mode = "single" THEN {0} ELSE {})
                        /\ machine.app = "locality" => Drained(l) \subseteq DOMAIN ports_up
      BY Zenon DEF PolledPortsSetUp, Running
    <2>1. /\ machine \in Machines /\ enabled_port_mask \subseteq Nat /\ queues \in Nat
      BY <1>1 DEF StartInv, OptionsInv
    <2>2. machine.app \in {"mica", "nf-chain", "locality"} /\ machine.nb_ports \in Nat
      BY <2>1, MachineFacts
    <2>3. CASE machine.app = "mica"
      BY <1>1, <2>3, AllSetUp DEF PolledPorts
    <2>4. CASE machine.app = "nf-chain"
      <3> DEFINE usable == enabled_port_mask \cap Present
                 list == rx_ports[l]
      <3>1. list \in Seq(usable) /\ usable # {} /\ usable \subseteq DOMAIN ports_up
        BY <1>1, <2>4, AllSetUp DEF StartInv, AcceptedInv, Accepted
      <3>2. PolledPorts(l) = NfPolledPorts(qflow.mode, list, enabled_port_mask, queues)
        BY <2>4 DEF PolledPorts
      <3>3. usable \subseteq enabled_port_mask /\ usable \subseteq 0 .. machine.nb_ports-1
        BY DEF Present
      <3>4. Min(enabled_port_mask) \in usable
        <4>1. PICK p \in usable : TRUE
          BY <3>1
        <4>2. /\ Min(enabled_port_mask) \in enabled_port_mask
              /\ \A y \in enabled_port_mask : Min(enabled_port_mask) <= y
          BY <2>1, <3>3, <4>1, MinFacts
        <4>3. PICK m : m = Min(enabled_port_mask)
          OBVIOUS
        <4>4. m \in Nat /\ m <= p /\ p \in 0 .. machine.nb_ports-1
          BY <2>1, <3>3, <4>1, <4>2, <4>3
        <4>5. m \in 0 .. machine.nb_ports-1
          BY <2>2, <4>4
        <4> QED
          BY <4>2, <4>3, <4>5 DEF Present
      <3> HIDE DEF usable, list
      <3>5. CASE qflow.mode = "single"
        <4>1. \A i \in Nat : i < Len(list) => list[i+1] \in usable
          BY <3>1
        <4>2. PolledPorts(l) \subseteq usable \cup {0}
          BY <2>1, <3>2, <3>5, <4>1 DEF NfPolledPorts
        <4> QED
          BY <2>4, <3>1, <3>5, <4>2
      <3>6. CASE qflow.mode # "single"
        <4>1. list # <<>> => list[1] \in usable
          BY <3>1
        <4>2. \/ PolledPorts(l) = {list[1]} /\ list # <<>>
              \/ PolledPorts(l) = {Min(enabled_port_mask)}
              \/ PolledPorts(l) = {}
          BY <3>2, <3>6, Zenon DEF NfPolledPorts
        <4>3. PolledPorts(l) \subseteq usable
          BY <3>4, <4>1, <4>2
        <4> QED
          BY <2>4, <3>1, <3>6, <4>3
      <3> QED
        BY <3>5, <3>6
    <2>5. CASE machine.app = "locality"
      <3>1. LocalityInv /\ enabled_port_mask \subseteq DOMAIN ports_up
        BY <1>1, <2>5, AllSetUp DEF StartInv, AcceptedInv, Accepted, LocalityInv
      <3>2. PolledPorts(l) = Listed(rx_ports[l])
        BY <2>5 DEF PolledPorts, Listed
      <3>3. PolledPorts(l) \subseteq enabled_port_mask
        BY <3>1, <3>2 DEF LocalityInv
      <3>4. Drained(l) \subseteq enabled_port_mask
        BY <3>1, <3>3 DEF LocalityInv, Drained
      <3> QED
        BY <3>1, <3>3, <3>4, <2>5
    <2> QED
      BY <2>2, <2>3, <2>4, <2>5
  <1> QED
    BY <1>1, StartInvariant, PTL

\* locality: the ports are paired up, and each is polled, and its TX buffer
\* flushed, by exactly one lcore.
THEOREM PortsArePaired == Spec => []PortsPaired
  <1>1. ASSUME StartInv PROVE PortsPaired
    <2> SUFFICES ASSUME pc = "running", machine.app = "locality", NEW p \in enabled_port_mask
                 PROVE  /\ dst_ports[dst_ports[p]] = p
                        /\ Cardinality({l \in machine.lcores : p \in PolledPorts(l)}) = 1
                        /\ Cardinality({l \in machine.lcores : p \in Drained(l)}) = 1
      BY Zenon DEF PortsPaired, Running
    <2>1. LocalityInv
      BY <1>1 DEF StartInv, AcceptedInv, Accepted
    <2>2. ASSUME NEW l \in machine.lcores PROVE PolledPorts(l) = Listed(rx_ports[l])
      BY DEF PolledPorts, Listed
    <2>3. ASSUME NEW q \in enabled_port_mask
          PROVE  \E l \in machine.lcores : {m \in machine.lcores : q \in PolledPorts(m)} = {l}
      <3>1. PICK l \in machine.lcores :
              \A m \in machine.lcores : q \in Listed(rx_ports[m]) <=> m = l
        BY <2>1, <2>3 DEF LocalityInv, OnePoller
      <3>2. {m \in machine.lcores : q \in PolledPorts(m)} = {l}
        BY <2>2, <3>1
      <3> QED
        BY <3>2
    <2>4. \A l \in machine.lcores : p \in Drained(l) <=> dst_ports[p] \in PolledPorts(l)
      <3> SUFFICES ASSUME NEW l \in machine.lcores
                   PROVE  p \in Drained(l) <=> dst_ports[p] \in PolledPorts(l)
        OBVIOUS
      <3>1. PolledPorts(l) \subseteq enabled_port_mask
        BY <2>1, <2>2 DEF LocalityInv
      <3>2. \A q \in enabled_port_mask : dst_ports[dst_ports[q]] = q
        BY <2>1 DEF LocalityInv
      <3>3. p \in Drained(l) <=> \E q \in PolledPorts(l) : p = dst_ports[q]
        BY DEF Drained
      <3> QED
        BY <3>1, <3>2, <3>3
    <2>5. {l \in machine.lcores : p \in Drained(l)} =
            {l \in machine.lcores : dst_ports[p] \in PolledPorts(l)}
      BY <2>4
    <2>6. dst_ports[p] \in enabled_port_mask /\ dst_ports[dst_ports[p]] = p
      BY <2>1 DEF LocalityInv
    <2>7. PICK l \in machine.lcores : {m \in machine.lcores : p \in PolledPorts(m)} = {l}
      BY <2>3
    <2>8. PICK k \in machine.lcores :
            {m \in machine.lcores : dst_ports[p] \in PolledPorts(m)} = {k}
      BY <2>3, <2>6
    <2> QED
      BY <2>5, <2>6, <2>7, <2>8, FS_Singleton
  <1> QED
    BY <1>1, StartInvariant, PTL

=============================================================================
