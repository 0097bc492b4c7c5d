----------------------------- MODULE Nat_proofs -----------------------------
(***************************************************************************)
(* Proofs about Nat, for every number of shards, flows and lcores: no two  *)
(* flows leave with one external port, an answer finds its flow, a flow    *)
(* takes at most as many ports as there are lcores and, where a shard has  *)
(* one lcore, it keeps its port.                                           *)
(***************************************************************************)
EXTENDS Nat, Numbers_proofs

-----------------------------------------------------------------------------
(***************************************************************************)
(* The division of ports is the one mica uses for queues.                  *)
(***************************************************************************)

\* There are shards, and each has a flow at least.
LEMMA ShardFacts ==
  /\ NbShards \in Nat \ {0}
  /\ MaxFlows \in Nat \ {0} /\ StartPort \in Nat
  /\ \A s \in Shard :
       /\ ShardFlows(s) \in Nat /\ ShardStart(s) \in Nat
       /\ ShardStart(s) = StartPort + MicaFirst(MaxFlows, NbShards, s)
       /\ ShardStart(s) + ShardFlows(s) = StartPort + MicaLast(MaxFlows, NbShards, s)
  <1>1. NbShards \in Nat \ {0} /\ MaxFlows \in Nat \ {0} /\ StartPort \in Nat
    BY NatAssumption DEF NbShards
  <1>2. ASSUME NEW s \in Shard
        PROVE  /\ ShardFlows(s) \in Nat /\ ShardStart(s) \in Nat
               /\ ShardStart(s) = StartPort + MicaFirst(MaxFlows, NbShards, s)
               /\ ShardStart(s) + ShardFlows(s) = StartPort + MicaLast(MaxFlows, NbShards, s)
    <2> DEFINE per == MaxFlows \div NbShards  extra == MaxFlows % NbShards
    <2>1. per \in Nat /\ extra \in Nat /\ s \in Nat
      BY <1>1, DivBounds DEF Shard
    <2>2. s * per \in Nat
      BY <2>1
    <2>3. /\ ShardFlows(s) = per + (IF s < extra THEN 1 ELSE 0)
          /\ ShardStart(s) = StartPort + s * per + (IF s < extra THEN s ELSE extra)
          /\ MicaFirst(MaxFlows, NbShards, s) = s * per + (IF s < extra THEN s ELSE extra)
          /\ MicaLast(MaxFlows, NbShards, s) =
               MicaFirst(MaxFlows, NbShards, s) + per + (IF s < extra THEN 1 ELSE 0)
      BY DEF ShardFlows, ShardStart, MicaFirst, MicaLast
    <2> HIDE DEF per, extra
    <2> QED
      BY <1>1, <2>1, <2>2, <2>3
  <1> QED
    BY <1>1, <1>2

\* The port ranges lie in the range of the configuration and are disjoint.
LEMMA RangesDisjoint ==
  /\ \A s \in Shard : StartPort <= ShardStart(s) /\ ShardStart(s) + ShardFlows(s) <= StartPort + MaxFlows
  /\ \A s, t \in Shard : s # t =>
       \/ ShardStart(s) + ShardFlows(s) <= ShardStart(t)
       \/ ShardStart(t) + ShardFlows(t) <= ShardStart(s)
  <1>1. \A s \in Shard : s \in 0 .. NbShards-1
    BY DEF Shard
  <1>2. ASSUME NEW s \in Shard, NEW t \in Shard, s < t
        PROVE  ShardStart(s) + ShardFlows(s) <= ShardStart(t)
    <2>1. MicaLast(MaxFlows, NbShards, s) <= MicaFirst(MaxFlows, NbShards, t)
      BY <1>1, <1>2, ShardFacts, MicaSliceOrder, s \in 0 .. t-1
    <2> QED
      BY <2>1, <1>1, ShardFacts, MicaSliceOrder
  <1>3. ASSUME NEW s \in Shard
        PROVE  StartPort <= ShardStart(s) /\ ShardStart(s) + ShardFlows(s) <= StartPort + MaxFlows
    <2>1. /\ MicaFirst(MaxFlows, NbShards, s) \in Nat /\ MicaLast(MaxFlows, NbShards, s) \in Nat
          /\ MicaLast(MaxFlows, NbShards, s) <= MaxFlows
      BY <1>1, ShardFacts, MicaSliceOrder
    <2> QED
      BY <2>1, ShardFacts
  <1>4. \A s, t \in Shard : s # t => s < t \/ t < s
    BY ShardFacts DEF Shard
  <1> QED
    BY <1>2, <1>3, <1>4

-----------------------------------------------------------------------------
(***************************************************************************)
(* The inductive invariant.                                                *)
(***************************************************************************)

Entry == [key : SrcPorts, index : Nat]

TypeInv ==
  /\ pc \in [Lcore -> {"idle", "internal", "new", "external", "found"}]
  /\ shard \in [Lcore -> Shard]
  /\ \A l \in Lcore :
       /\ pc[l] \in {"internal", "new"} => pkt[l] \in Flow
       /\ pc[l] \in {"external", "found"} => pkt[l] \in Int
  /\ DOMAIN pkt = Lcore
  /\ heap \in [Shard -> Seq(Nat)]
  /\ fm \in [Shard -> SUBSET Entry]
  /\ fv \in [Shard -> Seq(Flow)]

\* The indices in use are the first ones, and each has a flow.
HeapInv ==
  \A s \in Shard :
    /\ Len(heap[s]) <= ShardFlows(s)
    /\ Len(fv[s]) = Len(heap[s])
    /\ InUse(s) = 0 .. Len(heap[s]) - 1

\* The map leads from a source port to an index with a flow of that port.
MapInv ==
  \A s \in Shard : \A e \in fm[s] :
    e.index < Len(fv[s]) /\ fv[s][e.index+1].src_port = e.key

\* What was sent still agrees with the tables.
SentInv ==
  \A x \in sent :
    /\ x.shard \in Shard
    /\ ~ x.full =>
         /\ x.port \in ShardStart(x.shard) .. ShardStart(x.shard) + Len(fv[x.shard]) - 1
         /\ fv[x.shard][x.port - ShardStart(x.shard) + 1].src_port = x.src_port

\* An index found in use before the lock was taken is in use after it.
FoundInv == \A l \in Lcore : pc[l] = "found" => ExternalIndex(l) \in InUse(shard[l])

NatInv == TypeInv /\ HeapInv /\ MapInv /\ SentInv /\ FoundInv

-----------------------------------------------------------------------------
(***************************************************************************)
(* The data structures.                                                    *)
(***************************************************************************)

\* What Append does to a sequence.
LEMMA AppendFacts ==
  ASSUME NEW S, NEW q \in Seq(S), NEW x \in S
  PROVE  /\ Append(q, x) \in Seq(S) /\ Len(q) \in Nat /\ Len(Append(q, x)) = Len(q) + 1
         /\ Append(q, x)[Len(q) + 1] = x
         /\ \A j \in 1 .. Len(q) : Append(q, x)[j] = q[j]
  OBVIOUS

\* map_get returns the index of an entry with the key it was asked for.
LEMMA MapGetFacts ==
  ASSUME TypeInv, NEW s \in Shard, NEW f \in Flow, Matches(s, f) # {}
  PROVE  \E e \in fm[s] : e.key = f.src_port /\ e.index = MapGet(s, f)
  <1> DEFINE T == {e.index : e \in Matches(s, f)}
  <1>1. T \subseteq Nat /\ T # {}
    BY DEF TypeInv, Entry, Matches
  <1>2. \E x \in T : \A y \in T : x <= y
    <2> HIDE DEF T
    <2> QED
      BY <1>1, Smallest
  <1>3. \E k \in T : \A e \in Matches(s, f) : k <= e.index
    BY <1>2
  <1>4. MapGet(s, f) = CHOOSE k \in T : \A e \in Matches(s, f) : k <= e.index
    BY DEF MapGet
  <1>5. MapGet(s, f) \in T
    BY <1>3, <1>4
  <1> QED
    BY <1>5 DEF Matches

\* dchain_rejuvenate_index changes the order of the indices in use and not
\* their number, and neither loses nor adds one.
LEMMA RejuvenateFacts ==
  ASSUME heap \in [Shard -> Seq(Nat)], NEW s \in Shard, NEW k \in InUse(s), Rejuvenate(s, k)
  PROVE  /\ heap' \in [Shard -> Seq(Nat)]
         /\ \A t \in Shard : Len(heap'[t]) = Len(heap[t]) /\ InUse(t)' = InUse(t)
  <1> DEFINE h == heap[s]
             p == CHOOSE j \in 1 .. Len(h) : h[j] = k
             g == MoveToEnd(h, k)
  <1>1. h \in Seq(Nat) /\ Len(h) \in Nat /\ \A j \in 1 .. Len(h) : h[j] \in Nat
    OBVIOUS
  <1>2. p \in 1 .. Len(h) /\ h[p] = k
    BY DEF InUse
  <1>3. g = [j \in 1 .. Len(h) |-> IF j < p THEN h[j] ELSE IF j < Len(h) THEN h[j+1] ELSE k]
    BY DEF MoveToEnd
  <1>4. k \in Nat
    BY <1>1, <1>2
  <1> HIDE DEF h, p, g
  <1>5. \A j \in 1 .. Len(h) : g[j] \in Nat
    BY <1>1, <1>2, <1>3, <1>4
  <1>6. g \in Seq(Nat) /\ Len(g) = Len(h)
    BY <1>1, <1>3, <1>5
  <1>7. ASSUME NEW j \in 1 .. Len(h) PROVE \E m \in 1 .. Len(h) : g[m] = h[j]
    <2>1. CASE j < p
      BY <1>1, <1>2, <1>3, <2>1
    <2>2. CASE j = p
      BY SMTT(30), <1>1, <1>2, <1>3, <2>2, g[Len(h)] = k
    <2>3. CASE j > p
      <3>1. j-1 \in 1 .. Len(h) /\ g[j-1] = h[j]
        BY <1>1, <1>2, <1>3, <2>3
      <3> QED
        BY <3>1
    <2> QED
      BY <1>1, <1>2, <2>1, <2>2, <2>3
  <1>8. ASSUME NEW j \in 1 .. Len(h) PROVE \E m \in 1 .. Len(h) : h[m] = g[j]
    <2>1. CASE j < p
      BY <1>1, <1>2, <1>3, <2>1
    <2>2. CASE j >= p /\ j < Len(h)
      BY <1>1, <1>2, <1>3, <2>2, j+1 \in 1 .. Len(h)
    <2>3. CASE j >= p /\ ~ (j < Len(h))
      BY <1>1, <1>2, <1>3, <2>3
    <2> QED
      BY <1>1, <1>2, <2>1, <2>2, <2>3
  <1>9. heap' = [heap EXCEPT ![s] = g]
    BY DEF Rejuvenate, h, g
  <1>10. {g[j] : j \in 1 .. Len(g)} = {h[j] : j \in 1 .. Len(h)}
    <2> DEFINE D == 1 .. Len(h)  G == {g[j] : j \in D}  H == {h[j] : j \in D}
    <2>1. \A j \in D : g[j] \in H
      BY <1>8
    <2>2. \A j \in D : h[j] \in G
      BY <1>7
    <2> HIDE DEF D
    <2>3. G = H
      BY <2>1, <2>2
    <2> QED
      BY <1>6, <2>3 DEF D
  <1>11. ASSUME NEW t \in Shard PROVE Len(heap'[t]) = Len(heap[t]) /\ InUse(t)' = InUse(t)
    <2>1. CASE t = s
      BY ZenonT(40), <1>6, <1>9, <1>10, <2>1 DEF InUse, h
    <2>2. CASE t # s
      BY <1>9, <2>2 DEF InUse
    <2> QED
      BY <2>1, <2>2
  <1> QED
    BY <1>6, <1>9, <1>11

-----------------------------------------------------------------------------
(***************************************************************************)
(* Every step keeps the invariant.                                         *)
(***************************************************************************)

\* The empty tables satisfy the invariant.
LEMMA NatInvInit == Init => NatInv
  <1> SUFFICES ASSUME Init PROVE NatInv
    OBVIOUS
  <1>1. 0 \in Shard /\ \A s \in Shard : ShardFlows(s) \in Nat
    BY ShardFacts DEF Shard
  <1>2. TypeInv
    BY <1>1 DEF Init, TypeInv, Entry
  <1>3. HeapInv
    BY <1>1 DEF Init, HeapInv, InUse
  <1>4. MapInv /\ SentInv /\ FoundInv
    BY DEF Init, MapInv, SentInv, FoundInv
  <1> QED
    BY <1>2, <1>3, <1>4 DEF NatInv

\* nf_shard() knows every shard an lcore asks for.
LEMMA ShardsOfFacts == \A l \in Lcore : ShardsOf(l) \subseteq Shard
  <1>1. CASE Mode = "single"
    BY <1>1 DEF ShardsOf, Shard, NbShards
  <1>2. CASE Mode = "partitioned"
    BY <1>2, NatAssumption DEF ShardsOf, Shard, NbShards, Lcore
  <1>3. CASE Mode = "shared"
    BY <1>3 DEF ShardsOf, Shard
  <1> QED
    BY <1>1, <1>2, <1>3, NatAssumption

\* Indices stay in use, so what one lcore found is not taken from it by others.
LEMMA FoundKept ==
  ASSUME NatInv, NEW l \in Lcore,
         \A m \in Lcore : m # l => pc'[m] = pc[m] /\ shard'[m] = shard[m] /\ pkt'[m] = pkt[m],
         \A t \in Shard : InUse(t) \subseteq InUse(t)',
         pc'[l] = "found" => /\ shard'[l] = shard[l] /\ pkt'[l] = pkt[l]
                             /\ ExternalIndex(l) \in InUse(shard[l])
  PROVE  FoundInv'
  <1> SUFFICES ASSUME NEW m \in Lcore, pc'[m] = "found"
               PROVE  ExternalIndex(m)' \in InUse(shard[m])'
    BY DEF FoundInv
  <1>1. /\ shard'[m] = shard[m] /\ pkt'[m] = pkt[m] /\ shard[m] \in Shard
        /\ ExternalIndex(m) \in InUse(shard[m])
    BY DEF NatInv, FoundInv, TypeInv
  <1>2. PICK t \in Shard : t = shard[m]
    BY <1>1
  <1>3. ExternalIndex(m)' = ExternalIndex(m)
    BY <1>1 DEF ExternalIndex, ShardStart
  <1>4. InUse(shard[m])' = InUse(t)'
    BY <1>1, <1>2 DEF InUse
  <1> QED
    BY <1>1, <1>2, <1>3, <1>4

\* Steps that leave the tables alone.
LEMMA TablesSame ==
  ASSUME NatInv, UNCHANGED <<table, sent>>
  PROVE  /\ HeapInv' /\ MapInv' /\ SentInv'
         /\ heap' \in [Shard -> Seq(Nat)] /\ fm' \in [Shard -> SUBSET Entry]
         /\ fv' \in [Shard -> Seq(Flow)]
         /\ \A t \in Shard : InUse(t)' = InUse(t)
  <1>1. heap' = heap /\ fm' = fm /\ fv' = fv /\ sent' = sent
    BY DEF table
  <1> QED
    BY <1>1 DEF NatInv, TypeInv, HeapInv, MapInv, SentInv, InUse

\* nf_process returns.
LEMMA ReturnType ==
  ASSUME NatInv, NEW l \in Lcore, Return(l)
  PROVE  /\ pc' \in [Lcore -> {"idle", "internal", "new", "external", "found"}]
         /\ shard' \in [Lcore -> Shard]
         /\ \A m \in Lcore :
              /\ pc'[m] \in {"internal", "new"} => pkt'[m] \in Flow
              /\ pc'[m] \in {"external", "found"} => pkt'[m] \in Int
         /\ DOMAIN pkt' = Lcore
         /\ pc'[l] # "found"
         /\ \A m \in Lcore : m # l => pc'[m] = pc[m] /\ shard'[m] = shard[m] /\ pkt'[m] = pkt[m]
  <1>1. 0 \in Shard
    BY ShardFacts DEF Shard
  <1> QED
    BY <1>1 DEF Return, NatInv, TypeInv

\* Rejuvenation disturbs only the order of the heap.
LEMMA RejuvenateInv ==
  ASSUME NatInv, NEW s \in Shard, NEW k \in InUse(s), Rejuvenate(s, k), UNCHANGED <<fm, fv>>
  PROVE  /\ HeapInv' /\ MapInv'
         /\ heap' \in [Shard -> Seq(Nat)] /\ fm' \in [Shard -> SUBSET Entry]
         /\ fv' \in [Shard -> Seq(Flow)]
         /\ \A t \in Shard : InUse(t)' = InUse(t)
  <1>1. heap \in [Shard -> Seq(Nat)]
    BY DEF NatInv, TypeInv
  <1>2. /\ heap' \in [Shard -> Seq(Nat)]
        /\ \A t \in Shard : Len(heap'[t]) = Len(heap[t]) /\ InUse(t)' = InUse(t)
    BY <1>1, RejuvenateFacts
  <1> QED
    BY <1>2 DEF NatInv, TypeInv, HeapInv, MapInv

\* The lookups and returns of one lcore, its rejuvenations and its allocations
\* keep the tables consistent with what every lcore has sent or found.
LEMMA NatInvStep == NatInv /\ [Next]_vars => NatInv'
  <1> SUFFICES ASSUME NatInv, [Next]_vars PROVE NatInv'
    OBVIOUS
  <1>1. ASSUME NEW l \in Lcore, ReceiveInternal(l) PROVE NatInv'
    <2>1. PICK s \in Shard, f \in Flow :
            shard' = [shard EXCEPT ![l] = s] /\ pkt' = [pkt EXCEPT ![l] = f]
      BY <1>1, ShardsOfFacts DEF ReceiveInternal
    <2>2. TypeInv'
      BY <1>1, <2>1, TablesSame DEF ReceiveInternal, NatInv, TypeInv
    <2>3. FoundInv'
      BY <1>1, <2>1, TablesSame, FoundKept DEF ReceiveInternal, NatInv, TypeInv
    <2> QED
      BY <1>1, <2>2, <2>3, TablesSame DEF ReceiveInternal, NatInv
  <1>2. ASSUME NEW l \in Lcore, ReceiveExternal(l) PROVE NatInv'
    <2>1. PICK s \in Shard : \E k \in 0 .. ShardFlows(s)-1 :
            shard' = [shard EXCEPT ![l] = s] /\ pkt' = [pkt EXCEPT ![l] = ShardStart(s) + k]
      BY <1>2, ShardsOfFacts DEF ReceiveExternal
    <2>2. PICK k \in 0 .. ShardFlows(s)-1 :
            shard' = [shard EXCEPT ![l] = s] /\ pkt' = [pkt EXCEPT ![l] = ShardStart(s) + k]
      BY <2>1
    <2>3. ShardStart(s) + k \in Int
      BY ShardFacts
    <2>4. TypeInv'
      BY <1>2, <2>2, <2>3, TablesSame DEF ReceiveExternal, NatInv, TypeInv
    <2>5. FoundInv'
      BY <1>2, <2>2, TablesSame, FoundKept DEF ReceiveExternal, NatInv, TypeInv
    <2> QED
      BY <1>2, <2>4, <2>5, TablesSame DEF ReceiveExternal, NatInv
  <1>3. ASSUME NEW l \in Lcore, GetInternalHit(l) PROVE NatInv'
    <2>1. PICK s \in Shard, f \in Flow : s = shard[l] /\ f = pkt[l] /\ Matches(s, f) # {}
      BY <1>3 DEF GetInternalHit, NatInv, TypeInv
    <2>0. PICK k : k = MapGet(s, f)
      OBVIOUS
    <2>2. PICK e \in fm[s] : e.key = f.src_port /\ e.index = k
      BY <2>0, <2>1, MapGetFacts DEF NatInv
    <2>3. e \in Entry /\ e.index < Len(fv[s]) /\ fv[s][e.index+1].src_port = e.key
      BY <2>1, <2>2 DEF NatInv, MapInv, TypeInv
    <2>4. k \in Nat /\ k < Len(fv[s]) /\ fv[s][k+1].src_port = f.src_port
      BY <2>2, <2>3 DEF Entry
    <2>5. k \in InUse(s)
      BY <2>1, <2>4 DEF NatInv, HeapInv
    <2>6. /\ Rejuvenate(s, k) /\ UNCHANGED <<fm, fv>> /\ Return(l)
          /\ sent' = sent \union {[src_port |-> f.src_port, shard |-> s,
                                   port |-> ShardStart(s) + k, full |-> FALSE]}
      BY <1>3, <2>0, <2>1 DEF GetInternalHit, Forward
    <2>7. SentInv'
      <3>1. ShardStart(s) \in Nat /\ Len(fv[s]) \in Nat
        BY <2>1, ShardFacts DEF NatInv, TypeInv
      <3> QED
        BY <2>1, <2>4, <2>6, <3>1 DEF NatInv, SentInv
    <2>8. TypeInv'
      BY <2>1, <2>5, <2>6, RejuvenateInv, ReturnType DEF TypeInv
    <2>9. FoundInv'
      BY <2>1, <2>5, <2>6, RejuvenateInv, ReturnType, FoundKept
    <2> QED
      BY <2>1, <2>5, <2>6, <2>7, <2>8, <2>9, RejuvenateInv DEF NatInv
  <1>4. ASSUME NEW l \in Lcore, GetInternalMiss(l) PROVE NatInv'
    <2>1. TypeInv'
      BY <1>4, TablesSame DEF GetInternalMiss, NatInv, TypeInv
    <2>2. FoundInv'
      BY <1>4, TablesSame, FoundKept DEF GetInternalMiss, NatInv, TypeInv
    <2> QED
      BY <1>4, <2>1, <2>2, TablesSame DEF GetInternalMiss, NatInv
  <1>5. ASSUME NEW l \in Lcore, AllocateFlow(l) PROVE NatInv'
    <2>1. PICK s \in Shard, f \in Flow : s = shard[l] /\ f = pkt[l] /\ f.src_port \in SrcPorts
      BY <1>5 DEF AllocateFlow, NatInv, TypeInv, Flow
    <2>0. PICK k \in Nat : k = Len(heap[s])
      BY <2>1 DEF NatInv, TypeInv
    <2>2. /\ heap[s] \in Seq(Nat) /\ fv[s] \in Seq(Flow) /\ fm[s] \in SUBSET Entry
          /\ Len(fv[s]) = k /\ Len(heap[s]) = k
          /\ InUse(s) = 0 .. k-1
          /\ ShardFlows(s) \in Nat /\ ShardStart(s) \in Nat
      BY <2>0, <2>1, ShardFacts DEF NatInv, TypeInv, HeapInv
    <2>3. /\ k < ShardFlows(s)
          /\ heap' = [heap EXCEPT ![s] = Append(heap[s], k)]
          /\ fv' = [fv EXCEPT ![s] = Append(fv[s], f)]
          /\ fm' = [fm EXCEPT ![s] = fm[s] \union {[key |-> f.src_port, index |-> k]}]
          /\ sent' = sent \union {[src_port |-> f.src_port, shard |-> s,
                                   port |-> ShardStart(s) + k, full |-> FALSE]}
          /\ Return(l)
      BY <1>5, <2>1, <2>2 DEF AllocateFlow, HeapFull, NewIndex, Forward
    <2>4. /\ heap'[s] = Append(heap[s], k) /\ fv'[s] = Append(fv[s], f)
          /\ fm'[s] = fm[s] \union {[key |-> f.src_port, index |-> k]}
          /\ \A t \in Shard : t # s => heap'[t] = heap[t] /\ fv'[t] = fv[t] /\ fm'[t] = fm[t]
      BY <2>1, <2>3 DEF NatInv, TypeInv
    <2>5. /\ Len(heap'[s]) = k + 1
          /\ heap'[s][k+1] = k /\ \A j \in 1 .. k : heap'[s][j] = heap[s][j]
          /\ Len(fv'[s]) = k + 1
          /\ fv'[s][k+1] = f /\ \A j \in 1 .. k : fv'[s][j] = fv[s][j]
      <3>1. /\ Len(heap'[s]) = Len(heap[s]) + 1 /\ heap'[s][Len(heap[s])+1] = k
            /\ \A j \in 1 .. Len(heap[s]) : heap'[s][j] = heap[s][j]
        BY <2>2, <2>4, AppendFacts
      <3>2. /\ Len(fv'[s]) = Len(fv[s]) + 1 /\ fv'[s][Len(fv[s])+1] = f
            /\ \A j \in 1 .. Len(fv[s]) : fv'[s][j] = fv[s][j]
        BY <2>2, <2>4, AppendFacts
      <3> QED
        BY <2>2, <3>1, <3>2
    <2>6. InUse(s)' = 0 .. k
      <3>1. \A x \in 0 .. k-1 : \E j \in 1 .. k : heap[s][j] = x
        BY <2>2 DEF InUse
      <3>2. \A j \in 1 .. k : heap[s][j] \in 0 .. k-1
        BY <2>2 DEF InUse
      <3>3. \A x \in 0 .. k : \E j \in 1 .. k+1 : heap'[s][j] = x
        <4>1. ASSUME NEW x \in 0 .. k PROVE \E j \in 1 .. k+1 : heap'[s][j] = x
          <5>1. CASE x = k
            BY <2>5, <5>1, k+1 \in 1 .. k+1
          <5>2. CASE x # k
            <6>1. PICK j \in 1 .. k : heap[s][j] = x
              BY <3>1, <5>2
            <6> QED
              BY <2>5, <6>1, j \in 1 .. k+1
          <5> QED
            BY <5>1, <5>2
        <4> QED
          BY <4>1
      <3>4. \A j \in 1 .. k+1 : heap'[s][j] \in 0 .. k
        <4>1. ASSUME NEW j \in 1 .. k+1 PROVE heap'[s][j] \in 0 .. k
          <5>1. CASE j = k+1
            BY <2>5, <5>1
          <5>2. CASE j # k+1
            BY <2>5, <3>2, <5>2, j \in 1 .. k
          <5> QED
            BY <5>1, <5>2
        <4> QED
          BY <4>1
      <3>5. InUse(s)' = {heap'[s][j] : j \in 1 .. k+1}
        BY <2>5 DEF InUse
      <3> QED
        BY <3>3, <3>4, <3>5
    <2>7. HeapInv'
      <3>1. ASSUME NEW t \in Shard, t # s
            PROVE  /\ Len(heap'[t]) <= ShardFlows(t) /\ Len(fv'[t]) = Len(heap'[t])
                   /\ InUse(t)' = 0 .. Len(heap'[t]) - 1
        <4>1. heap'[t] = heap[t] /\ fv'[t] = fv[t]
          BY <2>4, <3>1
        <4>2. InUse(t)' = InUse(t)
          BY <4>1 DEF InUse
        <4> QED
          BY <4>1, <4>2 DEF NatInv, HeapInv
      <3>2. /\ Len(heap'[s]) <= ShardFlows(s) /\ Len(fv'[s]) = Len(heap'[s])
            /\ InUse(s)' = 0 .. Len(heap'[s]) - 1
        BY <2>2, <2>3, <2>5, <2>6
      <3> QED
        BY <3>1, <3>2 DEF HeapInv
    <2>8. ASSUME NEW t \in Shard
          PROVE  /\ Len(fv[t]) \in Nat /\ Len(fv'[t]) \in Nat
                 /\ Len(fv[t]) <= Len(fv'[t])
                 /\ \A j \in 1 .. Len(fv[t]) : fv'[t][j] = fv[t][j]
      <3>1. CASE t = s
        BY <2>2, <2>5, <3>1
      <3>2. CASE t # s
        BY <2>4, <3>2 DEF NatInv, TypeInv
      <3> QED
        BY <3>1, <3>2
    <2>9. MapInv'
      <3>1. ASSUME NEW t \in Shard, NEW e \in fm'[t]
            PROVE  e.index < Len(fv'[t]) /\ fv'[t][e.index+1].src_port = e.key
        <4>1. CASE e \in fm[t]
          <5>1. e.index \in Nat /\ e.index < Len(fv[t]) /\ fv[t][e.index+1].src_port = e.key
            BY <4>1 DEF NatInv, MapInv, TypeInv, Entry
          <5> QED
            BY <2>8, <5>1
        <4>2. CASE e \notin fm[t]
          <5>1. t = s /\ e = [key |-> f.src_port, index |-> k]
            BY <2>4, <3>1, <4>2
          <5> QED
            BY <2>2, <2>5, <5>1
        <4> QED
          BY <4>1, <4>2
      <3> QED
        BY <3>1 DEF MapInv
    <2>10. SentInv'
      <3>1. ASSUME NEW x \in sent'
            PROVE  /\ x.shard \in Shard
                   /\ ~ x.full =>
                        /\ x.port \in ShardStart(x.shard) .. ShardStart(x.shard) + Len(fv'[x.shard]) - 1
                        /\ fv'[x.shard][x.port - ShardStart(x.shard) + 1].src_port = x.src_port
        <4>1. CASE x \in sent
          <5>1. /\ x.shard \in Shard
                /\ ~ x.full =>
                     /\ x.port \in ShardStart(x.shard) .. ShardStart(x.shard) + Len(fv[x.shard]) - 1
                     /\ fv[x.shard][x.port - ShardStart(x.shard) + 1].src_port = x.src_port
            BY <4>1 DEF NatInv, SentInv
          <5>2. Len(fv[x.shard]) \in Nat /\ Len(fv'[x.shard]) \in Nat /\ ShardStart(x.shard) \in Nat
            BY <2>8, <5>1, ShardFacts
          <5>3. ~ x.full => x.port - ShardStart(x.shard) + 1 \in 1 .. Len(fv[x.shard])
            BY <5>1, <5>2
          <5>4. ~ x.full =>
                  x.port \in ShardStart(x.shard) .. ShardStart(x.shard) + Len(fv'[x.shard]) - 1
            BY SMTT(30), <2>8, <5>1, <5>2
          <5> QED
            BY <2>8, <5>1, <5>3, <5>4
        <4>2. CASE x \notin sent
          <5>1. x = [src_port |-> f.src_port, shard |-> s, port |-> ShardStart(s) + k, full |-> FALSE]
            BY <2>3, <3>1, <4>2
          <5>2. x.port - ShardStart(x.shard) + 1 = k + 1
            BY <2>2, <5>1
          <5> QED
            BY SMTT(30), <2>1, <2>2, <2>5, <5>1, <5>2
        <4> QED
          BY <4>1, <4>2
      <3> QED
        BY <3>1 DEF SentInv
    <2>11. TypeInv'
      <3>1. heap' \in [Shard -> Seq(Nat)] /\ fv' \in [Shard -> Seq(Flow)]
        BY <2>1, <2>2, <2>3 DEF NatInv, TypeInv
      <3>2. fm' \in [Shard -> SUBSET Entry]
        <4>1. [key |-> f.src_port, index |-> k] \in Entry
          BY <2>1, <2>2 DEF Entry
        <4> QED
          BY <2>1, <2>2, <2>3, <4>1 DEF NatInv, TypeInv
      <3> QED
        BY <2>3, <3>1, <3>2, ReturnType DEF TypeInv
    <2>12. FoundInv'
      <3>1. ASSUME NEW t \in Shard PROVE InUse(t) \subseteq InUse(t)'
        <4>1. CASE t = s
          BY <2>2, <2>6, <4>1
        <4>2. CASE t # s
          BY <2>4, <4>2 DEF InUse
        <4> QED
          BY <4>1, <4>2
      <3> QED
        BY <2>3, <3>1, ReturnType, FoundKept
    <2> QED
      BY <2>7, <2>9, <2>10, <2>11, <2>12 DEF NatInv
  <1>6. ASSUME NEW l \in Lcore, AllocateFull(l) PROVE NatInv'
    <2>1. heap' = heap /\ fm' = fm /\ fv' = fv /\ Return(l) /\ shard[l] \in Shard
      BY <1>6 DEF AllocateFull, Forward, table, NatInv, TypeInv
    <2>2. PICK port : sent' = sent \union {[src_port |-> pkt[l].src_port, shard |-> shard[l],
                                            port |-> port, full |-> TRUE]}
      BY <1>6 DEF AllocateFull, Forward
    <2>3. SentInv'
      BY <2>1, <2>2 DEF NatInv, SentInv
    <2>4. TypeInv'
      BY <2>1, ReturnType DEF NatInv, TypeInv
    <2>5. \A t \in Shard : InUse(t)' = InUse(t)
      BY <2>1 DEF InUse
    <2>6. FoundInv'
      BY <2>1, <2>5, ReturnType, FoundKept
    <2> QED
      BY <2>1, <2>3, <2>4, <2>5, <2>6 DEF NatInv, HeapInv, MapInv
  <1>7. ASSUME NEW l \in Lcore, CheckExternal(l) PROVE NatInv'
    <2>1. UNCHANGED <<table, sent>>
      BY <1>7 DEF CheckExternal
    <2>2. TypeInv'
      <3>1. CASE ExternalIndex(l) \in InUse(shard[l])
        BY <1>7, <2>1, <3>1, TablesSame DEF CheckExternal, NatInv, TypeInv
      <3>2. CASE ExternalIndex(l) \notin InUse(shard[l])
        BY <1>7, <2>1, <3>2, TablesSame, ReturnType DEF CheckExternal, NatInv, TypeInv
      <3> QED
        BY <3>1, <3>2
    <2>3. FoundInv'
      <3>1. CASE ExternalIndex(l) \in InUse(shard[l])
        BY ZenonT(40), <1>7, <2>1, <3>1, TablesSame, FoundKept DEF CheckExternal, NatInv, TypeInv
      <3>2. CASE ExternalIndex(l) \notin InUse(shard[l])
        BY <1>7, <2>1, <3>2, TablesSame, ReturnType, FoundKept DEF CheckExternal
      <3> QED
        BY <3>1, <3>2
    <2> QED
      BY <2>1, <2>2, <2>3, TablesSame DEF NatInv
  <1>8. ASSUME NEW l \in Lcore, GetExternal(l) PROVE NatInv'
    <2>0. PICK s \in Shard : s = shard[l]
      BY DEF NatInv, TypeInv
    <2>1. PICK k \in InUse(s) :
            /\ Rejuvenate(s, k) /\ Return(l) /\ UNCHANGED <<fm, fv>> /\ sent' = sent
      BY <1>8, <2>0 DEF GetExternal, NatInv, FoundInv
    <2>2. TypeInv'
      BY <2>1, RejuvenateInv, ReturnType DEF TypeInv
    <2>3. SentInv'
      BY <2>1 DEF NatInv, SentInv
    <2>4. FoundInv'
      BY <2>1, RejuvenateInv, ReturnType, FoundKept
    <2> QED
      BY <2>1, <2>2, <2>3, <2>4, RejuvenateInv DEF NatInv
  <1>9. CASE UNCHANGED vars
    <2>1. UNCHANGED <<table, sent>> /\ pc' = pc /\ shard' = shard /\ pkt' = pkt
      BY <1>9 DEF vars
    <2>2. TypeInv'
      BY <2>1, TablesSame DEF NatInv, TypeInv
    <2>3. FoundInv'
      BY <2>1 DEF NatInv, FoundInv, ExternalIndex, ShardStart, InUse, table
    <2> QED
      BY <2>1, <2>2, <2>3, TablesSame DEF NatInv
  <1> QED
    BY <1>1, <1>2, <1>3, <1>4, <1>5, <1>6, <1>7, <1>8, <1>9 DEF Next, LcoreStep

\* The tables are consistent in every reachable state.
LEMMA NatInvariant == Spec => []NatInv
  BY NatInvInit, NatInvStep, PTL DEF Spec

-----------------------------------------------------------------------------

\* nf_init gives the shards disjoint port ranges and the flow manager never
\* gives an index twice: two flows the NAT tells apart never leave with the same
\* external port, in no mode and however the lcores interleave.
THEOREM PortsAreUnique == Spec => []PortsUnique
  <1>1. NatInv => PortsUnique
    <2> SUFFICES ASSUME NatInv PROVE PortsUnique
      OBVIOUS
    <2>1. ASSUME NEW x \in Translated
          PROVE  /\ x.shard \in Shard
                 /\ ShardStart(x.shard) \in Nat /\ ShardFlows(x.shard) \in Nat
                 /\ x.port \in ShardStart(x.shard) .. ShardStart(x.shard) + ShardFlows(x.shard) - 1
                 /\ fv[x.shard][x.port - ShardStart(x.shard) + 1].src_port = x.src_port
      <3>1. x \in sent /\ ~ x.full
        BY <2>1 DEF Translated
      <3>2. /\ x.shard \in Shard
            /\ x.port \in ShardStart(x.shard) .. ShardStart(x.shard) + Len(fv[x.shard]) - 1
            /\ fv[x.shard][x.port - ShardStart(x.shard) + 1].src_port = x.src_port
        BY <3>1 DEF NatInv, SentInv
      <3>3. Len(fv[x.shard]) \in Nat /\ Len(fv[x.shard]) <= ShardFlows(x.shard)
        BY <3>2 DEF NatInv, TypeInv, HeapInv
      <3>4. ShardStart(x.shard) \in Nat /\ ShardFlows(x.shard) \in Nat
        BY <3>2, ShardFacts
      <3>5. x.port \in ShardStart(x.shard) .. ShardStart(x.shard) + ShardFlows(x.shard) - 1
        <4> DEFINE st == ShardStart(x.shard)  nf == ShardFlows(x.shard)  n == Len(fv[x.shard])
        <4>1. st \in Nat /\ nf \in Nat /\ n \in Nat /\ n <= nf /\ x.port \in st .. st + n - 1
          BY <3>2, <3>3, <3>4
        <4> HIDE DEF st, nf, n
        <4>2. x.port \in st .. st + nf - 1
          BY <4>1
        <4> QED
          BY <4>2 DEF st, nf
      <3> QED
        BY <3>2, <3>4, <3>5
    <2>2. ASSUME NEW x \in Translated PROVE x.port \in StartPort .. StartPort + MaxFlows - 1
      BY <2>1, RangesDisjoint, ShardFacts
    <2>3. ASSUME NEW x \in Translated, NEW y \in Translated, x.port = y.port
          PROVE  x.shard = y.shard /\ x.src_port = y.src_port
      <3>1. x.shard = y.shard
        BY <2>1, <2>3, RangesDisjoint
      <3> QED
        BY <2>1, <2>3, <3>1
    <2> QED
      BY <2>2, <2>3 DEF PortsUnique
  <1> QED
    BY <1>1, NatInvariant, PTL

\* flow_manager_get_external finds, for every port that was ever given out, the
\* flow it was given to, also when two lcores allocated the same flow twice.
THEOREM AnswersFindTheirFlow == Spec => []ReverseTranslation
  <1>1. NatInv => ReverseTranslation
    <2> SUFFICES ASSUME NatInv, NEW x \in Translated
                 PROVE  LET k == x.port - ShardStart(x.shard)
                        IN  k \in InUse(x.shard) /\ fv[x.shard][k+1].src_port = x.src_port
      BY DEF ReverseTranslation
    <2>1. /\ x.shard \in Shard
          /\ x.port \in ShardStart(x.shard) .. ShardStart(x.shard) + Len(fv[x.shard]) - 1
          /\ fv[x.shard][x.port - ShardStart(x.shard) + 1].src_port = x.src_port
      BY DEF NatInv, SentInv, Translated
    <2>2. /\ ShardStart(x.shard) \in Nat /\ Len(fv[x.shard]) \in Nat
          /\ InUse(x.shard) = 0 .. Len(fv[x.shard]) - 1
      BY <2>1, ShardFacts DEF NatInv, TypeInv, HeapInv
    <2> QED
      BY <2>1, <2>2
  <1> QED
    BY <1>1, NatInvariant, PTL

-----------------------------------------------------------------------------
(***************************************************************************)
(* Outside Shared a shard belongs to one lcore.  Nothing happens to it     *)
(* between the lookup that fails and the allocation, so the map never gets *)
(* a second entry for a key.                                               *)
(***************************************************************************)

OneEntryInv ==
  /\ \A l \in Lcore : pc[l] # "idle" => shard[l] \in ShardsOf(l)
  /\ \A l \in Lcore : pc[l] = "new" => Matches(shard[l], pkt[l]) = {}
  /\ \A s \in Shard : \A e, g \in fm[s] : e.key = g.key => e.index = g.index
  /\ \A x \in sent : ~ x.full =>
       \E e \in fm[x.shard] : e.key = x.src_port /\ e.index = x.port - ShardStart(x.shard)

\* Two lcores are never in one shard.
LEMMA ShardsApart ==
  ASSUME Mode # "shared", NEW l \in Lcore, NEW m \in Lcore, l # m
  PROVE  ShardsOf(l) \cap ShardsOf(m) = {}
  <1>1. Mode # "single"
    BY NatAssumption DEF Lcore
  <1> QED
    BY <1>1, NatAssumption DEF ShardsOf

\* After nf_process has returned the lcore is in no shard.
LEMMA ReturnIdle ==
  ASSUME NatInv, NEW l \in Lcore, Return(l)
  PROVE  pc'[l] = "idle"
  BY DEF Return, NatInv, TypeInv

\* Steps of an lcore that leave the map alone, and send only packets whose
\* entry is in it.
LEMMA OneEntryKept ==
  ASSUME OneEntryInv, NEW l \in Lcore, fm' = fm,
         pc'[l] # "new", pc'[l] # "idle" => shard'[l] \in ShardsOf(l),
         \A m \in Lcore : m # l => pc'[m] = pc[m] /\ shard'[m] = shard[m] /\ pkt'[m] = pkt[m],
         \A x \in sent' : x \in sent \/ x.full \/
           \E e \in fm[x.shard] : e.key = x.src_port /\ e.index = x.port - ShardStart(x.shard)
  PROVE  OneEntryInv'
  <1>1. ASSUME NEW m \in Lcore
        PROVE  /\ pc'[m] # "idle" => shard'[m] \in ShardsOf(m)
               /\ pc'[m] = "new" => Matches(shard[m], pkt[m])' = {}
    <2>1. CASE m = l
      BY <2>1
    <2>2. CASE m # l
      BY <2>2 DEF OneEntryInv, Matches
    <2> QED
      BY <2>1, <2>2
  <1>2. \A x \in sent' : ~ x.full =>
          \E e \in fm[x.shard] : e.key = x.src_port /\ e.index = x.port - ShardStart(x.shard)
    BY DEF OneEntryInv
  <1> QED
    BY <1>1, <1>2 DEF OneEntryInv, ShardsOf, Shard, NbShards, ShardStart

\* Every step keeps the map to one entry for a key.
LEMMA OneEntryStep ==
  ASSUME Mode # "shared", NatInv, OneEntryInv, [Next]_vars
  PROVE  OneEntryInv'
  <1>1. ASSUME NEW l \in Lcore, ReceiveInternal(l) \/ ReceiveExternal(l) PROVE OneEntryInv'
    <2>1. /\ fm' = fm /\ sent' = sent /\ pc'[l] # "new" /\ shard'[l] \in ShardsOf(l)
          /\ \A m \in Lcore : m # l => pc'[m] = pc[m] /\ shard'[m] = shard[m] /\ pkt'[m] = pkt[m]
      BY <1>1 DEF ReceiveInternal, ReceiveExternal, table, NatInv, TypeInv
    <2> QED
      BY <2>1, OneEntryKept
  <1>2. ASSUME NEW l \in Lcore, GetInternalHit(l) PROVE OneEntryInv'
    <2>1. PICK s \in Shard, f \in Flow : s = shard[l] /\ f = pkt[l] /\ Matches(s, f) # {}
      BY <1>2 DEF GetInternalHit, NatInv, TypeInv
    <2>2. PICK e \in fm[s] : e.key = f.src_port /\ e.index = MapGet(s, f)
      BY <2>1, MapGetFacts DEF NatInv
    <2>3. PICK y : y = [src_port |-> f.src_port, shard |-> s,
                        port |-> ShardStart(s) + e.index, full |-> FALSE]
      OBVIOUS
    <2>4. fm' = fm /\ sent' = sent \union {y} /\ Return(l)
      BY <1>2, <2>1, <2>2, <2>3 DEF GetInternalHit, Forward
    <2>5. y.shard = s /\ y.src_port = e.key /\ y.port - ShardStart(y.shard) = e.index
      <3>1. e.index \in Nat /\ ShardStart(s) \in Nat
        BY <2>1, <2>2, ShardFacts DEF NatInv, TypeInv, Entry
      <3> QED
        BY <2>2, <2>3, <3>1
    <2> QED
      BY <2>2, <2>4, <2>5, ReturnType, OneEntryKept, ReturnIdle
  <1>3. ASSUME NEW l \in Lcore, GetInternalMiss(l) PROVE OneEntryInv'
    <2>1. /\ fm' = fm /\ sent' = sent /\ shard' = shard /\ pkt' = pkt
          /\ Matches(shard[l], pkt[l]) = {} /\ pc[l] # "idle"
          /\ \A m \in Lcore : m # l => pc'[m] = pc[m]
      BY <1>3 DEF GetInternalMiss, table, NatInv, TypeInv
    <2>2. \A m \in Lcore : Matches(shard[m], pkt[m])' = Matches(shard[m], pkt[m])
      BY <2>1 DEF Matches
    <2> QED
      BY <2>1, <2>2 DEF OneEntryInv
  <1>4. ASSUME NEW l \in Lcore, AllocateFlow(l) PROVE OneEntryInv'
    <2>1. PICK s \in Shard, f \in Flow : s = shard[l] /\ f = pkt[l]
      BY <1>4 DEF AllocateFlow, NatInv, TypeInv
    <2>2. /\ s \in ShardsOf(l) /\ Matches(s, f) = {}
          /\ Len(heap[s]) \in Nat /\ ShardStart(s) \in Nat
      BY <1>4, <2>1, ShardFacts DEF AllocateFlow, NatInv, TypeInv, OneEntryInv
    <2>3. PICK e : e = [key |-> f.src_port, index |-> Len(heap[s])]
      OBVIOUS
    <2>4. PICK y : y = [src_port |-> f.src_port, shard |-> s,
                        port |-> ShardStart(s) + Len(heap[s]), full |-> FALSE]
      OBVIOUS
    <2>5. /\ fm' = [fm EXCEPT ![s] = fm[s] \union {e}]
          /\ sent' = sent \union {y}
          /\ Return(l)
      BY <1>4, <2>1, <2>3, <2>4 DEF AllocateFlow, NewIndex, Forward
    <2>6. /\ y.shard = s /\ y.src_port = e.key /\ y.port - ShardStart(y.shard) = e.index
          /\ e.key = f.src_port
      BY <2>2, <2>3, <2>4
    <2>7. fm'[s] = fm[s] \union {e} /\ \A t \in Shard : t # s => fm'[t] = fm[t]
      BY <2>1, <2>5 DEF NatInv, TypeInv
    <2>8. ASSUME NEW m \in Lcore
          PROVE  /\ pc'[m] # "idle" => shard'[m] \in ShardsOf(m)
                 /\ pc'[m] = "new" => Matches(shard[m], pkt[m])' = {}
      <3>1. CASE m = l
        BY <2>5, <3>1, ReturnIdle
      <3>2. CASE m # l
        <4>1. pc'[m] = pc[m] /\ shard'[m] = shard[m] /\ pkt'[m] = pkt[m] /\ shard[m] \in Shard
          BY <2>5, <3>2, ReturnType DEF NatInv, TypeInv
        <4>2. pc'[m] = "new" => fm'[shard[m]] = fm[shard[m]]
          <5>1. pc[m] = "new" => shard[m] \in ShardsOf(m)
            BY DEF OneEntryInv
          <5>2. ShardsOf(l) \cap ShardsOf(m) = {}
            BY <3>2, ShardsApart
          <5>3. pc[m] = "new" => shard[m] # s
            BY <2>2, <5>1, <5>2
          <5> QED
            BY <2>7, <4>1, <5>3
        <4> QED
          BY <4>1, <4>2 DEF OneEntryInv, Matches
      <3> QED
        BY <3>1, <3>2
    <2>9. ASSUME NEW t \in Shard, NEW a \in fm'[t], NEW b \in fm'[t], a.key = b.key
          PROVE  a.index = b.index
      <3>1. CASE t = s
        BY <2>2, <2>6, <2>7, <2>9, <3>1 DEF Matches, OneEntryInv
      <3>2. CASE t # s
        BY <2>7, <2>9, <3>2 DEF OneEntryInv
      <3> QED
        BY <3>1, <3>2
    <2>10. ASSUME NEW x \in sent', ~ x.full
           PROVE  \E g \in fm'[x.shard] : g.key = x.src_port /\ g.index = x.port - ShardStart(x.shard)
      <3>1. CASE x = y
        BY <2>6, <2>7, <3>1
      <3>2. CASE x # y
        <4>1. /\ x.shard \in Shard
              /\ \E g \in fm[x.shard] : g.key = x.src_port /\ g.index = x.port - ShardStart(x.shard)
          BY <2>5, <2>10, <3>2 DEF OneEntryInv, NatInv, SentInv
        <4>2. fm[x.shard] \subseteq fm'[x.shard]
          BY <2>7, <4>1
        <4> QED
          BY <4>1, <4>2
      <3> QED
        BY <3>1, <3>2
    <2> QED
      BY <2>8, <2>9, <2>10 DEF OneEntryInv, ShardsOf, Shard, NbShards, ShardStart
  <1>5. ASSUME NEW l \in Lcore, AllocateFull(l) PROVE OneEntryInv'
    <2>1. PICK port : sent' = sent \union {[src_port |-> pkt[l].src_port, shard |-> shard[l],
                                            port |-> port, full |-> TRUE]}
      BY <1>5 DEF AllocateFull, Forward
    <2>2. fm' = fm /\ Return(l)
      BY <1>5 DEF AllocateFull, Forward, table
    <2> QED
      BY <2>1, <2>2, ReturnType, OneEntryKept, ReturnIdle
  <1>6. ASSUME NEW l \in Lcore, CheckExternal(l) \/ GetExternal(l) PROVE OneEntryInv'
    <2>1. /\ fm' = fm /\ sent' = sent
          /\ \/ Return(l)
             \/ pc' = [pc EXCEPT ![l] = "found"] /\ pc[l] = "external" /\ UNCHANGED <<shard, pkt>>
      BY <1>6 DEF CheckExternal, GetExternal, table
    <2>2. CASE Return(l)
      BY <2>1, <2>2, ReturnType, OneEntryKept, ReturnIdle
    <2>3. CASE /\ pc' = [pc EXCEPT ![l] = "found"] /\ pc[l] = "external"
               /\ UNCHANGED <<shard, pkt>>
      <3>1. /\ pc'[l] # "new" /\ shard'[l] \in ShardsOf(l)
            /\ \A m \in Lcore : m # l => pc'[m] = pc[m] /\ shard'[m] = shard[m] /\ pkt'[m] = pkt[m]
        BY <2>3 DEF OneEntryInv, NatInv, TypeInv
      <3> QED
        BY <2>1, <3>1, OneEntryKept
    <2> QED
      BY <2>1, <2>2, <2>3
  <1>7. CASE UNCHANGED vars
    BY <1>7 DEF vars, table, OneEntryInv, Matches
  <1> QED
    BY <1>1, <1>2, <1>3, <1>4, <1>5, <1>6, <1>7 DEF Next, LcoreStep

\* In the single-core and Partitioned modes a flow keeps its external port: all
\* its packets leave with the port its first one was given.
THEOREM PortsAreStable == Mode # "shared" => (Spec => []PortStable)
  <1> SUFFICES ASSUME Mode # "shared" PROVE Spec => []PortStable
    OBVIOUS
  <1>1. Init => OneEntryInv
    BY DEF Init, OneEntryInv
  <1>2. NatInv /\ OneEntryInv /\ [Next]_vars => OneEntryInv'
    BY OneEntryStep
  <1>3. NatInv /\ OneEntryInv => PortStable
    <2> SUFFICES ASSUME NatInv, OneEntryInv, NEW x \in Translated, NEW y \in Translated,
                        x.shard = y.shard, x.src_port = y.src_port
                 PROVE  x.port = y.port
      BY DEF PortStable
    <2>1. x.port - ShardStart(x.shard) = y.port - ShardStart(x.shard)
      BY DEF NatInv, SentInv, OneEntryInv, Translated
    <2>2. x.port \in Int /\ y.port \in Int /\ ShardStart(x.shard) \in Nat
      BY ShardFacts DEF NatInv, SentInv, Translated
    <2> QED
      BY <2>1, <2>2
  <1> QED
    BY <1>1, <1>2, <1>3, NatInvariant, PTL DEF Spec

-----------------------------------------------------------------------------
(***************************************************************************)
(* How often one flow is put in the map.                                   *)
(***************************************************************************)

\* The entries of a source port, and the lcores that will add one: those that
\* looked the port up in this shard and did not find it.
Entries(s, p) == {e \in fm[s] : e.key = p}

Adding(s, p) == {l \in Lcore : pc[l] = "new" /\ shard[l] = s /\ pkt[l].src_port = p}

\* Together they are never more than the lcores: an lcore starts to add an entry
\* only when there is none, and it adds one.
DuplicatesInv ==
  \A s \in Shard :
    /\ IsFiniteSet(fm[s])
    /\ \A p \in SrcPorts : Cardinality(Entries(s, p)) + Cardinality(Adding(s, p)) <= NbLcores

\* The sets that are counted are finite.
LEMMA CountedFinite ==
  /\ NbLcores \in Nat /\ IsFiniteSet(Lcore) /\ Cardinality(Lcore) = NbLcores
  /\ \A T \in SUBSET Lcore :
       IsFiniteSet(T) /\ Cardinality(T) \in Nat /\ Cardinality(T) <= NbLcores
  <1>1. NbLcores \in Nat \ {0}
    BY NatAssumption
  <1>2. IsFiniteSet(Lcore) /\ Cardinality(Lcore) = NbLcores
    BY <1>1, FS_Interval DEF Lcore
  <1> QED
    BY <1>1, <1>2, FS_Subset, FS_CardinalityType

\* A step that adds no entry and no lcore that will.
LEMMA DuplicatesKept ==
  ASSUME DuplicatesInv, fm' = fm, \A s \in Shard, p \in SrcPorts : Adding(s, p)' \subseteq Adding(s, p)
  PROVE  DuplicatesInv'
  <1> SUFFICES ASSUME NEW s \in Shard, NEW p \in SrcPorts
               PROVE  Cardinality(Entries(s, p)') + Cardinality(Adding(s, p)') <= NbLcores
    BY DEF DuplicatesInv, Entries, Adding
  <1>1. Entries(s, p)' = Entries(s, p)
    BY DEF Entries
  <1>2. IsFiniteSet(Entries(s, p)) /\ Cardinality(Entries(s, p)) \in Nat
    BY FS_Subset, FS_CardinalityType DEF DuplicatesInv, Entries
  <1>3. /\ Cardinality(Adding(s, p)') <= Cardinality(Adding(s, p))
        /\ Cardinality(Adding(s, p)) \in Nat /\ Cardinality(Adding(s, p)') \in Nat
    <2>1. Adding(s, p) \in SUBSET Lcore
      BY DEF Adding
    <2>2. Adding(s, p)' \in SUBSET Adding(s, p)
      OBVIOUS
    <2> QED
      BY <2>1, <2>2, CountedFinite, FS_Subset, FS_CardinalityType
  <1>4. Cardinality(Entries(s, p)) + Cardinality(Adding(s, p)) <= NbLcores
    BY DEF DuplicatesInv
  <1> QED
    BY <1>1, <1>2, <1>3, <1>4, CountedFinite

\* The map starts empty.
LEMMA DuplicatesInit == Init => DuplicatesInv
  <1> SUFFICES ASSUME Init, NEW s \in Shard, NEW p \in SrcPorts
               PROVE  /\ IsFiniteSet(fm[s])
                      /\ Cardinality(Entries(s, p)) + Cardinality(Adding(s, p)) <= NbLcores
    BY FS_EmptySet DEF DuplicatesInv, Init
  <1>1. fm[s] = {} /\ Entries(s, p) = {} /\ Adding(s, p) = {}
    BY DEF Init, Entries, Adding
  <1> QED
    BY <1>1, FS_EmptySet, CountedFinite

\* A lookup that fails finds no entry, so that only the lcores count.
LEMMA DuplicatesMiss ==
  ASSUME NatInv, DuplicatesInv, NEW l \in Lcore, GetInternalMiss(l)
  PROVE  DuplicatesInv'
  <1>1. /\ fm' = fm /\ shard' = shard /\ pkt' = pkt /\ pc[l] = "internal"
        /\ pc' = [pc EXCEPT ![l] = "new"] /\ Matches(shard[l], pkt[l]) = {}
        /\ pc \in [Lcore -> {"idle", "internal", "new", "external", "found"}]
    BY DEF GetInternalMiss, table, NatInv, TypeInv
  <1> SUFFICES ASSUME NEW s \in Shard, NEW p \in SrcPorts
               PROVE  Cardinality(Entries(s, p)') + Cardinality(Adding(s, p)') <= NbLcores
    BY <1>1 DEF DuplicatesInv, Entries, Adding
  <1>2. Entries(s, p)' = Entries(s, p)
    BY <1>1 DEF Entries
  <1>3. CASE s = shard[l] /\ p = pkt[l].src_port
    <2>1. Entries(s, p) = {}
      BY <1>1, <1>3 DEF Entries, Matches
    <2>2. Adding(s, p)' \in SUBSET Lcore
      BY DEF Adding
    <2> QED
      BY <1>2, <2>1, <2>2, CountedFinite, FS_EmptySet
  <1>4. CASE ~ (s = shard[l] /\ p = pkt[l].src_port)
    <2>1. Adding(s, p)' = Adding(s, p)
      BY <1>1, <1>4 DEF Adding
    <2> QED
      BY <1>2, <2>1 DEF DuplicatesInv
  <1> QED
    BY <1>3, <1>4

\* An lcore that adds an entry is no longer one that will.
LEMMA DuplicatesAllocate ==
  ASSUME NatInv, DuplicatesInv, NEW l \in Lcore, AllocateFlow(l)
  PROVE  DuplicatesInv'
  <1>1. PICK s \in Shard, f \in Flow : s = shard[l] /\ f = pkt[l]
    BY DEF AllocateFlow, NatInv, TypeInv
  <1>2. PICK e : e = [key |-> f.src_port, index |-> NewIndex(s)]
    OBVIOUS
  <1>3. /\ fm' = [fm EXCEPT ![s] = @ \union {e}] /\ fm \in [Shard -> SUBSET Entry]
        /\ pc[l] = "new" /\ pc'[l] = "idle" /\ e.key = f.src_port
        /\ \A m \in Lcore : m # l => pc'[m] = pc[m] /\ shard'[m] = shard[m] /\ pkt'[m] = pkt[m]
    BY <1>1, <1>2 DEF AllocateFlow, Forward, Return, NatInv, TypeInv
  <1>4. ASSUME NEW t \in Shard PROVE IsFiniteSet(fm'[t])
    <2>1. CASE t = s
      BY <1>3, <2>1, FS_AddElement DEF DuplicatesInv
    <2>2. CASE t # s
      BY <1>3, <2>2 DEF DuplicatesInv
    <2> QED
      BY <2>1, <2>2
  <1>5. ASSUME NEW t \in Shard, NEW p \in SrcPorts
        PROVE  Cardinality(Entries(t, p)') + Cardinality(Adding(t, p)') <= NbLcores
    <2>1. IsFiniteSet(Entries(t, p)) /\ Cardinality(Entries(t, p)) \in Nat
      BY FS_Subset, FS_CardinalityType DEF DuplicatesInv, Entries
    <2>2. IsFiniteSet(Adding(t, p)) /\ Cardinality(Adding(t, p)) \in Nat
      BY CountedFinite DEF Adding
    <2>3. Cardinality(Entries(t, p)) + Cardinality(Adding(t, p)) <= NbLcores
      BY DEF DuplicatesInv
    <2>4. CASE t = s /\ p = f.src_port
      <3>1. Entries(t, p)' = Entries(t, p) \union {e}
        BY <1>3, <2>4 DEF Entries
      <3>2. Adding(t, p)' = Adding(t, p) \ {l} /\ l \in Adding(t, p)
        BY <1>1, <1>3, <2>4 DEF Adding
      <3>3. Cardinality(Adding(t, p)') = Cardinality(Adding(t, p)) - 1
        BY <2>2, <3>2, FS_RemoveElement
      <3>4. /\ Cardinality(Entries(t, p)') \in Nat
            /\ Cardinality(Entries(t, p)') <= Cardinality(Entries(t, p)) + 1
        <4>1. Cardinality(Entries(t, p) \union {e}) =
                IF e \in Entries(t, p) THEN Cardinality(Entries(t, p))
                                       ELSE Cardinality(Entries(t, p)) + 1
          BY <2>1, FS_AddElement, Zenon
        <4> QED
          BY <2>1, <3>1, <4>1
      <3> QED
        BY <2>1, <2>2, <2>3, <3>3, <3>4, CountedFinite
    <2>5. CASE ~ (t = s /\ p = f.src_port)
      <3>1. Entries(t, p)' = Entries(t, p)
        BY <1>3, <2>5 DEF Entries
      <3>2. Adding(t, p)' = Adding(t, p)
        BY <1>1, <1>3, <2>5 DEF Adding
      <3> QED
        BY <2>3, <3>1, <3>2
    <2> QED
      BY <2>4, <2>5
  <1> QED
    BY <1>4, <1>5 DEF DuplicatesInv, Entries, Adding

\* Every step keeps the count.
LEMMA DuplicatesStep == NatInv /\ DuplicatesInv /\ [Next]_vars => DuplicatesInv'
  <1> SUFFICES ASSUME NatInv, DuplicatesInv, [Next]_vars PROVE DuplicatesInv'
    OBVIOUS
  <1>1. ASSUME NEW l \in Lcore, fm' = fm, pc'[l] # "new",
               \A m \in Lcore : m # l => pc'[m] = pc[m] /\ shard'[m] = shard[m] /\ pkt'[m] = pkt[m]
        PROVE  DuplicatesInv'
    <2>1. ASSUME NEW s \in Shard, NEW p \in SrcPorts PROVE Adding(s, p)' \subseteq Adding(s, p)
      BY <1>1 DEF Adding
    <2> QED
      BY <1>1, <2>1, DuplicatesKept
  <1>2. ASSUME NEW l \in Lcore, ReceiveInternal(l) \/ ReceiveExternal(l) PROVE DuplicatesInv'
    BY <1>1, <1>2 DEF ReceiveInternal, ReceiveExternal, table, NatInv, TypeInv
  <1>3. ASSUME NEW l \in Lcore, GetInternalHit(l) \/ AllocateFull(l) \/ GetExternal(l)
        PROVE  DuplicatesInv'
    BY <1>1, <1>3 DEF GetInternalHit, AllocateFull, GetExternal, Forward, Return, table, NatInv, TypeInv
  <1>4. ASSUME NEW l \in Lcore, CheckExternal(l) PROVE DuplicatesInv'
    BY <1>1, <1>4 DEF CheckExternal, Return, table, NatInv, TypeInv
  <1>5. CASE UNCHANGED vars
    <2>1. \A s \in Shard, p \in SrcPorts : Adding(s, p)' \subseteq Adding(s, p)
      BY <1>5 DEF Adding, vars
    <2> QED
      BY <1>5, <2>1, DuplicatesKept DEF vars, table
  <1> QED
    BY <1>2, <1>3, <1>4, <1>5, DuplicatesMiss, DuplicatesAllocate DEF Next, LcoreStep

\* Lcores that look one new flow up at the same time can each put it in the map;
\* but a flow never takes more ports of its shard than there are lcores.
THEOREM DuplicatesAreBounded == Spec => []DuplicatesBounded
  <1>1. NatInv /\ DuplicatesInv => DuplicatesBounded
    <2> SUFFICES ASSUME DuplicatesInv, NEW s \in Shard, NEW p \in SrcPorts
                 PROVE  Cardinality(Entries(s, p)) <= NbLcores
      BY DEF DuplicatesBounded, Entries
    <2>1. Cardinality(Entries(s, p)) \in Nat
      BY FS_Subset, FS_CardinalityType DEF DuplicatesInv, Entries
    <2>2. Cardinality(Adding(s, p)) \in Nat
      BY CountedFinite DEF Adding
    <2> QED
      BY <2>1, <2>2, CountedFinite DEF DuplicatesInv
  <1> QED
    BY <1>1, NatInvInit, NatInvStep, DuplicatesInit, DuplicatesStep, PTL DEF Spec

=============================================================================
