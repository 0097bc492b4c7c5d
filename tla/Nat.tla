-------------------------------- MODULE Nat --------------------------------
(***************************************************************************)
(* The NAT of nf-chain: nf_init, nf_process (nat_main.c) and the flow      *)
(* manager (nat_flowmanager.c), run by several lcores.                     *)
(*                                                                         *)
(* The flow table is split into shards, each with a range of external      *)
(* ports: one shard on a single core, one per lcore in Partitioned, one    *)
(* per RX queue in Shared.  A burst is processed after the queue's lock    *)
(* has been released, so in Shared several lcores can be inside the same   *)
(* shard; each flow manager call then runs under the shard's spinlock, but *)
(* nf_process makes two calls for the first packet of a flow: the lookup,  *)
(* and the allocation if the lookup failed.                                *)
(*                                                                         *)
(* A flow is its source port, the only field key_equals and key_hash read, *)
(* and the rest of its FlowId.  Nothing is ever removed from a shard (the  *)
(* call of flow_manager_expire is commented out), so the free list of the  *)
(* double chain yields 0, 1, 2, ... and map_get finds, of two entries with *)
(* one key, the one put first.                                             *)
(***************************************************************************)
EXTENDS Integers, Sequences, FiniteSets

CONSTANTS
  Mode,       \* "single", "partitioned", "shared"
  NbLcores,   \* rte_lcore_count()
  Queues,     \* RX queues
  StartPort,  \* config.start_port
  MaxFlows,   \* config.max_flows
  SrcPorts,   \* source ports of internal packets
  Rests       \* what else identifies a flow: addresses, destination, protocol

ASSUME NatAssumption ==
  /\ Mode \in {"single", "partitioned", "shared"}
  /\ NbLcores \in Nat \ {0} /\ Queues \in Nat \ {0}
  /\ Mode = "single" => NbLcores = 1
  /\ StartPort \in Nat \ {0} /\ MaxFlows \in Nat \ {0}

Lcore == 0 .. NbLcores-1

Flow == [src_port : SrcPorts, rest : Rests]

\* main(): nf_init(nat_shards, mode == Shared, mode != Single).
NbShards == CASE Mode = "single" -> 1 [] Mode = "partitioned" -> NbLcores [] Mode = "shared" -> Queues

Shard == 0 .. NbShards-1

\* nf_init refuses more shards than flows.
ASSUME NatShardsAssumption == NbShards <= MaxFlows

drop_when_full == Mode # "single"

(***************************************************************************)
(* nf_init: the first max_flows % nb_shards shards hold one flow more, and *)
(* shard_start is the sum of the sizes of the shards before.               *)
(***************************************************************************)
ShardFlowsBug(s) == MaxFlows \div NbShards + 1

ShardFlows(s) == MaxFlows \div NbShards + (IF s < MaxFlows % NbShards THEN 1 ELSE 0)

ShardStart(s) ==
  StartPort + s * (MaxFlows \div NbShards) + (IF s < MaxFlows % NbShards THEN s ELSE MaxFlows % NbShards)

VARIABLES
  pc,     \* per lcore: "idle", "internal", "new", "external" or "found"
  shard,  \* the shard nf_process was given
  pkt,    \* the flow of an internal packet; the port an external one is for
  heap,   \* per shard, the indices in use, least recently used first
  fm,     \* per shard, the entries [key, index] of the map
  fv,     \* per shard, the flow stored at each index in use
  sent    \* history: what became of the packets

table == <<heap, fm, fv>>
vars  == <<pc, shard, pkt, table, sent>>

Init ==
  /\ pc = [l \in Lcore |-> "idle"]
  /\ shard = [l \in Lcore |-> 0]
  /\ pkt = [l \in Lcore |-> 0]
  /\ heap = [s \in Shard |-> <<>>]
  /\ fm = [s \in Shard |-> {}]
  /\ fv = [s \in Shard |-> <<>>]
  /\ sent = {}

(***************************************************************************)
(* nf_process_burst hands nf_process the next packet.  poll_loop chooses   *)
(* the shard: nf_shard(lcore_pos), nf_shard(i) for a burst of queue i in   *)
(* Shared, nf_shard(0) on a single core.                                   *)
(***************************************************************************)
ShardsOfBug(l) == IF Mode = "shared" THEN Shard ELSE {0}

ShardsOf(l) ==
  CASE Mode = "single" -> {0} [] Mode = "partitioned" -> {l} [] Mode = "shared" -> Shard

ReceiveInternal(l) ==
  /\ pc[l] = "idle"
  /\ \E s \in ShardsOf(l), f \in Flow :
       /\ shard' = [shard EXCEPT ![l] = s]
       /\ pkt' = [pkt EXCEPT ![l] = f]
  /\ pc' = [pc EXCEPT ![l] = "internal"]
  /\ UNCHANGED <<table, sent>>

\* A packet from the WAN port, for an external port of the shard it comes to.
ReceiveExternal(l) ==
  /\ pc[l] = "idle"
  /\ \E s \in ShardsOf(l) : \E k \in 0 .. ShardFlows(s)-1 :
       /\ shard' = [shard EXCEPT ![l] = s]
       /\ pkt' = [pkt EXCEPT ![l] = ShardStart(s) + k]
  /\ pc' = [pc EXCEPT ![l] = "external"]
  /\ UNCHANGED <<table, sent>>

\* nf_process returns: its arguments and locals are gone.
Return(l) ==
  /\ pc' = [pc EXCEPT ![l] = "idle"]
  /\ shard' = [shard EXCEPT ![l] = 0]
  /\ pkt' = [pkt EXCEPT ![l] = 0]

(***************************************************************************)
(* The data structures, as the flow manager uses them.                     *)
(***************************************************************************)
MatchesBug(s, f) == {e \in fm[s] : e.key = f.src_port /\ e.index = 0}

Matches(s, f) == {e \in fm[s] : e.key = f.src_port}

\* map_get: of several entries with the key the one put first, which has the
\* smallest index.
MapGet(s, f) == CHOOSE k \in {e.index : e \in Matches(s, f)} : \A e \in Matches(s, f) : k <= e.index

\* dchain_is_index_allocated.
InUse(s) == {heap[s][j] : j \in 1 .. Len(heap[s])}

HeapFull(s) == Len(heap[s]) >= ShardFlows(s)

\* dchain_allocate_new_index.
NewIndexBug(s) == IF heap[s] = <<>> THEN 0 ELSE heap[s][Len(heap[s])] + 1

NewIndex(s) == Len(heap[s])

\* dchain_rejuvenate_index: the index becomes the most recently used one.
MoveToEnd(h, k) ==
  LET p == CHOOSE j \in 1 .. Len(h) : h[j] = k
  IN  [j \in 1 .. Len(h) |-> IF j < p THEN h[j] ELSE IF j < Len(h) THEN h[j+1] ELSE k]

Rejuvenate(s, k) == heap' = [heap EXCEPT ![s] = MoveToEnd(@, k)]

\* nf_process returns and the packet goes out with this source port; full is
\* whether the shard had no room for its flow.
Forward(l, port, full) ==
  /\ sent' = sent \union {[src_port |-> pkt[l].src_port, shard |-> shard[l],
                           port |-> port, full |-> full]}
  /\ Return(l)

(***************************************************************************)
(* flow_manager_get_internal, under the shard's lock.                      *)
(***************************************************************************)
GetInternalHit(l) ==
  LET s == shard[l]
  IN  /\ pc[l] = "internal"
      /\ Matches(s, pkt[l]) # {}
      /\ Rejuvenate(s, MapGet(s, pkt[l]))
      /\ Forward(l, ShardStart(s) + MapGet(s, pkt[l]), FALSE)
      /\ UNCHANGED <<fm, fv>>

GetInternalMiss(l) ==
  /\ pc[l] = "internal"
  /\ Matches(shard[l], pkt[l]) = {}
  /\ pc' = [pc EXCEPT ![l] = "new"]
  /\ UNCHANGED <<shard, pkt, table, sent>>

(***************************************************************************)
(* flow_manager_allocate_flow, under the lock again.                       *)
(***************************************************************************)
AllocateFlow(l) ==
  LET s == shard[l]
      k == NewIndex(s)
  IN  /\ pc[l] = "new"
      /\ ~ HeapFull(s)
      /\ heap' = [heap EXCEPT ![s] = Append(@, k)]
      /\ fv' = [fv EXCEPT ![s] = Append(@, pkt[l])]
      /\ fm' = [fm EXCEPT ![s] = @ \union {[key |-> pkt[l].src_port, index |-> k]}]
      /\ Forward(l, ShardStart(s) + k, FALSE)

\* No index is left.  With drop_when_full nf_process returns EXPLICIT_DROP
\* before it rewrites the packet, and nf_process_burst ignores the result: the
\* packet is transmitted with its own source port.  Without it the packet is
\* given external_port, which nobody has set.
AllocateFull(l) ==
  /\ pc[l] = "new"
  /\ HeapFull(shard[l])
  /\ \E port \in IF drop_when_full THEN {pkt[l].src_port}
                                   ELSE SrcPorts \union (StartPort .. StartPort + MaxFlows - 1) :
       Forward(l, port, TRUE)
  /\ UNCHANGED table

(***************************************************************************)
(* flow_manager_get_external: whether the index is in use is read before   *)
(* the lock is taken.  A packet of an unknown flow passes unchanged.       *)
(***************************************************************************)
ExternalIndex(l) == pkt[l] - ShardStart(shard[l])

CheckExternal(l) ==
  /\ pc[l] = "external"
  /\ IF ExternalIndex(l) \in InUse(shard[l])
       THEN pc' = [pc EXCEPT ![l] = "found"] /\ UNCHANGED <<shard, pkt>>
       ELSE Return(l)
  /\ UNCHANGED <<table, sent>>

GetExternal(l) ==
  /\ pc[l] = "found"
  /\ Rejuvenate(shard[l], ExternalIndex(l))
  /\ Return(l)
  /\ UNCHANGED <<fm, fv, sent>>

LcoreStep(l) ==
  \/ ReceiveInternal(l) \/ ReceiveExternal(l)
  \/ GetInternalHit(l) \/ GetInternalMiss(l)
  \/ AllocateFlow(l) \/ AllocateFull(l)
  \/ CheckExternal(l) \/ GetExternal(l)

Next == \E l \in Lcore : LcoreStep(l)

Spec == Init /\ [][Next]_vars

-----------------------------------------------------------------------------

Translated == {x \in sent : ~ x.full}

\* "each owning a disjoint range of external ports": two flows that the NAT
\* tells apart, by shard or by source port, never go out with the same external
\* port, and every port is inside the range of the configuration.
PortsUnique ==
  /\ \A x \in Translated : x.port \in StartPort .. StartPort + MaxFlows - 1
  /\ \A x, y \in Translated :
       x.port = y.port => x.shard = y.shard /\ x.src_port = y.src_port

\* A flow keeps its external port: all packets with one source port that reach
\* one shard are given the same port, so that the other end sees one flow.
PortStable ==
  \A x, y \in Translated :
    x.shard = y.shard /\ x.src_port = y.src_port => x.port = y.port

\* What came back for an external port finds the flow the port was given to:
\* the index is in use, and the stored flow has the source port of the packets
\* that went out.
ReverseTranslation ==
  \A x \in Translated :
    LET k == x.port - ShardStart(x.shard)
    IN  k \in InUse(x.shard) /\ fv[x.shard][k+1].src_port = x.src_port

\* The lookup and the allocation of a new flow are two calls under the lock, so
\* that lcores can allocate one flow more than once; but only those that looked
\* it up before the first of them had put it: a flow never takes more ports of
\* its shard than there are lcores.
DuplicatesBounded ==
  \A s \in Shard, p \in SrcPorts : Cardinality({e \in fm[s] : e.key = p}) <= NbLcores

=============================================================================
