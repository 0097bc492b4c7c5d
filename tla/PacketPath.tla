----------------------------- MODULE PacketPath -----------------------------
(***************************************************************************)
(* What becomes of a burst of packets.  In nf-chain: prepare_acl_parameter *)
(* sorts it for the ACL, nf_process_burst passes each packet through the   *)
(* NAT (module Nat) and counts it in the lcore's count-min sketch, the ACL *)
(* classifies, and all of it is transmitted, at once on a single core,     *)
(* through tx_batch otherwise.  In locality: every TCP or UDP packet is    *)
(* printed with the number of its burst, and freed.                        *)
(*                                                                         *)
(* An mbuf is a buffer of the pool.  The pool may hold a buffer twice,     *)
(* after it has been freed twice, and hands it out as often.  A packet is  *)
(* [type, valid, flow, stop]: packet_type, what is_valid_ipv4_pkt says,    *)
(* the 5-tuple (0 if it is neither TCP nor UDP), and whether it is the     *)
(* STOP packet.                                                            *)
(***************************************************************************)
EXTENDS Integers, Sequences, FiniteSets, Order, AclRules

CONSTANTS
  Builds,       \* [program, lcores, multicore, columns, packets, files]
  Ports,        \* enabled_port_mask
  Mbufs,        \* buffers of the pool, 1, 2, ...
  MaxPktBurst,  \* MAX_PKT_BURST
  TxBatchSize,  \* TX_BATCH_SIZE
  HASHFN_N,     \* rows of a sketch
  Hash,         \* xxhash64: a key and a row to a number
  NatShift,     \* the flow f goes out as f + NatShift
  MaxPackets,   \* bound: packets a run receives
  MaxPolls      \* bound: empty polls of a locality run

LOCAL INSTANCE BurstAnalysis

VARIABLES
  build,
  file,       \* the rule file
  acl,        \* the ACL context, or {} before app_acl_init()
  pc,         \* per lcore: "init", "idle", "prepare", "process", "send", "stop" or "exit"
  pool,       \* how often each mbuf is in the pool
  head,       \* what each mbuf holds
  burst,      \* pkts_burst
  k,          \* the packet of the burst that is processed next
  tx_batch,
  values,     \* the count-min sketches
  burst_id,   \* locality: number of the burst
  printed     \* locality: the rows printed

(***************************************************************************)
(* History variables, which no action reads but to stop at the bounds.     *)
(***************************************************************************)
VARIABLES
  received,   \* number of packets received
  counted,    \* per lcore and key, the packets counted
  dropped,    \* per lcore, mbufs of the burst that prepare_one_packet freed
  corrupt,    \* it has ever freed one
  bursts      \* locality: the TCP and UDP packets of each burst

acls    == <<file, acl>>
mbufs   == <<pool, head, tx_batch>>
sketch  == <<values, counted>>
capture == <<burst_id, printed, bursts>>
vars    == <<build, acls, pc, mbufs, burst, k, sketch, capture, received, dropped, corrupt>>

Lcore == 0 .. 1

Row0    == 1 .. HASHFN_N
Columns == 0 .. build.columns - 1

Flows == {p.flow : p \in UNION {b.packets : b \in Builds}}
Keys  == Flows \union {f + NatShift : f \in Flows}

\* There are finitely many 5-tuples; a route's userdata is not 0 and lies below
\* the deny signature.
ASSUME PacketPathAssumption ==
  /\ Mbufs \subseteq Nat /\ IsFiniteSet(Mbufs)
  /\ HASHFN_N \in Nat /\ IsFiniteSet(Keys) /\ Hash \in [Row0 -> [Keys -> Nat]]
  /\ \A b \in Builds :
       /\ b.columns \in Nat \ {0}
       /\ \A f \in b.files : /\ Len(f) \in Nat /\ DOMAIN f = 1 .. Len(f)
                             /\ \A j \in DOMAIN f : f[j].port \in Nat
  /\ Ports \subseteq Nat /\ FWD_PORT_SHIFT \in Nat \ {0} /\ RTE_ACL_MAX_PRIORITY \in Nat
  /\ ACL_DENY_SIGNATURE \in Nat /\ \A p \in Ports : p + FWD_PORT_SHIFT < ACL_DENY_SIGNATURE

Blank == [type |-> "none", valid |-> FALSE, flow |-> 0, stop |-> FALSE]

Init ==
  /\ build \in Builds
  /\ file \in build.files
  /\ acl = {}
  /\ pc = [l \in Lcore |-> IF l < build.lcores THEN "init" ELSE "stop"]
  /\ pool = [m \in Mbufs |-> 1]
  /\ head = [m \in Mbufs |-> Blank]
  /\ burst = [l \in Lcore |-> <<>>]
  /\ k = [l \in Lcore |-> 1]
  /\ tx_batch = [l \in Lcore |-> <<>>]
  /\ values = [l \in Lcore |-> [r \in Row0 |-> [c \in Columns |-> 0]]]
  /\ burst_id = 0 /\ printed = <<>> /\ bursts = <<>>
  /\ received = 0
  /\ counted = [l \in Lcore |-> [key \in Keys |-> 0]]
  /\ dropped = [l \in Lcore |-> {}]
  /\ corrupt = FALSE

Goto(l, p) == pc' = [pc EXCEPT ![l] = p]

(***************************************************************************)
(* app_acl_init(), before the lcores are launched.                         *)
(***************************************************************************)
Starting == \A l \in Lcore : pc[l] \in {"init", "stop"}

LoadRules ==
  /\ Starting /\ \E l \in Lcore : pc[l] = "init"
  /\ build.program = "nf-chain" => ~ RulesRejected(file, Ports) /\ ~ ContextRefused(file)
  /\ acl' = IF build.program = "nf-chain" THEN setup_acl(file) ELSE {}
  /\ pc' = [l \in Lcore |-> IF pc[l] = "init" THEN "idle" ELSE pc[l]]
  /\ UNCHANGED <<build, file, mbufs, burst, k, sketch, capture, received, dropped, corrupt>>

LoadFails ==
  /\ Starting /\ \E l \in Lcore : pc[l] = "init"
  /\ build.program = "nf-chain"
  /\ RulesRejected(file, Ports) \/ ContextRefused(file)
  /\ pc' = [l \in Lcore |-> "exit"]
  /\ UNCHANGED <<build, acls, mbufs, burst, k, sketch, capture, received, dropped, corrupt>>

(***************************************************************************)
(* The pool.  The NIC receives into the first buffers that are there.      *)
(***************************************************************************)
Occurrences(s, m) == Cardinality({j \in DOMAIN s : s[j] = m})

\* rte_pktmbuf_free of every buffer of a sequence, the sent ones by the NIC.
Freed(s) == [m \in Mbufs |-> pool[m] + Occurrences(s, m)]

FirstOf(S, n) == {m \in S : Rank(S, m) < n}

Receive(l, n) ==
  LET into == FirstOf({m \in Mbufs : pool[m] > 0}, n)
  IN  /\ pc[l] = "idle"
      /\ n <= MaxPktBurst /\ received + n <= MaxPackets /\ Cardinality(into) = n
      /\ \E content \in [into -> build.packets] :
           head' = [m \in Mbufs |-> IF m \in into THEN content[m] ELSE head[m]]
      /\ burst' = [burst EXCEPT ![l] = Ascending(into)]
      /\ pool' = [m \in Mbufs |-> IF m \in into THEN pool[m] - 1 ELSE pool[m]]
      /\ received' = received + n
      /\ k' = [k EXCEPT ![l] = 1]
      /\ Goto(l, IF build.program = "nf-chain" THEN "prepare" ELSE "process")
      /\ UNCHANGED <<build, acls, tx_batch, sketch, capture, dropped, corrupt>>

-----------------------------------------------------------------------------
(***************************************************************************)
(* nf-chain.                                                               *)
(***************************************************************************)

\* prepare_one_packet: an IPv4 packet (or one of no type) that is not valid,
\* and a packet of any type but IPv4 and IPv6, are freed.  They stay in the
\* burst.
Unfit(p) == IF p.type \in {"ipv4", "none"} THEN ~ p.valid ELSE p.type # "ipv6"

prepare_acl_parameter(l) ==
  LET unfit == SelectSeq(burst[l], LAMBDA m : Unfit(head[m]))
  IN  /\ pc[l] = "prepare"
      /\ pool' = Freed(unfit)
      /\ dropped' = [dropped EXCEPT ![l] = {unfit[j] : j \in DOMAIN unfit}]
      /\ corrupt' = (corrupt \/ unfit # <<>>)
      /\ Goto(l, "process")
      /\ UNCHANGED <<build, acls, head, tx_batch, burst, k, sketch, capture, received>>

Current(l) == head[burst[l][k[l]]]

\* check_packet_magic: the lcore returns and leaves its packets where they are.
StopReceived(l) ==
  /\ pc[l] = "process" /\ build.program = "nf-chain"
  /\ Current(l).stop
  /\ Goto(l, "stop")
  /\ UNCHANGED <<build, acls, mbufs, burst, k, sketch, capture, received, dropped, corrupt>>

\* nf_process rewrites the header, of whatever type the packet is, unless the
\* flow table is full.
nf_process(f) == {f + NatShift, f}

RowsCountedBug == 1 .. HASHFN_N - 1

RowsCounted == Row0

\* count_add: an IPv4 packet is counted in every row, under the header that
\* nf_process has left.
count_add(l, p, key) ==
  LET Hit(r) == Hash[r][key] % build.columns
  IN  IF p.type # "ipv4" THEN UNCHANGED sketch
      ELSE /\ values' = [values EXCEPT ![l] = [r \in Row0 |-> [c \in Columns |->
                           IF r \in RowsCounted /\ c = Hit(r) THEN @[r][c] + 1 ELSE @[r][c]]]]
           /\ counted' = [counted EXCEPT ![l][key] = @ + 1]

ProcessPacket(l) ==
  /\ pc[l] = "process" /\ build.program = "nf-chain"
  /\ ~ Current(l).stop
  /\ \E key \in nf_process(Current(l).flow) \intersect Keys :
       /\ head' = [head EXCEPT ![burst[l][k[l]]].flow = key]
       /\ count_add(l, Current(l), key)
  /\ k' = [k EXCEPT ![l] = @ + 1]
  /\ Goto(l, IF k[l] = Len(burst[l]) THEN "send" ELSE "process")
  /\ UNCHANGED <<build, acls, pool, tx_batch, burst, capture, received, dropped, corrupt>>

Emptied(s) == [j \in Lcore |-> IF j = s THEN <<>> ELSE burst[j]]

\* The ACL's verdicts are not used: the whole burst goes out.  What the NIC does
\* not take is freed.
TransmitSingle(l) ==
  /\ pc[l] = "send" /\ ~ build.multicore
  /\ pool' = Freed(burst[l])
  /\ burst' = Emptied(l)
  /\ dropped' = [dropped EXCEPT ![l] = {}]
  /\ Goto(l, "idle")
  /\ UNCHANGED <<build, acls, head, tx_batch, k, sketch, capture, received, corrupt>>

NearlyFull(l) == Len(tx_batch[l]) + Len(burst[l]) > TxBatchSize

LeftBug(l) == tx_batch[l]

Left(l) == IF NearlyFull(l) THEN <<>> ELSE tx_batch[l]

Accumulate(l) ==
  /\ pc[l] = "send" /\ build.multicore
  /\ pool' = IF NearlyFull(l) THEN Freed(tx_batch[l]) ELSE pool
  /\ tx_batch' = [tx_batch EXCEPT ![l] = Left(l) \o burst[l]]
  /\ burst' = Emptied(l)
  /\ dropped' = [dropped EXCEPT ![l] = {}]
  /\ Goto(l, "idle")
  /\ UNCHANGED <<build, acls, head, k, sketch, capture, received, corrupt>>

\* "Single TX for all packets collected across all queues this sweep".
EndSweep(l) ==
  /\ pc[l] = "idle" /\ tx_batch[l] # <<>>
  /\ pool' = Freed(tx_batch[l])
  /\ tx_batch' = [tx_batch EXCEPT ![l] = <<>>]
  /\ UNCHANGED <<build, acls, head, pc, burst, k, sketch, capture, received, dropped, corrupt>>

-----------------------------------------------------------------------------
(***************************************************************************)
(* locality: cms_main_loop(), on one lcore and one queue.                  *)
(***************************************************************************)
Captured(p) == p.type = "ipv4" /\ p.flow # 0

\* The rows printed for a burst.
RowsOf(s) ==
  LET shown == SelectSeq(s, LAMBDA m : Captured(head[m]))
  IN  [j \in DOMAIN shown |-> [burst |-> burst_id, queue |-> 0, flow |-> head[shown[j]].flow]]

CaptureBurst(l) ==
  /\ pc[l] = "process" /\ build.program = "locality"
  /\ printed' = printed \o RowsOf(burst[l])
  /\ bursts' = Append(bursts, [j \in DOMAIN RowsOf(burst[l]) |-> RowsOf(burst[l])[j].flow])
  /\ burst_id' = burst_id + 1
  /\ pool' = Freed(burst[l])
  /\ burst' = Emptied(l)
  /\ Goto(l, "idle")
  /\ UNCHANGED <<build, acls, head, tx_batch, k, sketch, received, dropped, corrupt>>

\* An empty burst has a number too.
EmptyBurst(l) ==
  /\ pc[l] = "idle" /\ build.program = "locality"
  /\ burst_id < MaxPolls
  /\ burst_id' = burst_id + 1
  /\ bursts' = Append(bursts, <<>>)
  /\ UNCHANGED <<build, acls, pc, mbufs, burst, k, sketch, printed, received, dropped, corrupt>>

Quiet == \A l \in Lcore : pc[l] \in {"idle", "stop", "exit"}

Next ==
  \/ LoadRules \/ LoadFails
  \/ \E l \in Lcore :
       \/ \E n \in 1 .. MaxPktBurst : Receive(l, n)
       \/ prepare_acl_parameter(l) \/ StopReceived(l) \/ ProcessPacket(l)
       \/ TransmitSingle(l) \/ Accumulate(l) \/ EndSweep(l)
       \/ CaptureBurst(l) \/ EmptyBurst(l)
  \/ Quiet /\ UNCHANGED vars

Spec == Init /\ [][Next]_vars

-----------------------------------------------------------------------------

\* Where an mbuf is: in the pool, in a burst, in a tx_batch.
Uses(m) ==
  LET In(s) == Occurrences(s, m)
  IN  pool[m] + In(burst[0]) + In(burst[1]) + In(tx_batch[0]) + In(tx_batch[1])

\* Every mbuf is in exactly one place, the pool, the burst of one lcore or its
\* tx_batch, so that no lcore and no receive overwrites a packet in use and none
\* is lost; unless prepare_one_packet has freed a packet, which stays in its
\* burst.
MbufInOnePlace == corrupt \/ \A m \in Mbufs : Uses(m) = 1

\* The sum of f over a set.
Total(f, T) ==
  LET sum[S \in SUBSET T] ==
        IF S = {} THEN 0 ELSE LET x == CHOOSE x \in S : TRUE IN f[x] + sum[S \ {x}]
  IN  sum[T]

\* A counter of a sketch is the number of packets of the keys that share it: no
\* row misses one, the lcores do not disturb each other, and the estimate for a
\* key, the least of its counters, is never below the truth.
SketchCounts ==
  \A l \in Lcore, r \in Row0, c \in Columns :
    values[l][r][c] = Total(counted[l], {key \in Keys : Hash[r][key] % build.columns = c})

\* The first line of the rule file that matches a packet decides: an ACL entry
\* drops it, a route sends it to its port; although routes and ACL entries are
\* parsed into two arrays and added to the context one array after the other.
FirstMatchDecides ==
  acl # {} =>
    \A p \in UNION {file[j].match : j \in DOMAIN file} :
      LET hits  == {j \in DOMAIN file : file[j].lead \in {"R", "@"} /\ p \in file[j].match}
          first == CHOOSE j \in hits : \A i \in hits : j <= i
      IN  hits # {} => send_one_packet(rte_acl_classify(acl, p))
                         = IF file[first].lead = "R" THEN file[first].port ELSE -1

\* Longest run of one flow in a burst, by its definition.
LongestRun(s) ==
  LET runs == {n \in 1 .. Len(s) : \E j \in 0 .. Len(s)-n : \A i \in j+1 .. j+n : s[i] = s[j+1]}
  IN  CHOOSE n \in runs : \A i \in runs : i <= n

\* burst_analysis() finds the bursts that were captured, from the rows alone:
\* for each one with a TCP or UDP packet, in order, how many distinct flows, how
\* long the longest run of one flow and how many packets it has.
AnalysisExact ==
  LET found == burst_analysis(printed)
      full  == SelectSeq([j \in DOMAIN bursts |-> [id |-> j-1, flows |-> bursts[j]]], LAMBDA b : b.flows # <<>>)
  IN  build.program = "locality" =>
        found = [j \in DOMAIN full |->
                   [burst |-> full[j].id, queue |-> 0,
                    flows |-> Cardinality({full[j].flows[i] : i \in DOMAIN full[j].flows}),
                    consecutive |-> LongestRun(full[j].flows), packets |-> Len(full[j].flows)]]

\* "Unknown type, drop the packet", "Not a valid IPv4 packet": a packet that
\* prepare_one_packet drops is not processed any further.
DroppedPacketsLeave ==
  \A l \in Lcore : pc[l] = "process" => burst[l][k[l]] \notin dropped[l]

=============================================================================
