------------------------------- MODULE Ports -------------------------------
(***************************************************************************)
(* Which Ethernet ports the lcores of nf-chain and of locality poll.       *)
(*                                                                         *)
(* A port mask is the set of the ports whose bit is set.  nf-chain takes a *)
(* list of <port, queue, lcore> entries (--config), locality a list of     *)
(* port pairs (--portmap) or pairs alternate ports itself.  A device       *)
(* present on the board is a port number of the set `present'; lcores are  *)
(* a set of lcore ids, visited in increasing order.                        *)
(***************************************************************************)
EXTENDS Integers, Sequences, FiniteSetsExt, Order

-----------------------------------------------------------------------------
(***************************************************************************)
(* nf-chain.                                                               *)
(***************************************************************************)
LcoreParam(p, q, l) == [port_id |-> p, queue_id |-> q, lcore_id |-> l]

lcore_params_array_default ==
  << LcoreParam(0, 0, 2), LcoreParam(0, 1, 2), LcoreParam(0, 2, 2), LcoreParam(1, 0, 2),
     LcoreParam(1, 1, 2), LcoreParam(1, 2, 2), LcoreParam(2, 0, 2), LcoreParam(3, 0, 3),
     LcoreParam(3, 1, 3) >>

\* The test of queue_id cannot fail: it is a uint8_t compared with 2048.
check_lcore_params(params, lcores) ==
  \A i \in DOMAIN params : params[i].lcore_id \in lcores

check_port_configBug(params, mask, present) ==
  \A i \in DOMAIN params : params[i].port_id \in mask

check_port_config(params, mask, present) ==
  \A i \in DOMAIN params : params[i].port_id \in mask /\ params[i].port_id \in present

\* The ports of rx_queue_list for each lcore.  parse_config() takes fewer
\* entries than rx_queue_list has, so the list never overflows.
init_lcore_rx_queues(params, lcores) ==
  [l \in lcores |->
     LET mine == Ascending({i \in DOMAIN params : params[i].lcore_id = l})
     IN  [n \in DOMAIN mine |-> params[mine[n]].port_id]]

\* The ports an lcore polls for its queues.  Single: entry i of its list for
\* queue i, and the static array's zero for the queues beyond the list.
\* Otherwise one port for all: that of its first entry, or the lowest enabled.
NfPolledPorts(mode, list, mask, queues) ==
  IF mode = "single"
    THEN {IF i < Len(list) THEN list[i+1] ELSE 0 : i \in 0 .. queues-1}
    ELSE IF list # <<>> THEN {list[1]}
    ELSE IF mask # {} THEN {Min(mask)} ELSE {}

-----------------------------------------------------------------------------
(***************************************************************************)
(* locality.                                                               *)
(***************************************************************************)
PairPorts(pair) == {pair[1], pair[2]}

check_port_pair_configBug(pairs, mask, present) ==
  \A i \in DOMAIN pairs : PairPorts(pairs[i]) \subseteq mask \cap present

check_port_pair_config(pairs, mask, present) ==
  /\ \A i \in DOMAIN pairs : PairPorts(pairs[i]) \subseteq mask \cap present
  /\ \A i, j \in DOMAIN pairs : i # j => PairPorts(pairs[i]) \cap PairPorts(pairs[j]) = {}

PairMask(pairs) == UNION {PairPorts(pairs[i]) : i \in DOMAIN pairs}

\* The last assignment to cms_dst_ports[p] that the loop over the pairs makes.
DstOfPair(pairs, p) ==
  LET pair == pairs[Max({i \in DOMAIN pairs : p \in PairPorts(pairs[i])})]
  IN  IF pair[2] = p THEN pair[1] ELSE pair[2]

\* Without --portmap alternate enabled ports are paired, and the last of an
\* odd number is its own destination.
DstAlternate(enabled, p) ==
  LET after == {o \in enabled : o > p}
  IN  IF Rank(enabled, p) % 2 = 1 THEN Max({o \in enabled : o < p})
      ELSE IF after # {} THEN Min(after) ELSE p

\* The enabled ports are handed to the lcores in order, `each' to an lcore.
EnoughCores(enabled, lcores, each) == Cardinality(enabled) <= each * Cardinality(lcores)

rx_port_list(enabled, lcores, each) ==
  [l \in lcores |->
     LET pos  == Rank(lcores, l)
         last == Min({each * (pos+1), Cardinality(enabled)})
     IN  SubSeq(Ascending(enabled), each * pos + 1, last)]

=============================================================================
