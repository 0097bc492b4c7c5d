------------------------------ MODULE Startup ------------------------------
(***************************************************************************)
(* main() of mica, nf-chain and locality up to the launch of the polling   *)
(* loops: the command line is parsed option by option (struct qflow_opts   *)
(* of common/qflow.h, -q, the port options), the result is accepted or     *)
(* rejected, and the mbuf pools, the ports and their RX and TX queues are  *)
(* set up for the lcores that will poll; mica and nf-chain then send a few *)
(* packets that clear the NIC.  The loops themselves are module PollLoop,  *)
(* which assumes what is established here.                                 *)
(*                                                                         *)
(* A number on the command line is an unsigned long; assigning it to a     *)
(* uint16_t, a uint32_t or an int keeps its low bits only.  ShortBits and  *)
(* IntBits are the widths of these types, small in the runs.  The machine  *)
(* is chosen initially and never changes; what else the NIC may answer is  *)
(* chosen when it is asked.                                                *)
(***************************************************************************)
EXTENDS Integers, Sequences, FiniteSets, FiniteSetsExt, QueueSlices, Ports

CONSTANTS
  Machines,             \* application, lcores, main lcore, ports, TX queues
  Numbers,              \* unsigned long values given to -q and --latency-queue
  Turns,                \* those given to --penalty and --latency-period
  Masks,                \* port masks given to -p (nf-chain) and -P (locality)
  Configs,              \* lists given to --config
  Portmaps,             \* lists of pairs given to --portmap
  NicQueues,            \* numbers of RX queues a NIC's bitstream may have
  ShortBits,            \* 16
  IntBits,              \* 32
  MaxRxQueuePerPort,    \* MAX_RX_QUEUE_PER_PORT
  MaxTxQueuePerPort,    \* MAX_TX_QUEUE_PER_PORT of nf-chain
  DefaultQueues,        \* 2
  DefaultPenalty,       \* QFLOW_DEFAULT_PENALTY
  DefaultLatencyPeriod  \* QFLOW_DEFAULT_LATENCY_PERIOD

\* DPDK numbers the ports that are present from 0; a mask has finitely many bits.
ASSUME StartupAssumption ==
  /\ \A m \in Machines :
       /\ m.app \in {"mica", "nf-chain", "locality"}
       /\ m.lcores \subseteq Nat /\ IsFiniteSet(m.lcores) /\ m.main_lcore \in m.lcores
       /\ m.max_tx_queues \in Nat /\ m.nb_ports \in Nat
  /\ Numbers \subseteq Nat /\ Turns \subseteq Nat /\ NicQueues \subseteq Nat \ {0}
  /\ \A m \in Masks : m \subseteq Nat /\ IsFiniteSet(m)
  /\ Configs \subseteq Seq([port_id : Nat, queue_id : Nat, lcore_id : Nat])
  /\ Portmaps \subseteq Seq(Nat \X Nat)
  /\ MaxRxQueuePerPort \in Nat \ {0} /\ MaxTxQueuePerPort \in Nat \ {0}
  /\ DefaultQueues \in Nat \ {0} /\ DefaultPenalty \in Nat \ {0}
  /\ DefaultLatencyPeriod \in Nat \ {0}

\* An int is wider than a uint16_t, which holds the default number of queues.
ASSUME WidthAssumption ==
  /\ ShortBits \in Nat \ {0} /\ IntBits \in Nat \ {0}
  /\ 2^ShortBits \in Nat \ {0} /\ 2^ShortBits <= 2^(IntBits-1)
  /\ 2^(IntBits-1) \in Nat /\ 2^IntBits = 2 * 2^(IntBits-1)
  /\ DefaultQueues < 2^ShortBits

VARIABLES
  pc,                 \* "parse", "checked", "pools", "clear", "running", "exit", "crashed"
  machine,            \* what the process finds
  qflow,              \* struct qflow_opts
  queues,             \* static uint16_t queues; cms_rx_queue_per_lcore in locality
  enabled_port_mask,  \* cms_enabled_port_mask in locality
  lcore_params,       \* the entries of --config (nf-chain)
  port_pair_params,   \* {the pairs of --portmap}, or {} for NULL (locality)
  penalty,            \* the global the polling loop reads; 0 disables Penalty
  active_io_lcores,   \* lcores that will poll (mica)
  rx_ports,           \* for each lcore, the ports of its rx_queue_list or rx_port_list
  dst_ports,          \* cms_dst_ports (locality)
  mbuf_pools,         \* owners of the mbuf pools created
  rx_pool,            \* for each RX queue, the owner of its mbuf pool
  n_tx_queue,         \* TX queues configured
  ports_up            \* for each port set up, its RX queues

options == <<qflow, queues, enabled_port_mask, lcore_params, port_pair_params>>
roles   == <<penalty, active_io_lcores, rx_ports, dst_ports>>
setup   == <<mbuf_pools, rx_pool, n_tx_queue, ports_up>>
vars    == <<pc, machine, options, roles, setup>>

\* The only pool outside Partitioned belongs to no lcore in particular.
CommonPool == -1

Policies == {"baseline", "aggressive", "penalty", "aggressive+penalty"}

(***************************************************************************)
(* Assignments that narrow: to an unsigned type of b bits, to a signed one.*)
(***************************************************************************)
ToUnsigned(b, v) == v % 2^b

ToInt(b, v) == LET u == v % 2^b IN IF u >= 2^(b-1) THEN u - 2^b ELSE u

nb_lcores == Cardinality(machine.lcores)

Present == 0 .. machine.nb_ports-1

Init ==
  /\ pc = "parse"
  /\ machine \in Machines
  /\ qflow = [aggressive |-> FALSE, penalty |-> FALSE, penalty_turns |-> DefaultPenalty,
              latency |-> FALSE, latency_queue |-> 0, latency_period |-> DefaultLatencyPeriod,
              mode |-> "single"]
  /\ queues = DefaultQueues
  /\ enabled_port_mask = {}
  /\ lcore_params = lcore_params_array_default
  /\ port_pair_params = {}
  /\ penalty = 0
  /\ active_io_lcores = 1
  /\ rx_ports = [l \in machine.lcores |-> <<>>]
  /\ dst_ports = <<>>
  /\ mbuf_pools = {}
  /\ rx_pool = <<>>
  /\ n_tx_queue = 0
  /\ ports_up = <<>>

(***************************************************************************)
(* parse_args(): options come in any order and any number of times.  Those *)
(* of qflow.h are mica's and nf-chain's.                                   *)
(***************************************************************************)
Parsing(apps) ==
  /\ pc = "parse"
  /\ machine.app \in apps
  /\ UNCHANGED <<pc, machine, roles, setup>>

ParsingQflow ==
  /\ Parsing({"mica", "nf-chain"})
  /\ UNCHANGED <<queues, enabled_port_mask, lcore_params, port_pair_params>>

ParsePolicy(p) ==
  /\ ParsingQflow
  /\ qflow' = [qflow EXCEPT !.aggressive = p \in {"aggressive", "aggressive+penalty"},
                            !.penalty    = p \in {"penalty", "aggressive+penalty"}]

ParsePenalty(v) ==
  /\ ParsingQflow
  /\ v # 0
  /\ qflow' = [qflow EXCEPT !.penalty_turns = ToUnsigned(IntBits, v)]

ParseLatencyQueue(v) ==
  /\ ParsingQflow
  /\ qflow' = [qflow EXCEPT !.latency = TRUE, !.latency_queue = ToInt(IntBits, v)]

ParseLatencyPeriod(v) ==
  /\ ParsingQflow
  /\ v # 0
  /\ qflow' = [qflow EXCEPT !.latency_period = ToInt(IntBits, v)]

ParseMulticore(m) ==
  /\ ParsingQflow
  /\ qflow' = [qflow EXCEPT !.mode = m]

ParseQueues(v) ==
  LET bits == IF machine.app = "locality" THEN IntBits ELSE ShortBits IN
  /\ Parsing({"mica", "nf-chain", "locality"})
  /\ ToUnsigned(bits, v) # 0
  /\ queues' = ToUnsigned(bits, v)
  /\ UNCHANGED <<qflow, enabled_port_mask, lcore_params, port_pair_params>>

ParsePortmask(m) ==
  /\ Parsing({"nf-chain", "locality"})
  /\ m # {}
  /\ enabled_port_mask' = m
  /\ UNCHANGED <<qflow, queues, lcore_params, port_pair_params>>

ParseConfig(c) ==
  /\ Parsing({"nf-chain"})
  /\ lcore_params' = c
  /\ UNCHANGED <<qflow, queues, enabled_port_mask, port_pair_params>>

ParsePortmap(pairs) ==
  /\ Parsing({"locality"})
  /\ port_pair_params' = {pairs}
  /\ UNCHANGED <<qflow, queues, enabled_port_mask, lcore_params>>

Exit == pc' = "exit" /\ UNCHANGED <<machine, options, roles, setup>>

\* An option that is unknown, malformed, out of range or zero ends the program.
ParseError == pc = "parse" /\ Exit

(***************************************************************************)
(* qflow_check().                                                          *)
(***************************************************************************)
LatencyQueueMissingBug == qflow.latency_queue >= queues

LatencyQueueMissing == ToUnsigned(IntBits, qflow.latency_queue) >= queues

Rejected ==
  \/ qflow.mode = "single" /\ nb_lcores > 1
  \/ qflow.mode = "partitioned" /\ queues < nb_lcores
  \/ qflow.latency /\ LatencyQueueMissing

\* mica uses port 0.  It refuses more queues than its arrays have room for,
\* and a NIC without TX queues.
MicaRefuses ==
  \/ machine.nb_ports = 0
  \/ queues > MaxRxQueuePerPort
  \/ qflow.mode # "single" /\ machine.max_tx_queues = 0

CheckMica ==
  /\ pc = "parse" /\ machine.app = "mica"
  /\ ~ Rejected /\ ~ MicaRefuses
  /\ penalty' = IF qflow.penalty THEN qflow.penalty_turns ELSE 0
  /\ active_io_lcores' = IF qflow.mode # "single"
                           THEN Min({nb_lcores, queues, machine.max_tx_queues})
                           ELSE active_io_lcores
  /\ pc' = "checked"
  /\ UNCHANGED <<machine, options, rx_ports, dst_ports, setup>>

NfRefuses ==
  \/ ~ check_lcore_params(lcore_params, machine.lcores)
  \/ ~ check_port_config(lcore_params, enabled_port_mask, Present)

CheckNf ==
  /\ pc = "parse" /\ machine.app = "nf-chain"
  /\ ~ Rejected /\ ~ NfRefuses
  /\ penalty' = IF qflow.penalty THEN qflow.penalty_turns ELSE 0
  /\ rx_ports' = init_lcore_rx_queues(lcore_params, machine.lcores)
  /\ pc' = "checked"
  /\ UNCHANGED <<machine, options, active_io_lcores, dst_ports, setup>>

(***************************************************************************)
(* locality: check_port_pair_config() also leaves only the paired ports    *)
(* enabled; the ports are then given destinations and lcores.              *)
(***************************************************************************)
Mapped == port_pair_params # {}

Pairs == CHOOSE pairs \in port_pair_params : TRUE

EnabledPorts == IF Mapped THEN PairMask(Pairs) ELSE enabled_port_mask

LocalityRefuses ==
  \/ machine.nb_ports = 0
  \/ Mapped /\ ~ check_port_pair_config(Pairs, enabled_port_mask, Present)
  \/ ~ EnabledPorts \subseteq Present
  \/ ~ EnoughCores(EnabledPorts, machine.lcores, queues)

CheckLocality ==
  /\ pc = "parse" /\ machine.app = "locality"
  /\ ~ LocalityRefuses
  /\ enabled_port_mask' = EnabledPorts
  /\ dst_ports' = [p \in EnabledPorts |-> IF Mapped THEN DstOfPair(Pairs, p)
                                                     ELSE DstAlternate(EnabledPorts, p)]
  /\ rx_ports' = rx_port_list(EnabledPorts, machine.lcores, queues)
  /\ pc' = "checked"
  /\ UNCHANGED <<machine, qflow, queues, lcore_params, port_pair_params, penalty,
                 active_io_lcores, setup>>

CheckFails ==
  /\ pc = "parse"
  /\ CASE machine.app = "mica"     -> Rejected \/ MicaRefuses
       [] machine.app = "nf-chain" -> Rejected \/ NfRefuses
       [] machine.app = "locality" -> LocalityRefuses
  /\ Exit

(***************************************************************************)
(* Lcores that run a polling loop on queues of their own, by position.     *)
(***************************************************************************)
Pollers == 0 .. (IF machine.app = "mica" THEN active_io_lcores ELSE nb_lcores) - 1

CreatePools ==
  /\ pc = "checked"
  /\ mbuf_pools' = IF qflow.mode = "partitioned" THEN Pollers ELSE {CommonPool}
  /\ pc' = "pools"
  /\ UNCHANGED <<machine, options, roles, rx_pool, n_tx_queue, ports_up>>

\* Memory, the ACL rules, the NAT tables.
CreateFails == pc = "checked" /\ Exit

(***************************************************************************)
(* The ports are set up one after the other.  rte_eth_dev_configure        *)
(* refuses more TX queues than the NIC has, and the queue set-up functions *)
(* refuse a queue beyond those configured.  The NIC reports how many RX    *)
(* queues its bitstream has: mica and nf-chain want the number given with  *)
(* -q, locality goes on with the number reported.                          *)
(***************************************************************************)
PortsLeft ==
  (IF machine.app = "mica" THEN {0} ELSE enabled_port_mask \cap Present) \ DOMAIN ports_up

TxQueues ==
  CASE machine.app = "mica"     -> active_io_lcores
    [] machine.app = "nf-chain" -> Min({nb_lcores, MaxTxQueuePerPort})
    [] machine.app = "locality" -> 1

TxQueueSetUp == 0 .. (IF machine.app = "nf-chain" THEN nb_lcores ELSE TxQueues) - 1

DeviceRefuses(reported) ==
  \/ TxQueues > machine.max_tx_queues
  \/ \E t \in TxQueueSetUp : t >= TxQueues
  \/ IF machine.app = "locality" THEN reported > queues ELSE reported # queues

PoolFor(x) ==
  CASE qflow.mode # "partitioned" -> CommonPool
    [] qflow.mode = "partitioned" /\ machine.app = "mica" ->
         MicaOwner(queues, active_io_lcores, x)
    [] qflow.mode = "partitioned" /\ machine.app = "nf-chain" ->
         NfOwner(queues, nb_lcores, x)

SetupPort(reported) ==
  /\ pc = "pools"
  /\ PortsLeft # {}
  /\ ~ DeviceRefuses(reported)
  /\ queues' = reported
  /\ n_tx_queue' = TxQueues
  /\ rx_pool' = [x \in 0 .. reported-1 |-> PoolFor(x)]
  /\ ports_up' = [p \in DOMAIN ports_up \cup {Min(PortsLeft)} |->
                    IF p \in DOMAIN ports_up THEN ports_up[p] ELSE reported]
  /\ UNCHANGED <<pc, machine, qflow, enabled_port_mask, lcore_params, port_pair_params,
                 roles, mbuf_pools>>

SetupFails == pc = "pools" /\ PortsLeft # {} /\ Exit

PortsDone ==
  /\ pc = "pools"
  /\ PortsLeft = {}
  /\ machine.app = "locality" => ports_up # <<>>
  /\ pc' = IF machine.app = "locality" THEN "running" ELSE "clear"
  /\ UNCHANGED <<machine, options, roles, setup>>

\* "All available ports are disabled"
NoPortEnabled ==
  pc = "pools" /\ PortsLeft = {} /\ machine.app = "locality" /\ ports_up = <<>> /\ Exit

(***************************************************************************)
(* The packets that clear the NIC come from the main lcore's pool          *)
(* (Partitioned) or the common one, and are sent on port 0 by mica and on  *)
(* every port that is present by nf-chain.  Without the pool there is a    *)
(* null pointer to allocate from; sending on a port that was not set up    *)
(* crashes or sends nothing.                                               *)
(***************************************************************************)
MainPool ==
  IF qflow.mode = "partitioned"
    THEN Rank(machine.lcores, machine.main_lcore)
    ELSE CommonPool

ClearedPorts == IF machine.app = "mica" THEN {0} ELSE Present

ClearPackets ==
  /\ pc = "clear"
  /\ ClearedPorts # {} => MainPool \in mbuf_pools
  /\ ClearedPorts \subseteq DOMAIN ports_up
  /\ pc' = "running"
  /\ UNCHANGED <<machine, options, roles, setup>>

ClearFails == pc = "clear" /\ Exit

ClearCrashes ==
  /\ pc = "clear"
  /\ MainPool \notin mbuf_pools \/ ~ ClearedPorts \subseteq DOMAIN ports_up
  /\ pc' = "crashed"
  /\ UNCHANGED <<machine, options, roles, setup>>

Stopped == pc \in {"running", "exit", "crashed"} /\ UNCHANGED vars

Next ==
  \/ \E p \in Policies : ParsePolicy(p)
  \/ \E v \in Turns : ParsePenalty(v) \/ ParseLatencyPeriod(v)
  \/ \E v \in Numbers : ParseLatencyQueue(v) \/ ParseQueues(v)
  \/ \E m \in {"partitioned", "shared"} : ParseMulticore(m)
  \/ \E m \in Masks : ParsePortmask(m)
  \/ \E c \in Configs : ParseConfig(c)
  \/ \E pairs \in Portmaps : ParsePortmap(pairs)
  \/ ParseError \/ CheckMica \/ CheckNf \/ CheckLocality \/ CheckFails
  \/ CreatePools \/ CreateFails
  \/ \E reported \in NicQueues : SetupPort(reported)
  \/ SetupFails \/ PortsDone \/ NoPortEnabled
  \/ ClearPackets \/ ClearFails \/ ClearCrashes
  \/ Stopped

Spec == Init /\ [][Next]_vars

-----------------------------------------------------------------------------

Running == pc = "running"

\* The configuration main() launches the loops with is one they are written
\* for, whatever was given on the command line and however it was narrowed: the
\* lcores match the mode, every lcore of Partitioned has a queue, the latency
\* queue exists (qflow_check()), and the TX queue numbered like a polling lcore
\* has been configured ("TX queue: one per polling lcore").
LaunchedConfigValid ==
  Running /\ machine.app # "locality" =>
    /\ queues > 0
    /\ qflow.mode = "single" => nb_lcores = 1
    /\ qflow.mode = "partitioned" => \A k \in Pollers : k < queues
    /\ qflow.latency => qflow.latency_queue \in 0 .. queues-1
    /\ ports_up # <<>> => \A k \in Pollers : k < n_tx_queue

\* "sized for the queues it owns": in Partitioned the NIC fills a queue from
\* the mbuf pool of the lcore that polls it, although main() and the loop
\* compute the division separately.
PoolOfPoller ==
  Running /\ qflow.mode = "partitioned" =>
    \A x \in DOMAIN rx_pool :
      /\ rx_pool[x] \in mbuf_pools
      /\ IF machine.app = "mica"
           THEN /\ MicaFirst(queues, active_io_lcores, rx_pool[x]) <= x
                /\ x < MicaLast(queues, active_io_lcores, rx_pool[x])
           ELSE /\ NfFirst(queues, nb_lcores, rx_pool[x]) <= x
                /\ x < NfLast(queues, nb_lcores, rx_pool[x])

\* The ports whose queues or TX buffer the loop of an lcore touches.
PolledPorts(l) ==
  CASE machine.app = "mica"     -> {0}
    [] machine.app = "nf-chain" ->
         NfPolledPorts(qflow.mode, rx_ports[l], enabled_port_mask, queues)
    [] machine.app = "locality" ->
         {rx_ports[l][i] : i \in DOMAIN rx_ports[l]}

Drained(l) == {dst_ports[p] : p \in PolledPorts(l)}

\* No lcore polls a port, or flushes the TX buffer of a port, that main() has
\* not set up: check_port_config() and the assignment of ports to lcores leave
\* only enabled ports in an lcore's list, also for the lcores --config does not
\* name (they fall back on the lowest enabled port).  Two cases are left out,
\* as the code has nothing against them: an empty --config, and port 0, which
\* the single-core loop polls for every queue beyond the entries of --config.
PolledPortsSetUp ==
  Running /\ lcore_params # <<>> =>
    \A l \in machine.lcores :
      /\ PolledPorts(l) \subseteq DOMAIN ports_up
           \cup (IF machine.app = "nf-chain" /\ qflow.mode = "single" THEN {0} ELSE {})
      /\ machine.app = "locality" => Drained(l) \subseteq DOMAIN ports_up

\* locality: every enabled port is polled by exactly one lcore and its only TX
\* buffer is flushed by exactly one lcore, so that lcores share no port without
\* a lock; the destinations pair the ports up (cms_dst_ports).
PortsPaired ==
  Running /\ machine.app = "locality" =>
    \A p \in enabled_port_mask :
      /\ dst_ports[dst_ports[p]] = p
      /\ Cardinality({l \in machine.lcores : p \in PolledPorts(l)}) = 1
      /\ Cardinality({l \in machine.lcores : p \in Drained(l)}) = 1

=============================================================================
