# TLA+ models of queueDPDK

queueDPDK is a set of DPDK applications that receive from many hardware RX
queues and differ from ordinary applications in the order in which they poll
them: `mica` (a key-value server built on a port of MICA) and `nf-chain` (ACL,
NAT and a count-min sketch), and beside them `locality`, which captures bursts
so that a script can measure how packets of a flow cluster.  This directory
models the parts whose correctness depends on order, interleaving, failure and
boundary arithmetic: the polling loop, the division of queues between lcores,
the start-up the loop relies on, the NAT that several lcores share and the data
structures under it, MICA's concurrent table with its log and its memory, and
the way of a packet through the chain.

Source positions are abbreviated `M:` for `mica/main.c` and `N:` for
`nf-chain/src/main.c`.

## Inventory

| Component | Source | State | Operations | Talks to |
|---|---|---|---|---|
| polling loop | `mica/main.c` 341-564, `nf-chain/src/main.c` 1786-2048 | per lcore: cursor `i`, penalty counters `hit`, `max_loops`, latency counters, `tx_batch`; shared: `force_quit`, `rx_queue_locks` | sweep, skip, poll, divert to the latency queue, re-poll, transmit, quit | NIC (bursts in and out), request processing, the signal handler |
| queue partition | the same two files | none | slice of an lcore; owner of a queue's mbuf pool | loop and `main()` compute it separately |
| options and start-up | `common/qflow.h`, the three `main()` | `struct qflow_opts`, `queues`, port mask, `--config`, `--portmap`, `active_io_lcores`, pools, ports | parse, check, assign ports, create pools, set up ports, clear the NIC, launch | DPDK, the loop |
| NAT | `nat_main.c`, `nat_flowmanager.c`, `state.c` | shards: double chain, map, vector, spinlock, port range | process an internal or external packet, look up, allocate | loop (chooses the shard), data structures |
| NAT data structures | `nf-chain/src/utils` | double chain, open-addressing map, vector, double map | allocate, free, rejuvenate; get, put, erase; expire | NAT |
| CHT, LPM | `nf-chain/src/utils` | preference rows; two-level table | fill, find a backend; insert a rule, look up | no caller in nf-chain |
| ACL | `nf-chain/src/main.c` | routes and ACL entries, classification buffers | read the rule file, build the context, prepare a burst, classify | loop, librte_acl |
| count-min sketch | `nf-chain/src/main.c` 1657-1713 | counters of an lcore | add | loop |
| MICA table and log | `mica/ported-mica/table.c`, `alloc_pool.c` | buckets with version locks, circular log | get, set, delete, increment, cleanup; allocate, evict | request processing, several lcores at once |
| MICA memory | `shm.c`, `alloc_dynamic.c` | pages, entries, mappings with reference counts; chunks in free lists | allocate, map, unmap, schedule removal; malloc, free | table, log, operating system |
| MICA requests | `mica/main.c` | none | parse a burst, run its operations, build answers | loop, table |
| locality capture and its analysis | `locality/main.c`, `locality-bench.py` | `burst_id`, printed rows | capture a burst; recover bursts from the rows | NIC, standard output |

What is hard here:

* **Interleaving.**  In Shared every lcore walks every queue under a per-queue
  trylock, and a burst is processed after the lock has been released, so two
  lcores can be inside one NAT shard with packets of one flow.
* **Cursor arithmetic.**  One variable, `i`, is the loop counter, is moved to the
  latency queue and back (`resume_i - 1`, then `++i`), held for re-polls (`i--`),
  and left wherever it is by the `continue` after a failed trylock.
* **State that outlives its iteration.**  `max_loops`, `resume_i`, `inject_queue`
  and the penalty counters carry meaning from one iteration or sweep to another.
* **Boundaries.**  Divisions with remainder computed twice in different ways,
  options narrowed from `unsigned long`, a TX batch filled to its end, more lcores
  than TX queues, a full NAT shard, log offsets with fewer bits than head and tail.
* **Readers without locks.**  A MICA GET copies an item while a SET may be reusing
  its place in the log; only a version read before and after tells.
* **Long sequences.**  Two lists through one array of cells, probe counters of an
  open-addressing map, boundary tags of chunks, reference counts of mappings: a
  wrong update shows many calls later.
* **Partial failure.**  Each allocation function makes several `malloc`s or `mmap`s
  and must undo those that succeeded; the NIC accepts a part of a burst.

`PROJECT.json` lists the hazards line by line with the properties that cover
them.

## Modules

| Module | What it is |
|---|---|
| `QueueSlices` | Both applications' slices and mbuf pool owners, as operators |
| `Order` | Sets of numbers in increasing order, the rank of a number in a set, what is kept of a sequence |
| `Numbers_proofs` | Facts the other proofs share: slices are disjoint and cover all queues and the pool owner is the poller; ranks, remainders, least counterexamples |
| `PollLoop` | The polling loop of all lcores, both applications, all modes and policies |
| `PollLoop_proofs` | Types, cursors, locks, exclusivity, mbufs, and the policies |
| `Ports` | Port mask, `--config` and `--portmap`: the checks and the assignment of ports, as operators |
| `Startup`, `MCStartup` | The three `main()` up to the launch; machines and command lines for TLC |
| `Startup_proofs` | What is launched is what the loops are written for |
| `Nat` | Shards, `nf_process` and the flow manager, run by several lcores |
| `Nat_proofs` | Ports are unique and lead back to their flow; outside Shared a flow keeps its port; how often a race can duplicate a flow |
| `DoubleChain` | Index allocator with two lists in one array of cells |
| `MapImpl`, `MapImplPow2`, `Map` | Open-addressing hash map with chain counters, its two ways of probing, and the map with a size on top |
| `DoubleMap` | Values found by two keys |
| `FlowTable`, `MCFlowTable` | A flow table made of these, with allocation, expiry and a clock |
| `FlowTable_proofs` | The lists of the double chain are rings, and what each call does to the list read off them; the cells, references and counters of the hash map say one set of keys; so the structures of a table stay consistent, its lookups are exact, only idle flows expire, and it implements `Emap`; rows of the consistent hash table are permutations, flows keep their backend, and an LPM lookup answers the latest rule |
| `Emap` | Abstract specification: the ordered collection that the contracts in `emap.h`, `double-chain.h` and `double-map.h` are stated with |
| `Lpm`, `Cht` | Longest-prefix match and consistent hashing, as operators |
| `Steering`, `MCSteering` | A client of both that keeps to their contracts |
| `MicaPool` | Circular log, as operators |
| `MicaTable`, `MCMicaTable` | The key-value table and `mica_process5tuple` on several lcores |
| `MicaTable_proofs` | GETs return the last SET, the store stays consistent, and cleaning comes in time for offsets to be reused |
| `MicaShm`, `MicaDynamic` | Pages, entries and mappings; the segregated-fit allocator |
| `MicaMemory`, `MCMicaMemory` | The objects that live in that memory, with failures at every step |
| `MicaMemory_proofs` | Pages, entries, mappings and objects stay in step; the chunks, tags and lists of the dynamic allocator are consistent |
| `AclRules`, `BurstAnalysis` | Rule files to verdicts; printed rows to bursts |
| `PacketPath`, `MCPacketPath` | A burst through nf-chain or locality, with the identity of every mbuf |
| `PacketPath_proofs` | Mbufs are in one place, sketches are exact, the first line of the rules decides |

`PollLoop` and `Startup` build on `QueueSlices`, `Startup` on `Ports`, and `Startup`,
`PacketPath`, `Emap` and `MicaShm` on `Order`.  `Startup`
establishes what `PollLoop` assumes: `LaunchedConfigValid` is the part of
`PollLoopAssumption` that depends on the command line.  `Nat` takes from the loop
which shard a burst goes to and that bursts are processed outside the queue lock;
it keeps the table of a shard abstract, and `FlowTable` is that table in detail.
`FlowTable` composes `DoubleChain`, `Map` and `DoubleMap`; `Steering` composes `Lpm`,
`Cht` and `DoubleChain`; `MicaTable` runs on `MicaPool`; `MicaMemory` composes
`MicaShm` and `MicaDynamic`; `PacketPath` composes `AclRules`, `BurstAnalysis` and
what the loop does with a burst.

A definition whose name ends in `Bug` is the definition that follows it with one
plausible fault in it.  Nothing uses it; putting it in the place of the right one
makes TLC report a violation of the property it is listed with in
`PROJECT.json` (`mutants`).

### PollLoop

One step per atomic stretch of an iteration, for each lcore:

| Action | Code |
|---|---|
| `StartSweep`, `Quit` | `while (!force_quit)` and the per-sweep initialisation |
| `SkipPenalised` | `if (penalty && hit[qi] < penalty) { hit[qi]++; continue; }` |
| `BeginPoll`, `LockBusy` | the jump to the latency queue, the trylock and the `continue` after it |
| `RxBurst` | `rte_eth_rx_burst` and the unlock |
| `FinishLatencyPoll`, `FinishRegularPoll` | transmission or batching, then the policies and the cursor |
| `StopReceived` | nf-chain's `return` on a STOP packet |
| `EndSweep` | the transmission of `tx_batch` after the sweep |
| `SignalHandler` | SIGINT or SIGTERM |

`FinishRegularPoll` runs counting, penalty and re-poll in one step because they
touch only the lcore's own variables.  `BeginPoll` and `LockBusy` are the two
outcomes of one trylock, so the jump before it belongs to both.  The NIC is the
environment: a burst has any size up to `MaxPktBurst` and a transmission accepts
any number of the packets offered.  `visited`, `last_polled`, `streak`, `owed`,
`since` and `in_use` are history variables: they record what the documented
policies ask for and no guard reads them.

Packets are counted and not identified: `MbufsAccounted` is about the loop's own
transmissions.  What happens to each mbuf of a burst is in `PacketPath`.

The two loops are the same up to the slices, the STOP packet and
`active_io_lcores`; `App` selects between them.

### Startup

The machine (program, lcores, main lcore, TX queues of the NIC, ports on the board)
is chosen in `Init`.  Options arrive in any order and number, and each is narrowed
to the width of the variable it is stored in.

| Action | Code |
|---|---|
| `ParsePolicy` ... `ParseQueues`, `ParsePortmask`, `ParseConfig`, `ParsePortmap`, `ParseError` | one option of `parse_args` |
| `CheckMica`, `CheckNf`, `CheckLocality`, `CheckFails` | `qflow_check`, the port checks, the number of polling lcores and the ports of each |
| `CreatePools`, `CreateFails` | mbuf pools, per lcore in Partitioned |
| `SetupPort`, `SetupFails`, `PortsDone`, `NoPortEnabled` | configuration and queues of one port after the other |
| `ClearPackets`, `ClearFails`, `ClearCrashes` | mica and nf-chain send a few packets before the launch |

DPDK's refusals (more TX queues than the NIC has, a queue beyond those configured) are
modelled by their effect, the end of the program.  `ClearCrashes` is the outcome of
allocating from a pool that does not exist or sending on a port that was never
configured: nothing is launched.

### Nat

`nf_process` of an internal packet is a lookup under the shard's lock and, after a
miss, an allocation under the lock again: two steps, between which other lcores
run.  For an external packet the test whether the index is in use happens before
the lock is taken.  A flow is its source port, the only field `key_equals` and
`key_hash` read, and the rest.  `flow_manager_expire` is never called, so the free
list yields 0, 1, 2, ... and the map only grows; of two entries with one key
`map_get` finds the one put first.  External packets are restricted to the ports
of the shard they come to.

### FlowTable and Emap

The state is the memory of a table: the cells of the double chain, the vector of
keys, the hash map with its chain counters or the double map, and a clock.  Before
it is ready a table goes through its `malloc`s one by one (`Malloc`, `MallocFails`,
`Initialise`), each of which may fail, with the clean-up of the function concerned.
Then: `GetInternal`, `AllocateFlow`, `GetExternal` (the calls of `nat_flowmanager.c`),
`PutValue` (double map), `FreeIndex`, `Expire` (both expirators), `Tick`.

`Emap` says what a table promises: a sequence of entries ordered by last use, with
a value for each and no two entries under one key.  `FlowTable` implements it:

    Abstract == INSTANCE Emap WITH ch <- AbstractChain, vals <- AbstractValues, ...
    ImplementsEmap == Abstract!Spec

`AbstractChain` is the list read off the links of the allocated cells, with the
timestamps; `AbstractValues` is what the vector or the double map holds under the
indices in use.  The mapping follows the links of the allocated list, so it is only
defined where `ChainLinked` holds.  Expiry of several entries is one step of `Emap` and one of
`FlowTable`; allocation of the memory maps to `Create`, a lookup that finds nothing
to a stutter.

### Steering

`Update` inserts one LPM rule, `Fill` builds the rows of the consistent hash table,
`Activate` and `Deactivate` change the set of backends.  nf-chain compiles both
structures and calls neither, so their client is one that keeps to the contracts
in their headers (a prime height above the number of backends).

### MicaTable

`Launch` loads the default keys; then every lcore alternates SET and GET
(`mica_process5tuple`), on keys padded with whatever follows the 13 bytes of the
five-tuple.

| Action | Code (`table.c`) |
|---|---|
| `SetLock`, `SetFind`, `SetAllocate`, `SetWrite`, `SetPoolUnlock`, `SetPublish` | `mehcached_set`: bucket lock, slot, in place or a new item, the item vector, unlock |
| `GetVersion`, `GetFind`, `GetCopy`, `GetIsValid`, `GetRetry`, `GetHit`, `GetMiss`, `GetStale` | `mehcached_get`: version, lookup, copy a word at a time, validity of the offset, version again |
| `RemoveStale`, `MoveToHead`, `mehcached_cleanup_bucket` | what follows a GET or a SET |
| `Delete`, `Increment` | the rest of the library, on one lcore |
| `Free` | `mehcached_table_free` |

A step that only touches what a lock it holds protects is not cut further; a GET
takes no lock and is cut at every word it reads.

### MicaMemory

`Begin` allocates an entry (two for a striped object), `MapObject` looks for an address
range and maps it there, `MapAlias` maps a pool's first page again behind its end
(`MapFails`, `AliasFails`: any `mmap` may fail), and `ScheduleRemove` lets the entry go
with its last mapping.  A striped object takes one step per page: `StartStripes` finds the
range, `MapStripe` maps the next page, `EndStripes` leaves the loop after the last one or at
the first that fails and schedules the removal of both entries, and `UnmapStripe` undoes
the pages there are, one by one; `Free` unmaps an object, and starts `UnmapStripe` for a
striped one.  `Allocate`, `Deallocate` and `Reset` are the segregated-fit allocator inside
one page.  `aborted` marks the paths that end in a failed `assert`.  `job` is the call under
way, with the position of its loops.

### PacketPath

`LoadRules` and `LoadFails` read a rule file; `Receive` takes buffers from the pool;
`prepare_acl_parameter`, `ProcessPacket` (NAT, then sketch), `StopReceived`,
`TransmitSingle`, `Accumulate` and `EndSweep` are what `poll_loop` of nf-chain does
with a burst; `CaptureBurst` and `EmptyBurst` are locality's.  An mbuf has an identity,
and the pool is a bag, since a buffer freed twice is in it twice.  The NAT is reduced
to a change of the flow, librte_acl to the entry of highest priority that matches.

## Runs

| Run | Instance | Shows |
|---|---|---|
| `poll_partitioned` | mica, 3 lcores of which one has no TX queue, 5 queues in slices of 3 and 2, all policies, penalty 1, period 2, bursts and batches of 2; 457,113 states | types and `tx_batch`, cursors inside slices, no mbuf lost; the policies do what `qflow.h` says although counters are indexed by slice position: `PenaltyExact`, `SweepOrder`, `SweepComplete`, `LatencyCadence`; no queue starves |
| `poll_shared` | nf-chain, 2 lcores, 3 queues, latency, aggressive, STOP packets | the lock taken is the one of the queue polled, none outlives its poll, no two lcores are in one queue |
| `poll_shared_aggressive` | mica, 2 lcores, 3 queues, aggressive | a busy lock leaves out no queue; no starvation; a signal ends every lcore |
| `startup` | three programs, 1-3 lcores, 0-4 ports, 0-3 TX queues, integers of 4 bits and shorts of 3, numbers 0-16; 1,129,904 states | whatever is launched is a configuration the loop is written for; ports polled are set up; destinations are not shared |
| `nat_partitioned` | 2 lcores, 3 ports, 3 source ports, 2 further fields | external ports are unique and a flow keeps its port |
| `nat_shared` | 2 lcores in 2 shards, 7 ports, 2 source ports; 2.0 million states | answers find their flow, even when one flow got two ports, and it never gets more than there are lcores |
| `flow_table` | tables of 2 and 3 indices, both ways of probing, 3 keys of which 2 collide, time up to 2; 28,432 states | links and counters stay consistent, a lookup finds exactly what is there, the table implements `Emap`, a failed allocation leaves nothing behind, only idle flows expire |
| `steering` | addresses of 2 + 2 bits, every sequence of up to 3 rules; heights 3, 5, 7 with up to 4 backends; 201,181 states | a lookup answers the latest rule that applies; rows are permutations; flows change their backend only if they must |
| `mica_store` | one lcore with a log that wraps around and offsets that repeat, one with the whole library, two lcores on a log of one item and a part; 158,681 states | a GET returns the last value set, whole; nothing overwritten comes back; the log is tiled by items and a tag is in one slot; operations return |
| `mica_memory` | 3-5 pages on 1-2 nodes, 3 entries, 5 mappings; a page of 20 words; 95,871 states | pages have one owner, living objects are mapped, chunks tile the memory and items lie in them |
| `packet_path` | 4 mbufs, 2 lcores, 4 packets, sketches of 2 and 4 columns, rule files of up to 4 lines; 350,045 states | an mbuf is in one place, sketches never underestimate, the first matching line decides, the analysis recovers the bursts |
| `packet_dropped` | the same | **violation**: `prepare_one_packet` "drops" a packet (N:736) by freeing its mbuf and leaves it in the burst, which is rewritten, counted and transmitted |

`MbufInOnePlace` of `packet_path` is therefore stated for runs in which no such packet
has come; it covers the other ways an mbuf travels.

### Bounds

Two lcores are enough for the races here: the conflicts are over one queue, one shard
or one bucket, and a third lcore only repeats the role of the second.  The exception is
a polling lcore without a TX queue, hence three in `poll_partitioned`, where slices of
3 and 2 queues give a first, a middle and a last queue and unequal sizes.  A burst of
one packet distinguishes empty from full; bursts of two add the half-full one.  A
penalty of 1, a period of 2 and one re-poll distinguish the first and the last
step of each counter.  The penalty counters are an array private to an lcore, so the
Shared runs leave Penalty out.  In `Startup` integers of four bits and shorts of three
make every narrowing case (kept, wrapped to zero, negative) occur with numbers up to 16.  In `Nat`
a shard has one to four ports, so that it fills up; in `nat_shared` it holds all the
duplicates that two lcores can make.  In `FlowTable` two keys share a bucket and a table
of three fills up, so probing runs over cells, wraps around and meets erased ones.  In
`MicaTable` `max_tail` lets the tail pass `Span` once, the point at which an offset could be
taken for valid again; `max_ops` bounds the operations.  `MaxRules`, `MaxTime`,
`MaxPackets` and `MaxPolls` bound their counters, and nothing else does.

### Fairness

`FairSpec` of `PollLoop` and `Spec` of `MicaTable` ask for weak fairness of each lcore's
step.  DPDK pins one thread per lcore to its own CPU.  No step of the loop blocks: a
busy queue lock is passed over.  In `MicaTable` an lcore waits for a bucket or for the
log only while another lcore holds it; the bound on operations keeps an endless
succession of other holders out of `OperationsReturn`, as the spinlocks are not fair
and the code gives no guarantee against it.  Nothing is assumed of the signal handler, of the NIC or of `mmap`, and the
other specifications state safety only.

## Proofs

The theorems hold for every value of the constants that satisfies the assumptions of the
module concerned, and TLAPS has checked them.  What is assumed:

* `PollLoopAssumption`, `NatAssumption`, `NatShardsAssumption`, `PacketPathAssumption`,
  `FlowTableAssumption` and `MicaMemoryAssumption` give constants their types and say what the code checks before it
  gets there (`nf_init` for the shards, `Startup` for the loop).  `PollLoopAssumption` asks for a
  positive latency period; the narrowing described below is the one way a command line
  can break that.
* `MicaTableAssumption` and `CleaningAssumption` say how the table is built: the log is a power of
  two at most a quarter of the offsets, which are one too (`alloc_pool.c:26`, `common.h:38`); the
  buckets, which M:1024 makes many of, share half of the offsets evenly (`table.c:1535-1537`); with
  several lcores the threshold for a move to the head is the whole log (M:1021).
* `DynamicAssumption` gives the constants of `alloc_dynamic.h:26-33` their types;
  `MicaMemoryAssumption` adds that a page holds a chunk (2 MB, 32 bytes) and that no item makes a
  chunk smaller than the smallest (an item has a header of 24 bytes, the two tags take 16).
* `SteeringAssumption` is the contract of `cht_fill_cht` (`cht.h:40-41`), a prime height above the
  number of backends, and asks for next hops without the flag bit; `LpmAssumption` leaves the flag
  bit out of the numbers of blocks as well (`lpm-dir-24-8.h`: 256 blocks, bit 15).
* Facts about powers of two that the provers lack (`WidthAssumption`, `PowersAssumption`, and
  `2^IntBits` in `FlowTableAssumption`), and `MaskAssumption`, that `And` with one less than a power of two
  is a remainder.  TLC evaluates them with the values of its runs.

### The polling loop

* `NfOwnerPolls`, `MicaOwnerPolls`: the lcore whose mbuf pool a queue is filled
  from is the lcore whose slice holds it.  They rest on `NfSliceOrder`,
  `NfSliceCover` and `MicaSliceOrder`, elementary facts about `\div` and `%`.
* `TypeCorrect`, `CursorCorrect`: `TypeOK` and `CursorInSlice` are not inductive
  separately (the index of `hit` is in its domain because the cursor is in the
  slice, and the cursor is in the slice because `resume_i` is), their conjunction
  `LoopInv` is.  In particular `tx_batch` never overflows.
* `LocksDisciplined`: `LockDiscipline` is inductive relative to `LoopInv`; every
  action either leaves locks and cursors of polling lcores alone or is the trylock
  or the unlock.
* `QueuesExclusive`: in Shared from `LockDiscipline` (a lock has one holder),
  in Partitioned from `CursorInSlice` and the disjointness of slices, on a single
  core trivially.
* `MbufsKept`: without STOP packets no mbuf is lost.  The inductive invariant adds
  that `tx_batch` stays empty on a single core, where packets are sent at once.
* `SweepsComplete`, `SweepsOrdered`, `LatencyOnTime`: hypothesis `NoLostJump`, that the loop is not
  in Shared with a latency queue.  A failed trylock is the one thing that leaves the cursor
  diverted.  `SweepInv` follows the logical cursor (`resume_i` where it is set, else `i`): every
  queue before it has been visited, and the last poll is of it or of one before it.
  `CadenceInv` relates `latency_count` to the polls since the last diversion.
* `PenaltiesExact`: hypothesis `NoLostRepoll`, not in Shared with Aggressive or a latency queue:
  a trylock that fails during a re-poll leaves `max_loops` short, and one that fails on the
  latency queue moves the sweep.  `PenaltyInv` relates `hit`, which is indexed by position
  in the slice, to the skips the queue still owes, and `max_loops` to the polls it has had.

### Start-up

`LaunchedValid`, `PoolsOfPollers`, `PolledPortsAreSetUp`, `PortsArePaired` come from one invariant,
`StartInv`, in three parts: what the parser leaves in the variables, whichever way an option
was narrowed (`OptionsInv`); what the checks of the three programs then guarantee
(`AcceptedInv`); and which pools and ports exist at each later step (`SetupInv`).
`PoolsOfPollers` uses `NfOwnerPolls` and `MicaOwnerPolls`, so that the loop's slices, computed once
in the loop and once in `main()`, are shown to agree.

### The NAT

* `PortsAreUnique`, `AnswersFindTheirFlow`: the two properties speak of packets
  sent long ago, so the inductive invariant `NatInv` ties everything to the flow
  vector: the indices in use are exactly the first ones and each has a flow
  (`HeapInv`), map entries point to a flow with their key (`MapInv`), and what was
  sent agrees with the vector (`SentInv`).  `FoundInv`, that an index found in use
  before the lock was taken still is, holds because nothing is freed.  The
  port ranges are disjoint by the same lemma as mica's slices (`MicaSliceOrder`).
* `PortsAreStable`: outside Shared a shard has one lcore, so nothing happens to it
  between the failed lookup and the allocation (`OneEntryInv`).  In Shared this fails.
* `DuplicatesAreBounded` says by how much: the entries of a flow and the lcores between a
  failed lookup and the allocation for it are together at most `NbLcores`
  (`DuplicatesInv`), since an lcore that comes to allocate found no entry.

### The table of a shard

* `TableInvariant` carries the data structures.  `Rings`: the free and the allocated cells
  form two rings through one array (`Linked`); the lemmas at the head of `FlowTable_proofs` say what
  taking a cell out of a ring and linking it at the end of the other do to both.  `Stores`:
  each allocated index is in one cell of the map, under the hash of the key that the vector
  holds for it (`Refers`), and the chain counter of a cell is the number of entries whose
  search passes it (`Counted`), so a search never stops too early.  Both builds of `loop()`
  meet the one thing the lemmas ask of it, that `size` steps come to each cell once.
* `StructuresStayConsistent` and `LookupsAreExact` follow.  For expiry, which frees an
  unknown number of indices, the invariant is shown to survive one round, and the number of
  rounds is the least for which the head of the list is young enough.
* `TableRefinesEmap`, the refinement.  `Rings` gives the list of a chain a ring to be read off:
  linking a cell at the end appends its entry (`AllocateAlist`), unlinking drops one
  (`FreeAlist`), rejuvenating does both, and lookups being exact means that `emap_add` finds none
  of the keys.  Expiry is the hard case: `Emap` removes by age, the code removes from the head of
  the list until it is young enough.  They agree because the times along the list ascend
  (`OrderInv`, which is inductive as the clock never goes back), so that what is too old is a first
  part of the list; `Gone` follows the rounds, and `GoneSplits` says that as many rounds as
  there are indices are enough.
* `OnlyIdleExpire`: under `NoWrap`, that `expiration_time * 1000` fits the `uint32_t` it is computed in.
* `AllocationsAreAtomic`: `HeldInv` says that the blocks held by the running allocation function
  are a prefix of those it asks for, so the clean-up of the step that fails frees them all.

### Consistent hashing and longest prefixes

* `ChtRowsStayPermutations`.  A backend prefers the hashes in arithmetic progression modulo the height;
  because that is prime, the progression meets each hash once (`PreferenceInjective`,
  `PreferenceOnto`).  So for every hash there is, for each backend, one round of the loop at which
  it is entered in the row.  `FillIs` gives the state of the loop after `n` rounds in closed form: a
  row holds the backends of the rounds that came to it, in the order of those rounds, which makes it
  a permutation when all are done.  The form satisfies the recursion, and a least
  counterexample shows that nothing else does.
* `FlowsStayWithTheirBackend`, an action property: `HashingInv` adds to the rows that the active
  backends are a well-formed double chain (`Rings` again).  Allocating and freeing an index change
  one backend, so the first active one of a row changes only if it is that one.
* `LookupStaysLatestRule`.  Addresses that a rule covers are an interval, and so are the entries that
  the code stores, in the table of first bits (`ShortRule`) or in a block (`LongRule`).  `LpmHolds`
  says that an entry of the first table leads to a block exactly if a longer rule came since the last
  one that covers it whole, and that lookups give the latest rule; `BlocksApart`, that no two
  entries lead to one block and that blocks not given out hold nothing.  An address is only affected by a rule that covers it or shares its
  block, which is what `Answer` says.  Taking a block and storing the rule in it are two steps
  of the code, and between them `BlockReady` holds in the place of `LpmHolds`.

### The way of a packet

* `MbufsInOnePlace`: `PlacesInv` counts, for each mbuf, its copies in the pool (a bag), in a burst
  and in a `tx_batch`; they add up to one until a packet is dropped in `prepare_one_packet`.
* `SketchesExact`: every counter is the sum over the keys that hash to it.
* `FirstLineDecides`: priorities fall along the file over both arrays, so the entry of highest
  priority that matches is the first line that does (`AclInv`).

### MICA's shared memory

`MemoryInvariant` carries both `PagesAreOwned` and `ObjectsStayMapped`.  `Agrees` is what `shm.c` itself keeps: a page is in use
if and only if exactly one entry owns it, an entry counts its mappings, one whose removal is
scheduled has at least one, and no two mappings share an address, so `mehcached_shm_unmap`
finds the one that is meant.  One lemma per function of `shm.c` says what it does to pages,
entries and mappings, and one that it keeps `Agrees`.  That is not inductive together with
`ObjectsMapped` until the users are accounted for.  `InStep` says the mappings there are, are
those of the objects and of the call under way (`Wanted`), which is a matter of how far its
loops are: `Stripes(j, j.cleaned, j.mapped)` while a striped object is mapped or unmapped.  It
also says whatever is not scheduled for removal belongs to the call (`Pending`), and objects
are at disjoint addresses (`Apart`), as a free range is free of everything mapped.

* `PagesAreOwned` is `Agrees`, read for the pages in use.
* `ObjectsStayMapped`: an object's addresses are covered by its mappings (`PlaceIs`); between calls an
  entry is scheduled, so it has a mapping, so it is an object's.

### The dynamic allocator

`ChunksStayConsistent` is about `ChunksConsistent`, which reads the memory as the allocator does: from
tag to tag and from link to link.  The invariant (`DynamicInv`) has witnesses for what that is to find: `f`,
where chunks start and how large they are; `F`, which of them are free; and `pos`, the place of a
free chunk on its list.

* `Cut(f, n)`: the chunks tile the `n` words.  `JoinedIsCut` and `SplitIsCut` are all that happens to them.
* `TagsAgree` and `OnLists` say what the words hold.  Within a call neither need be true of the chunk in
  hand: its tags are still those of its parts, and it is off its list.  `Heap(d, f, F, X, pos)` excepts
  the chunks `X`, so `remove_free_chunk_from_free_list` adds one to `X` (`Unlisted`), and
  `insert_free_chunk` and the writing of an occupied chunk's tags take one away (`Inserted`,
  `Occupied`); between the two the words in hand may be cut anew (`Recut`).
* `AtRest` says nothing is in hand and no two free chunks are neighbours.  That is needed for itself: the
  left and the right neighbour of a chunk that is freed are merged with it, but nothing
  beyond them (`LeftIs`, `RightIs`), so the result has an occupied neighbour on either side only if
  there were no two free neighbours before.
* `AllocateIs`, `DeallocateIs` and `ResetIs` are the three calls: the occupied chunks
  afterwards are those before, of the same sizes, but for the one allocated or freed.
* `ChunksAre` and `ListedAre` lead from the witnesses to what is read.  A chunk is reached after as many
  steps as there are chunks before it (`Rank`), and there are no more than memory has room for.

### The MICA table

The hard part is a GET that takes no lock.  `StoreInv` has these parts:

* `Shape` is what can be said without the items: types; `Locks` (an lcore that holds a bucket
  has it alone, the version of a locked bucket is odd and what a reader has read is even and not
  later than the version there is); `Pointers` (item vectors and items in hand point below the tail,
  each to an item of its own); `Chosen` (the slot a SET has chosen is the only one that may have its
  tag).
* `Stored(S)`, for a set `S` of addresses at which items start: they tile the log from head to tail;
  an item vector whose item is in the log has, at a start, a whole item of a key of its bucket
  and tag, with the value that was set last, unless a SET holds the slot to replace it (`Live`); and
  `Operations` says for each request how far it is.  A SET has written the words before
  `word`.  A GET whose bucket has the version it read holds in `copy` words of the last value only,
  as long as its item has not left the log.  `GetIsValid` comes after the copy and the comparison
  of versions after both, so a GET that gets through has met neither a SET nor an eviction.

`S` is an existential witness, so that tiling needs no recursion: pushing the tail adds a start and
drops those evicted, and everything else leaves it alone.  `TilesAreTiled` leads from
there to `LogTiled`.

`StoreInv` is inductive as long as no offset is taken for a later one, which is `NoItemRevives`:

* `GetsReturnLastSet`, `StoreStaysConsistent`: under `[]NoItemRevives`, for any number of lcores.
* `FirstTurnOfOffsets`: until the tail has passed `Span` nothing can be taken for anything later.
* `CleaningInTime`: `[]NoItemRevives` from `[]NotLapped`.  The offsets are divided into blocks,
  a block belongs to a bucket, and an operation that moves the tail over the end of a block owes the
  bucket a clean-up (`Owed`).  `Swept` says that an address which a bucket still holds was in the log at
  each end of a block of the bucket that the tail has passed, or somebody owes that end.  The ends of
  a bucket's blocks are half of the offsets apart; so what is in a bucket is at most that and
  a log behind the tail, which is too near to look valid again.  The witness `W` of `CleanedBy` is the
  address at which each clean-up has arrived: in the code `from` starts over with each turn of
  the buckets.
* `CleaningInTimeKeepsStore` puts both together; `LoneLcoreRevivesNothing` and `LoneLcoreStore` say
  it without a hypothesis for one polling lcore, which cleans up before its next operation.

`NotLapped` says that while an lcore has not yet cleaned up after its own operation the others do not
move the tail on by half of the offsets less two logs.  The code has nothing to prevent it: an lcore
that stands still for long enough while the others write 2^39 bytes, less two logs, is lapped, and
the item it failed to clean can look valid.  The condition is true while the tail has not come to half of the
offsets less two logs, and `LoneIsNotLapped` proves it for one lcore.  Run `mica_store` checks the three
properties without any hypothesis, on its instances, in which the bounds on the operations
keep an lcore from being lapped often enough to do harm.

### Only model-checked

* Liveness (`QueueServed`, `QuitTerminates`, `OperationsReturn`), which needs fairness.
* `AnalysisExact`: the script's result is defined by recursion over the rows, and a proof
  would be an induction over them.
* `NoItemRevives` for several lcores when one of them may be lapped (see above).

## Known disagreements

`packet_dropped` is the disagreement with a run of its own (`findings` in
`PROJECT.json`).  The models represent the following as the code does it, and
properties are stated so that they hold of it:

* **Re-polls and penalty in Shared** (M:458, M:521, against `common/qflow.h:10-12`).  After a
  trylock that fails during a re-poll `max_loops` is below its initial value, so the next
  queue's first poll passes for a re-poll and is not penalised.  `PenaltyExact` is
  checked in Partitioned; in Shared with Penalty and Aggressive TLC refutes it.
* **Latency queue in Shared** (M:458).  A trylock that fails on the latency queue leaves
  the cursor there: queues are left out of the sweep, or, when the latency queue lies
  before the cursor, the sweep goes back.  With four queues and latency queue 0 two lcores
  can keep sending each other back: the last queue starves and, as `force_quit` is only
  looked at between sweeps, a signal ends neither.  `SweepComplete`, `QueueServed` and
  `QuitTerminates` are checked in Shared without a latency queue.
* **Narrowed options** (`common/qflow.h:121`, `:138`).  `--penalty` and `--latency-period` are
  tested for zero before they are narrowed to 32 bits.
* **Double allocation in the NAT** (`nat_main.c:179`, against the contract of `map_put`,
  `map.c:186`).  Lookup and allocation are two critical sections, so two lcores can put
  one flow twice; `DuplicatesBounded` and `ReverseTranslation` say what remains true, and
  both are proved.
* **A full shard** (N:1751, against `nf.h:40-41`).  `EXPLICIT_DROP` is ignored: the packet leaves
  untranslated.  `nat_main.c:123` has lost the returns of the upstream code likewise.
* **Flows by source port only** (`state.c:16`).  The comparison and the hash read one field.
* **External ports** (`nat_flowmanager.c:128`).  A port outside the shard's range indexes
  outside the chain's cells; `Nat` gives a shard only packets for its own ports.
* **Expiry time** (`nat_flowmanager.c:95`).  The product is computed in 32 bits and overflows
  for the 60 seconds that are set; nothing calls the function.  `OnlyIdleExpire` therefore has
  the hypothesis `NoWrap`.
* **LPM** (`lpm-dir-24-8.c:704`).  The first long rule of a block takes away the short rule the
  rest of the block was under; `LookupIsLatestRule` says so.
* **Eviction** (`table.c:405`).  `mehcached_find_empty_or_oldest` picks the item with the
  smallest distance from the tail, which is the newest one.
* **Move to head** (M:1021, against `table.h:37-38`).  A threshold of 0.0 is named FIFO and
  behaves as LRU.
* **A GET that misses** (M:288) answers with a buffer nobody wrote.
* **Shared memory** (`shm.c:758`, `shm.c:465`).  The striped malloc retries with entries that it
  has removed; `used_memory` is not reduced with the entry.
* **Packets that clear the NIC** (N:3010, M:855).  nf-chain sends them on every port present, so
  it only runs with all of them in its mask; mica in Partitioned allocates them from the
  main lcore's pool, which does not exist if that lcore is beyond `active_io_lcores`.
* **Reported queues** (`locality/main.c:1046`).  The loop polls as many queues of every port as
  the last port reported.
* **Route bits** (N:1128).  `1 << userdata` is computed for forwarding ports of any size.

## Not modelled

* Statistics, warm-up times and printing of the loops; sizes of mbuf pools; the options
  `-d`, `-v`, `-P`, `-T`, `-c`, `--eth-dest` and those for jumbo frames.
* Extra buckets of the MICA table (eviction is on in this build), `mehcached_prefetch_*`,
  `alloc_malloc.c` (forwards to `malloc`), `hash.c` and `city.c` (stateless arithmetic: a hash is
  a constant of the models).
* The text of a rule file (a line is a record of what the parser makes of it) and the
  inside of librte_acl.
* The VeriFast annotations of `nf-chain/src/utils`, the larger part of those files: they are
  proofs about the code, and the contracts among them are what `Emap` restates.
* The scripts that start traffic generators and draw plots.

## Plan

Done: the modules above, and theorems about each of them.  Open are the three points under
"Only model-checked": liveness, `AnalysisExact`, and a condition weaker than `NotLapped` on the
lcores of a concurrent table.
