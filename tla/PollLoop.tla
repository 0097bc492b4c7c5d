------------------------------ MODULE PollLoop ------------------------------
(***************************************************************************)
(* poll_loop() of mica/main.c and nf-chain/src/main.c: the loop every      *)
(* lcore runs.  A sweep walks a cursor i over the lcore's RX queues and    *)
(* polls each for a burst; the Penalty, Aggressive and Latency policies of *)
(* common/qflow.h decide which queue is skipped, polled again, or polled   *)
(* out of turn.  In Shared mode the lcores walk the same queues and take a *)
(* per-queue spinlock for the duration of the receive only.                *)
(*                                                                         *)
(* The NIC and the clients are the environment: rte_eth_rx_burst returns   *)
(* any number of packets up to the burst size, rte_eth_tx_burst accepts    *)
(* any number of those offered.  Packets are counted, not identified.  The *)
(* statistics the loop prints (port counters, warm-up and end times) do    *)
(* not influence it and are left out.                                      *)
(*                                                                         *)
(* A definition whose name ends in Bug is the one after it with a fault in *)
(* it; no action uses it.  Put in the place of the right one, it makes TLC *)
(* find a property violated, which shows that the property can fail.       *)
(***************************************************************************)
EXTENDS Integers, QueueSlices

CONSTANTS
  App,                  \* "mica" or "nf-chain"
  Mode,                 \* enum qflow_mode: "single", "partitioned", "shared"
  NbLcores,             \* rte_lcore_count()
  Queues,               \* RX queues of the port (-q)
  MaxTxQueues,          \* dev_info.max_tx_queues (mica)
  Penalty,              \* sweeps a penalised queue is skipped; 0 disables
  Aggressive,           \* --policy aggressive
  Latency,              \* --latency-queue given
  LatencyQueue,         \* the latency queue
  LatencyPeriod,        \* --latency-period
  MaxPktBurst,          \* MAX_PKT_BURST
  TxBatchSize,          \* TX_BATCH_SIZE
  MaxConsecutivePolls,  \* QFLOW_MAX_CONSECUTIVE_POLLS
  StopPackets           \* whether clients may send the STOP packet

(***************************************************************************)
(* What qflow_check() and main() establish before the loops are launched.  *)
(* Only nf-chain acts on a STOP packet: mica_process_burst never returns 1.*)
(***************************************************************************)
ASSUME PollLoopAssumption ==
  /\ App \in {"mica", "nf-chain"}
  /\ Mode \in {"single", "partitioned", "shared"}
  /\ NbLcores \in Nat \ {0} /\ Queues \in Nat \ {0} /\ MaxTxQueues \in Nat \ {0}
  /\ Mode = "single" => NbLcores = 1
  /\ Mode = "partitioned" => Queues >= NbLcores
  /\ Penalty \in Nat
  /\ Aggressive \in BOOLEAN /\ Latency \in BOOLEAN /\ StopPackets \in BOOLEAN
  /\ LatencyQueue \in 0 .. Queues-1 /\ LatencyPeriod \in Nat \ {0}
  /\ MaxPktBurst \in Nat \ {0} /\ TxBatchSize \in Nat /\ MaxPktBurst <= TxBatchSize
  /\ MaxConsecutivePolls \in Nat \ {0}
  /\ StopPackets => App = "nf-chain"

Lcore == 0 .. NbLcores-1
Queue == 0 .. Queues-1

\* rx_queue_locks[portid][q] when nobody holds it.
NoLcore == -1

MinOf(a, b) == IF a < b THEN a ELSE b

(***************************************************************************)
(* Slices.  In mica the lcores beyond active_io_lcores get no queue (their *)
(* first_queue is the number of queues) and return at once; in nf-chain    *)
(* every lcore polls.                                                      *)
(***************************************************************************)
ActiveIoLcores ==
  IF App = "mica" /\ Mode # "single"
    THEN MinOf(MinOf(NbLcores, Queues), MaxTxQueues)
    ELSE NbLcores

First(l) ==
  CASE l >= ActiveIoLcores                     -> Queues
    [] l < ActiveIoLcores /\ Mode # "partitioned" -> 0
    [] l < ActiveIoLcores /\ Mode = "partitioned" ->
         IF App = "mica" THEN MicaFirst(Queues, ActiveIoLcores, l)
                         ELSE NfFirst(Queues, NbLcores, l)

Last(l) ==
  IF l < ActiveIoLcores /\ Mode = "partitioned"
    THEN IF App = "mica" THEN MicaLast(Queues, ActiveIoLcores, l)
                         ELSE NfLast(Queues, NbLcores, l)
    ELSE Queues

Slice(l) == First(l) .. Last(l)-1

HasLatencyQueueBug(l) == LatencyQueue < Last(l)

HasLatencyQueue(l) == LatencyQueue >= First(l) /\ LatencyQueue < Last(l)

VARIABLES
  pc,              \* where the lcore is: see TypeOK
  force_quit,      \* set by the signal handler
  rx_queue_locks,  \* per-queue spinlocks, with the lcore that holds each
  i,               \* the cursor of the sweep
  qi,              \* index of the visited queue in hit
  hit,             \* penalty counters, one array per lcore
  max_loops,       \* re-polls left for the current queue
  nb_rx,           \* size of the last burst
  tx_total,        \* packets waiting in tx_batch
  latency_count,   \* regular polls since the last injection
  inject_queue,    \* the next poll goes to the latency queue
  resume_i         \* cursor to come back to after a latency poll, or -1

(***************************************************************************)
(* History variables: they record what the policies are documented to do   *)
(* and what the loop did; no action reads them.                            *)
(***************************************************************************)
VARIABLES
  visited,         \* queues the current sweep has come to
  last_polled,     \* queue of the last regular poll of the sweep, or -1
  streak,          \* consecutive regular polls of last_polled
  owed,            \* sweeps for which a queue must still be skipped
  since,           \* regular polls of other queues since the last latency poll
  in_use           \* mbufs received and neither transmitted nor freed

cursor   == <<i, qi, max_loops>>
latency  == <<latency_count, inject_queue, resume_i>>
shared   == <<force_quit, rx_queue_locks>>
batch    == <<tx_total, in_use>>
sweepLog == <<visited, last_polled, streak>>
vars     == <<pc, shared, cursor, hit, nb_rx, batch, latency, sweepLog, owed, since>>

Init ==
  /\ pc = [l \in Lcore |-> IF l < ActiveIoLcores THEN "sweep" ELSE "done"]
  /\ force_quit = FALSE
  /\ rx_queue_locks = [q \in Queue |-> NoLcore]
  /\ i = [l \in Lcore |-> First(l)]
  /\ qi = [l \in Lcore |-> 0]
  /\ hit = [l \in Lcore |-> [k \in Queue |-> Penalty]]
  /\ max_loops = [l \in Lcore |-> MaxConsecutivePolls]
  /\ nb_rx = [l \in Lcore |-> 0]
  /\ tx_total = [l \in Lcore |-> 0]
  /\ latency_count = [l \in Lcore |-> 0]
  /\ inject_queue = [l \in Lcore |-> FALSE]
  /\ resume_i = [l \in Lcore |-> -1]
  /\ visited = [l \in Lcore |-> {}]
  /\ last_polled = [l \in Lcore |-> -1]
  /\ streak = [l \in Lcore |-> 0]
  /\ owed = [l \in Lcore |-> [q \in Queue |-> 0]]
  /\ since = [l \in Lcore |-> 0]
  /\ in_use = [l \in Lcore |-> 0]

(***************************************************************************)
(* while (!force_quit): enter a new sweep, or leave the loop.              *)
(***************************************************************************)
StartSweep(l) ==
  /\ pc[l] = "sweep"
  /\ ~ force_quit
  /\ pc' = [pc EXCEPT ![l] = "visit"]
  /\ i' = [i EXCEPT ![l] = First(l)]
  /\ max_loops' = [max_loops EXCEPT ![l] = MaxConsecutivePolls]
  /\ tx_total' = [tx_total EXCEPT ![l] = 0]
  /\ visited' = [visited EXCEPT ![l] = {}]
  /\ last_polled' = [last_polled EXCEPT ![l] = -1]
  /\ streak' = [streak EXCEPT ![l] = 0]
  /\ owed' = [owed EXCEPT ![l] = [q \in Queue |-> IF owed[l][q] > 0 THEN owed[l][q] - 1 ELSE 0]]
  /\ UNCHANGED <<shared, qi, hit, nb_rx, in_use, latency, since>>

Quit(l) ==
  /\ pc[l] = "sweep"
  /\ force_quit
  /\ pc' = [pc EXCEPT ![l] = "done"]
  /\ UNCHANGED <<shared, cursor, hit, nb_rx, batch, latency, sweepLog, owed, since>>

(***************************************************************************)
(* One iteration of the sweep, up to the receive.                          *)
(***************************************************************************)
Visiting(l) == pc[l] = "visit" /\ i[l] < Last(l)

Penalised(l) == Penalty > 0 /\ hit[l][i[l] - First(l)] < Penalty

Diverts(l) == Latency /\ HasLatencyQueue(l) /\ inject_queue[l]

Target(l) == IF Diverts(l) THEN LatencyQueue ELSE i[l]

SkipPenalised(l) ==
  /\ Visiting(l)
  /\ Penalised(l)
  /\ hit' = [hit EXCEPT ![l][i[l] - First(l)] = @ + 1]
  /\ qi' = [qi EXCEPT ![l] = i[l] - First(l)]
  /\ i' = [i EXCEPT ![l] = @ + 1]
  /\ visited' = [visited EXCEPT ![l] = @ \union {i[l]}]
  /\ UNCHANGED <<pc, shared, max_loops, nb_rx, batch, latency, last_polled, streak, owed, since>>

\* A pending injection turns the visit into a latency poll: the cursor jumps
\* to the latency queue and resume_i remembers where it was.
Divert(l) ==
  /\ qi' = [qi EXCEPT ![l] = i[l] - First(l)]
  /\ resume_i' = [resume_i EXCEPT ![l] = IF Diverts(l) THEN i[l] ELSE @]
  /\ inject_queue' = [inject_queue EXCEPT ![l] = IF Diverts(l) THEN FALSE ELSE @]
  /\ visited' = [visited EXCEPT ![l] = IF Diverts(l) THEN @ ELSE @ \union {i[l]}]

\* rte_spinlock_trylock would succeed; only Shared takes locks.
LockFreeBug(l) == Mode = "shared" => rx_queue_locks[i[l]] = NoLcore

LockFree(l) == Mode = "shared" => rx_queue_locks[Target(l)] = NoLcore

BeginPoll(l) ==
  /\ Visiting(l)
  /\ ~ Penalised(l)
  /\ LockFree(l)
  /\ rx_queue_locks' = IF Mode = "shared" THEN [rx_queue_locks EXCEPT ![Target(l)] = l]
                                          ELSE rx_queue_locks
  /\ i' = [i EXCEPT ![l] = Target(l)]
  /\ Divert(l)
  /\ pc' = [pc EXCEPT ![l] = "rx"]
  /\ UNCHANGED <<force_quit, hit, max_loops, nb_rx, batch, latency_count,
                 last_polled, streak, owed, since>>

\* rte_spinlock_trylock fails: the loop moves on without undoing the jump.
PassOverBug(l) == Target(l) + 2

PassOver(l) == Target(l) + 1

LockBusy(l) ==
  /\ Visiting(l)
  /\ ~ Penalised(l)
  /\ ~ LockFree(l)
  /\ i' = [i EXCEPT ![l] = PassOver(l)]
  /\ nb_rx' = [nb_rx EXCEPT ![l] = 0]
  /\ Divert(l)
  /\ UNCHANGED <<pc, shared, hit, max_loops, batch, latency_count,
                 last_polled, streak, owed, since>>

(***************************************************************************)
(* rte_eth_rx_burst, and the unlock right after it: the burst is processed *)
(* outside the lock.                                                       *)
(***************************************************************************)
UnlockBug(l) ==
  rx_queue_locks' = IF Mode = "shared" /\ nb_rx'[l] > 0
                      THEN [rx_queue_locks EXCEPT ![i[l]] = NoLcore]
                      ELSE rx_queue_locks

Unlock(l) ==
  rx_queue_locks' = IF Mode = "shared" THEN [rx_queue_locks EXCEPT ![i[l]] = NoLcore]
                                       ELSE rx_queue_locks

RxBurst(l) ==
  /\ pc[l] = "rx"
  /\ \E n \in 0 .. MaxPktBurst :
       /\ nb_rx' = [nb_rx EXCEPT ![l] = n]
       /\ in_use' = [in_use EXCEPT ![l] = @ + n]
  /\ Unlock(l)
  /\ pc' = [pc EXCEPT ![l] = "burst"]
  /\ UNCHANGED <<force_quit, cursor, hit, tx_total, latency, sweepLog, owed, since>>

(***************************************************************************)
(* rte_eth_tx_burst accepts nb_tx of the n packets offered; the loop frees *)
(* the others.                                                             *)
(***************************************************************************)
FreedBug(n, nb_tx) == 0

Freed(n, nb_tx) == n - nb_tx

Send(l, n) ==
  \E nb_tx \in 0 .. n : in_use' = [in_use EXCEPT ![l] = @ - nb_tx - Freed(n, nb_tx)]

\* tx_batch has no room for the burst just received.
BatchFullBug(l) == tx_total[l] > TxBatchSize

BatchFull(l) == tx_total[l] + nb_rx[l] > TxBatchSize

Transmit(l) ==
  \/ /\ Mode = "single"
     /\ Send(l, nb_rx[l])
     /\ UNCHANGED tx_total
  \/ /\ Mode # "single"
     /\ BatchFull(l)
     /\ Send(l, tx_total[l])
     /\ tx_total' = [tx_total EXCEPT ![l] = nb_rx[l]]
  \/ /\ Mode # "single"
     /\ ~ BatchFull(l)
     /\ tx_total' = [tx_total EXCEPT ![l] = @ + nb_rx[l]]
     /\ UNCHANGED in_use

(***************************************************************************)
(* The rest of the iteration, after the burst has been processed.          *)
(***************************************************************************)
IsLatencyPoll(l) ==
  Latency /\ HasLatencyQueue(l) /\ resume_i[l] # -1 /\ i[l] = LatencyQueue

\* Back to the regular sweep: resume_i - 1, then the loop's ++i.
ResumeCursorBug(l) == resume_i[l] + 1

ResumeCursor(l) == resume_i[l]

FinishLatencyPoll(l) ==
  /\ pc[l] = "burst"
  /\ IsLatencyPoll(l)
  /\ Transmit(l)
  /\ i' = [i EXCEPT ![l] = ResumeCursor(l)]
  /\ resume_i' = [resume_i EXCEPT ![l] = -1]
  /\ pc' = [pc EXCEPT ![l] = "visit"]
  /\ since' = [since EXCEPT ![l] = 0]
  /\ UNCHANGED <<shared, qi, max_loops, hit, nb_rx, latency_count, inject_queue, sweepLog, owed>>

\* Only polls of the other queues bring the next injection nearer.
CountedBug(l) == Latency /\ HasLatencyQueue(l)

Counted(l) == Latency /\ HasLatencyQueue(l) /\ i[l] # LatencyQueue

CountPoll(l) ==
  LET full == latency_count[l] + 1 = LatencyPeriod
  IN  /\ latency_count' = [latency_count EXCEPT ![l] =
                             IF ~ Counted(l) THEN @ ELSE IF full THEN 0 ELSE @ + 1]
      /\ inject_queue' = [inject_queue EXCEPT ![l] = @ \/ (Counted(l) /\ full)]

\* A burst that does not penalise its queue.
FullEnough(n) == n > MaxPktBurst \div 2

\* Penalty looks at the first poll of a queue only, not at its re-polls.
SetHitIndexBug(l) ==
  hit' = IF Penalty > 0 /\ max_loops[l] = MaxConsecutivePolls
           THEN [hit EXCEPT ![l][i[l]] = IF FullEnough(nb_rx[l]) THEN Penalty ELSE 0]
           ELSE hit

SetHit(l) ==
  LET k == IF Mode = "partitioned" THEN qi[l] ELSE i[l]
  IN  hit' = IF Penalty > 0 /\ max_loops[l] = MaxConsecutivePolls
               THEN [hit EXCEPT ![l][k] = IF FullEnough(nb_rx[l]) THEN Penalty ELSE 0]
               ELSE hit

RepollsBug(l) == Aggressive /\ nb_rx[l] = MaxPktBurst

Repolls(l) == Aggressive /\ nb_rx[l] = MaxPktBurst /\ max_loops[l] > 0

AdvanceBug(l) ==
  \/ /\ Repolls(l)
     /\ UNCHANGED <<i, max_loops>>
  \/ /\ ~ Repolls(l)
     /\ max_loops' = [max_loops EXCEPT ![l] = MaxConsecutivePolls]
     /\ i' = [i EXCEPT ![l] = @ + 1]

Advance(l) ==
  \/ /\ Repolls(l)
     /\ max_loops' = [max_loops EXCEPT ![l] = @ - 1]
     /\ UNCHANGED i
  \/ /\ ~ Repolls(l)
     /\ max_loops' = [max_loops EXCEPT ![l] = MaxConsecutivePolls]
     /\ i' = [i EXCEPT ![l] = @ + 1]

\* What the documentation says of this poll: a first poll that returns at most
\* half a burst owes Penalty sweeps of rest, counted from the next sweep.
LogPoll(l) ==
  LET again == last_polled[l] = i[l]
  IN  /\ last_polled' = [last_polled EXCEPT ![l] = i[l]]
      /\ streak' = [streak EXCEPT ![l] = IF ~ again THEN 1
                                         ELSE IF @ <= MaxConsecutivePolls THEN @ + 1 ELSE @]
      /\ owed' = IF again THEN owed
                 ELSE [owed EXCEPT ![l][i[l]] =
                         IF Penalty > 0 /\ nb_rx[l] <= MaxPktBurst \div 2 THEN Penalty + 1 ELSE 0]
      /\ since' = [since EXCEPT ![l] =
                     IF Latency /\ HasLatencyQueue(l) /\ i[l] # LatencyQueue /\ @ <= LatencyPeriod
                       THEN @ + 1 ELSE @]

FinishRegularPoll(l) ==
  /\ pc[l] = "burst"
  /\ ~ IsLatencyPoll(l)
  /\ Transmit(l)
  /\ CountPoll(l)
  /\ SetHit(l)
  /\ Advance(l)
  /\ LogPoll(l)
  /\ pc' = [pc EXCEPT ![l] = "visit"]
  /\ UNCHANGED <<shared, qi, nb_rx, resume_i, visited>>

(***************************************************************************)
(* nf_process_burst met the STOP packet: this lcore returns at once, with  *)
(* the burst and tx_batch in its hands.  force_quit is not set.            *)
(***************************************************************************)
StopReceived(l) ==
  /\ StopPackets
  /\ pc[l] = "burst"
  /\ nb_rx[l] > 0
  /\ pc' = [pc EXCEPT ![l] = "done"]
  /\ UNCHANGED <<shared, cursor, hit, nb_rx, batch, latency, sweepLog, owed, since>>

\* The cursor is past the slice: one transmission for the whole sweep.
EndSweep(l) ==
  /\ pc[l] = "visit"
  /\ i[l] >= Last(l)
  /\ IF Mode # "single" /\ tx_total[l] > 0 THEN Send(l, tx_total[l])
                                           ELSE UNCHANGED in_use
  /\ tx_total' = [tx_total EXCEPT ![l] = 0]
  /\ pc' = [pc EXCEPT ![l] = "sweep"]
  /\ UNCHANGED <<shared, cursor, hit, nb_rx, latency, sweepLog, owed, since>>

\* SIGINT or SIGTERM.
SignalHandler ==
  /\ ~ force_quit
  /\ force_quit' = TRUE
  /\ UNCHANGED <<pc, rx_queue_locks, cursor, hit, nb_rx, batch, latency, sweepLog, owed, since>>

LcoreStep(l) ==
  \/ StartSweep(l) \/ Quit(l)
  \/ SkipPenalised(l) \/ BeginPoll(l) \/ LockBusy(l)
  \/ RxBurst(l)
  \/ FinishLatencyPoll(l) \/ FinishRegularPoll(l) \/ StopReceived(l)
  \/ EndSweep(l)

\* main() has joined every lcore.
Terminated == (\A l \in Lcore : pc[l] = "done") /\ UNCHANGED vars

Next == (\E l \in Lcore : LcoreStep(l)) \/ SignalHandler \/ Terminated

Spec == Init /\ [][Next]_vars

(***************************************************************************)
(* An lcore owns its CPU and no step of the loop blocks (a busy lock is    *)
(* passed over), so an lcore that has not returned keeps taking steps.     *)
(***************************************************************************)
Fairness == \A l \in Lcore : WF_vars(LcoreStep(l))

FairSpec == Spec /\ Fairness

-----------------------------------------------------------------------------

\* Every variable holds a value of its type; for tx_total that is the room in
\* tx_batch, for hit the range of a penalty counter.
TypeOK ==
  /\ pc \in [Lcore -> {"sweep", "visit", "rx", "burst", "done"}]
  /\ force_quit \in BOOLEAN
  /\ rx_queue_locks \in [Queue -> Lcore \union {NoLcore}]
  /\ i \in [Lcore -> 0 .. Queues]
  /\ qi \in [Lcore -> Queue]
  /\ hit \in [Lcore -> [Queue -> 0 .. Penalty]]
  /\ max_loops \in [Lcore -> 0 .. MaxConsecutivePolls]
  /\ nb_rx \in [Lcore -> 0 .. MaxPktBurst]
  /\ tx_total \in [Lcore -> 0 .. TxBatchSize]
  /\ latency_count \in [Lcore -> 0 .. LatencyPeriod-1]
  /\ inject_queue \in [Lcore -> BOOLEAN]
  /\ resume_i \in [Lcore -> -1 .. Queues-1]
  /\ visited \in [Lcore -> SUBSET Queue]
  /\ last_polled \in [Lcore -> -1 .. Queues-1]
  /\ streak \in [Lcore -> 0 .. MaxConsecutivePolls+1]
  /\ owed \in [Lcore -> [Queue -> 0 .. Penalty+1]]
  /\ since \in [Lcore -> 0 .. LatencyPeriod+1]
  /\ in_use \in [Lcore -> Int]

\* The cursor of an lcore stays inside its slice, and so inside the arrays it
\* indexes, whatever jumps the latency poll makes and however the lock attempts
\* end; so does the cursor it remembers.
CursorInSlice ==
  \A l \in Lcore :
    /\ i[l] \in First(l) .. Last(l)
    /\ pc[l] \in {"rx", "burst"} => i[l] \in Slice(l)
    /\ resume_i[l] # -1 => resume_i[l] \in Slice(l)

\* The lcore is using the RX queue under its cursor.  Outside Shared it also
\* owns the order in which the queue's packets are processed.
UsesQueue(l) == pc[l] \in (IF Mode = "shared" THEN {"rx"} ELSE {"rx", "burst"})

\* An RX queue, which DPDK does not let two threads poll at once, is never
\* polled by two lcores at once: in Shared because of the trylock, in
\* Partitioned because the slices are disjoint and no latency jump leaves the
\* slice.  In Partitioned bursts of one queue are also processed one by one.
QueueExclusive ==
  \A l, m \in Lcore : l # m /\ UsesQueue(l) /\ UsesQueue(m) => i[l] # i[m]

\* A spinlock is held exactly while its holder is between the trylock and the
\* unlock of that queue: no path, the return on STOP included, leaves one held.
LockDiscipline ==
  Mode = "shared" =>
    \A q \in Queue, l \in Lcore : rx_queue_locks[q] = l <=> pc[l] = "rx" /\ i[l] = q

\* No mbuf is lost: what the lcore holds is the burst in hand and tx_batch, and
\* between sweeps, and after a regular exit, it holds nothing.
MbufsAccounted ==
  \A l \in Lcore :
    /\ pc[l] \in {"visit", "rx"} => in_use[l] = tx_total[l]
    /\ pc[l] = "burst" => in_use[l] = tx_total[l] + nb_rx[l]
    /\ pc[l] \in {"sweep", "done"} => in_use[l] = 0

\* The visit is not a re-poll of the queue just polled.
FreshVisit(l) == Visiting(l) /\ i[l] # last_polled[l]

\* "a queue whose burst was at most half full is skipped for the next N
\* sweeps": the loop skips a queue when, and only when, that rule says so.
PenaltyExact ==
  \A l \in Lcore : FreshVisit(l) => (Penalised(l) <=> owed[l][i[l]] > 0)

\* The regular part of the sweep is a round robin: a regular poll goes to a
\* later queue than the one before it, or polls the same queue again under
\* Aggressive, at most QFLOW_MAX_CONSECUTIVE_POLLS times.
SweepOrder ==
  \A l \in Lcore : pc[l] = "rx" /\ ~ IsLatencyPoll(l) =>
    \/ i[l] > last_polled[l]
    \/ i[l] = last_polled[l] /\ Aggressive /\ streak[l] <= MaxConsecutivePolls

\* "poll every RX queue": a sweep that ends has come to every queue of its
\* slice (polled it, found it locked, or skipped it for its penalty), latency
\* jumps in between notwithstanding.
SweepComplete ==
  \A l \in Lcore : pc[l] = "visit" /\ i[l] >= Last(l) => visited[l] = Slice(l)

\* "poll queue Q once every P regular polls": the latency queue is polled out
\* of turn after exactly LatencyPeriod regular polls of the other queues.
LatencyCadence ==
  \A l \in Lcore :
    /\ since[l] <= LatencyPeriod
    /\ pc[l] \in {"rx", "burst"} /\ IsLatencyPoll(l) => since[l] = LatencyPeriod

\* No queue starves: until the program is told to stop, every queue is polled
\* again and again, by the owner of its slice or, in Shared, by some lcore.
QueueServed ==
  \A q \in Queue :
    []<>(force_quit \/ \E l \in Lcore : pc[l] = "burst" /\ i[l] = q)

\* After SIGINT or SIGTERM every lcore returns and main() can join them all.
QuitTerminates == force_quit ~> \A l \in Lcore : pc[l] = "done"

=============================================================================
