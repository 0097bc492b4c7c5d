-------------------------- MODULE PollLoop_proofs --------------------------
(***************************************************************************)
(* Proofs about PollLoop, for every number of lcores and queues and every  *)
(* setting of the policies.                                                *)
(***************************************************************************)
EXTENDS PollLoop, Numbers_proofs

\* There is at least one polling lcore, and no more than lcores or queues.
LEMMA ActiveFacts ==
  /\ ActiveIoLcores \in 1 .. NbLcores
  /\ Mode = "partitioned" => ActiveIoLcores <= Queues
  BY PollLoopAssumption DEF ActiveIoLcores, MinOf

\* Slices lie inside the queues and, in Partitioned, are disjoint; an lcore
\* outside Partitioned that polls at all polls from queue 0.
LEMMA SliceFacts ==
  /\ \A l \in Lcore : /\ First(l) \in 0 .. Queues /\ Last(l) \in 0 .. Queues
                      /\ First(l) <= Last(l)
  /\ \A l \in Lcore : l < ActiveIoLcores /\ Mode # "partitioned" => First(l) = 0
  /\ \A l, m \in Lcore : Mode = "partitioned" /\ l # m =>
       Last(l) <= First(m) \/ Last(m) <= First(l)
  <1>1. ASSUME NEW l \in Lcore, l >= ActiveIoLcores
        PROVE  First(l) = Queues /\ Last(l) = Queues
    BY <1>1, ActiveFacts, PollLoopAssumption DEF First, Last, Lcore
  <1>2. ASSUME NEW l \in Lcore, l < ActiveIoLcores, Mode # "partitioned"
        PROVE  First(l) = 0 /\ Last(l) = Queues
    BY <1>2, ActiveFacts, PollLoopAssumption DEF First, Last, Lcore
  <1>3. ASSUME NEW l \in Lcore, l < ActiveIoLcores, Mode = "partitioned"
        PROVE  /\ First(l) \in 0 .. Queues /\ Last(l) \in 0 .. Queues
               /\ First(l) <= Last(l)
               /\ \A j \in Lcore : j < l => Last(j) <= First(l)
    <2>1. CASE App = "mica"
      <3>1. l \in 0 .. ActiveIoLcores-1 /\ ActiveIoLcores \in Nat \ {0}
        BY <1>3, ActiveFacts, PollLoopAssumption DEF Lcore
      <3>2. \A j \in Lcore : j <= l =>
              /\ First(j) = MicaFirst(Queues, ActiveIoLcores, j)
              /\ Last(j) = MicaLast(Queues, ActiveIoLcores, j)
        BY <1>3, <2>1, <3>1, PollLoopAssumption DEF First, Last, Lcore
      <3>3. \A j \in Lcore : j < l => j \in 0 .. l-1
        BY <1>3, PollLoopAssumption DEF Lcore
      <3> QED
        BY <1>3, <3>1, <3>2, <3>3, MicaSliceOrder, PollLoopAssumption DEF Lcore
    <2>2. CASE App = "nf-chain"
      <3>1. l \in 0 .. NbLcores-1 /\ NbLcores \in Nat \ {0} /\ Queues \in Nat
        BY PollLoopAssumption DEF Lcore
      <3>2. \A j \in Lcore : j <= l =>
              /\ First(j) = NfFirst(Queues, NbLcores, j)
              /\ Last(j) = NfLast(Queues, NbLcores, j)
        BY <1>3, <2>2, <3>1, ActiveFacts, PollLoopAssumption DEF First, Last, Lcore
      <3>3. \A j \in Lcore : j < l => j \in 0 .. l-1
        BY <1>3, PollLoopAssumption DEF Lcore
      <3>4. /\ NfFirst(Queues, NbLcores, l) \in Nat /\ NfLast(Queues, NbLcores, l) \in Nat
            /\ NfFirst(Queues, NbLcores, l) <= NfLast(Queues, NbLcores, l)
            /\ NfLast(Queues, NbLcores, l) <= Queues
            /\ \A j \in 0 .. l-1 : NfLast(Queues, NbLcores, j) <= NfFirst(Queues, NbLcores, l)
        BY <3>1, NfSliceOrder
      <3> QED
        BY <3>1, <3>2, <3>3, <3>4 DEF Lcore
    <2> QED
      BY <2>1, <2>2, PollLoopAssumption
  <1>4. \A l \in Lcore : /\ First(l) \in 0 .. Queues /\ Last(l) \in 0 .. Queues
                         /\ First(l) <= Last(l)
    BY <1>1, <1>2, <1>3, ActiveFacts, PollLoopAssumption DEF Lcore
  <1>5. ASSUME NEW l \in Lcore, NEW m \in Lcore, l < m, Mode = "partitioned"
        PROVE  Last(l) <= First(m)
    BY <1>1, <1>3, <1>4, <1>5, ActiveFacts, PollLoopAssumption DEF Lcore
  <1> QED
    BY <1>2, <1>4, <1>5, PollLoopAssumption DEF Lcore

-----------------------------------------------------------------------------

\* What the proofs below need of the constants.
LEMMA ConstantFacts ==
  /\ NbLcores \in Nat \ {0} /\ Queues \in Nat \ {0}
  /\ Penalty \in Nat /\ Aggressive \in BOOLEAN /\ Latency \in BOOLEAN
  /\ LatencyQueue \in Queue /\ LatencyPeriod \in Nat \ {0}
  /\ MaxPktBurst \in Nat \ {0} /\ TxBatchSize \in Nat /\ MaxPktBurst <= TxBatchSize
  /\ MaxConsecutivePolls \in Nat \ {0}
  /\ NoLcore \notin Lcore
  BY PollLoopAssumption DEF Queue, NoLcore, Lcore

\* A queue number as a cursor value.
LEMMA QueueNumbers ==
  \A q \in Queue : q \in Int /\ q \in 0 .. Queues /\ q+1 \in 0 .. Queues /\ q \in -1 .. Queues-1
  BY ConstantFacts DEF Queue

\* A transmission changes tx_total and in_use of its lcore only, and leaves room
\* for every packet in tx_batch.
LEMMA TransmitType ==
  ASSUME TypeOK, NEW l \in Lcore, Transmit(l)
  PROVE  /\ tx_total' \in [Lcore -> 0 .. TxBatchSize]
         /\ in_use' \in [Lcore -> Int]
  <1> USE ConstantFacts
  <1>1. tx_total[l] \in 0 .. TxBatchSize /\ nb_rx[l] \in 0 .. MaxPktBurst
    BY DEF TypeOK
  <1>2. ASSUME NEW n \in Nat, Send(l, n) PROVE in_use' \in [Lcore -> Int]
    BY <1>2 DEF Send, Freed, TypeOK
  <1>3. CASE Mode = "single" /\ Send(l, nb_rx[l]) /\ UNCHANGED tx_total
    BY <1>1, <1>2, <1>3 DEF TypeOK
  <1>4. CASE /\ BatchFull(l) /\ Send(l, tx_total[l])
             /\ tx_total' = [tx_total EXCEPT ![l] = nb_rx[l]]
    BY <1>1, <1>2, <1>4 DEF TypeOK
  <1>5. CASE /\ ~ BatchFull(l) /\ UNCHANGED in_use
             /\ tx_total' = [tx_total EXCEPT ![l] = @ + nb_rx[l]]
    <2>1. tx_total[l] + nb_rx[l] \in 0 .. TxBatchSize
      BY <1>1, <1>5 DEF BatchFull
    <2> QED
      BY <1>5, <2>1 DEF TypeOK
  <1> QED
    BY <1>3, <1>4, <1>5 DEF Transmit

\* The step to the next queue, or to the same queue again.
LEMMA AdvanceType ==
  ASSUME TypeOK, NEW l \in Lcore, Advance(l), i[l] \in Queue
  PROVE  /\ max_loops' \in [Lcore -> 0 .. MaxConsecutivePolls]
         /\ i' \in [Lcore -> 0 .. Queues]
  <1> USE ConstantFacts
  <1>1. i[l] + 1 \in 0 .. Queues
    BY QueueNumbers
  <1>2. /\ max_loops \in [Lcore -> 0 .. MaxConsecutivePolls]
        /\ i \in [Lcore -> 0 .. Queues]
    BY DEF TypeOK
  <1>3. CASE Repolls(l)
    <2>1. max_loops[l] - 1 \in 0 .. MaxConsecutivePolls
      BY <1>2, <1>3 DEF Repolls
    <2> QED
      BY <1>2, <1>3, <2>1 DEF Advance
  <1>4. CASE ~ Repolls(l)
    BY <1>1, <1>2, <1>4 DEF Advance
  <1> QED
    BY <1>3, <1>4

\* At a visit the cursor is on a queue of the slice, and so is the queue that
\* is polled.
LEMMA VisitFacts ==
  ASSUME TypeOK, CursorInSlice, NEW l \in Lcore, Visiting(l)
  PROVE  /\ i[l] \in Slice(l) /\ Target(l) \in Slice(l)
         /\ i[l] \in Queue /\ Target(l) \in Queue /\ i[l] - First(l) \in Queue
  <1> USE ConstantFacts, SliceFacts
  <1>1. i[l] \in Slice(l)
    BY DEF Visiting, CursorInSlice, Slice
  <1>2. Target(l) \in Slice(l)
    BY <1>1 DEF Target, Diverts, HasLatencyQueue, Slice, Queue
  <1> QED
    BY <1>1, <1>2 DEF Slice, Queue

\* The invariant behind the type theorem: types, and the cursor in its slice.
LoopInv == TypeOK /\ CursorInSlice

\* The loops start inside their slices.
LEMMA LoopInvInit == Init => LoopInv
  <1> USE ConstantFacts, SliceFacts
  <1> SUFFICES ASSUME Init PROVE LoopInv
    OBVIOUS
  <1>1. /\ pc \in [Lcore -> {"sweep", "visit", "rx", "burst", "done"}]
        /\ force_quit \in BOOLEAN
        /\ rx_queue_locks \in [Queue -> Lcore \union {NoLcore}]
        /\ i \in [Lcore -> 0 .. Queues]
    BY DEF Init
  <1>5. qi \in [Lcore -> Queue]
    BY DEF Init, Queue
  <1>2. /\ hit \in [Lcore -> [Queue -> 0 .. Penalty]]
        /\ max_loops \in [Lcore -> 0 .. MaxConsecutivePolls]
        /\ nb_rx \in [Lcore -> 0 .. MaxPktBurst]
        /\ tx_total \in [Lcore -> 0 .. TxBatchSize]
        /\ latency_count \in [Lcore -> 0 .. LatencyPeriod-1]
        /\ inject_queue \in [Lcore -> BOOLEAN]
    BY DEF Init
  <1>3. /\ resume_i \in [Lcore -> -1 .. Queues-1]
        /\ visited \in [Lcore -> SUBSET Queue]
        /\ last_polled \in [Lcore -> -1 .. Queues-1]
        /\ streak \in [Lcore -> 0 .. MaxConsecutivePolls+1]
        /\ owed \in [Lcore -> [Queue -> 0 .. Penalty+1]]
        /\ since \in [Lcore -> 0 .. LatencyPeriod+1]
        /\ in_use \in [Lcore -> Int]
    BY DEF Init
  <1>4. CursorInSlice
    BY DEF Init, CursorInSlice
  <1> QED
    BY <1>1, <1>2, <1>3, <1>4, <1>5 DEF LoopInv, TypeOK

\* Every step keeps the types and the cursors in their slices.
LEMMA LoopInvStep == LoopInv /\ [Next]_vars => LoopInv'
  <1> USE ConstantFacts, SliceFacts
  <1> SUFFICES ASSUME TypeOK, CursorInSlice, [Next]_vars PROVE TypeOK' /\ CursorInSlice'
    BY DEF LoopInv
  <1>1. ASSUME NEW l \in Lcore, StartSweep(l) PROVE TypeOK' /\ CursorInSlice'
    <2> USE <1>1 DEF StartSweep
    <2>1. /\ pc' \in [Lcore -> {"sweep", "visit", "rx", "burst", "done"}]
          /\ i' \in [Lcore -> 0 .. Queues]
          /\ max_loops' \in [Lcore -> 0 .. MaxConsecutivePolls]
          /\ tx_total' \in [Lcore -> 0 .. TxBatchSize]
      BY DEF TypeOK
    <2>2. /\ visited' \in [Lcore -> SUBSET Queue]
          /\ last_polled' \in [Lcore -> -1 .. Queues-1]
          /\ streak' \in [Lcore -> 0 .. MaxConsecutivePolls+1]
      BY DEF TypeOK
    <2>3. owed' \in [Lcore -> [Queue -> 0 .. Penalty+1]]
      BY DEF TypeOK
    <2>4. TypeOK'
      BY <2>1, <2>2, <2>3 DEF TypeOK, shared, latency
    <2>5. CursorInSlice'
      BY DEF TypeOK, CursorInSlice, Slice, latency
    <2> QED
      BY <2>4, <2>5
  <1>2. ASSUME NEW l \in Lcore, Quit(l) PROVE TypeOK' /\ CursorInSlice'
    BY <1>2 DEF Quit, TypeOK, CursorInSlice, Slice, shared, cursor, batch, latency, sweepLog
  <1>3. ASSUME NEW l \in Lcore, SkipPenalised(l) PROVE TypeOK' /\ CursorInSlice'
    <2> USE <1>3 DEF SkipPenalised
    <2>1. /\ i[l] \in Slice(l) /\ i[l] \in Queue /\ i[l] - First(l) \in Queue
      BY VisitFacts
    <2>2. /\ i' \in [Lcore -> 0 .. Queues]
          /\ qi' \in [Lcore -> Queue]
          /\ visited' \in [Lcore -> SUBSET Queue]
      BY <2>1, QueueNumbers DEF TypeOK
    <2>3. hit' \in [Lcore -> [Queue -> 0 .. Penalty]]
      BY <2>1 DEF TypeOK, Penalised
    <2>4. TypeOK'
      BY <2>2, <2>3 DEF TypeOK, shared, batch, latency
    <2>5. CursorInSlice'
      BY <2>1 DEF TypeOK, CursorInSlice, Slice, latency, Visiting
    <2> QED
      BY <2>4, <2>5
  <1>4. ASSUME NEW l \in Lcore, Visiting(l), Divert(l)
        PROVE  /\ qi' \in [Lcore -> Queue]
               /\ resume_i' \in [Lcore -> -1 .. Queues-1]
               /\ inject_queue' \in [Lcore -> BOOLEAN]
               /\ visited' \in [Lcore -> SUBSET Queue]
               /\ \A m \in Lcore : resume_i'[m] # -1 => resume_i'[m] \in Slice(m)
    <2>1. /\ i[l] \in Slice(l) /\ i[l] \in Queue /\ i[l] - First(l) \in Queue
      BY <1>4, VisitFacts
    <2>2. qi' \in [Lcore -> Queue] /\ visited' \in [Lcore -> SUBSET Queue]
      BY <1>4, <2>1 DEF Divert, TypeOK
    <2>3. inject_queue' \in [Lcore -> BOOLEAN]
      BY <1>4, <2>1 DEF Divert, TypeOK
    <2>4. resume_i' \in [Lcore -> -1 .. Queues-1]
      BY <1>4, <2>1, QueueNumbers DEF Divert, TypeOK
    <2>5. \A m \in Lcore : resume_i'[m] # -1 => resume_i'[m] \in Slice(m)
      BY <1>4, <2>1 DEF Divert, TypeOK, CursorInSlice
    <2> QED
      BY <2>2, <2>3, <2>4, <2>5
  <1>5. ASSUME NEW l \in Lcore, BeginPoll(l) PROVE TypeOK' /\ CursorInSlice'
    <2> USE <1>5 DEF BeginPoll
    <2>1. Target(l) \in Slice(l) /\ Target(l) \in Queue
      BY VisitFacts
    <2>2. /\ pc' \in [Lcore -> {"sweep", "visit", "rx", "burst", "done"}]
          /\ rx_queue_locks' \in [Queue -> Lcore \union {NoLcore}]
          /\ i' \in [Lcore -> 0 .. Queues]
      BY <2>1, QueueNumbers DEF TypeOK
    <2>3. TypeOK'
      BY <1>4, <2>2 DEF TypeOK, batch
    <2>4. CursorInSlice'
      BY <1>4, <2>1 DEF TypeOK, CursorInSlice, Slice
    <2> QED
      BY <2>3, <2>4
  <1>6. ASSUME NEW l \in Lcore, LockBusy(l) PROVE TypeOK' /\ CursorInSlice'
    <2> USE <1>6 DEF LockBusy, PassOver
    <2>1. Target(l) \in Slice(l) /\ Target(l) \in Queue
      BY VisitFacts
    <2>2. i' \in [Lcore -> 0 .. Queues] /\ nb_rx' \in [Lcore -> 0 .. MaxPktBurst]
      BY <2>1, QueueNumbers DEF TypeOK
    <2>3. TypeOK'
      BY <1>4, <2>2 DEF TypeOK, batch, shared
    <2>4. CursorInSlice'
      BY <1>4, <2>1 DEF TypeOK, CursorInSlice, Slice, Visiting
    <2> QED
      BY <2>3, <2>4
  <1>7. ASSUME NEW l \in Lcore, RxBurst(l) PROVE TypeOK' /\ CursorInSlice'
    <2> USE <1>7 DEF RxBurst
    <2>1. i[l] \in Queue
      BY DEF CursorInSlice, Slice, Queue
    <2>2. /\ pc' \in [Lcore -> {"sweep", "visit", "rx", "burst", "done"}]
          /\ nb_rx' \in [Lcore -> 0 .. MaxPktBurst]
          /\ in_use' \in [Lcore -> Int]
      BY DEF TypeOK
    <2>3. rx_queue_locks' \in [Queue -> Lcore \union {NoLcore}]
      BY <2>1 DEF TypeOK, Unlock
    <2>4. TypeOK'
      BY <2>2, <2>3 DEF TypeOK, cursor, latency, sweepLog
    <2>5. CursorInSlice'
      BY DEF TypeOK, CursorInSlice, cursor, latency, Slice
    <2> QED
      BY <2>4, <2>5
  <1>8. ASSUME NEW l \in Lcore, FinishLatencyPoll(l) PROVE TypeOK' /\ CursorInSlice'
    <2> USE <1>8 DEF FinishLatencyPoll
    <2>1. resume_i[l] \in Slice(l) /\ resume_i[l] \in Queue
      BY DEF IsLatencyPoll, CursorInSlice, Slice, Queue
    <2>2. /\ pc' \in [Lcore -> {"sweep", "visit", "rx", "burst", "done"}]
          /\ i' \in [Lcore -> 0 .. Queues]
          /\ resume_i' \in [Lcore -> -1 .. Queues-1]
          /\ since' \in [Lcore -> 0 .. LatencyPeriod+1]
      BY <2>1, QueueNumbers DEF TypeOK, ResumeCursor
    <2>3. TypeOK'
      BY <2>2, TransmitType DEF TypeOK, shared, sweepLog
    <2>4. CursorInSlice'
      BY <2>1 DEF TypeOK, CursorInSlice, ResumeCursor, Slice
    <2> QED
      BY <2>3, <2>4
  <1>9. ASSUME NEW l \in Lcore, FinishRegularPoll(l) PROVE TypeOK' /\ CursorInSlice'
    <2> USE <1>9 DEF FinishRegularPoll
    <2>1. i[l] \in Slice(l) /\ i[l] \in Queue /\ qi[l] \in Queue
      <3>1. i[l] \in Slice(l)
        BY DEF CursorInSlice
      <3>2. i[l] \in Queue
        BY <3>1 DEF Slice, Queue
      <3> QED
        BY <3>1, <3>2 DEF TypeOK
    <2>2. pc' \in [Lcore -> {"sweep", "visit", "rx", "burst", "done"}]
      BY DEF TypeOK
    <2>3. latency_count' \in [Lcore -> 0 .. LatencyPeriod-1]
      <3>1. latency_count[l] \in 0 .. LatencyPeriod-1
        BY DEF TypeOK
      <3>2. latency_count[l] + 1 # LatencyPeriod => latency_count[l] + 1 \in 0 .. LatencyPeriod-1
        BY <3>1
      <3>3. 0 \in 0 .. LatencyPeriod-1
        OBVIOUS
      <3> QED
        BY <3>1, <3>2, <3>3, Zenon DEF TypeOK, CountPoll
    <2>4. inject_queue' \in [Lcore -> BOOLEAN]
      BY DEF TypeOK, CountPoll
    <2>5. hit' \in [Lcore -> [Queue -> 0 .. Penalty]]
      BY <2>1 DEF TypeOK, SetHit
    <2>6. /\ max_loops' \in [Lcore -> 0 .. MaxConsecutivePolls]
          /\ i' \in [Lcore -> 0 .. Queues]
      BY <2>1, AdvanceType
    <2>7. /\ last_polled' \in [Lcore -> -1 .. Queues-1]
          /\ streak' \in [Lcore -> 0 .. MaxConsecutivePolls+1]
      BY <2>1, QueueNumbers DEF TypeOK, LogPoll
    <2>8. owed' \in [Lcore -> [Queue -> 0 .. Penalty+1]]
      BY <2>1 DEF TypeOK, LogPoll
    <2>9. since' \in [Lcore -> 0 .. LatencyPeriod+1]
      BY DEF TypeOK, LogPoll
    <2>10. TypeOK'
      BY <2>2, <2>3, <2>4, <2>5, <2>6, <2>7, <2>8, <2>9, TransmitType DEF TypeOK, shared
    <2>11. CursorInSlice'
      BY <2>1 DEF TypeOK, CursorInSlice, Advance, Slice
    <2> QED
      BY <2>10, <2>11
  <1>10. ASSUME NEW l \in Lcore, StopReceived(l) PROVE TypeOK' /\ CursorInSlice'
    BY <1>10 DEF StopReceived, TypeOK, CursorInSlice, Slice, shared, cursor, batch, latency,
                 sweepLog
  <1>11. ASSUME NEW l \in Lcore, EndSweep(l) PROVE TypeOK' /\ CursorInSlice'
    <2> USE <1>11 DEF EndSweep
    <2>1. /\ pc' \in [Lcore -> {"sweep", "visit", "rx", "burst", "done"}]
          /\ tx_total' \in [Lcore -> 0 .. TxBatchSize]
      BY DEF TypeOK
    <2>2. in_use' \in [Lcore -> Int]
      BY DEF TypeOK, Send, Freed
    <2>3. TypeOK'
      BY <2>1, <2>2 DEF TypeOK, shared, cursor, latency, sweepLog
    <2>4. CursorInSlice'
      BY DEF TypeOK, CursorInSlice, cursor, latency, Slice
    <2> QED
      BY <2>3, <2>4
  <1>12. CASE SignalHandler
    BY <1>12 DEF SignalHandler, TypeOK, CursorInSlice, Slice, cursor, batch, latency, sweepLog
  <1>13. CASE UNCHANGED vars
    BY <1>13 DEF vars, TypeOK, CursorInSlice, Slice, shared, cursor, batch, latency, sweepLog
  <1> QED
    BY <1>1, <1>2, <1>3, <1>5, <1>6, <1>7, <1>8, <1>9, <1>10, <1>11, <1>12, <1>13
       DEF Next, LcoreStep, Terminated

\* Every variable keeps its type: the penalty counters stay in their range and
\* tx_batch never overflows.
THEOREM TypeCorrect == Spec => []TypeOK
  <1>1. LoopInv => TypeOK
    BY DEF LoopInv
  <1> QED
    BY <1>1, LoopInvInit, LoopInvStep, PTL DEF Spec

\* The cursor of every lcore stays in its slice.
THEOREM CursorCorrect == Spec => []CursorInSlice
  <1>1. LoopInv => CursorInSlice
    BY DEF LoopInv
  <1> QED
    BY <1>1, LoopInvInit, LoopInvStep, PTL DEF Spec

-----------------------------------------------------------------------------

\* A lock is held exactly between the trylock and the unlock: the steps that do
\* neither keep the agreement because no other step enters or leaves "rx".
LEMMA LockDisciplineStep ==
  LoopInv /\ LockDiscipline /\ [Next]_vars => LockDiscipline'
  <1> USE ConstantFacts
  <1> SUFFICES ASSUME TypeOK, CursorInSlice, LockDiscipline, [Next]_vars, Mode = "shared"
               PROVE  \A q \in Queue, m \in Lcore :
                        rx_queue_locks'[q] = m <=> pc'[m] = "rx" /\ i'[m] = q
    BY DEF LoopInv, LockDiscipline
  <1>0. \A q \in Queue, m \in Lcore : rx_queue_locks[q] = m <=> pc[m] = "rx" /\ i[m] = q
    BY DEF LockDiscipline
  <1> DEFINE Goal == \A q \in Queue, m \in Lcore :
                       rx_queue_locks'[q] = m <=> pc'[m] = "rx" /\ i'[m] = q
  <1>1. ASSUME NEW l \in Lcore, pc[l] # "rx", pc'[l] # "rx",
               UNCHANGED rx_queue_locks,
               \A m \in Lcore : m # l => pc'[m] = pc[m] /\ i'[m] = i[m]
        PROVE  Goal
    BY <1>0, <1>1
  <1>2. ASSUME NEW l \in Lcore, StartSweep(l) \/ Quit(l) \/ SkipPenalised(l) \/ LockBusy(l)
        PROVE  Goal
    BY <1>1, <1>2 DEF StartSweep, Quit, SkipPenalised, LockBusy, Visiting, TypeOK, shared, cursor
  <1>3. ASSUME NEW l \in Lcore, BeginPoll(l)
        PROVE  Goal
    <2>1. Target(l) \in Queue
      BY <1>3, VisitFacts DEF BeginPoll
    <2>2. /\ rx_queue_locks[Target(l)] = NoLcore
          /\ rx_queue_locks' = [rx_queue_locks EXCEPT ![Target(l)] = l]
          /\ i' = [i EXCEPT ![l] = Target(l)]
          /\ pc' = [pc EXCEPT ![l] = "rx"]
          /\ pc[l] = "visit"
      BY <1>3 DEF BeginPoll, LockFree, Visiting
    <2> QED
      BY <1>0, <2>1, <2>2 DEF TypeOK
  <1>4. ASSUME NEW l \in Lcore, RxBurst(l)
        PROVE  Goal
    <2>1. /\ rx_queue_locks' = [rx_queue_locks EXCEPT ![i[l]] = NoLcore]
          /\ UNCHANGED i
          /\ pc' = [pc EXCEPT ![l] = "burst"]
          /\ pc[l] = "rx"
      BY <1>4 DEF RxBurst, Unlock, cursor
    <2> QED
      BY <1>0, <2>1 DEF TypeOK
  <1>5. ASSUME NEW l \in Lcore, FinishLatencyPoll(l) \/ StopReceived(l) \/ EndSweep(l)
        PROVE  Goal
    BY <1>1, <1>5 DEF FinishLatencyPoll, StopReceived, EndSweep, TypeOK, shared, cursor
  <1>6. ASSUME NEW l \in Lcore, FinishRegularPoll(l)
        PROVE  Goal
    BY <1>1, <1>6 DEF FinishRegularPoll, Advance, TypeOK, shared
  <1>7. SignalHandler => Goal
    BY <1>0 DEF SignalHandler, cursor
  <1>8. UNCHANGED vars => Goal
    BY <1>0 DEF vars, shared, cursor
  <1> HIDE DEF Goal
  <1>9. ASSUME NEW l \in Lcore, LcoreStep(l) PROVE Goal
    BY <1>2, <1>3, <1>4, <1>5, <1>6, <1>9 DEF LcoreStep
  <1>10. (\E l \in Lcore : LcoreStep(l)) \/ SignalHandler \/ UNCHANGED vars
    BY Zenon DEF Next, Terminated
  <1>11. (\E l \in Lcore : LcoreStep(l)) => Goal
    BY <1>9, Zenon
  <1>12. Goal
    BY <1>7, <1>8, <1>10, <1>11, Zenon
  <1> QED
    BY <1>12 DEF Goal

\* All locks start free.
LEMMA LockDisciplineInit == Init => LockDiscipline
  BY ConstantFacts DEF Init, LockDiscipline

\* No lock outlives the receive it protects.
THEOREM LocksDisciplined == Spec => []LockDiscipline
  BY LoopInvInit, LoopInvStep, LockDisciplineInit, LockDisciplineStep, PTL DEF Spec

\* No two lcores use one RX queue at the same time: in Shared the lock can name
\* only one of them, in Partitioned their slices are disjoint and the cursors
\* stay inside them, and a single lcore is alone.
THEOREM QueuesExclusive == Spec => []QueueExclusive
  <1>1. LoopInv /\ LockDiscipline => QueueExclusive
    <2> SUFFICES ASSUME TypeOK, CursorInSlice, LockDiscipline,
                        NEW l \in Lcore, NEW m \in Lcore, l # m,
                        UsesQueue(l), UsesQueue(m), i[l] = i[m]
                 PROVE  FALSE
      BY DEF LoopInv, QueueExclusive
    <2>1. i[l] \in Slice(l) /\ i[m] \in Slice(m)
      BY DEF UsesQueue, CursorInSlice
    <2>2. i[l] \in Queue
      BY <2>1, SliceFacts, ConstantFacts DEF Slice, Queue
    <2>3. CASE Mode = "shared"
      <3>1. pc[l] = "rx" /\ pc[m] = "rx"
        BY <2>3 DEF UsesQueue
      <3>2. rx_queue_locks[i[l]] = l /\ rx_queue_locks[i[l]] = m
        BY <2>2, <2>3, <3>1 DEF LockDiscipline
      <3> QED
        BY <3>2
    <2>4. CASE Mode = "partitioned"
      BY <2>1, <2>4, SliceFacts, ConstantFacts DEF Slice
    <2>5. CASE Mode = "single"
      BY <2>5, PollLoopAssumption DEF Lcore
    <2> QED
      BY <2>3, <2>4, <2>5, PollLoopAssumption
  <1> QED
    BY <1>1, LoopInvInit, LoopInvStep, LockDisciplineInit, LockDisciplineStep, PTL DEF Spec

-----------------------------------------------------------------------------

\* The mbufs of each lcore are in its burst or in tx_batch; on a single core
\* tx_batch is not used, without which the end of a sweep would lose what it
\* holds.
MbufInv ==
  /\ MbufsAccounted
  /\ Mode = "single" => \A l \in Lcore : tx_total[l] = 0

\* Transmitting hands over the burst or puts it in tx_batch; what the NIC does
\* not accept is freed.
LEMMA TransmitAccounts ==
  ASSUME TypeOK, MbufInv, NEW l \in Lcore, pc[l] = "burst", Transmit(l)
  PROVE  /\ in_use'[l] = tx_total'[l]
         /\ \A m \in Lcore : m # l => in_use'[m] = in_use[m] /\ tx_total'[m] = tx_total[m]
         /\ Mode = "single" => tx_total'[l] = 0
  <1> USE ConstantFacts
  <1>1. /\ tx_total \in [Lcore -> Int] /\ in_use \in [Lcore -> Int] /\ nb_rx[l] \in Int
        /\ tx_total[l] \in Nat /\ nb_rx[l] \in Nat
    BY DEF TypeOK
  <1>2. in_use[l] = tx_total[l] + nb_rx[l]
    BY DEF MbufInv, MbufsAccounted
  <1>3. ASSUME NEW n \in Nat, Send(l, n)
        PROVE  /\ in_use'[l] = in_use[l] - n
               /\ \A m \in Lcore : m # l => in_use'[m] = in_use[m]
    BY <1>1, <1>3 DEF Send, Freed
  <1>4. CASE Mode = "single" /\ Send(l, nb_rx[l]) /\ UNCHANGED tx_total
    BY <1>1, <1>2, <1>3, <1>4 DEF MbufInv
  <1>5. CASE /\ Mode # "single" /\ Send(l, tx_total[l])
             /\ tx_total' = [tx_total EXCEPT ![l] = nb_rx[l]]
    BY <1>1, <1>2, <1>3, <1>5
  <1>6. CASE /\ Mode # "single" /\ UNCHANGED in_use
             /\ tx_total' = [tx_total EXCEPT ![l] = @ + nb_rx[l]]
    BY <1>1, <1>2, <1>6
  <1> QED
    BY <1>4, <1>5, <1>6 DEF Transmit

\* Every step keeps the account of the lcore that takes it and does not touch
\* the others'.
LEMMA MbufInvStep ==
  ASSUME ~ StopPackets
  PROVE  LoopInv /\ MbufInv /\ [Next]_vars => MbufInv'
  <1> USE ConstantFacts
  <1> SUFFICES ASSUME TypeOK, MbufInv, [Next]_vars PROVE MbufInv'
    BY DEF LoopInv
  <1> DEFINE Kept(m) == /\ pc'[m] \in {"visit", "rx"} => in_use'[m] = tx_total'[m]
                        /\ pc'[m] = "burst" => in_use'[m] = tx_total'[m] + nb_rx'[m]
                        /\ pc'[m] \in {"sweep", "done"} => in_use'[m] = 0
                        /\ Mode = "single" => tx_total'[m] = 0
  <1>0. /\ pc \in [Lcore -> {"sweep", "visit", "rx", "burst", "done"}]
        /\ nb_rx \in [Lcore -> Int] /\ tx_total \in [Lcore -> Int] /\ in_use \in [Lcore -> Int]
        /\ \A m \in Lcore : tx_total[m] \in Nat
    BY DEF TypeOK
  <1>1. ASSUME NEW m \in Lcore
        PROVE  /\ pc[m] \in {"visit", "rx"} => in_use[m] = tx_total[m]
               /\ pc[m] = "burst" => in_use[m] = tx_total[m] + nb_rx[m]
               /\ pc[m] \in {"sweep", "done"} => in_use[m] = 0
               /\ Mode = "single" => tx_total[m] = 0
    BY DEF MbufInv, MbufsAccounted
  <1>2. ASSUME NEW m \in Lcore, pc'[m] = pc[m], nb_rx'[m] = nb_rx[m],
               tx_total'[m] = tx_total[m], in_use'[m] = in_use[m]
        PROVE  Kept(m)
    BY <1>1, <1>2
  <1>3. ASSUME NEW l \in Lcore, LcoreStep(l)
        PROVE  Kept(l) /\ \A m \in Lcore : m # l =>
                 /\ pc'[m] = pc[m] /\ nb_rx'[m] = nb_rx[m]
                 /\ tx_total'[m] = tx_total[m] /\ in_use'[m] = in_use[m]
    <2>1. CASE StartSweep(l)
      BY <1>0, <1>1, <2>1 DEF StartSweep
    <2>2. CASE Quit(l)
      BY <1>0, <1>1, <2>2 DEF Quit, batch
    <2>3. CASE SkipPenalised(l)
      BY <1>0, <1>1, <2>3 DEF SkipPenalised, batch
    <2>4. CASE BeginPoll(l)
      BY <1>0, <1>1, <2>4 DEF BeginPoll, Visiting, batch
    <2>5. CASE LockBusy(l)
      BY <1>0, <1>1, <2>5 DEF LockBusy, Visiting, batch
    <2>6. CASE RxBurst(l)
      BY <1>0, <1>1, <2>6 DEF RxBurst
    <2>7. CASE FinishLatencyPoll(l)
      BY <1>0, <2>7, TransmitAccounts DEF FinishLatencyPoll
    <2>8. CASE FinishRegularPoll(l)
      BY <1>0, <2>8, TransmitAccounts DEF FinishRegularPoll
    <2>9. CASE EndSweep(l)
      <3>1. CASE Mode # "single" /\ tx_total[l] > 0
        BY <1>0, <1>1, <2>9, <3>1 DEF EndSweep, Send, Freed
      <3>2. CASE ~ (Mode # "single" /\ tx_total[l] > 0)
        BY <1>0, <1>1, <2>9, <3>2 DEF EndSweep
      <3> QED
        BY <3>1, <3>2
    <2>10. ~ StopReceived(l)
      BY DEF StopReceived
    <2> HIDE DEF Kept
    <2> QED
      BY <1>3, <2>1, <2>2, <2>3, <2>4, <2>5, <2>6, <2>7, <2>8, <2>9, <2>10 DEF LcoreStep
  <1>4. SignalHandler \/ UNCHANGED vars => UNCHANGED <<pc, nb_rx, tx_total, in_use>>
    BY DEF SignalHandler, vars, batch
  <1>5. (\E l \in Lcore : LcoreStep(l)) \/ SignalHandler \/ UNCHANGED vars
    BY Zenon DEF Next, Terminated
  <1> HIDE DEF Kept
  <1>6. \A m \in Lcore : Kept(m)
    BY <1>2, <1>3, <1>4, <1>5
  <1> QED
    BY <1>6 DEF Kept, MbufInv, MbufsAccounted

\* The loops start with no mbuf.
LEMMA MbufInvInit == Init => MbufInv
  BY ConstantFacts DEF Init, MbufInv, MbufsAccounted

\* As long as no client sends the STOP packet, no mbuf is lost: every mbuf an
\* lcore has received is in its burst or in tx_batch until it is transmitted or
\* freed, and between sweeps and at exit the lcore holds none.
THEOREM MbufsKept == ~ StopPackets => (Spec => []MbufsAccounted)
  <1>1. MbufInv => MbufsAccounted
    BY DEF MbufInv
  <1> SUFFICES ASSUME ~ StopPackets PROVE Spec => []MbufsAccounted
    OBVIOUS
  <1>2. LoopInv /\ MbufInv /\ [Next]_vars => MbufInv'
    BY MbufInvStep
  <1> QED
    BY <1>1, <1>2, LoopInvInit, LoopInvStep, MbufInvInit, PTL DEF Spec

-----------------------------------------------------------------------------

\* A step of one lcore leaves the variables of the others alone.
LEMMA OthersKeep ==
  ASSUME TypeOK, NEW l \in Lcore, LcoreStep(l), NEW m \in Lcore, m # l
  PROVE  /\ pc'[m] = pc[m] /\ i'[m] = i[m] /\ qi'[m] = qi[m] /\ hit'[m] = hit[m]
         /\ max_loops'[m] = max_loops[m]
         /\ latency_count'[m] = latency_count[m] /\ inject_queue'[m] = inject_queue[m]
         /\ resume_i'[m] = resume_i[m] /\ visited'[m] = visited[m]
         /\ last_polled'[m] = last_polled[m] /\ streak'[m] = streak[m]
         /\ owed'[m] = owed[m] /\ since'[m] = since[m]
  <1>1. CASE StartSweep(l) \/ Quit(l) \/ StopReceived(l) \/ EndSweep(l)
    BY <1>1 DEF StartSweep, Quit, StopReceived, EndSweep, TypeOK, cursor, latency, sweepLog
  <1>2. CASE SkipPenalised(l)
    BY <1>2 DEF SkipPenalised, TypeOK, latency
  <1>3. CASE BeginPoll(l) \/ LockBusy(l)
    BY <1>3 DEF BeginPoll, LockBusy, Divert, TypeOK
  <1>4. CASE RxBurst(l)
    BY <1>4 DEF RxBurst, TypeOK, cursor, latency, sweepLog
  <1>5. CASE FinishLatencyPoll(l)
    BY <1>5 DEF FinishLatencyPoll, TypeOK, sweepLog
  <1>6. CASE FinishRegularPoll(l)
    <2> USE <1>6 DEF FinishRegularPoll
    <2>1. latency_count'[m] = latency_count[m] /\ inject_queue'[m] = inject_queue[m]
      BY DEF CountPoll, TypeOK
    <2>2. hit'[m] = hit[m]
      BY DEF SetHit, TypeOK
    <2>3. i'[m] = i[m] /\ max_loops'[m] = max_loops[m]
      BY DEF Advance, TypeOK
    <2>4. /\ last_polled'[m] = last_polled[m] /\ streak'[m] = streak[m]
          /\ owed'[m] = owed[m] /\ since'[m] = since[m]
      BY DEF LogPoll, TypeOK
    <2> QED
      BY <2>1, <2>2, <2>3, <2>4 DEF TypeOK
  <1> QED
    BY <1>1, <1>2, <1>3, <1>4, <1>5, <1>6 DEF LcoreStep

-----------------------------------------------------------------------------

\* The policies keep their documented order only where no lcore can find the
\* lock of a queue taken while a latency poll is pending: a failed trylock does
\* not undo the jump to the latency queue.
NoLostJump == Mode # "shared" \/ ~ Latency

\* Where the regular sweep is: a latency poll comes back to resume_i.
Regular(l) == IF resume_i[l] # -1 THEN resume_i[l] ELSE i[l]

InSweep(l) == pc[l] \in {"visit", "rx", "burst"}

Polling(l) == pc[l] \in {"rx", "burst"}

\* A cursor to come back to is pending during a latency poll only.
Diversion(l) ==
  resume_i[l] # -1 =>
    /\ pc[l] \in {"rx", "burst", "done"}
    /\ i[l] = LatencyQueue /\ Latency /\ HasLatencyQueue(l)

\* The sweep has come to every queue before the regular cursor.
Covered(l) ==
  /\ InSweep(l) => /\ First(l) .. Regular(l)-1 \subseteq visited[l]
                   /\ visited[l] \subseteq Slice(l)
  /\ Polling(l) /\ resume_i[l] = -1 => i[l] \in visited[l]

\* The last regular poll was not after the regular cursor; if it was there, the
\* queue is being polled again, with enough of max_loops used up.
Ordered(l) ==
  InSweep(l) =>
    /\ last_polled[l] <= Regular(l)
    /\ last_polled[l] = Regular(l) =>
         /\ Aggressive
         /\ streak[l] >= 1 /\ streak[l] + max_loops[l] <= MaxConsecutivePolls

\* What the sweep of one lcore keeps.
SweepOf(l) == Diversion(l) /\ Covered(l) /\ Ordered(l)

SweepInv == \A l \in Lcore : SweepOf(l)

\* The variables of an lcore as numbers.
LEMMA LcoreTypes ==
  ASSUME LoopInv, NEW l \in Lcore
  PROVE  /\ pc[l] \in {"sweep", "visit", "rx", "burst", "done"}
         /\ i[l] \in 0 .. Queues /\ i[l] \in First(l) .. Last(l)
         /\ qi[l] \in Queue /\ hit[l] \in [Queue -> 0 .. Penalty]
         /\ max_loops[l] \in 0 .. MaxConsecutivePolls /\ nb_rx[l] \in 0 .. MaxPktBurst
         /\ latency_count[l] \in 0 .. LatencyPeriod-1 /\ inject_queue[l] \in BOOLEAN
         /\ resume_i[l] \in -1 .. Queues-1 /\ visited[l] \in SUBSET Queue
         /\ last_polled[l] \in -1 .. Queues-1 /\ streak[l] \in 0 .. MaxConsecutivePolls+1
         /\ owed[l] \in [Queue -> 0 .. Penalty+1] /\ since[l] \in 0 .. LatencyPeriod+1
         /\ First(l) \in 0 .. Queues /\ Last(l) \in 0 .. Queues /\ First(l) <= Last(l)
  BY SliceFacts DEF LoopInv, TypeOK, CursorInSlice

\* One case per action: a visit extends what is covered, a poll orders it, and a
\* latency poll leaves both alone and comes back to where the sweep was.
LEMMA SweepStep ==
  ASSUME NoLostJump, LoopInv, NEW l \in Lcore, LcoreStep(l), SweepOf(l)
  PROVE  SweepOf(l)'
  <1> USE ConstantFacts
  <1>0. LoopInv /\ TypeOK /\ CursorInSlice
    BY DEF LoopInv
  <1>1. CASE StartSweep(l)
    <2>1. /\ pc'[l] = "visit" /\ i'[l] = First(l) /\ visited'[l] = {} /\ last_polled'[l] = -1
          /\ resume_i'[l] = resume_i[l] /\ pc[l] = "sweep"
      BY <1>0, <1>1 DEF StartSweep, TypeOK, latency
    <2> QED
      BY <2>1, LcoreTypes DEF SweepOf, Diversion, Covered, Ordered, Regular, InSweep, Polling
  <1>2. CASE Quit(l) \/ StopReceived(l)
    <2>1. /\ pc'[l] = "done" /\ pc[l] \in {"sweep", "burst"}
          /\ i'[l] = i[l] /\ resume_i'[l] = resume_i[l]
      BY <1>0, <1>2 DEF Quit, StopReceived, TypeOK, cursor, latency
    <2> QED
      BY <2>1 DEF SweepOf, Diversion, Covered, Ordered, InSweep, Polling
  <1>3. CASE EndSweep(l)
    <2>1. /\ pc'[l] = "sweep" /\ pc[l] = "visit"
          /\ i'[l] = i[l] /\ resume_i'[l] = resume_i[l]
      BY <1>0, <1>3 DEF EndSweep, TypeOK, cursor, latency
    <2> QED
      BY <2>1 DEF SweepOf, Diversion, Covered, Ordered, InSweep, Polling
  <1>4. CASE SkipPenalised(l)
    <2>1. /\ pc'[l] = "visit" /\ pc[l] = "visit"
          /\ i'[l] = i[l] + 1 /\ resume_i'[l] = resume_i[l] /\ resume_i[l] = -1
          /\ visited'[l] = visited[l] \union {i[l]}
          /\ last_polled'[l] = last_polled[l]
      BY <1>0, <1>4 DEF SkipPenalised, Visiting, TypeOK, latency, SweepOf, Diversion
    <2>2. i[l] \in Slice(l)
      BY <1>0, <1>4, VisitFacts DEF SkipPenalised
    <2> QED
      BY SMTT(30), <2>1, <2>2, LcoreTypes DEF SweepOf, Diversion, Covered, Ordered, Regular, InSweep, Polling
  <1>5. CASE BeginPoll(l)
    <2>1. /\ pc'[l] = "rx" /\ pc[l] = "visit" /\ resume_i[l] = -1
          /\ last_polled'[l] = last_polled[l] /\ streak'[l] = streak[l]
          /\ max_loops'[l] = max_loops[l]
          /\ i'[l] = Target(l)
          /\ resume_i'[l] = IF Diverts(l) THEN i[l] ELSE resume_i[l]
          /\ visited'[l] = IF Diverts(l) THEN visited[l] ELSE visited[l] \union {i[l]}
      BY <1>0, <1>5 DEF BeginPoll, Divert, Visiting, TypeOK, latency, SweepOf, Diversion
    <2>2. i[l] \in Slice(l)
      BY <1>0, <1>5, VisitFacts DEF BeginPoll
    <2>3. CASE Diverts(l)
      BY <2>1, <2>2, <2>3, LcoreTypes
         DEF SweepOf, Diversion, Covered, Ordered, Regular, InSweep, Polling, Target, Diverts
    <2>4. CASE ~ Diverts(l)
      BY <2>1, <2>2, <2>4, LcoreTypes
         DEF SweepOf, Diversion, Covered, Ordered, Regular, InSweep, Polling, Target
    <2> QED
      BY <2>3, <2>4
  <1>6. CASE LockBusy(l)
    <2>1. ~ Diverts(l)
      BY <1>6 DEF LockBusy, LockFree, NoLostJump, Diverts
    <2>2. /\ pc'[l] = "visit" /\ pc[l] = "visit"
          /\ i'[l] = i[l] + 1 /\ resume_i'[l] = resume_i[l] /\ resume_i[l] = -1
          /\ visited'[l] = visited[l] \union {i[l]}
          /\ last_polled'[l] = last_polled[l]
      BY <1>0, <1>6, <2>1
         DEF LockBusy, PassOver, Target, Divert, Visiting, TypeOK, SweepOf, Diversion
    <2>3. i[l] \in Slice(l)
      BY <1>0, <1>6, VisitFacts DEF LockBusy
    <2> QED
      BY SMTT(30), <2>2, <2>3, LcoreTypes DEF SweepOf, Diversion, Covered, Ordered, Regular, InSweep, Polling
  <1>7. CASE RxBurst(l)
    <2>1. /\ pc'[l] = "burst" /\ pc[l] = "rx" /\ i'[l] = i[l] /\ resume_i'[l] = resume_i[l]
          /\ visited'[l] = visited[l] /\ max_loops'[l] = max_loops[l]
          /\ last_polled'[l] = last_polled[l] /\ streak'[l] = streak[l]
      BY <1>0, <1>7 DEF RxBurst, TypeOK, cursor, latency, sweepLog
    <2> QED
      BY <2>1 DEF SweepOf, Diversion, Covered, Ordered, Regular, InSweep, Polling
  <1>8. CASE FinishLatencyPoll(l)
    <2>1. /\ pc'[l] = "visit" /\ pc[l] = "burst" /\ i'[l] = resume_i[l] /\ resume_i'[l] = -1
          /\ resume_i[l] # -1
          /\ visited'[l] = visited[l] /\ max_loops'[l] = max_loops[l]
          /\ last_polled'[l] = last_polled[l] /\ streak'[l] = streak[l]
      BY <1>0, <1>8 DEF FinishLatencyPoll, ResumeCursor, IsLatencyPoll, TypeOK, sweepLog
    <2> QED
      BY <2>1 DEF SweepOf, Diversion, Covered, Ordered, Regular, InSweep, Polling
  <1>9. CASE FinishRegularPoll(l)
    <2>1. resume_i[l] = -1 /\ pc[l] = "burst"
      BY <1>9 DEF FinishRegularPoll, IsLatencyPoll, SweepOf, Diversion
    <2>2. /\ pc'[l] = "visit" /\ resume_i'[l] = -1 /\ visited'[l] = visited[l]
          /\ last_polled'[l] = i[l]
      BY <1>0, <1>9, <2>1 DEF FinishRegularPoll, LogPoll, TypeOK
    <2>3. streak'[l] = IF last_polled[l] # i[l] THEN 1
                       ELSE IF streak[l] <= MaxConsecutivePolls THEN streak[l]+1 ELSE streak[l]
      BY <1>0, <1>9 DEF FinishRegularPoll, LogPoll, TypeOK
    <2>4. CASE Repolls(l)
      <3>1. i'[l] = i[l] /\ max_loops'[l] = max_loops[l] - 1 /\ max_loops[l] > 0 /\ Aggressive
        BY <1>0, <1>9, <2>4 DEF FinishRegularPoll, Advance, Repolls, TypeOK
      <3> QED
        BY <2>1, <2>2, <2>3, <3>1, LcoreTypes
           DEF SweepOf, Diversion, Covered, Ordered, Regular, InSweep, Polling
    <2>5. CASE ~ Repolls(l)
      <3>1. i'[l] = i[l] + 1
        BY <1>0, <1>9, <2>5 DEF FinishRegularPoll, Advance, TypeOK
      <3> QED
        BY SMTT(30), <2>1, <2>2, <3>1, LcoreTypes
           DEF SweepOf, Diversion, Covered, Ordered, Regular, InSweep, Polling
    <2> QED
      BY <2>4, <2>5
  <1> QED
    BY <1>1, <1>2, <1>3, <1>4, <1>5, <1>6, <1>7, <1>8, <1>9 DEF LcoreStep

\* The sweep invariant holds before the first sweep.
LEMMA SweepInvInit == Init => SweepInv
  BY ConstantFacts DEF Init, SweepInv, SweepOf, Diversion, Covered, Ordered, InSweep, Polling

\* Every step keeps the sweep invariant, for the lcore that takes it by
\* SweepStep and for the others because nothing of theirs changes.
LEMMA SweepInvStep ==
  ASSUME NoLostJump
  PROVE  LoopInv /\ SweepInv /\ [Next]_vars => SweepInv'
  <1> SUFFICES ASSUME LoopInv, SweepInv, [Next]_vars, NEW m \in Lcore PROVE SweepOf(m)'
    BY DEF SweepInv
  <1>1. SweepOf(m) /\ TypeOK
    BY DEF SweepInv, LoopInv
  <1>2. ASSUME pc'[m] = pc[m], i'[m] = i[m], resume_i'[m] = resume_i[m],
               visited'[m] = visited[m], last_polled'[m] = last_polled[m],
               streak'[m] = streak[m], max_loops'[m] = max_loops[m]
        PROVE  SweepOf(m)'
    BY <1>1, <1>2 DEF SweepOf, Diversion, Covered, Ordered, Regular, InSweep, Polling
  <1>3. ASSUME NEW l \in Lcore, LcoreStep(l) PROVE SweepOf(m)'
    <2>1. CASE l = m
      BY <1>1, <1>3, <2>1, SweepStep
    <2>2. CASE l # m
      BY <1>1, <1>2, <1>3, <2>2, OthersKeep
    <2> QED
      BY <2>1, <2>2
  <1>4. CASE SignalHandler \/ UNCHANGED vars
    BY <1>2, <1>4 DEF SignalHandler, vars, cursor, latency, sweepLog
  <1> QED
    BY <1>3, <1>4, Zenon DEF Next, Terminated

\* A sweep that ends has come to every queue of its slice.
THEOREM SweepsComplete == NoLostJump => (Spec => []SweepComplete)
  <1> SUFFICES ASSUME NoLostJump PROVE Spec => []SweepComplete
    OBVIOUS
  <1>1. LoopInv /\ SweepInv => SweepComplete
    <2> SUFFICES ASSUME LoopInv, SweepInv, NEW l \in Lcore, pc[l] = "visit", i[l] >= Last(l)
                 PROVE  visited[l] = Slice(l)
      BY DEF SweepComplete
    <2>1. resume_i[l] = -1 /\ Covered(l)
      BY DEF SweepInv, SweepOf, Diversion
    <2>2. i[l] = Last(l)
      BY LcoreTypes
    <2> QED
      BY <2>1, <2>2 DEF Covered, InSweep, Regular, Slice
  <1>2. LoopInv /\ SweepInv /\ [Next]_vars => SweepInv'
    BY SweepInvStep
  <1> QED
    BY <1>1, <1>2, LoopInvInit, LoopInvStep, SweepInvInit, PTL DEF Spec

\* The regular polls of a sweep go from queue to queue in order, and a queue is
\* polled again at most MaxConsecutivePolls times.
THEOREM SweepsOrdered == NoLostJump => (Spec => []SweepOrder)
  <1> SUFFICES ASSUME NoLostJump PROVE Spec => []SweepOrder
    OBVIOUS
  <1>1. LoopInv /\ SweepInv => SweepOrder
    <2> SUFFICES ASSUME LoopInv, SweepInv,
                        NEW l \in Lcore, pc[l] = "rx", ~ IsLatencyPoll(l)
                 PROVE  \/ i[l] > last_polled[l]
                        \/ /\ i[l] = last_polled[l]
                           /\ Aggressive /\ streak[l] <= MaxConsecutivePolls
      BY DEF SweepOrder
    <2>1. Diversion(l) /\ Ordered(l)
      BY DEF SweepInv, SweepOf
    <2>2. resume_i[l] = -1
      BY <2>1 DEF Diversion, IsLatencyPoll
    <2> QED
      BY <2>1, <2>2, LcoreTypes, ConstantFacts DEF Ordered, InSweep, Regular
  <1>2. LoopInv /\ SweepInv /\ [Next]_vars => SweepInv'
    BY SweepInvStep
  <1> QED
    BY <1>1, <1>2, LoopInvInit, LoopInvStep, SweepInvInit, PTL DEF Spec

-----------------------------------------------------------------------------

\* The regular polls since the last latency poll are what latency_count says,
\* until the injection they bring about has been carried out.
CadenceOf(l) ==
  IF Latency /\ HasLatencyQueue(l)
    THEN /\ inject_queue[l] \/ resume_i[l] # -1 =>
              since[l] = LatencyPeriod /\ latency_count[l] = 0
         /\ ~ inject_queue[l] /\ resume_i[l] = -1 => since[l] = latency_count[l]
         /\ Polling(l) => ~ inject_queue[l]
    ELSE since[l] = 0

CadenceInv == \A l \in Lcore : CadenceOf(l)

\* A regular poll is counted, or is the last of its period, or is no poll of
\* another queue; an injection is carried out at the next visit.
LEMMA CadenceStep ==
  ASSUME NoLostJump, LoopInv, NEW l \in Lcore, LcoreStep(l), SweepOf(l), CadenceOf(l)
  PROVE  CadenceOf(l)'
  <1> USE ConstantFacts
  <1>0. LoopInv /\ TypeOK
    BY DEF LoopInv
  <1>1. CASE \/ StartSweep(l) \/ Quit(l) \/ StopReceived(l) \/ EndSweep(l)
             \/ SkipPenalised(l) \/ RxBurst(l)
    <2>1. /\ inject_queue'[l] = inject_queue[l] /\ resume_i'[l] = resume_i[l]
          /\ since'[l] = since[l] /\ latency_count'[l] = latency_count[l]
      BY <1>1 DEF StartSweep, Quit, StopReceived, EndSweep, SkipPenalised, RxBurst, latency
    <2>2. Polling(l)' => Polling(l)
      BY <1>0, <1>1 DEF StartSweep, Quit, StopReceived, EndSweep, SkipPenalised, RxBurst, TypeOK,
                        Polling
    <2> QED
      BY <2>1, <2>2 DEF CadenceOf
  <1>2. CASE BeginPoll(l)
    <2>1. /\ pc'[l] = "rx" /\ pc[l] = "visit" /\ resume_i[l] = -1
          /\ since'[l] = since[l] /\ latency_count'[l] = latency_count[l]
          /\ resume_i'[l] = IF Diverts(l) THEN i[l] ELSE resume_i[l]
          /\ inject_queue'[l] = IF Diverts(l) THEN FALSE ELSE inject_queue[l]
      BY <1>0, <1>2 DEF BeginPoll, Divert, Visiting, TypeOK, SweepOf, Diversion
    <2> QED
      BY <2>1, LcoreTypes DEF CadenceOf, Diverts
  <1>3. CASE LockBusy(l)
    <2>1. ~ Diverts(l)
      BY <1>3 DEF LockBusy, LockFree, NoLostJump, Diverts
    <2>2. /\ pc'[l] = "visit"
          /\ since'[l] = since[l] /\ latency_count'[l] = latency_count[l]
          /\ resume_i'[l] = resume_i[l] /\ inject_queue'[l] = inject_queue[l]
      BY <1>0, <1>3, <2>1 DEF LockBusy, Divert, Visiting, TypeOK
    <2> QED
      BY <2>2 DEF CadenceOf, Polling
  <1>4. CASE FinishLatencyPoll(l)
    <2>1. /\ pc'[l] = "visit" /\ pc[l] = "burst" /\ resume_i'[l] = -1 /\ resume_i[l] # -1
          /\ since'[l] = 0 /\ latency_count'[l] = latency_count[l]
          /\ inject_queue'[l] = inject_queue[l]
      BY <1>0, <1>4 DEF FinishLatencyPoll, IsLatencyPoll, TypeOK
    <2> QED
      BY <2>1 DEF CadenceOf, Polling
  <1>5. CASE FinishRegularPoll(l)
    <2>1. /\ pc'[l] = "visit" /\ pc[l] = "burst" /\ resume_i[l] = -1 /\ resume_i'[l] = -1
      BY <1>0, <1>5 DEF FinishRegularPoll, IsLatencyPoll, SweepOf, Diversion, TypeOK
    <2>2. /\ latency_count'[l] = IF ~ Counted(l) THEN latency_count[l]
                                 ELSE IF latency_count[l] + 1 = LatencyPeriod THEN 0
                                 ELSE latency_count[l] + 1
          /\ inject_queue'[l] = (inject_queue[l] \/
                                 (Counted(l) /\ latency_count[l] + 1 = LatencyPeriod))
      BY <1>0, <1>5 DEF FinishRegularPoll, CountPoll, TypeOK
    <2>3. since'[l] = IF Counted(l) /\ since[l] <= LatencyPeriod THEN since[l] + 1 ELSE since[l]
      BY <1>0, <1>5 DEF FinishRegularPoll, LogPoll, Counted, TypeOK
    <2> QED
      BY <2>1, <2>2, <2>3, LcoreTypes DEF CadenceOf, Counted, Polling
  <1> QED
    BY <1>1, <1>2, <1>3, <1>4, <1>5 DEF LcoreStep

\* No latency poll is due at the start.
LEMMA CadenceInvInit == Init => CadenceInv
  BY ConstantFacts DEF Init, CadenceInv, CadenceOf, Polling

\* Every step keeps the cadence of every lcore.
LEMMA CadenceInvStep ==
  ASSUME NoLostJump
  PROVE  LoopInv /\ SweepInv /\ CadenceInv /\ [Next]_vars => CadenceInv'
  <1> SUFFICES ASSUME LoopInv, SweepInv, CadenceInv, [Next]_vars, NEW m \in Lcore
               PROVE  CadenceOf(m)'
    BY DEF CadenceInv
  <1>1. SweepOf(m) /\ CadenceOf(m) /\ TypeOK
    BY DEF SweepInv, CadenceInv, LoopInv
  <1>2. ASSUME pc'[m] = pc[m], resume_i'[m] = resume_i[m], inject_queue'[m] = inject_queue[m],
               latency_count'[m] = latency_count[m], since'[m] = since[m]
        PROVE  CadenceOf(m)'
    BY <1>1, <1>2 DEF CadenceOf, Polling
  <1>3. ASSUME NEW l \in Lcore, LcoreStep(l) PROVE CadenceOf(m)'
    <2>1. CASE l = m
      BY <1>1, <1>3, <2>1, CadenceStep
    <2>2. CASE l # m
      BY <1>1, <1>2, <1>3, <2>2, OthersKeep
    <2> QED
      BY <2>1, <2>2
  <1>4. CASE SignalHandler \/ UNCHANGED vars
    BY <1>2, <1>4 DEF SignalHandler, vars, latency
  <1> QED
    BY <1>3, <1>4, Zenon DEF Next, Terminated

\* The latency queue is polled out of turn after exactly LatencyPeriod regular
\* polls of the other queues.
THEOREM LatencyOnTime == NoLostJump => (Spec => []LatencyCadence)
  <1> SUFFICES ASSUME NoLostJump PROVE Spec => []LatencyCadence
    OBVIOUS
  <1>1. LoopInv /\ CadenceInv => LatencyCadence
    <2> SUFFICES ASSUME LoopInv, CadenceInv, NEW l \in Lcore
                 PROVE  /\ since[l] <= LatencyPeriod
                        /\ Polling(l) /\ IsLatencyPoll(l) => since[l] = LatencyPeriod
      BY DEF LatencyCadence, Polling
    <2> QED
      BY LcoreTypes, ConstantFacts DEF CadenceInv, CadenceOf, IsLatencyPoll
  <1>2. LoopInv /\ SweepInv /\ [Next]_vars => SweepInv'
    BY SweepInvStep
  <1>3. LoopInv /\ SweepInv /\ CadenceInv /\ [Next]_vars => CadenceInv'
    BY CadenceInvStep
  <1> QED
    BY <1>1, <1>2, <1>3, LoopInvInit, LoopInvStep, SweepInvInit, CadenceInvInit, PTL DEF Spec

-----------------------------------------------------------------------------

\* A failed trylock between two polls of one queue would leave max_loops short
\* for the next queue, whose poll then sets no penalty.
NoLostRepoll == Mode # "shared" \/ (~ Latency /\ ~ Aggressive)

\* The sweeps a queue is still skipped, as hit counts them and as owed does.
Rest(l, q) == Penalty - hit[l][q - First(l)]

\* What is left of owed once the sweep has come to the queue.
Due(l, q) == IF owed[l][q] > 0 THEN owed[l][q] - 1 ELSE 0

\* The sweep has not come to the queue yet.
Ahead(l, q) == InSweep(l) /\ q >= Regular(l) /\ q # last_polled[l]

\* The penalty counter of a queue says what the documentation says: before the
\* queue's turn of the sweep what is owed, after it one sweep less.
Counters(l) ==
  pc[l] # "done" =>
    \A q \in Slice(l) : Rest(l, q) = IF Ahead(l, q) THEN owed[l][q] ELSE Due(l, q)

\* A queue that is polled again had a full burst, and no other queue starts with
\* part of max_loops.
Repolled(l) ==
  InSweep(l) =>
    IF Regular(l) = last_polled[l]
      THEN /\ hit[l][Regular(l) - First(l)] = Penalty
           /\ max_loops[l] < MaxConsecutivePolls
      ELSE max_loops[l] = MaxConsecutivePolls

\* The index of the counter of the queue that is polled.
Indexed(l) == Polling(l) /\ resume_i[l] = -1 => qi[l] = i[l] - First(l)

\* What the penalties of one lcore keep.
PenaltyOf(l) == Counters(l) /\ Repolled(l) /\ Indexed(l)

PenaltyInv == \A l \in Lcore : PenaltyOf(l)

\* A full burst is more than half a burst.
LEMMA HalfBurst ==
  /\ MaxPktBurst > MaxPktBurst \div 2
  /\ \A n \in Int : FullEnough(n) <=> ~ (n <= MaxPktBurst \div 2)
  BY ConstantFacts DEF FullEnough

\* The counter that a poll sets is that of the queue under the cursor.
LEMMA CounterIndex ==
  ASSUME LoopInv, NEW l \in Lcore, i[l] \in Slice(l), qi[l] = i[l] - First(l)
  PROVE  /\ (IF Mode = "partitioned" THEN qi[l] ELSE i[l]) = i[l] - First(l)
         /\ i[l] - First(l) \in Queue
  <1> USE ConstantFacts
  <1>1. /\ First(l) \in Int /\ Last(l) \in Int /\ First(l) < Last(l)
        /\ 0 <= First(l) /\ Last(l) <= Queues
    BY SliceFacts DEF Slice
  <1>2. l < ActiveIoLcores
    <2> SUFFICES ASSUME l >= ActiveIoLcores PROVE FALSE
      BY ActiveFacts DEF Lcore
    <2> QED
      BY <1>1, ActiveFacts DEF First, Last, Lcore
  <1> QED
    BY <1>1, <1>2, SliceFacts DEF Slice, Queue

\* One case per action: a skip pays off one sweep of rest, a first poll sets the
\* counter and what is owed together, a re-poll sets neither.
LEMMA PenaltyStep ==
  ASSUME NoLostRepoll, LoopInv, NEW l \in Lcore, LcoreStep(l), SweepOf(l), PenaltyOf(l)
  PROVE  PenaltyOf(l)'
  <1> USE ConstantFacts
  <1>0. LoopInv /\ TypeOK /\ CursorInSlice /\ SweepOf(l)
    BY DEF LoopInv
  <1>a. /\ First(l) \in Int /\ Last(l) \in Int /\ i[l] \in Int /\ last_polled[l] \in Int
        /\ First(l) >= 0 /\ Last(l) <= Queues /\ i[l] >= First(l) /\ resume_i[l] \in Int
        /\ max_loops[l] \in 0 .. MaxConsecutivePolls
    BY LcoreTypes
  <1>b. \A q \in Slice(l) : /\ q \in Int /\ q \in Queue /\ q - First(l) \in Queue
                            /\ q >= First(l) /\ q < Last(l)
                            /\ owed[l][q] \in 0 .. Penalty+1
                            /\ hit[l][q - First(l)] \in 0 .. Penalty
    <2>1. \A q \in Slice(l) : q \in Int /\ q >= First(l) /\ q < Last(l)
      BY <1>a DEF Slice
    <2>2. \A q \in Slice(l) : q \in Queue /\ q - First(l) \in Queue
      BY <1>a, <2>1 DEF Queue
    <2>3. owed[l] \in [Queue -> 0 .. Penalty+1] /\ hit[l] \in [Queue -> 0 .. Penalty]
      BY LcoreTypes
    <2> QED
      BY <2>1, <2>2, <2>3
  <1>1. CASE StartSweep(l)
    <2>1. /\ pc'[l] = "visit" /\ i'[l] = First(l) /\ last_polled'[l] = -1
          /\ resume_i'[l] = -1 /\ pc[l] = "sweep" /\ max_loops'[l] = MaxConsecutivePolls
          /\ hit'[l] = hit[l] /\ owed'[l] = [q \in Queue |-> Due(l, q)]
      BY <1>0, <1>1 DEF StartSweep, TypeOK, latency, Due, SweepOf, Diversion
    <2> QED
      BY <1>a, <1>b, <2>1
         DEF PenaltyOf, Counters, Repolled, Indexed, Rest, Due, Ahead, InSweep, Polling, Regular
  <1>2. CASE Quit(l) \/ StopReceived(l)
    <2>1. pc'[l] = "done"
      BY <1>0, <1>2 DEF Quit, StopReceived, TypeOK
    <2> QED
      BY <2>1 DEF PenaltyOf, Counters, Repolled, Indexed, InSweep, Polling
  <1>3. CASE EndSweep(l)
    <2>1. /\ pc'[l] = "sweep" /\ pc[l] = "visit" /\ i[l] >= Last(l) /\ resume_i[l] = -1
          /\ hit'[l] = hit[l] /\ owed'[l] = owed[l]
      BY <1>0, <1>3 DEF EndSweep, TypeOK, SweepOf, Diversion
    <2> QED
      BY <1>a, <1>b, <2>1
         DEF PenaltyOf, Counters, Repolled, Indexed, Rest, Due, Ahead, InSweep, Polling, Regular
  <1>4. CASE SkipPenalised(l)
    <2>1. /\ pc'[l] = "visit" /\ pc[l] = "visit"
          /\ i'[l] = i[l] + 1 /\ resume_i'[l] = -1 /\ resume_i[l] = -1
          /\ last_polled'[l] = last_polled[l] /\ max_loops'[l] = max_loops[l]
          /\ owed'[l] = owed[l]
          /\ hit'[l] = [hit[l] EXCEPT ![i[l] - First(l)] = @ + 1]
          /\ hit[l][i[l] - First(l)] < Penalty
      BY <1>0, <1>4 DEF SkipPenalised, Penalised, Visiting, TypeOK, latency, SweepOf, Diversion
    <2>2. i[l] \in Slice(l)
      BY <1>0, <1>4, VisitFacts DEF SkipPenalised
    <2>3. last_polled[l] < i[l]
      BY <1>0, <1>a, <2>1 DEF SweepOf, Ordered, PenaltyOf, Repolled, InSweep, Regular
    <2>4. ASSUME NEW q \in Slice(l)
          PROVE  Rest(l, q)' = IF Ahead(l, q)' THEN owed'[l][q] ELSE Due(l, q)'
      <3>1. hit'[l][q - First(l)] = hit[l][q - First(l)] + (IF q = i[l] THEN 1 ELSE 0)
        BY <1>a, <1>b, <2>1, <2>2, LcoreTypes
      <3> QED
        BY <1>a, <1>b, <2>1, <2>2, <2>3, <3>1
           DEF PenaltyOf, Counters, Rest, Due, Ahead, InSweep, Regular
    <2>5. Repolled(l)' /\ Indexed(l)'
      BY <1>a, <2>1, <2>3 DEF PenaltyOf, Repolled, Indexed, InSweep, Polling, Regular
    <2> QED
      BY <2>4, <2>5 DEF PenaltyOf, Counters
  <1>5. CASE BeginPoll(l)
    <2>1. /\ pc'[l] = "rx" /\ pc[l] = "visit" /\ resume_i[l] = -1
          /\ last_polled'[l] = last_polled[l] /\ max_loops'[l] = max_loops[l]
          /\ owed'[l] = owed[l] /\ hit'[l] = hit[l] /\ qi'[l] = i[l] - First(l)
          /\ i'[l] = Target(l) /\ resume_i'[l] = IF Diverts(l) THEN i[l] ELSE resume_i[l]
      BY <1>0, <1>5 DEF BeginPoll, Divert, Visiting, TypeOK, latency, SweepOf, Diversion
    <2>2. Regular(l)' = Regular(l) /\ (resume_i'[l] = -1 => i'[l] = i[l])
      BY <1>a, <2>1 DEF Regular, Target
    <2> QED
      BY <2>1, <2>2
         DEF PenaltyOf, Counters, Repolled, Indexed, Rest, Due, Ahead, InSweep, Polling
  <1>6. CASE LockBusy(l)
    <2>1. ~ Diverts(l) /\ ~ Aggressive
      BY <1>6 DEF LockBusy, LockFree, NoLostRepoll, Diverts
    <2>2. /\ pc'[l] = "visit" /\ pc[l] = "visit"
          /\ i'[l] = i[l] + 1 /\ resume_i'[l] = -1 /\ resume_i[l] = -1
          /\ last_polled'[l] = last_polled[l] /\ max_loops'[l] = max_loops[l]
          /\ owed'[l] = owed[l] /\ hit'[l] = hit[l]
          /\ ~ Penalised(l)
      BY <1>0, <1>6, <2>1
         DEF LockBusy, PassOver, Target, Divert, Visiting, TypeOK, SweepOf, Diversion
    <2>3. i[l] \in Slice(l)
      BY <1>0, <1>6, VisitFacts DEF LockBusy
    <2>4. last_polled[l] < i[l]
      BY <1>0, <1>a, <2>1, <2>2 DEF SweepOf, Ordered, InSweep, Regular
    <2>5. hit[l][i[l] - First(l)] = Penalty
      BY <1>b, <2>2, <2>3 DEF Penalised
    <2> QED
      BY <1>a, <1>b, <2>2, <2>3, <2>4, <2>5
         DEF PenaltyOf, Counters, Repolled, Indexed, Rest, Due, Ahead, InSweep, Polling, Regular
  <1>7. CASE RxBurst(l)
    <2>1. /\ pc'[l] = "burst" /\ pc[l] = "rx" /\ i'[l] = i[l] /\ resume_i'[l] = resume_i[l]
          /\ max_loops'[l] = max_loops[l] /\ last_polled'[l] = last_polled[l]
          /\ owed'[l] = owed[l] /\ hit'[l] = hit[l] /\ qi'[l] = qi[l]
      BY <1>0, <1>7 DEF RxBurst, TypeOK, cursor, latency, sweepLog
    <2> QED
      BY <2>1
         DEF PenaltyOf, Counters, Repolled, Indexed, Rest, Due, Ahead, InSweep, Polling, Regular
  <1>8. CASE FinishLatencyPoll(l)
    <2>1. /\ pc'[l] = "visit" /\ pc[l] = "burst" /\ i'[l] = resume_i[l] /\ resume_i'[l] = -1
          /\ resume_i[l] # -1
          /\ max_loops'[l] = max_loops[l] /\ last_polled'[l] = last_polled[l]
          /\ owed'[l] = owed[l] /\ hit'[l] = hit[l]
      BY <1>0, <1>8 DEF FinishLatencyPoll, ResumeCursor, IsLatencyPoll, TypeOK, sweepLog
    <2> QED
      BY <2>1
         DEF PenaltyOf, Counters, Repolled, Indexed, Rest, Due, Ahead, InSweep, Polling, Regular
  <1>9. CASE FinishRegularPoll(l)
    <2>1. /\ pc'[l] = "visit" /\ pc[l] = "burst" /\ resume_i[l] = -1 /\ resume_i'[l] = -1
          /\ last_polled'[l] = i[l] /\ i[l] \in Slice(l) /\ nb_rx[l] \in 0 .. MaxPktBurst
      BY <1>0, <1>9
         DEF FinishRegularPoll, IsLatencyPoll, LogPoll, SweepOf, Diversion, TypeOK, CursorInSlice
    <2>2. /\ i'[l] = IF Repolls(l) THEN i[l] ELSE i[l] + 1
          /\ max_loops'[l] = IF Repolls(l) THEN max_loops[l] - 1 ELSE MaxConsecutivePolls
      BY <1>0, <1>9 DEF FinishRegularPoll, Advance, TypeOK
    <2>3. Indexed(l)'
      BY <2>1 DEF Indexed, Polling
    <2>4. CASE last_polled[l] = i[l]
      <3>1. /\ max_loops[l] < MaxConsecutivePolls
            /\ hit[l][i[l] - First(l)] = Penalty
        BY <2>1, <2>4 DEF PenaltyOf, Repolled, InSweep, Regular
      <3>2. owed' = owed /\ hit' = hit
        BY <1>9, <1>a, <2>4, <3>1 DEF FinishRegularPoll, LogPoll, SetHit
      <3>3. Repolled(l)'
        BY <1>a, <2>1, <2>2, <3>1, <3>2 DEF Repolled, InSweep, Regular, Repolls
      <3>4. Counters(l)'
        BY <1>a, <1>b, <2>1, <2>2, <2>4, <3>2
           DEF PenaltyOf, Counters, Rest, Due, Ahead, InSweep, Regular
      <3> QED
        BY <2>3, <3>3, <3>4 DEF PenaltyOf
    <2>5. CASE last_polled[l] # i[l]
      <3>1. max_loops[l] = MaxConsecutivePolls /\ last_polled[l] < i[l] /\ qi[l] = i[l] - First(l)
        BY <1>0, <1>a, <2>1, <2>5
           DEF PenaltyOf, Repolled, Indexed, InSweep, Polling, Regular, SweepOf, Ordered
      <3>2. /\ (IF Mode = "partitioned" THEN qi[l] ELSE i[l]) = i[l] - First(l)
            /\ i[l] - First(l) \in Queue
        BY <1>0, <2>1, <3>1, CounterIndex
      <3>3. hit' = IF Penalty > 0
                     THEN [hit EXCEPT ![l][i[l] - First(l)] =
                             IF FullEnough(nb_rx[l]) THEN Penalty ELSE 0]
                     ELSE hit
        BY <1>9, <3>1, <3>2, Zenon DEF FinishRegularPoll, SetHit
      <3>4. owed' = [owed EXCEPT ![l][i[l]] =
                       IF Penalty > 0 /\ nb_rx[l] <= MaxPktBurst \div 2 THEN Penalty + 1 ELSE 0]
        BY <1>9, <2>5, Zenon DEF FinishRegularPoll, LogPoll
      <3>5. ASSUME NEW q \in Slice(l), q # i[l]
            PROVE  hit'[l][q - First(l)] = hit[l][q - First(l)] /\ owed'[l][q] = owed[l][q]
        <4>1. q - First(l) # i[l] - First(l)
          BY <1>a, <1>b, <3>5
        <4>2. hit'[l][q - First(l)] = hit[l][q - First(l)]
          BY <1>0, <1>b, <3>2, <3>3, <4>1 DEF TypeOK
        <4>3. owed'[l][q] = owed[l][q]
          BY <1>0, <1>b, <3>4, <3>5 DEF TypeOK
        <4> QED
          BY <4>2, <4>3
      <3>6. /\ FullEnough(nb_rx[l]) =>
                 hit'[l][i[l] - First(l)] = Penalty /\ owed'[l][i[l]] = 0
            /\ ~ FullEnough(nb_rx[l]) =>
                 /\ hit'[l][i[l] - First(l)] = 0
                 /\ owed'[l][i[l]] = IF Penalty > 0 THEN Penalty + 1 ELSE 0
        <4>1. CASE Penalty > 0
          BY <1>0, <1>b, <2>1, <3>2, <3>3, <3>4, <4>1, HalfBurst DEF TypeOK
        <4>2. CASE Penalty = 0
          BY <1>0, <1>b, <2>1, <3>2, <3>3, <3>4, <4>2 DEF TypeOK
        <4> QED
          BY <4>1, <4>2
      <3>7. Repolled(l)'
        <4>1. CASE Repolls(l)
          <5>1. FullEnough(nb_rx[l])
            BY <2>1, <4>1, HalfBurst DEF Repolls
          <5> QED
            BY <1>a, <2>1, <2>2, <3>1, <3>6, <4>1, <5>1 DEF Repolled, InSweep, Regular
        <4>2. CASE ~ Repolls(l)
          BY <1>a, <2>1, <2>2, <4>2 DEF Repolled, InSweep, Regular
        <4> QED
          BY <4>1, <4>2
      <3>8. ASSUME NEW q \in Slice(l)
            PROVE  Rest(l, q)' = IF Ahead(l, q)' THEN owed'[l][q] ELSE Due(l, q)'
        <4>1. CASE q = i[l]
          BY <1>a, <1>b, <2>1, <3>6, <4>1 DEF Rest, Due, Ahead
        <4>2. CASE q # i[l]
          <5>1. Ahead(l, q)' <=> Ahead(l, q)
            BY <1>a, <1>b, <2>1, <2>2, <3>1, <4>2 DEF Ahead, InSweep, Regular
          <5> QED
            BY <2>1, <3>5, <4>2, <5>1 DEF PenaltyOf, Counters, Rest, Due
        <4> QED
          BY <4>1, <4>2
      <3> QED
        BY <2>3, <3>7, <3>8 DEF PenaltyOf, Counters
    <2> QED
      BY <2>4, <2>5
  <1> QED
    BY <1>1, <1>2, <1>3, <1>4, <1>5, <1>6, <1>7, <1>8, <1>9 DEF LcoreStep

\* No queue is owed any rest at the start.
LEMMA PenaltyInvInit == Init => PenaltyInv
  <1> SUFFICES ASSUME Init, NEW l \in Lcore PROVE PenaltyOf(l)
    BY DEF PenaltyInv
  <1>1. \A q \in Slice(l) : q \in Queue /\ q - First(l) \in Queue
    BY SliceFacts, ConstantFacts DEF Slice, Queue
  <1>2. ~ InSweep(l) /\ ~ Polling(l)
    BY DEF Init, InSweep, Polling
  <1>3. \A q \in Queue : hit[l][q] = Penalty /\ owed[l][q] = 0
    BY DEF Init
  <1>4. Counters(l)
    BY <1>1, <1>2, <1>3, ConstantFacts DEF Counters, Rest, Due, Ahead
  <1> QED
    BY <1>2, <1>4 DEF PenaltyOf, Repolled, Indexed

\* Every step keeps the penalty counters of every lcore right.
LEMMA PenaltyInvStep ==
  ASSUME NoLostRepoll
  PROVE  LoopInv /\ SweepInv /\ PenaltyInv /\ [Next]_vars => PenaltyInv'
  <1> SUFFICES ASSUME LoopInv, SweepInv, PenaltyInv, [Next]_vars, NEW m \in Lcore
               PROVE  PenaltyOf(m)'
    BY DEF PenaltyInv
  <1>1. SweepOf(m) /\ PenaltyOf(m) /\ TypeOK
    BY DEF SweepInv, PenaltyInv, LoopInv
  <1>2. ASSUME pc'[m] = pc[m], i'[m] = i[m], qi'[m] = qi[m], resume_i'[m] = resume_i[m],
               hit'[m] = hit[m], owed'[m] = owed[m], last_polled'[m] = last_polled[m],
               max_loops'[m] = max_loops[m]
        PROVE  PenaltyOf(m)'
    BY <1>1, <1>2
       DEF PenaltyOf, Counters, Repolled, Indexed, Rest, Due, Ahead, InSweep, Polling, Regular
  <1>3. ASSUME NEW l \in Lcore, LcoreStep(l) PROVE PenaltyOf(m)'
    <2>1. CASE l = m
      BY <1>1, <1>3, <2>1, PenaltyStep
    <2>2. CASE l # m
      BY <1>1, <1>2, <1>3, <2>2, OthersKeep
    <2> QED
      BY <2>1, <2>2
  <1>4. CASE SignalHandler \/ UNCHANGED vars
    BY <1>2, <1>4 DEF SignalHandler, vars, cursor, latency, sweepLog
  <1> QED
    BY <1>3, <1>4, Zenon DEF Next, Terminated

\* A queue is skipped when, and only when, the rule of the Penalty policy says
\* that it still owes a rest.
THEOREM PenaltiesExact == NoLostRepoll => (Spec => []PenaltyExact)
  <1> SUFFICES ASSUME NoLostRepoll PROVE Spec => []PenaltyExact
    OBVIOUS
  <1>1. LoopInv /\ SweepInv /\ PenaltyInv => PenaltyExact
    <2> SUFFICES ASSUME LoopInv, SweepInv, PenaltyInv, NEW l \in Lcore, FreshVisit(l)
                 PROVE  Penalised(l) <=> owed[l][i[l]] > 0
      BY DEF PenaltyExact
    <2>1. /\ pc[l] = "visit" /\ i[l] # last_polled[l] /\ i[l] \in Slice(l)
          /\ i[l] \in Queue /\ i[l] - First(l) \in Queue
      BY VisitFacts DEF FreshVisit, Visiting, LoopInv
    <2>2. Ahead(l, i[l])
      BY <2>1, LcoreTypes DEF Ahead, InSweep, Regular, SweepInv, SweepOf, Diversion
    <2>3. Rest(l, i[l]) = owed[l][i[l]]
      BY <2>1, <2>2 DEF PenaltyInv, PenaltyOf, Counters
    <2>4. hit[l][i[l] - First(l)] \in 0 .. Penalty /\ owed[l][i[l]] \in 0 .. Penalty+1
      BY <2>1, LcoreTypes
    <2> QED
      BY <2>3, <2>4, ConstantFacts DEF Rest, Penalised
  <1>2. LoopInv /\ SweepInv /\ [Next]_vars => SweepInv'
    BY SweepInvStep DEF NoLostRepoll, NoLostJump
  <1>3. LoopInv /\ SweepInv /\ PenaltyInv /\ [Next]_vars => PenaltyInv'
    BY PenaltyInvStep
  <1> QED
    BY <1>1, <1>2, <1>3, LoopInvInit, LoopInvStep, SweepInvInit, PenaltyInvInit, PTL DEF Spec

=============================================================================
