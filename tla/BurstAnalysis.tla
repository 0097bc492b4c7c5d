--------------------------- MODULE BurstAnalysis ---------------------------
(***************************************************************************)
(* burst_analysis() of locality-bench.py and locality.py: one pass over    *)
(* the rows [burst, queue, flow] that the locality program prints.  A row  *)
(* with another burst number than the one before closes a burst, and so    *)
(* does the end of the file.                                               *)
(***************************************************************************)
LOCAL INSTANCE Integers
LOCAL INSTANCE Sequences
LOCAL INSTANCE FiniteSets

MaxOf(a, b) == IF a > b THEN a ELSE b

Start == [bursts |-> <<>>, prev_burst_id |-> -1, current_queue |-> -1, flows_in_burst |-> {},
          packets_in_burst |-> 0, prev_flow |-> -1, consecutive_count |-> 0, max_consecutive |-> 0]

Closed(s) ==
  [burst |-> s.prev_burst_id, queue |-> s.current_queue, flows |-> Cardinality(s.flows_in_burst),
   consecutive |-> MaxOf(s.max_consecutive, s.consecutive_count), packets |-> s.packets_in_burst]

ResetBug(s) == [Start EXCEPT !.bursts = Append(s.bursts, Closed(s)), !.prev_flow = s.prev_flow,
                             !.consecutive_count = s.consecutive_count]

Reset(s) == [Start EXCEPT !.bursts = Append(s.bursts, Closed(s))]

Row(s, row) ==
  LET t    == IF s.prev_burst_id # -1 /\ row.burst # s.prev_burst_id THEN Reset(s) ELSE s
      run  == IF row.flow = t.prev_flow THEN t.consecutive_count + 1 ELSE 1
  IN  [t EXCEPT !.flows_in_burst = @ \union {row.flow}, !.packets_in_burst = @ + 1,
                !.consecutive_count = run, !.max_consecutive = MaxOf(@, run),
                !.current_queue = row.queue, !.prev_burst_id = row.burst, !.prev_flow = row.flow]

burst_analysis(rows) ==
  LET after[n \in 0 .. Len(rows)] == IF n = 0 THEN Start ELSE Row(after[n-1], rows[n])
      last == after[Len(rows)]
  IN  IF last.prev_burst_id = -1 THEN <<>> ELSE Append(last.bursts, Closed(last))

=============================================================================
