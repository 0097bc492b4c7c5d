SPECIFICATION FairSpec
CONSTANTS
  App = "mica"
  Mode = "partitioned"
  NbLcores = 3
  Queues = 5
  MaxTxQueues = 2
  Penalty = 1
  Aggressive = TRUE
  Latency = TRUE
  LatencyQueue = 1
  LatencyPeriod = 2
  MaxPktBurst = 2
  TxBatchSize = 2
  MaxConsecutivePolls = 1
  StopPackets = FALSE
INVARIANT TypeOK
INVARIANT CursorInSlice
INVARIANT MbufsAccounted
INVARIANT PenaltyExact
INVARIANT SweepOrder
INVARIANT SweepComplete
INVARIANT LatencyCadence
PROPERTY QueueServed
