SPECIFICATION FairSpec
CONSTANTS
  App = "mica"
  Mode = "shared"
  NbLcores = 2
  Queues = 3
  MaxTxQueues = 4
  Penalty = 0
  Aggressive = TRUE
  Latency = FALSE
  LatencyQueue = 0
  LatencyPeriod = 2
  MaxPktBurst = 1
  TxBatchSize = 1
  MaxConsecutivePolls = 1
  StopPackets = FALSE
INVARIANT SweepComplete
PROPERTY QueueServed
PROPERTY QuitTerminates
