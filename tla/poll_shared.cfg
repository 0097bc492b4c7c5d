SPECIFICATION Spec
CONSTANTS
  App = "nf-chain"
  Mode = "shared"
  NbLcores = 2
  Queues = 3
  MaxTxQueues = 4
  Penalty = 0
  Aggressive = TRUE
  Latency = TRUE
  LatencyQueue = 0
  LatencyPeriod = 1
  MaxPktBurst = 1
  TxBatchSize = 1
  MaxConsecutivePolls = 1
  StopPackets = TRUE
INVARIANT QueueExclusive
INVARIANT LockDiscipline
