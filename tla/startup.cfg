SPECIFICATION Spec
CONSTANTS
  Machines <- MCMachines
  Masks <- MCMasks
  Configs <- MCConfigs
  Portmaps <- MCPortmaps
  Numbers = {0, 1, 2, 3, 5, 8, 16}
  Turns = {0, 16}
  NicQueues = {1, 2, 3}
  ShortBits = 3
  IntBits = 4
  MaxRxQueuePerPort = 4
  MaxTxQueuePerPort = 2
  DefaultQueues = 2
  DefaultPenalty = 5
  DefaultLatencyPeriod = 3
INVARIANT LaunchedConfigValid
INVARIANT PoolOfPoller
INVARIANT PolledPortsSetUp
INVARIANT PortsPaired
