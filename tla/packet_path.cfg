SPECIFICATION Spec
CONSTANTS
  Builds <- MCBuilds
  Ports = {0, 1}
  Mbufs = {1, 2, 3, 4}
  MaxPktBurst = 2
  TxBatchSize = 3
  HASHFN_N = 3
  Hash <- MCHash
  NatShift = 3
  MaxPackets = 4
  MaxPolls = 3
  MAX_ACL_RULE_NUM = 3
  RTE_ACL_MAX_PRIORITY = 10
  ACL_DENY_SIGNATURE = 16
  FWD_PORT_SHIFT = 1
INVARIANT MbufInOnePlace
INVARIANT SketchCounts
 
INVARIANT AnalysisExact
