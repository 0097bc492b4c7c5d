SPECIFICATION Spec
CONSTANTS
  Mode = "partitioned"
  NbLcores = 2
  Queues = 2
  StartPort = 10
  MaxFlows = 3
  SrcPorts = {1, 2, 3}
  Rests = {"a", "b"}
INVARIANT PortsUnique
INVARIANT PortStable
