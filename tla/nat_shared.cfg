SPECIFICATION Spec
CONSTANTS
  Mode = "shared"
  NbLcores = 2
  Queues = 2
  StartPort = 10
  MaxFlows = 7
  SrcPorts = {1, 2}
  Rests = {"a"}
INVARIANT ReverseTranslation
INVARIANT DuplicatesBounded
