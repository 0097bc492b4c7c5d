SPECIFICATION SteeringSpec
CONSTANTS
  FirstBits = 2
  LastBits = 2
  LongOffsetMax = 2
  FlagMask = 4
  NextHops = {0, 1}
  MaxRules = 3
  ChtSizes <- MCChtSizes
 
INVARIANT ChtRowsArePermutations
PROPERTY FlowsMoveOnlyIfTheyMust
