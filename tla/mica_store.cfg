SPECIFICATION Spec
CONSTANTS
  Builds <- MCBuilds
  NumBuckets = 2
  ItemsPerBucket = 2
  Span = 16
  None = None
INVARIANT GetReturnsLastSet
INVARIANT NoItemRevives
 
PROPERTY OperationsReturn
