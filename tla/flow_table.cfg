SPECIFICATION Spec
CONSTANTS
  Builds <- MCBuilds
  HashBits = 3
  Ids = {1, 2, 5}
  Buckets = 4
  MaxTime = 2
  ExpirationTime = 1
  UsToNs = 1
  IntBits = 2
INVARIANT StructuresConsistent
INVARIANT LookupExact
PROPERTY ImplementsEmap
PROPERTY AllocateAtomic
 
