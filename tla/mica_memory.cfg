SPECIFICATION Spec
CONSTANTS
  Builds <- MCBuilds
  Sizes = {1, 2}
  Addresses = {1, 2, 3, 4, 5, 6}
  PoolSizes = {1, 2, 4}
  Span = 20
  PagesPerNode = 3
  MAX_ENTRIES = 3
  MAX_MAPPINGS = 5
  OVERHEAD = 2
  MIN_SIZE = 4
  NUM_CLASSES = 3
  CLASS_INCREMENT = 1
  None = None
INVARIANT PagesOwned
INVARIANT ObjectsMapped
INVARIANT ChunksConsistent
