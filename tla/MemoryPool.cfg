SPECIFICATION Spec
CONSTANTS
  Total = 8
  WordSize = 16
  Requests <- MixedRequests
INVARIANTS
  TypeOK
  Sorted
  PoolAccounted
PROPERTY
  ImplementsArena
