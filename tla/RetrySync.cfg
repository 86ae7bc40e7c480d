\* Eleven blocks, more retries than halvings.
SPECIFICATION Spec
CONSTANTS
  StartHeight = 10
  EndHeight = 20
  MaxRetries = 6
INVARIANTS
  TypeOK
  Partition
  RequestsWithinBlocks
  BackoffBounded
PROPERTIES
  ImplementsPrefixScan
  Terminates
CHECK_DEADLOCK FALSE
