\* Three sub-scans of which the second finds nothing, one retry each.
SPECIFICATION Spec
CONSTANTS
  MaxRetries = 1
  Batches <- MCBatches
INVARIANTS
  NothingLostInChannel
  StatsOkComplete
PROPERTIES
  CallsReturn
CHECK_DEADLOCK FALSE
