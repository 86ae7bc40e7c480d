\* Four requests, two of them in flight; values that are missing, wrong, too large.
SPECIFICATION DetailsSpec
CONSTANTS
  null = null
  Unknown = null
  Txs <- MCTxs
  Calls <- MCCalls
  Depth = 2
  MaxMoney = 40
INVARIANTS
  FeeExactOrUnknown
  PayeesAreOthers
  FailuresIsolated
PROPERTY
  CallEnds
CHECK_DEADLOCK FALSE
