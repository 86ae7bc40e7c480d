\* Both pools, with Sapling or without, a pipeline of two of the three blocks.
SPECIFICATION Spec
CONSTANTS
  none = none
  NoNullifier = none
  Heights <- MCHeights
  Nullifiers <- MCNullifiers
  Chains <- MCChains
  Wallets <- MCWallets
  MaxUndecodable = 1
  StartHeight = 2
  EndHeight = 4
  Depth = 2
  Verbose = TRUE
INVARIANTS
  ResultExact
  SpentFlagsExact
  PositionsExact
PROPERTIES
  Terminates
CHECK_DEADLOCK FALSE
