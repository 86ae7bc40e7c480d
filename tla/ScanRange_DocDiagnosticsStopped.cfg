\* A line of the documentation that the code does not keep.
SPECIFICATION Spec
CONSTANTS
  none = none
  NoNullifier = none
  Heights <- MCHeights
  Nullifiers <- MCNullifiers
  Chains <- MCChains
  Wallets <- MCWallets
  MaxUndecodable = 0
  StartHeight = 2
  EndHeight = 4
  Depth = 2
  Verbose = TRUE
INVARIANT DocDiagnosticsStopped
CHECK_DEADLOCK FALSE
