\* A note and its spend on the two sides of a split, every note being one that the scan
\* of its block finds.
SPECIFICATION CallersSpec
CONSTANTS
  none = none
  NoNullifier = none
  Heights <- MCHeights
  Nullifiers <- MCNullifiers
  Chains <- MCPlainChains
  Wallets <- MCWallets
  MaxUndecodable = 0
  StartHeight = 2
  EndHeight = 9
  MaxRetries = 2
  ChunkSizes = {0, 3, 8}
  U32 = 32
INVARIANT
  DocIsSpent
CHECK_DEADLOCK FALSE
