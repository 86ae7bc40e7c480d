\* Eight blocks, in one chunk or in three; the attempts run out at ranges of two, and
\* one transaction may not decrypt.
SPECIFICATION CallersSpec
CONSTANTS
  none = none
  NoNullifier = none
  Heights <- MCHeights
  Nullifiers <- MCNullifiers
  Chains <- MCChains
  Wallets <- MCWallets
  MaxUndecodable = 1
  StartHeight = 2
  EndHeight = 9
  MaxRetries = 2
  ChunkSizes = {0, 3, 8}
  U32 = 32
INVARIANTS
  ReportSound
  ReportMatchesPrefix
  PrintedIsComplete
CHECK_DEADLOCK FALSE
