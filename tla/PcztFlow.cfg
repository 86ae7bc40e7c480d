\* Expiries six blocks away, at least two of them for the user; each send is crafted
\* up to twice. Indices from 3 on are hardened.
SPECIFICATION Spec
CONSTANTS
  Hardened = 3
  MaxMoney = 20
  MaxU64 = 40
  NamedHeights <- MCNamedHeights
  LegacyMarginal = 2
  Zip2009Marginal = 1
  Zip2009Height = 24
  DefaultExpiry = 6
  MinValidity = 2
  Requests <- MCRequests
  MaxCrafts = 2
INVARIANTS
  Signable
  ChangeRecognised
  BalancedAndCounted
  HonestAnswersFinalize
  ExtractedAsApproved
CHECK_DEADLOCK FALSE
