\* Upgrades at 9 and around, the marginal fee drops at 12; up to five blocks are
\* mined during a send.
SPECIFICATION Spec
CONSTANTS
  Schedules <- MCSchedules
  StartTips = {0, 5, 7, 8, 10, 11, 14, 15, 17}
  MaxMined = 5
  AnchorDepth = 3
  ExpiryDelta <- MCDelta
  ExpiringSoon = 1
  SigningMargin = 2
  Zip2009Height = 12
  LegacyMarginal = 2
  Zip2009Marginal = 1
  MaxMoney = 20
  MaxU64 = 40
  Requests <- MCRequests
INVARIANTS
  WindowWithinBranch
  AcceptedAfterSigning
  RefusedOnlyNearActivation
  ProofVerifies
  FeeQuoteHonoured
  FeeNotBelowStandard
  ValueConserved
CHECK_DEADLOCK FALSE
