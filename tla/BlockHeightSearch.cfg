\* Every timestamp on eight chains.
SPECIFICATION Spec
CONSTANTS
  Low = 3
  Threshold = 2
  Tip = 9
  Times <- MCTimes
  Timestamps <- MCTimestamps
INVARIANTS
  Bracket
  NeverLater
  LatestWhenIncreasing
PROPERTY Terminates
CHECK_DEADLOCK FALSE
