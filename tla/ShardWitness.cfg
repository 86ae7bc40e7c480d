\* Shards of four leaves over six blocks; scans of shard 0 of up to four blocks.
SPECIFICATION Spec
CONSTANTS
  MaxHeight = 6
  ShardSize = 4
  MaxScan = 3
  Sizes <- MCSizes
  Requests <- MCRequests
INVARIANTS
  LeavesAligned
  LeavesComplete
  NoSpuriousFailure
PROPERTY Terminates
CHECK_DEADLOCK FALSE
