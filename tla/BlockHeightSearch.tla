------------------------- MODULE BlockHeightSearch --------------------------
(***************************************************************************)
(* find_block_height and find_in_range of crates/zcash-sync/src/client.rs:  *)
(* the height of the latest block whose time is at most a timestamp, found  *)
(* by interpolation and then by reading the last few blocks as a stream.    *)
(* The server is external: block times are whatever it answers.             *)
(***************************************************************************)
EXTENDS Integers, FiniteSets

CONSTANTS Low,         \* ORCHARD_ACTIVATION_MAINNET
          Threshold,   \* RANGE_FETCH_THRESHOLD
          Tip,         \* the tip of the chain the server serves
          Times,       \* the block times to consider, functions on 1..Tip
          Timestamps   \* the timestamps to look for

ASSUME SearchAssumption ==
  /\ Low \in Nat \ {0} /\ Threshold \in Nat \ {0} /\ Tip \in Nat
  /\ Times \subseteq [1 .. Tip -> Nat]
  /\ Timestamps \subseteq Nat

VARIABLES
  time, timestamp,  \* the chain, and the argument: they never change
  pc,               \* "tip", "low", "high", "search", "range", "ok" or "err"
  low, high,        \* the bracket
  lowT, highT,      \* the times of its ends, as the server gave them
  cursor,           \* the height of the next block of the stream
  candidate,
  result

vars == <<time, timestamp, pc, low, high, lowT, highT, cursor, candidate, result>>
bracket == <<low, high, lowT, highT>>
scan == <<cursor, candidate>>

MinOf(a, b) == IF a < b THEN a ELSE b
MaxOf(a, b) == IF a > b THEN a ELSE b

\* The height to probe next, by linear interpolation, strictly inside the bracket.
EstUnclamped(l, h, lt, ht) == l + ((timestamp - lt) * (h - l)) \div MaxOf(ht - lt, 1)  \* mutant
Est(l, h, lt, ht) ==
  LET offset == ((timestamp - lt) * (h - l)) \div MaxOf(ht - lt, 1)
  IN l + MinOf(MaxOf(offset, 1), (h - l) - 1)

-----------------------------------------------------------------------------
Init ==
  /\ time \in Times /\ timestamp \in Timestamps
  /\ pc = "tip"
  /\ low = Low /\ high = Tip /\ lowT = 0 /\ highT = 0
  /\ cursor = Low /\ candidate = Low /\ result = 0

Return(h) == pc' = "ok" /\ result' = h

\* chain_tip_with_client.
GetTip ==
  /\ pc = "tip"
  /\ IF Tip = 0 THEN Return(0) ELSE pc' = "low" /\ UNCHANGED result
  /\ UNCHANGED <<bracket, scan>>

\* The time of the lowest block; a server that has no such block refuses.
FetchLow ==
  /\ pc = "low"
  /\ low <= Tip
  /\ lowT' = time[low]
  /\ IF timestamp <= lowT' THEN Return(low) ELSE pc' = "high" /\ UNCHANGED result
  /\ UNCHANGED <<low, high, highT, scan>>

FetchHigh ==
  /\ pc = "high"
  /\ highT' = time[high]
  /\ IF timestamp >= highT' THEN Return(high) ELSE pc' = "search" /\ UNCHANGED result
  /\ UNCHANGED <<low, high, lowT, scan>>

\* Mutant: a block at the timestamp raises the lower end.
ProbeLatest ==
  /\ pc = "search"
  /\ high - low > Threshold
  /\ LET est == Est(low, high, lowT, highT) IN
     IF time[est] <= timestamp
     THEN low' = est /\ lowT' = time[est] /\ UNCHANGED <<high, highT>>
     ELSE high' = est /\ highT' = time[est] /\ UNCHANGED <<low, lowT>>
  /\ UNCHANGED <<pc, scan, result>>

\* Phase 1.
Probe ==
  /\ pc = "search"
  /\ high - low > Threshold
  /\ LET est == Est(low, high, lowT, highT) IN
     IF time[est] < timestamp
     THEN low' = est /\ lowT' = time[est] /\ UNCHANGED <<high, highT>>
     ELSE high' = est /\ highT' = time[est] /\ UNCHANGED <<low, lowT>>
  /\ UNCHANGED <<pc, scan, result>>

\* GetBlockRange(low, high).
StartRange ==
  /\ pc = "search"
  /\ high - low <= Threshold
  /\ pc' = "range"
  /\ cursor' = low /\ candidate' = low
  /\ UNCHANGED <<bracket, result>>

\* Mutants: the block after the last one that qualifies, or the one before it.
ReadBlockAssignsFirst ==
  /\ pc = "range" /\ cursor <= high
  /\ candidate' = cursor
  /\ IF time[cursor] <= timestamp
     THEN cursor' = cursor + 1 /\ UNCHANGED <<pc, result>>
     ELSE Return(cursor) /\ UNCHANGED cursor
  /\ UNCHANGED bracket
ReadBlockStrict ==
  /\ pc = "range" /\ cursor <= high
  /\ IF time[cursor] < timestamp
     THEN candidate' = cursor /\ cursor' = cursor + 1 /\ UNCHANGED <<pc, result>>
     ELSE Return(candidate) /\ UNCHANGED scan
  /\ UNCHANGED bracket

\* Phase 2: the stream is read up to the first block that is too late.
ReadBlock ==
  /\ pc = "range" /\ cursor <= high
  /\ IF time[cursor] <= timestamp
     THEN candidate' = cursor /\ cursor' = cursor + 1 /\ UNCHANGED <<pc, result>>
     ELSE Return(candidate) /\ UNCHANGED scan
  /\ UNCHANGED bracket

StreamEnds ==
  /\ pc = "range" /\ cursor > high
  /\ Return(candidate)
  /\ UNCHANGED <<bracket, scan>>

\* The connection or any request fails.
RpcFails ==
  /\ pc \notin {"ok", "err"}
  /\ pc' = "err"
  /\ UNCHANGED <<bracket, scan, result>>

Answered ==
  \/ GetTip \/ FetchLow \/ FetchHigh
  \/ Probe \/ StartRange
  \/ ReadBlock \/ StreamEnds

Inputs == <<time, timestamp>>
Next == (Answered \/ RpcFails) /\ UNCHANGED Inputs

\* The server answers every request, as long as it does not fail one: failing is
\* never what ends the search.
Spec == Init /\ [][Next]_vars /\ WF_vars(Answered /\ UNCHANGED Inputs)

-----------------------------------------------------------------------------
(* Properties *)

\* Every variable has the type of its counterpart; the heights that are asked
\* for lie in the chain, between Low and Tip.
TypeOK ==
  /\ time \in [1 .. Tip -> Nat] /\ timestamp \in Nat
  /\ pc \in {"tip", "low", "high", "search", "range", "ok", "err"}
  /\ low \in Nat /\ high \in Nat /\ lowT \in Nat /\ highT \in Nat
  /\ cursor \in Nat /\ candidate \in Nat /\ result \in Nat
  /\ pc \in {"high", "search", "range"} => Low <= low /\ high <= Tip
  /\ pc = "range" => low <= cursor

\* However irregular the block times are, the bracket never empties and always
\* encloses the timestamp, strictly from below: none of the unsigned differences
\* high - low, high_t - low_t and timestamp - low_t can wrap around.
Bracket ==
  pc \in {"search", "range"} =>
    /\ Low <= low /\ low < high /\ high <= Tip
    /\ lowT = time[low] /\ highT = time[high]
    /\ lowT < timestamp /\ timestamp <= highT

\* The block that is returned is never later than the timestamp, except that
\* nothing below Low is ever returned.
NeverLater ==
  pc = "ok" /\ result > Low => result <= Tip /\ time[result] <= timestamp

Increasing == \A h, g \in Low .. Tip : h < g => time[h] < time[g]

\* When block times increase strictly, the result is the latest block that is
\* not later than the timestamp (or Low, when there is none from Low on).
LatestWhenIncreasing ==
  pc = "ok" /\ Low <= Tip /\ Increasing =>
    /\ result \in Low .. Tip
    /\ time[result] <= timestamp \/ result = Low
    /\ \A h \in result + 1 .. Tip : time[h] > timestamp

\* The search ends: interpolation always makes the bracket smaller.
Terminates == <>(pc \in {"ok", "err"})
=============================================================================
