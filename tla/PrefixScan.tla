----------------------------- MODULE PrefixScan -----------------------------
(***************************************************************************)
(* What a scan of the block range First..Last promises its caller, whatever *)
(* it does inside: results are delivered for ever longer prefixes of the    *)
(* range, never with a gap and never twice, and the scan ends in exactly    *)
(* one of two ways, "ok" only when the whole range has been delivered.      *)
(* The abstract specification that RetrySync implements (run_sync,          *)
(* crates/zcash-sync/src/sync.rs).                                          *)
(***************************************************************************)
EXTENDS Integers

CONSTANTS First,   \* the first block height of the scan
          Last     \* the last one, inclusive

VARIABLES upto,    \* the lowest height whose results are not delivered yet
          outcome  \* "running", "ok" or "err"

vars == <<upto, outcome>>

Init == upto = First /\ outcome = "running"

\* The results of the next one or more blocks are delivered, in order.
Deliver ==
  /\ outcome = "running"
  /\ \E n \in upto + 1 .. Last + 1 : upto' = n
  /\ UNCHANGED outcome

Succeed ==
  /\ outcome = "running"
  /\ upto = Last + 1
  /\ outcome' = "ok"
  /\ UNCHANGED upto

\* The scan gives up; what was delivered stays delivered.
GiveUp ==
  /\ outcome = "running"
  /\ outcome' = "err"
  /\ UNCHANGED upto

Next == Deliver \/ Succeed \/ GiveUp

SafeSpec == Init /\ [][Next]_vars
Spec == SafeSpec /\ WF_vars(Next)
=============================================================================
