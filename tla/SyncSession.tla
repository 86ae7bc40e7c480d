---------------------------- MODULE SyncSession -----------------------------
(***************************************************************************)
(* run_sync with what its sub-scans find: RetrySync, whose successful       *)
(* run_sync_inner calls report what ScanRange is proved to (ScanReports of  *)
(* ShieldedChain).  Every sub-scan gets a clone of the caller's params,     *)
(* known_nullifiers included.                                               *)
(***************************************************************************)
EXTENDS RetrySync, ShieldedChain

VARIABLES
  report,       \* combined.transactions, and what on_transaction was called with
  reportKnown   \* combined.spent_known_nullifiers

sessionVars == <<vars, chainVars, report, reportKnown>>

-----------------------------------------------------------------------------
\* run_sync is called for lo..hi: nothing is scanned yet. (RetrySync, whose range
\* never changes, starts with the whole of it.)
SessionInit(lo, hi) ==
  /\ current = [s |-> lo, e |-> hi, attempts |-> 0]
  /\ queue = <<current>>
  /\ status = "idle"
  /\ combined = <<>> /\ requests = 0
  /\ report = <<>> /\ reportKnown = {}

\* Ok(result): the results are appended.
SessionScanSucceeds ==
  /\ ScanSucceeds
  /\ \E rows \in ScanReports(current.s, current.e) : report' = report \o rows
  /\ reportKnown' = reportKnown \cup ScanReportKnown(current.s, current.e)

\* Mutant: a failing scan reports what it has found so far.
FailureReports ==
  /\ ScanTimesOut \/ ScanFails
  /\ \E n \in 0 .. BlockCount(current) :
       \E rows \in ScanReports(current.s, current.s + n - 1) : report' = report \o rows
  /\ UNCHANGED reportKnown

\* A failing scan reports nothing.
SessionScanFails ==
  /\ ScanTimesOut \/ ScanFails
  /\ UNCHANGED <<report, reportKnown>>

SessionOther ==
  /\ PopRange \/ Split \/ CannotSplit \/ Finish
  /\ UNCHANGED <<report, reportKnown>>

SessionNext ==
  /\ SessionScanSucceeds \/ SessionScanFails \/ SessionOther
  /\ UNCHANGED chainVars
=============================================================================
