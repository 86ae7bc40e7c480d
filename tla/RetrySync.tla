----------------------------- MODULE RetrySync ------------------------------
(***************************************************************************)
(* run_sync of crates/zcash-sync/src/sync.rs: the work queue that scans a   *)
(* block range with run_sync_inner, splits a range in two when its scan     *)
(* fails with a transient error, and gives up on any other error.           *)
(* What one run_sync_inner call does is abstracted to its outcome; module   *)
(* ScanRange models the call itself and SyncSession puts the two together.  *)
(***************************************************************************)
EXTENDS Integers, Sequences

CONSTANTS StartHeight,  \* params.start_height
          EndHeight,    \* params.end_height (inclusive)
          MaxRetries    \* params.max_retries, None being 0

ASSUME RetryAssumption ==
  /\ StartHeight \in Nat
  /\ EndHeight \in Nat
  /\ StartHeight <= EndHeight
  /\ MaxRetries \in Nat

VARIABLES
  queue,     \* the VecDeque of (s, e, attempts)
  current,   \* the entry popped last
  status,    \* where the task is: see Status
  combined,  \* the entries whose result was appended to `combined`, in order
  requests   \* the number of run_sync_inner calls so far

vars == <<queue, current, status, combined, requests>>

Entry == [s : Nat, e : Nat, attempts : Nat]
Status == {"idle", "scanning", "backoff", "ok", "err"}
Whole == [s |-> StartHeight, e |-> EndHeight, attempts |-> 0]

BlockCount(r) == r.e - r.s + 1

(***************************************************************************)
(* The two halves of a range of at least two blocks, lower half first.      *)
(***************************************************************************)
MidAtEnd(r) == r.e - 1                        \* mutant: peels one block off
Mid(r) == r.s + BlockCount(r) \div 2 - 1
LowerCountsDown(r) == [s |-> r.s, e |-> Mid(r), attempts |-> r.attempts - 1]  \* mutant
Lower(r) == [s |-> r.s, e |-> Mid(r), attempts |-> r.attempts + 1]
UpperOverlaps(r) == [s |-> Mid(r), e |-> r.e, attempts |-> r.attempts + 1]    \* mutant
Upper(r) == [s |-> Mid(r) + 1, e |-> r.e, attempts |-> r.attempts + 1]
Halves(r) == <<Lower(r), Upper(r)>>

-----------------------------------------------------------------------------
(* With MaxRetries = 0 the code calls run_sync_inner directly; the queue of  *)
(* one entry that may never be retried has the same outcomes.                *)
Init ==
  /\ queue = <<Whole>>
  /\ current = Whole
  /\ status = "idle"
  /\ combined = <<>>
  /\ requests = 0

\* queue.pop_front() and the call of run_sync_inner on the popped range.
PopRange ==
  /\ status = "idle"
  /\ queue # <<>>
  /\ current' = Head(queue)
  /\ queue' = Tail(queue)
  /\ status' = "scanning"
  /\ requests' = requests + 1
  /\ UNCHANGED combined

\* Ok(result): its transactions and counters are appended to `combined`.
ScanSucceeds ==
  /\ status = "scanning"
  /\ combined' = Append(combined, current)
  /\ status' = "idle"
  /\ UNCHANGED <<queue, current, requests>>

MayRetry(r) == r.attempts < MaxRetries

\* 2u64.pow(attempts), the seconds of a backoff.
Pow2[n \in Nat] == IF n = 0 THEN 1 ELSE 2 * Pow2[n - 1]

\* A retryable error with attempts left: sleep 2^attempts seconds.
ScanTimesOut ==
  /\ status = "scanning"
  /\ MayRetry(current)
  /\ status' = "backoff"
  /\ UNCHANGED <<queue, current, combined, requests>>

\* Any other error, or a retryable one with no attempts left.
ScanFails ==
  /\ status = "scanning"
  /\ status' = "err"
  /\ UNCHANGED <<queue, current, combined, requests>>

\* Mutants: a range of one block is split too; a range of two is not; the halves
\* go to the back.
SplitAny ==
  /\ status = "backoff"
  /\ queue' = Halves(current) \o queue
  /\ status' = "idle"
  /\ UNCHANGED <<current, combined, requests>>
SplitOverTwo ==
  /\ status = "backoff"
  /\ BlockCount(current) > 2
  /\ queue' = Halves(current) \o queue
  /\ status' = "idle"
  /\ UNCHANGED <<current, combined, requests>>
SplitToBack ==
  /\ status = "backoff"
  /\ BlockCount(current) > 1
  /\ queue' = queue \o Halves(current)
  /\ status' = "idle"
  /\ UNCHANGED <<current, combined, requests>>

\* The sleep is over and the range has at least two blocks: both halves go to
\* the front of the queue, to be processed before the other pending ranges.
Split ==
  /\ status = "backoff"
  /\ BlockCount(current) > 1
  /\ queue' = Halves(current) \o queue
  /\ status' = "idle"
  /\ UNCHANGED <<current, combined, requests>>

\* The sleep is over and the range is a single block: the scan gives up.
CannotSplit ==
  /\ status = "backoff"
  /\ BlockCount(current) <= 1
  /\ status' = "err"
  /\ UNCHANGED <<queue, current, combined, requests>>

\* The queue is empty: Ok(combined).
Finish ==
  /\ status = "idle"
  /\ queue = <<>>
  /\ status' = "ok"
  /\ UNCHANGED <<queue, current, combined, requests>>

Next ==
  \/ PopRange
  \/ ScanSucceeds
  \/ ScanTimesOut
  \/ ScanFails
  \/ Split
  \/ CannotSplit
  \/ Finish

\* Every await of the task ends: the sleep does, and the caller of the scan is
\* told of success or failure (a dropped connection is an error of the stream).
Spec == Init /\ [][Next]_vars /\ WF_vars(Next)

-----------------------------------------------------------------------------
(* Properties *)

\* Every variable has the type of its counterpart in run_sync.
TypeOK ==
  /\ queue \in Seq(Entry)
  /\ current \in Entry
  /\ status \in Status
  /\ combined \in Seq(Entry)
  /\ requests \in Nat

\* The ranges still to be scanned, in the order they will be.
pending == IF status \in {"idle", "ok"} THEN queue ELSE <<current>> \o queue

\* The lowest height that `combined` does not hold yet.
NextHeight ==
  IF combined = <<>> THEN StartHeight ELSE combined[Len(combined)].e + 1

NonEmpty(r) == r.s <= r.e

Adjacent(rs) == \A i \in 1 .. Len(rs) - 1 : rs[i].e + 1 = rs[i + 1].s

\* The ranges of rs are non-empty and tile from..to, in order.
Covers(from, rs, to) ==
  /\ \A i \in 1 .. Len(rs) : NonEmpty(rs[i])
  /\ Adjacent(rs)
  /\ IF rs = <<>> THEN from = to + 1
     ELSE rs[1].s = from /\ rs[Len(rs)].e = to

\* However the range was split and whichever halves have been scanned, the
\* scanned ranges tile a prefix of StartHeight..EndHeight and the pending ones
\* tile the rest of it, both in order: no block is skipped, none is scanned
\* twice and `combined` stays sorted by height without a sort.
Partition ==
  /\ \A i \in 1 .. Len(combined) : NonEmpty(combined[i])
  /\ Adjacent(combined)
  /\ combined # <<>> => combined[1].s = StartHeight
  /\ Covers(NextHeight, pending, EndHeight)

\* No range is ever retried more than MaxRetries times.
AttemptsBounded == \A i \in 1 .. Len(pending) : pending[i].attempts <= MaxRetries

Blocks == EndHeight - StartHeight + 1

\* A scan never issues more requests than a full binary tree over its blocks
\* has nodes: however its sub-scans fail, the retries of run_sync are bounded.
RequestsWithinBlocks == requests <= 2 * Blocks - 1

\* 2u64.pow(attempts) never overflows however large max_retries is, because
\* halving ends: the backoff of any range is below twice the number of blocks.
BackoffFits(r) ==
  /\ (BlockCount(r) - 1) * Pow2[r.attempts] <= Blocks - 1
  /\ r.attempts > 0 => Pow2[r.attempts] <= 2 * (Blocks - 1)
BackoffBounded == \A i \in 1 .. Len(pending) : BackoffFits(pending[i])

\* run_sync as its caller sees it: see PrefixScan.
Outcome == IF status \in {"ok", "err"} THEN status ELSE "running"
Promise == INSTANCE PrefixScan WITH
             First <- StartHeight, Last <- EndHeight,
             upto <- NextHeight, outcome <- Outcome

\* run_sync delivers growing prefixes of the range and ends, with Ok only when
\* the prefix is the whole range: it implements the abstract scan.
ImplementsPrefixScan == Promise!Spec

\* Every scan ends, with a result or with an error.
Terminates == <>(status \in {"ok", "err"})

=============================================================================
