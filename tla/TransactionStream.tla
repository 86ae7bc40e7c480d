-------------------------- MODULE TransactionStream -------------------------
(***************************************************************************)
(* start_sync and the TransactionStream object of                           *)
(* crates/zcash-ffi-node/src/lib.rs.  A background tokio task runs run_sync *)
(* and sends each transaction on an unbounded channel and the final result  *)
(* on a oneshot channel; the JavaScript caller interleaves next(), stats()  *)
(* and cancel() with it as it likes.  run_sync is seen here as a number of  *)
(* sub-scans, each an await followed by a burst of on_transaction calls     *)
(* that contains none (Phase 6): RetrySync and ScanRange have the rest.     *)
(***************************************************************************)
EXTENDS Integers, Sequences, SequencesExt

CONSTANTS Batches,    \* the number of transactions each sub-scan reports
          MaxRetries  \* params.max_retries, None being 0

ASSUME StreamAssumption ==
  /\ Batches \in Seq(Nat) /\ Batches # <<>>
  /\ MaxRetries \in Nat

VARIABLES
  task,       \* "await", "emit", "returned", "done" or "aborted"
  batch,      \* the sub-scan the task is in
  left,       \* its transactions still to be sent
  failures,   \* the transient errors of this sub-scan so far
  result,     \* what run_sync returned: "none", "ok" or "err"
  abort,      \* JoinHandle::abort was called
  buffer,     \* the channel
  closed,     \* rx.close() was called
  oneshot,    \* "empty", "ok", "err" or "dropped"
  handle,     \* task_handle is Some
  nextCall,   \* "idle" or "pending"
  received,   \* the transactions next() has returned
  ended,      \* next() has returned null
  statsCall,  \* "unused", "pending", or what stats() returned
  accepted    \* history: the transactions that entered the channel

vars == <<task, batch, left, failures, result, abort, buffer, closed, oneshot,
          handle, nextCall, received, ended, statsCall, accepted>>
taskVars == <<task, batch, left, failures, result>>
callVars == <<handle, nextCall, received, ended, statsCall>>

Total == FoldLeft(LAMBDA x, y : x + y, 0, Batches)

\* tx_sender lives in the future of run_sync.
SenderKept == FALSE  \* mutant: another sender is never dropped
SenderDropped == task \in {"returned", "done", "aborted"}

-----------------------------------------------------------------------------
Init ==
  /\ task = "await" /\ batch = 1 /\ left = 0 /\ failures = 0 /\ result = "none"
  /\ abort = FALSE
  /\ buffer = <<>> /\ closed = FALSE /\ accepted = <<>>
  /\ oneshot = "empty"
  /\ handle = TRUE
  /\ nextCall = "idle" /\ received = <<>> /\ ended = FALSE
  /\ statsCall = "unused"

(***************************************************************************)
(* The task.  It can be aborted only where it awaits: a poll that has begun *)
(* runs to its next await whatever cancel() does meanwhile.                 *)
(***************************************************************************)
\* The awaited sub-scan succeeds; what it found is sent from here on.
ScanSucceeds ==
  /\ task = "await" /\ ~abort
  /\ task' = "emit"
  /\ left' = Batches[batch]
  /\ UNCHANGED <<batch, failures, result, abort, buffer, closed, oneshot,
                 accepted, callVars>>

\* A transient error, retried.
ScanRetries ==
  /\ task = "await" /\ ~abort
  /\ failures < MaxRetries
  /\ failures' = failures + 1
  /\ UNCHANGED <<task, batch, left, result, abort, buffer, closed, oneshot,
                 accepted, callVars>>

\* A transient error with no retries left, or another error: run_sync returns
\* Err.  (The sub-scans have blocks enough to be split as often as allowed.)
ScanFails ==
  /\ task = "await" /\ ~abort
  /\ task' = "returned"
  /\ result' = "err"
  /\ UNCHANGED <<batch, left, failures, abort, buffer, closed, oneshot,
                 accepted, callVars>>

\* on_transaction: the send fails silently once the receiver is closed.
SendTransaction ==
  /\ task = "emit" /\ left > 0
  /\ left' = left - 1
  /\ LET tx == <<batch, Batches[batch] - left + 1>> IN
     IF closed THEN UNCHANGED <<buffer, accepted>>
     ELSE buffer' = Append(buffer, tx) /\ accepted' = Append(accepted, tx)
  /\ UNCHANGED <<task, batch, failures, result, abort, closed, oneshot, callVars>>

\* The burst is over: the next sub-scan, or Ok from run_sync without an await.
BatchSent ==
  /\ task = "emit" /\ left = 0
  /\ IF batch < Len(Batches)
     THEN task' = "await" /\ batch' = batch + 1 /\ failures' = 0 /\ UNCHANGED result
     ELSE task' = "returned" /\ result' = "ok" /\ UNCHANGED <<batch, failures>>
  /\ UNCHANGED <<left, abort, buffer, closed, oneshot, accepted, callVars>>

\* result_sender.send(result); tx_sender was dropped with the future before it.
SendResult ==
  /\ task = "returned"
  /\ task' = "done"
  /\ oneshot' = IF result = "ok" THEN "ok" ELSE "err"
  /\ UNCHANGED <<batch, left, failures, result, abort, buffer, closed, accepted,
                 callVars>>

\* The runtime drops an aborted task, and both its senders, at its await.
TaskAborted ==
  /\ task = "await" /\ abort
  /\ task' = "aborted"
  /\ oneshot' = "dropped"
  /\ UNCHANGED <<batch, left, failures, result, abort, buffer, closed, accepted,
                 callVars>>

TaskStep ==
  \/ ScanSucceeds \/ ScanRetries \/ ScanFails
  \/ SendTransaction \/ BatchSent \/ SendResult \/ TaskAborted

(***************************************************************************)
(* The methods of the stream.                                               *)
(***************************************************************************)
CallNext ==
  /\ nextCall = "idle"
  /\ nextCall' = "pending"
  /\ UNCHANGED <<taskVars, abort, buffer, closed, oneshot, accepted, handle,
                 received, ended, statsCall>>

\* rx.recv() yields what is buffered, and null once it is empty and no more can
\* come.
NextReturns ==
  /\ nextCall = "pending"
  /\ \/ /\ buffer # <<>>
        /\ received' = Append(received, Head(buffer))
        /\ buffer' = Tail(buffer)
        /\ UNCHANGED ended
     \/ /\ buffer = <<>>
        /\ closed \/ SenderDropped
        /\ ended' = TRUE
        /\ UNCHANGED <<received, buffer>>
  /\ nextCall' = "idle"
  /\ UNCHANGED <<taskVars, abort, closed, oneshot, accepted, handle, statsCall>>

\* Mutant: the receiver is dropped with what it holds.
CancelDropsBuffer ==
  /\ handle' = FALSE
  /\ abort' = (abort \/ handle)
  /\ closed' = TRUE
  /\ buffer' = <<>>
  /\ UNCHANGED <<taskVars, oneshot, accepted, nextCall, received, ended, statsCall>>

\* Mutant: the receiver is closed and the task goes on.
CancelClosesOnly ==
  /\ handle' = FALSE
  /\ closed' = TRUE
  /\ UNCHANGED <<taskVars, abort, buffer, oneshot, accepted, nextCall, received, ended,
                 statsCall>>

\* cancel(): the handle is taken and aborted, the receiver is closed.
Cancel ==
  /\ handle' = FALSE
  /\ abort' = (abort \/ handle)
  /\ closed' = TRUE
  /\ UNCHANGED <<taskVars, buffer, oneshot, accepted, nextCall, received, ended,
                 statsCall>>

\* stats(): result_rx is taken; another call is refused at once.
CallStats ==
  /\ statsCall = "unused"
  /\ statsCall' = "pending"
  /\ UNCHANGED <<taskVars, abort, buffer, closed, oneshot, accepted, handle,
                 nextCall, received, ended>>

StatsReturns ==
  /\ statsCall = "pending"
  /\ oneshot # "empty"
  /\ statsCall' = oneshot
  /\ UNCHANGED <<taskVars, abort, buffer, closed, oneshot, accepted, handle,
                 nextCall, received, ended>>

Next ==
  \/ TaskStep
  \/ CallNext \/ NextReturns
  \/ Cancel
  \/ CallStats \/ StatsReturns

\* The runtime polls the task and wakes the pending calls; nothing makes the
\* caller call.
Fairness ==
  /\ WF_vars(TaskStep)
  /\ WF_vars(NextReturns)
  /\ WF_vars(StatsReturns)

Spec == Init /\ [][Next]_vars /\ Fairness

-----------------------------------------------------------------------------
(* Properties *)

\* The caller receives, in order and once each, the transactions that entered
\* the channel, those sent before a cancel() included; the rest are buffered. Once
\* next() has returned null, all have been received and none follows.
NothingLostInChannel ==
  /\ received \o buffer = accepted
  /\ ended => received = accepted

\* Statistics mean that every transaction of the scan has been delivered to the caller
\* or waits for it in the channel. A cancel() may come too late to abort the task, once
\* its last await is over, and still close the channel: then only transactions of the
\* last sub-scan are missing.
StatsOkComplete ==
  statsCall = "ok" =>
    /\ ~closed => Len(accepted) = Total
    /\ Len(accepted) >= Total - Batches[Len(Batches)]

\* A pending next() returns, with a transaction or with null, whatever happens
\* to the scan: it completes, fails or is cancelled. A pending stats() returns
\* too, also when the task it waits for is aborted.
CallsReturn ==
  /\ (nextCall = "pending") ~> (nextCall = "idle")
  /\ (statsCall = "pending") ~> (statsCall # "pending")

=============================================================================
