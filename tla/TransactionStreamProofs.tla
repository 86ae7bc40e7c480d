----------------------- MODULE TransactionStreamProofs -----------------------
(***************************************************************************)
(* Proofs about TransactionStream, for every number and size of batches and *)
(* every number of retries: the channel loses nothing, before and after a   *)
(* cancel(), and statistics mean that everything was sent, or all but the   *)
(* last batch after a cancel().                                             *)
(***************************************************************************)
EXTENDS TransactionStream, SequenceTheorems, FoldLemmas

USE StreamAssumption

\* What is sent on the channel: the batch, and the place in it.
Sent == Int \X Int

\* The types of the stream. The batch the task is in is one of the scan's, and it
\* never has more left to send than the batch holds.
Types ==
  /\ task \in {"await", "emit", "returned", "done", "aborted"}
  /\ batch \in 1 .. Len(Batches) /\ left \in 0 .. Batches[batch]
  /\ result \in {"none", "ok", "err"}
  /\ closed \in BOOLEAN /\ ended \in BOOLEAN /\ abort \in BOOLEAN /\ handle \in BOOLEAN
  /\ oneshot \in {"empty", "ok", "err", "dropped"}
  /\ statsCall \in {"unused", "pending", "ok", "err", "dropped"}
  /\ buffer \in Seq(Sent) /\ received \in Seq(Sent) /\ accepted \in Seq(Sent)

\* Once next() has returned null, the channel is empty and nothing can enter it.
EndedForGood == ended => buffer = <<>> /\ (closed \/ SenderDropped)

ChannelInv == Types /\ NothingLostInChannel /\ EndedForGood

\* The transactions of the first k batches.
IsPrefixSums(p) ==
  /\ p[0] = 0 /\ p[Len(Batches)] = Total
  /\ \A k \in 1 .. Len(Batches) : p[k] = p[k - 1] + Batches[k]
Through == CHOOSE p \in [0 .. Len(Batches) -> Nat] : IsPrefixSums(p)

\* While nobody cancels, what entered the channel is what the task has sent: all
\* batches before this one, and this one but for what is left of it. The result of
\* the task exists from its return on, and travels to stats() as it is.
SendsAll ==
  ~closed => /\ task = "await" => Len(accepted) = Through[batch - 1]
             /\ task = "emit" => Len(accepted) + left = Through[batch]
             /\ result = "ok" => Len(accepted) = Total

\* Once somebody has cancelled, no further batch begins: of the one that was being sent,
\* and of the last one when the task returned, only what follows the cancel() is lost.
SendsMost ==
  /\ closed => abort
  /\ ~handle => abort
  /\ closed => /\ task = "emit" => Len(accepted) >= Through[batch - 1]
               /\ result = "ok" => Len(accepted) >= Through[Len(Batches) - 1]
ResultTravels ==
  /\ result # "none" => task \in {"returned", "done"}
  /\ oneshot = "ok" => result = "ok"
  /\ statsCall = "ok" => oneshot = "ok"

StatsInv == Types /\ SendsAll /\ SendsMost /\ ResultTravels

-----------------------------------------------------------------------------
(* Sequences and sums *)

\* Sending at one end of the channel adds to what both ends hold together.
LEMMA SendingAppends ==
  ASSUME NEW r \in Seq(Sent), NEW b \in Seq(Sent), NEW x \in Sent
  PROVE  r \o Append(b, x) = Append(r \o b, x)
<1>1. <<x>> \in Seq(Sent) /\ r \o b \in Seq(Sent)
  BY ConcatProperties
<1>2. r \o Append(b, x) = r \o (b \o <<x>>)
  BY AppendIsConcat
<1>3. (r \o b) \o <<x>> = r \o (b \o <<x>>)
  BY SMTT(20), <1>1, ConcatAssociative
<1>4. QED
  BY <1>1, <1>2, <1>3, AppendIsConcat

\* Receiving at the other end keeps it.
LEMMA ReceivingKeeps ==
  ASSUME NEW r \in Seq(Sent), NEW b \in Seq(Sent), b # <<>>
  PROVE  /\ Head(b) \in Sent /\ Tail(b) \in Seq(Sent)
         /\ Append(r, Head(b)) \in Seq(Sent)
         /\ Append(r, Head(b)) \o Tail(b) = r \o b
<1>1. Head(b) \in Sent /\ Tail(b) \in Seq(Sent) /\ <<Head(b)>> \in Seq(Sent)
  BY HeadTailProperties
<1>2. b = <<Head(b)>> \o Tail(b)
  <2>1. SubSeq(b, 1, Len(b)) = b /\ Tail(b) = SubSeq(b, 2, Len(b)) /\ b[1] = Head(b)
    BY SubSeqFull, TailIsSubSeq
  <2>2. Len(b) \in Nat /\ Len(b) >= 1
    BY EmptySeq
  <2>3. SubSeq(b, 1, Len(b)) = <<b[1]>> \o SubSeq(b, 1 + 1, Len(b))
    BY <2>2, SubSeqRecursiveFirst
  <2>4. QED
    BY <2>1, <2>3
<1>3. Append(r, Head(b)) = r \o <<Head(b)>> /\ Append(r, Head(b)) \in Seq(Sent)
  BY <1>1, AppendIsConcat, AppendProperties
<1>4. (r \o <<Head(b)>>) \o Tail(b) = r \o (<<Head(b)>> \o Tail(b))
  BY <1>1, ConcatAssociative
<1>5. QED
  BY <1>1, <1>2, <1>3, <1>4

\* Through gives the sums of the batches.
LEMMA ThroughIsPrefixSums ==
  Through \in [0 .. Len(Batches) -> Nat] /\ IsPrefixSums(Through)
<1>1. Total = SumOf(Batches)
  BY DEF Total, SumOf
<1>2. \E p \in [0 .. Len(Batches) -> Nat] : IsPrefixSums(p)
  BY <1>1, PrefixSums DEF IsPrefixSums
<1>3. QED
  BY <1>2 DEF Through

-----------------------------------------------------------------------------
(* The channel *)

\* The scan has a first batch, and every batch a size.
LEMMA BatchSizes ==
  Len(Batches) \in Nat /\ Len(Batches) >= 1 /\ \A k \in 1 .. Len(Batches) : Batches[k] \in Nat
BY EmptySeq, ElementOfSeq

\* The types hold before the scan and after every step.
LEMMA InitTypes == Init => Types
<1> SUFFICES ASSUME Init PROVE Types
  OBVIOUS
<1>1. 1 \in 1 .. Len(Batches) /\ Batches[1] \in Nat /\ 0 \in 0 .. Batches[1]
  BY BatchSizes
<1>2. <<>> \in Seq(Sent)
  BY EmptySeq
<1>3. /\ task = "await" /\ batch = 1 /\ left = 0 /\ result = "none"
      /\ closed = FALSE /\ ended = FALSE /\ abort = FALSE /\ handle = TRUE
      /\ oneshot = "empty" /\ statsCall = "unused"
      /\ buffer = <<>> /\ received = <<>> /\ accepted = <<>>
  BY DEF Init
<1>4. QED
  BY <1>1, <1>2, <1>3 DEF Types

\* A step of the task or of the caller keeps the types.
LEMMA NextTypes ==
  ASSUME Types, [Next]_vars
  PROVE  Types'
<1> USE BatchSizes DEF Types, taskVars, callVars
<1>1. CASE ScanSucceeds
  BY <1>1 DEF ScanSucceeds
<1>2. CASE ScanRetries
  BY <1>2 DEF ScanRetries
<1>3. CASE ScanFails
  BY <1>3 DEF ScanFails
<1>4. CASE SendTransaction
  <2> DEFINE x == <<batch, Batches[batch] - left + 1>>
  <2>1. x \in Sent
    <3>1. batch \in Int /\ Batches[batch] - left + 1 \in Int
      OBVIOUS
    <3>2. QED
      BY ONLY <3>1 DEF Sent
  <2>2. Append(buffer, x) \in Seq(Sent) /\ Append(accepted, x) \in Seq(Sent)
    BY <2>1, AppendProperties
  <2>3. left - 1 \in 0 .. Batches[batch]
    BY <1>4 DEF SendTransaction
  <2>4. QED
    BY <1>4, <2>2, <2>3 DEF SendTransaction
<1>5. CASE BatchSent
  BY <1>5 DEF BatchSent
<1>6. CASE SendResult
  BY <1>6 DEF SendResult
<1>7. CASE TaskAborted
  BY <1>7 DEF TaskAborted
<1>8. CASE CallNext
  BY <1>8 DEF CallNext
<1>9. CASE NextReturns
  <2>1. /\ UNCHANGED <<task, batch, left, result, abort, closed, oneshot, accepted, handle, statsCall>>
        /\ ended' \in {ended, TRUE}
    BY <1>9 DEF NextReturns
  <2>2. buffer' \in Seq(Sent) /\ received' \in Seq(Sent)
    <3>1. CASE buffer # <<>>
      <4>1. received' = Append(received, Head(buffer)) /\ buffer' = Tail(buffer)
        BY <1>9, <3>1 DEF NextReturns
      <4>2. QED
        BY <3>1, <4>1, ReceivingKeeps
    <3>2. CASE buffer = <<>>
      BY <1>9, <3>2 DEF NextReturns
    <3>3. QED
      BY <3>1, <3>2
  <2>3. /\ task' = task /\ batch' = batch /\ left' = left /\ result' = result
        /\ abort' = abort /\ closed' = closed /\ oneshot' = oneshot /\ handle' = handle
        /\ accepted' = accepted /\ statsCall' = statsCall /\ ended' \in BOOLEAN
    BY <2>1
  <2>4. QED
    BY SMTT(30), <2>2, <2>3
<1>10. CASE Cancel
  BY <1>10 DEF Cancel
<1>11. CASE CallStats
  BY <1>11 DEF CallStats
<1>12. CASE StatsReturns
  BY <1>12 DEF StatsReturns
<1>13. CASE UNCHANGED vars
  BY <1>13 DEF vars
<1>14. QED
  BY <1>1, <1>2, <1>3, <1>4, <1>5, <1>6, <1>7, <1>8, <1>9, <1>10, <1>11, <1>12, <1>13
     DEF Next, TaskStep

\* No step loses, repeats or reorders what is in the channel, and none revives a
\* channel that has ended.
LEMMA NextChannel ==
  ASSUME ChannelInv, [Next]_vars
  PROVE  ChannelInv'
<1>1. Types /\ Types'
  BY NextTypes DEF ChannelInv
<1> USE DEF ChannelInv, NothingLostInChannel, EndedForGood, SenderDropped
<1>2. CASE SendTransaction
  <2> DEFINE x == <<batch, Batches[batch] - left + 1>>
  <2>1. CASE closed
    BY <1>1, <1>2, <2>1 DEF SendTransaction, callVars
  <2>2. CASE ~closed
    <3>1. x \in Sent
      <4>1. Batches[batch] \in Nat /\ batch \in Int /\ left \in Int
        BY <1>1, BatchSizes DEF Types
      <4>2. QED
        BY <4>1 DEF Sent
    <3>2. received \o Append(buffer, x) = Append(received \o buffer, x)
      <4>1. received \in Seq(Sent) /\ buffer \in Seq(Sent)
        BY <1>1 DEF Types
      <4> HIDE DEF x
      <4>2. QED
        BY ONLY <3>1, <4>1, SendingAppends
    <3>3. ~ended /\ ~ended'
      BY <1>2, <2>2 DEF SendTransaction, callVars
    <3>4. QED
      BY <1>1, <1>2, <2>2, <3>2, <3>3 DEF SendTransaction, callVars
  <2>3. QED
    BY <2>1, <2>2
<1>3. CASE NextReturns
  <2>1. CASE buffer # <<>>
    <3>1. Append(received, Head(buffer)) \o Tail(buffer) = received \o buffer
      BY <1>1, <2>1, ReceivingKeeps DEF Types
    <3>2. ~ended
      BY <2>1
    <3>3. /\ received' = Append(received, Head(buffer)) /\ buffer' = Tail(buffer)
          /\ accepted' = accepted /\ ended' = ended
      BY <1>3, <2>1 DEF NextReturns
    <3>4. received' \o buffer' = accepted'
      BY <3>1, <3>3
    <3>5. QED
      BY <1>1, <3>2, <3>3, <3>4
  <2>2. CASE buffer = <<>>
    <3>1. received \o <<>> = received
      BY <1>1, ConcatEmptySeq DEF Types
    <3>2. QED
      BY <1>1, <1>3, <2>2, <3>1 DEF NextReturns, taskVars
  <2>3. QED
    BY <2>1, <2>2
<1>4. CASE /\ UNCHANGED <<buffer, accepted, received, ended>>
           /\ closed => closed'
           /\ task \in {"returned", "done", "aborted"} => task' \in {"returned", "done", "aborted"}
  BY <1>1, <1>4
<1>5. ASSUME ~SendTransaction, ~NextReturns
      PROVE  /\ UNCHANGED <<buffer, accepted, received, ended>>
             /\ closed => closed'
             /\ task \in {"returned", "done", "aborted"} => task' \in {"returned", "done", "aborted"}
  BY <1>5 DEF Next, TaskStep, vars, taskVars, callVars, ScanSucceeds, ScanRetries, ScanFails,
     BatchSent, SendResult, TaskAborted, CallNext, Cancel, CallStats, StatsReturns
<1>6. QED
  BY <1>2, <1>3, <1>4, <1>5

\* The channel is lossless in every reachable state.
LEMMA ChannelInvariant == Spec => []ChannelInv
<1>1. Init => ChannelInv
  <2> SUFFICES ASSUME Init PROVE ChannelInv
    OBVIOUS
  <2>1. received = <<>> /\ buffer = <<>> /\ accepted = <<>> /\ ~ended
    BY DEF Init
  <2>2. <<>> \o <<>> = <<>>
    BY EmptySeq, ConcatEmptySeq
  <2>3. QED
    BY <2>1, <2>2, InitTypes DEF ChannelInv, NothingLostInChannel, EndedForGood
<1>2. QED
  BY <1>1, NextChannel, PTL DEF Spec

\* Whatever the interleaving of the task, next(), stats() and cancel(), the caller
\* receives exactly what entered the channel, in order, and null only at its end.
THEOREM ChannelLossless == Spec => []NothingLostInChannel
BY ChannelInvariant, PTL DEF ChannelInv

-----------------------------------------------------------------------------
(* The statistics *)

\* The invariant holds before the scan.
LEMMA InitStats == Init => StatsInv
<1> SUFFICES ASSUME Init PROVE StatsInv
  OBVIOUS
<1>1. task = "await" /\ batch = 1 /\ result = "none" /\ oneshot = "empty"
      /\ statsCall = "unused" /\ accepted = <<>> /\ ~closed /\ handle
  BY DEF Init
<1>2. Through[1 - 1] = 0
  BY ThroughIsPrefixSums DEF IsPrefixSums
<1>3. Len(accepted) = 0
  BY <1>1
<1>4. SendsAll /\ SendsMost
  BY <1>1, <1>2, <1>3 DEF SendsAll, SendsMost
<1>5. QED
  BY <1>1, <1>4, InitTypes DEF StatsInv, ResultTravels

\* The numbers of the batch the task is in.
LEMMA BatchNumbers ==
  ASSUME Types
  PROVE  /\ Len(Batches) \in Nat /\ batch \in 1 .. Len(Batches) /\ Batches[batch] \in Nat
         /\ left \in 0 .. Batches[batch] /\ Len(accepted) \in Nat
         /\ Through[batch] \in Nat /\ Through[batch - 1] \in Nat
         /\ Through[batch] = Through[batch - 1] + Batches[batch]
         /\ Through[Len(Batches)] = Total /\ Total \in Nat
         /\ Batches[Len(Batches)] \in Nat /\ Through[Len(Batches) - 1] \in Nat
         /\ Total = Through[Len(Batches) - 1] + Batches[Len(Batches)]
<1>1. /\ Len(Batches) \in Nat /\ Len(Batches) >= 1 /\ batch \in 1 .. Len(Batches)
      /\ \A k \in 1 .. Len(Batches) : Batches[k] \in Nat
      /\ left \in 0 .. Batches[batch] /\ Len(accepted) \in Nat
  BY BatchSizes, LenProperties DEF Types
<1>2. /\ Through \in [0 .. Len(Batches) -> Nat] /\ Through[Len(Batches)] = Total
      /\ \A k \in 1 .. Len(Batches) : Through[k] = Through[k - 1] + Batches[k]
  BY ONLY ThroughIsPrefixSums DEF IsPrefixSums
<1>3. ASSUME NEW k \in 1 .. Len(Batches)
      PROVE  /\ Through[k] \in Nat /\ Through[k - 1] \in Nat /\ Batches[k] \in Nat
             /\ Through[k] = Through[k - 1] + Batches[k]
  <2>1. k \in 0 .. Len(Batches) /\ k - 1 \in 0 .. Len(Batches)
    BY <1>1
  <2>2. Through[k] \in Nat /\ Through[k - 1] \in Nat
    BY ONLY <1>2, <2>1
  <2>3. QED
    BY <1>1, <1>2, <2>2
<1>4. Len(Batches) \in 1 .. Len(Batches)
  BY <1>1
<1>5. QED
  BY <1>1, <1>2, <1>3, <1>4

\* No step that happens without a cancel() skips a transaction.
LEMMA NextSendsAll ==
  ASSUME StatsInv, [Next]_vars, Types'
  PROVE  SendsAll'
<1> SUFFICES ASSUME ~closed' PROVE SendsAll'
  BY DEF SendsAll
<1>1. Types /\ SendsAll /\ ResultTravels
  BY DEF StatsInv
<1>2. /\ Len(Batches) \in Nat /\ batch \in 1 .. Len(Batches) /\ Batches[batch] \in Nat
      /\ left \in 0 .. Batches[batch] /\ Len(accepted) \in Nat
      /\ Through[batch] \in Nat /\ Through[batch - 1] \in Nat
      /\ Through[batch] = Through[batch - 1] + Batches[batch]
      /\ Through[Len(Batches)] = Total
  BY <1>1, BatchNumbers
<1>3. CASE ScanSucceeds
  BY <1>1, <1>2, <1>3 DEF ScanSucceeds, SendsAll, ResultTravels, callVars
<1>4. CASE SendTransaction
  <2> DEFINE x == <<batch, Batches[batch] - left + 1>>
  <2>1. ~closed /\ task = "emit" /\ task' = "emit" /\ left' = left - 1 /\ batch' = batch
        /\ result' = result /\ accepted' = Append(accepted, x)
    BY <1>4 DEF SendTransaction, callVars
  <2>2. x \in Sent
    <3>1. batch \in Int /\ Batches[batch] - left + 1 \in Int
      BY ONLY <1>2
    <3>2. QED
      BY <3>1 DEF Sent
  <2>3. Len(accepted') = Len(accepted) + 1
    BY <1>1, <2>1, <2>2, AppendProperties DEF Types
  <2> HIDE DEF x
  <2>4. result # "ok" /\ Len(accepted) + left = Through[batch]
    BY <1>1, <2>1 DEF SendsAll, ResultTravels
  <2>5. QED
    BY <1>2, <2>1, <2>3, <2>4 DEF SendsAll
<1>5. CASE BatchSent
  <2>1. ~closed /\ accepted' = accepted /\ task = "emit" /\ left = 0
    BY <1>5 DEF BatchSent, callVars
  <2>2. Len(accepted) = Through[batch] /\ result # "ok"
    BY <1>1, <1>2, <2>1 DEF SendsAll, ResultTravels
  <2>3. CASE batch < Len(Batches)
    <3>1. task' = "await" /\ batch' = batch + 1 /\ result' = result
      BY <1>5, <2>3 DEF BatchSent
    <3>2. QED
      BY <1>2, <2>1, <2>2, <3>1 DEF SendsAll
  <2>4. CASE ~(batch < Len(Batches))
    <3>1. task' = "returned" /\ batch = Len(Batches)
      BY <1>2, <1>5, <2>4 DEF BatchSent
    <3>2. QED
      BY <1>2, <2>1, <2>2, <3>1 DEF SendsAll
  <2>5. QED
    BY <2>3, <2>4
<1>6. CASE ~ScanSucceeds /\ ~SendTransaction /\ ~BatchSent
  <2>1. /\ UNCHANGED <<accepted, batch, left>> /\ ~closed
        /\ task' = task \/ task' \in {"returned", "done", "aborted"}
        /\ result' = "ok" => result = "ok"
    BY <1>6 DEF Next, TaskStep, vars, taskVars, callVars, ScanRetries, ScanFails, SendResult,
       TaskAborted, CallNext, NextReturns, Cancel, CallStats, StatsReturns
  <2>2. QED
    BY <1>1, <2>1 DEF SendsAll
<1>7. QED
  BY <1>3, <1>4, <1>5, <1>6

\* After a cancel(), no batch begins, so that no transaction of an earlier one is missing.
LEMMA NextSendsMost ==
  ASSUME StatsInv, [Next]_vars, Types'
  PROVE  SendsMost'
<1>1. Types /\ SendsAll /\ SendsMost /\ ResultTravels
  BY DEF StatsInv
<1>2. /\ Len(Batches) \in Nat /\ batch \in 1 .. Len(Batches) /\ Batches[batch] \in Nat
      /\ left \in 0 .. Batches[batch] /\ Len(accepted) \in Nat
      /\ Through[batch] \in Nat /\ Through[batch - 1] \in Nat
      /\ Through[batch] = Through[batch - 1] + Batches[batch]
      /\ Total \in Nat /\ Batches[Len(Batches)] \in Nat /\ Through[Len(Batches) - 1] \in Nat
      /\ Total = Through[Len(Batches) - 1] + Batches[Len(Batches)]
  BY <1>1, BatchNumbers
<1>3. (closed' => abort') /\ (~handle' => abort')
  BY <1>1 DEF SendsMost, Types, Next, TaskStep, vars, taskVars, callVars, ScanSucceeds,
     ScanRetries, ScanFails, SendTransaction, BatchSent, SendResult, TaskAborted,
     CallNext, NextReturns, Cancel, CallStats, StatsReturns
<1> SUFFICES ASSUME closed'
             PROVE  /\ task' = "emit" => Len(accepted') >= Through[batch' - 1]
                    /\ result' = "ok" => Len(accepted') >= Through[Len(Batches) - 1]
  BY <1>3 DEF SendsMost
<1>4. CASE Cancel
  <2>1. UNCHANGED <<task, batch, result, accepted>>
    BY <1>4 DEF Cancel, taskVars
  <2>2. CASE closed
    BY <1>1, <2>1, <2>2 DEF SendsMost
  <2>3. CASE ~closed
    <3>1. /\ task = "emit" => Len(accepted) + left = Through[batch]
          /\ result = "ok" => Len(accepted) = Total
      BY <1>1, <2>3 DEF SendsAll
    <3> DEFINE a == Len(accepted)  b == Batches[batch]  t == Through[batch]  u == Through[batch - 1]
    <3>1a. /\ a \in Nat /\ b \in Nat /\ t \in Nat /\ u \in Nat /\ t = u + b
           /\ left \in Nat /\ left <= b
           /\ task = "emit" => a + left = t
      BY <1>2, <3>1
    <3>1b. task = "emit" => a >= u
      <4> HIDE DEF a, b, t, u
      <4>1. QED
        BY ONLY <3>1a
    <3>2. task = "emit" => Len(accepted) >= Through[batch - 1]
      BY <3>1b
    <3>3. result = "ok" => Len(accepted) >= Through[Len(Batches) - 1]
      BY ONLY <1>2, <3>1
    <3>4. QED
      BY <2>1, <3>2, <3>3
  <2>4. QED
    BY <2>2, <2>3
<1>5. CASE BatchSent
  <2>1. /\ closed /\ accepted' = accepted /\ task = "emit" /\ task' # "emit"
        /\ Len(accepted) >= Through[batch - 1] /\ result # "ok"
    BY <1>1, <1>5 DEF BatchSent, callVars, SendsMost, ResultTravels
  <2>2. result' = "ok" => batch = Len(Batches)
    BY <1>2, <1>5, <2>1 DEF BatchSent
  <2>3. QED
    BY <2>1, <2>2
<1>6. CASE ~Cancel /\ ~BatchSent
  <2>1. ~ScanSucceeds
    BY <1>1, <1>3 DEF ScanSucceeds, callVars, SendsMost
  <2>2. /\ UNCHANGED <<accepted, batch>> /\ closed
        /\ task' = "emit" => task = "emit"
        /\ result' = "ok" => result = "ok"
    BY <1>6, <2>1 DEF Next, TaskStep, vars, taskVars, callVars, ScanRetries, ScanFails,
       SendTransaction, SendResult, TaskAborted, CallNext, NextReturns, CallStats, StatsReturns
  <2>3. QED
    BY <1>1, <2>2 DEF SendsMost
<1>7. QED
  BY <1>4, <1>5, <1>6

\* No step reports another result than that of the task.
LEMMA NextStats ==
  ASSUME StatsInv, [Next]_vars
  PROVE  StatsInv'
<1>1. Types /\ Types' /\ ResultTravels
  BY NextTypes DEF StatsInv
<1>2. ResultTravels'
  BY SMTT(20), <1>1 DEF ResultTravels, Types, Next, TaskStep, vars, taskVars, callVars, ScanSucceeds,
     ScanRetries, ScanFails, SendTransaction, BatchSent, SendResult, TaskAborted,
     CallNext, NextReturns, Cancel, CallStats, StatsReturns
<1>3. QED
  BY <1>1, <1>2, NextSendsAll, NextSendsMost DEF StatsInv

\* Statistics mean, whatever is retried, that the whole scan was sent, or, after a
\* cancel(), all of it but transactions of the last sub-scan.
THEOREM StatsMeanComplete == Spec => []StatsOkComplete
<1>1. Spec => []StatsInv
  BY InitStats, NextStats, PTL DEF Spec
<1>2. StatsInv => StatsOkComplete
  <2> SUFFICES ASSUME StatsInv, statsCall = "ok"
               PROVE  /\ ~closed => Len(accepted) = Total
                      /\ Len(accepted) >= Total - Batches[Len(Batches)]
    BY DEF StatsOkComplete
  <2>1. Types /\ result = "ok"
    BY DEF StatsInv, ResultTravels
  <2>2. /\ ~closed => Len(accepted) = Total
        /\ closed => Len(accepted) >= Through[Len(Batches) - 1]
    BY <2>1 DEF StatsInv, SendsAll, SendsMost
  <2>3. /\ Len(accepted) \in Nat /\ Total \in Nat
        /\ Batches[Len(Batches)] \in Nat /\ Through[Len(Batches) - 1] \in Nat
        /\ Total = Through[Len(Batches) - 1] + Batches[Len(Batches)]
    BY <2>1, BatchNumbers
  <2>4. QED
    BY ONLY <2>2, <2>3
<1>3. QED
  BY <1>1, <1>2, PTL
=============================================================================
