----------------------------- MODULE SyncProofs -----------------------------
(***************************************************************************)
(* Proofs about RetrySync, for every range and every number of retries:     *)
(* its types, the partition of the range, the bounds on attempts, backoffs  *)
(* and requests, and the refinement of PrefixScan.  Then about SyncCallers, *)
(* for every chain, wallet and chunk size: what sessions report and what    *)
(* their callers are left with.                                             *)
(***************************************************************************)
EXTENDS SyncCallers, SequenceTheorems, FoldLemmas

USE RetryAssumption

\* The fields of an entry are natural numbers.
LEMMA EntryFields ==
  ASSUME NEW r \in Entry
  PROVE  r.s \in Nat /\ r.e \in Nat /\ r.attempts \in Nat
BY DEF Entry

\* The halves of a range that can be split tile it and are shorter than it.
LEMMA HalvesProperties ==
  ASSUME NEW r \in Entry, NonEmpty(r), BlockCount(r) > 1
  PROVE  /\ Lower(r) \in Entry /\ Upper(r) \in Entry
         /\ NonEmpty(Lower(r)) /\ NonEmpty(Upper(r))
         /\ Lower(r).s = r.s /\ Lower(r).e + 1 = Upper(r).s /\ Upper(r).e = r.e
         /\ Lower(r).attempts = r.attempts + 1
         /\ Upper(r).attempts = r.attempts + 1
<1>1. /\ BlockCount(r) \in Nat /\ BlockCount(r) \div 2 >= 1
      /\ BlockCount(r) \div 2 < BlockCount(r)
  BY EntryFields DEF BlockCount, NonEmpty
<1>2. Mid(r) \in Nat /\ Mid(r) >= r.s /\ Mid(r) < r.e
  BY <1>1, EntryFields DEF Mid, BlockCount
<1>3. QED
  BY <1>2, EntryFields DEF Lower, Upper, NonEmpty, Entry

\* p is x followed by q.
IsCons(p, x, q) ==
  /\ p \in Seq(Entry)
  /\ Len(p) = Len(q) + 1
  /\ p[1] = x
  /\ \A i \in 1 .. Len(q) : p[i + 1] = q[i]

\* Prepending a one-element sequence, as push_front does, is a cons.
LEMMA ConcatIsCons ==
  ASSUME NEW x \in Entry, NEW q \in Seq(Entry)
  PROVE  IsCons(<<x>> \o q, x, q)
<1>1. <<x>> \in Seq(Entry) /\ Len(<<x>>) = 1 /\ <<x>>[1] = x
  OBVIOUS
<1>2. QED
  BY <1>1, ConcatProperties DEF IsCons

\* A non-empty queue is its head in front of its tail, as pop_front leaves it.
LEMMA TailIsCons ==
  ASSUME NEW p \in Seq(Entry), p # <<>>
  PROVE  IsCons(p, Head(p), Tail(p)) /\ Head(p) \in Entry /\ Tail(p) \in Seq(Entry)
<1>1. Len(p) \in Nat /\ Len(p) >= 1
  OBVIOUS
<1>2. QED
  BY <1>1, HeadTailProperties DEF IsCons

\* A non-empty cover is its first range followed by a cover of the rest.
LEMMA CoversCons ==
  ASSUME NEW x \in Entry, NEW q \in Seq(Entry), NEW from \in Nat, NEW to \in Nat,
         NEW xq, IsCons(xq, x, q)
  PROVE  Covers(from, xq, to)
           <=> x.s = from /\ NonEmpty(x) /\ Covers(x.e + 1, q, to)
<1>1. /\ xq \in Seq(Entry) /\ Len(xq) = Len(q) + 1 /\ xq[1] = x /\ xq # <<>>
      /\ Len(q) \in Nat
      /\ \A i \in 1 .. Len(q) : xq[i + 1] = q[i]
  BY DEF IsCons
<1>2. ASSUME Covers(from, xq, to)
      PROVE  x.s = from /\ NonEmpty(x) /\ Covers(x.e + 1, q, to)
  <2>1. x.s = from /\ NonEmpty(x)
    BY <1>1, <1>2 DEF Covers
  <2>2. \A i \in 1 .. Len(q) : NonEmpty(q[i])
    BY <1>1, <1>2 DEF Covers
  <2>3. Adjacent(q)
    <3> SUFFICES ASSUME NEW i \in 1 .. Len(q) - 1
                 PROVE  q[i].e + 1 = q[i + 1].s
      BY DEF Adjacent
    <3>1. xq[i + 1].e + 1 = xq[i + 2].s
      BY <1>1, <1>2 DEF Covers, Adjacent
    <3>2. QED
      BY <3>1, <1>1
  <2>4. CASE q = <<>>
    BY <1>1, <1>2, <2>1, <2>2, <2>3, <2>4 DEF Covers
  <2>5. CASE q # <<>>
    <3>1. Len(q) >= 1
      BY <2>5
    <3>2. xq[1].e + 1 = xq[2].s /\ xq[2] = q[1] /\ xq[Len(xq)] = q[Len(q)]
      BY <3>1, <1>1, <1>2 DEF Covers, Adjacent
    <3>3. QED
      BY <3>2, <1>1, <1>2, <2>1, <2>2, <2>3, <2>5 DEF Covers
  <2>6. QED
    BY <2>4, <2>5
<1>3. ASSUME x.s = from, NonEmpty(x), Covers(x.e + 1, q, to)
      PROVE  Covers(from, xq, to)
  <2>1. \A i \in 1 .. Len(xq) : NonEmpty(xq[i])
    <3> SUFFICES ASSUME NEW i \in 1 .. Len(xq)
                 PROVE  NonEmpty(xq[i])
      OBVIOUS
    <3>1. CASE i = 1
      BY <3>1, <1>1, <1>3
    <3>2. CASE i # 1
      <4>1. i - 1 \in 1 .. Len(q) /\ xq[i] = q[i - 1]
        BY <3>2, <1>1
      <4>2. QED
        BY <4>1, <1>3 DEF Covers
    <3>3. QED
      BY <3>1, <3>2
  <2>2. Adjacent(xq)
    <3> SUFFICES ASSUME NEW i \in 1 .. Len(xq) - 1
                 PROVE  xq[i].e + 1 = xq[i + 1].s
      BY DEF Adjacent
    <3>1. CASE i = 1
      <4>1. q # <<>> /\ xq[2] = q[1]
        BY <3>1, <1>1
      <4>2. QED
        BY <4>1, <3>1, <1>1, <1>3 DEF Covers
    <3>2. CASE i # 1
      <4>1. i - 1 \in 1 .. Len(q) - 1 /\ xq[i] = q[i - 1] /\ xq[i + 1] = q[i]
        BY <3>2, <1>1
      <4>2. QED
        BY <4>1, <1>3 DEF Covers, Adjacent
    <3>3. QED
      BY <3>1, <3>2
  <2>3. xq[Len(xq)].e = to
    <3>1. CASE q = <<>>
      <4>1. Len(xq) = 1 /\ x.e + 1 = to + 1 /\ x.e \in Nat
        BY <3>1, <1>1, <1>3, EntryFields DEF Covers
      <4>2. QED
        BY <4>1, <1>1
    <3>2. CASE q # <<>>
      BY <3>2, <1>1, <1>3 DEF Covers
    <3>3. QED
      BY <3>1, <3>2
  <2>4. QED
    BY <2>1, <2>2, <2>3, <1>1, <1>3 DEF Covers
<1>4. QED
  BY <1>2, <1>3

-----------------------------------------------------------------------------
(***************************************************************************)
\* The inductive invariant: the partition of the range, the bound on the
\* attempts, and an exact account of the requests, each request being a
\* node of the tree of ranges whose leaves are the scanned and the pending
\* ranges.
(***************************************************************************)
BackoffMayRetry == status = "backoff" => MayRetry(current)

RequestsExact ==
  requests + Len(queue) = 2 * (Len(combined) + Len(pending)) - 1

\* There are no more scanned ranges than scanned blocks, and from any pending
\* range on no more pending ranges than blocks.
Spaced ==
  /\ Len(combined) <= NextHeight - StartHeight
  /\ \A i \in 1 .. Len(pending) : pending[i].s + Len(pending) - i <= EndHeight

IInv ==
  /\ TypeOK
  /\ Partition
  /\ AttemptsBounded
  /\ BackoffMayRetry
  /\ RequestsExact
  /\ Spaced

\* Every variable keeps its type: whatever is pushed on the queue is an
\* entry of natural numbers.
LEMMA InitTypeOK == Init => TypeOK
BY DEF Init, TypeOK, Whole, Entry, Status

\* The pending ranges are a sequence of queue entries.
LEMMA PendingInSeq ==
  ASSUME TypeOK
  PROVE  /\ pending \in Seq(Entry)
         /\ Len(pending) \in Nat /\ Len(queue) \in Nat /\ Len(combined) \in Nat
         /\ status \notin {"idle", "ok"} => IsCons(pending, current, queue)
<1>1. IsCons(<<current>> \o queue, current, queue)
  BY ConcatIsCons DEF TypeOK
<1>2. QED
  BY <1>1 DEF pending, TypeOK, IsCons

\* The next height to scan is a natural number.
LEMMA NextHeightInNat ==
  ASSUME TypeOK
  PROVE  NextHeight \in Nat
<1>1. CASE combined = <<>>
  BY <1>1 DEF NextHeight
<1>2. CASE combined # <<>>
  <2>1. combined[Len(combined)] \in Entry
    BY <1>2 DEF TypeOK
  <2>2. QED
    BY <2>1, <1>2, EntryFields DEF NextHeight
<1>3. QED
  BY <1>1, <1>2

\* The invariant holds of the queue that holds the whole range.
LEMMA InitInvariant == Init => IInv
<1> SUFFICES ASSUME Init
             PROVE  IInv
  OBVIOUS
<1>1. TypeOK
  BY InitTypeOK
<1>2. /\ combined = <<>> /\ Len(combined) = 0 /\ NextHeight = StartHeight
      /\ pending = <<Whole>> /\ Len(pending) = 1 /\ pending[1] = Whole
      /\ queue = <<Whole>> /\ Len(queue) = 1 /\ requests = 0
      /\ status = "idle"
  BY DEF Init, NextHeight, pending
<1>3. Partition
  BY <1>2 DEF Partition, Covers, Adjacent, NonEmpty, Whole
<1>4. AttemptsBounded
  BY <1>2 DEF AttemptsBounded, Whole
<1>5. BackoffMayRetry /\ RequestsExact
  BY <1>2 DEF BackoffMayRetry, RequestsExact
<1>6. Spaced
  BY <1>2 DEF Spaced, Whole
<1>7. QED
  BY <1>1, <1>3, <1>4, <1>5, <1>6 DEF IInv

\* Every step keeps the types.
LEMMA NextTypeOK ==
  ASSUME TypeOK, NEW from \in Nat, NEW to \in Nat, Covers(from, pending, to), [Next]_vars
  PROVE  TypeOK'
<1> USE DEF TypeOK, Status
<1>1. CASE PopRange
  BY <1>1, TailIsCons DEF PopRange
<1>2. CASE ScanSucceeds
  BY <1>2, AppendProperties DEF ScanSucceeds
<1>3. CASE ScanTimesOut
  BY <1>3 DEF ScanTimesOut
<1>4. CASE ScanFails
  BY <1>4 DEF ScanFails
<1>5. CASE Split
  <2>1. NonEmpty(current)
    <3>1. IsCons(pending, current, queue)
      BY <1>5, PendingInSeq DEF Split
    <3>2. QED
      BY <3>1, CoversCons
  <2>2. Lower(current) \in Entry /\ Upper(current) \in Entry
    BY <1>5, <2>1, HalvesProperties DEF Split
  <2>3. Halves(current) \in Seq(Entry)
    BY <2>2 DEF Halves
  <2>4. Halves(current) \o queue \in Seq(Entry)
    BY <2>3, ConcatProperties
  <2>5. QED
    BY <1>5, <2>4 DEF Split
<1>6. CASE CannotSplit
  BY <1>6 DEF CannotSplit
<1>7. CASE Finish
  BY <1>7 DEF Finish
<1>8. CASE UNCHANGED vars
  BY <1>8 DEF vars
<1>9. QED
  BY <1>1, <1>2, <1>3, <1>4, <1>5, <1>6, <1>7, <1>8 DEF Next

\* Steps that leave the scanned and the pending ranges as they are.
LEMMA SameRanges ==
  ASSUME IInv, TypeOK', combined' = combined, pending' = pending,
         requests' + Len(queue') = requests + Len(queue),
         BackoffMayRetry'
  PROVE  IInv'
<1>1. NextHeight' = NextHeight
  BY DEF NextHeight
<1>2. Partition'
  BY <1>1 DEF IInv, Partition, Covers
<1>3. AttemptsBounded' /\ RequestsExact' /\ Spaced'
  BY <1>1 DEF IInv, AttemptsBounded, RequestsExact, Spaced
<1>4. QED
  BY <1>2, <1>3 DEF IInv

\* Popping a range, to scan it, leaves it pending.
LEMMA PopKeepsPending ==
  ASSUME TypeOK, PopRange
  PROVE  pending' = pending /\ queue # <<>> /\ Len(queue') = Len(queue) - 1
<1>1. IsCons(queue, Head(queue), Tail(queue))
  BY TailIsCons DEF TypeOK, PopRange
<1>2. pending = queue /\ pending' = <<current'>> \o queue'
  BY DEF PopRange, pending
<1>3. IsCons(pending', Head(queue), Tail(queue))
  BY <1>2, ConcatIsCons, TailIsCons DEF PopRange, TypeOK
<1>4. Len(pending') = Len(queue) /\ \A i \in 1 .. Len(queue) : pending'[i] = queue[i]
  <2>1. Len(pending') = Len(queue)
    BY <1>1, <1>3 DEF IsCons
  <2>2. ASSUME NEW i \in 1 .. Len(queue)
        PROVE  pending'[i] = queue[i]
    <3>1. CASE i = 1
      BY <3>1, <1>1, <1>3 DEF IsCons
    <3>2. CASE i # 1
      <4>1. Len(Tail(queue)) \in Nat /\ Len(queue) = Len(Tail(queue)) + 1
        BY <1>1, TailIsCons DEF IsCons, TypeOK, PopRange
      <4>2. i - 1 \in 1 .. Len(Tail(queue)) /\ (i - 1) + 1 = i
        BY <4>1, <3>2
      <4>3. /\ pending'[(i - 1) + 1] = Tail(queue)[i - 1]
            /\ queue[(i - 1) + 1] = Tail(queue)[i - 1]
        BY <4>2, <1>1, <1>3 DEF IsCons
      <4>4. QED
        BY <4>2, <4>3
    <3>3. QED
      BY <3>1, <3>2
  <2>3. QED
    BY <2>1, <2>2
<1>5. pending' = pending
  <2>1. pending' \in Seq(Entry) /\ queue \in Seq(Entry)
    BY <1>3 DEF IsCons, TypeOK
  <2>2. QED
    BY <2>1, <1>2, <1>4, SeqEqual
<1>6. Len(queue') = Len(queue) - 1
  BY <1>1, TailIsCons DEF IsCons, PopRange, TypeOK
<1>7. QED
  BY <1>5, <1>6 DEF PopRange

\* ... and keeps the invariant.
LEMMA PopRangeInvariant ==
  ASSUME IInv, TypeOK', PopRange
  PROVE  IInv'
<1>1. pending' = pending /\ Len(queue') = Len(queue) - 1 /\ Len(queue) \in Nat
  BY PopKeepsPending, PendingInSeq DEF IInv
<1>2. requests' + Len(queue') = requests + Len(queue)
  BY <1>1 DEF PopRange, IInv, TypeOK
<1>3. QED
  BY <1>1, <1>2, SameRanges DEF PopRange, BackoffMayRetry

\* A scan that succeeds moves its range from the pending to the scanned ones.
LEMMA ScanSucceedsInvariant ==
  ASSUME IInv, TypeOK', ScanSucceeds
  PROVE  IInv'
<1> USE DEF IInv
<1>1. /\ combined \in Seq(Entry) /\ Len(combined) \in Nat /\ current \in Entry
      /\ queue \in Seq(Entry) /\ Len(queue) \in Nat /\ requests \in Nat
      /\ current.s \in Nat /\ current.e \in Nat
      /\ NextHeight \in Nat
  BY EntryFields, NextHeightInNat DEF TypeOK
<1>2. IsCons(pending, current, queue) /\ pending' = queue
  BY PendingInSeq DEF ScanSucceeds, pending
<1>3. NextHeight = current.s /\ NonEmpty(current) /\ Covers(current.e + 1, queue, EndHeight)
  BY <1>1, <1>2, CoversCons DEF Partition
<1>4. /\ combined' \in Seq(Entry) /\ combined' # <<>>
      /\ Len(combined') = Len(combined) + 1
      /\ \A i \in 1 .. Len(combined) : combined'[i] = combined[i]
      /\ combined'[Len(combined) + 1] = current
  BY <1>1, AppendProperties DEF ScanSucceeds
<1>5. NextHeight' = current.e + 1
  BY <1>4 DEF NextHeight
<1>6. Partition'
  <2>1. \A i \in 1 .. Len(combined') : NonEmpty(combined'[i])
    <3> SUFFICES ASSUME NEW i \in 1 .. Len(combined')
                 PROVE  NonEmpty(combined'[i])
      BY DEF NonEmpty
    <3>1. CASE i = Len(combined) + 1
      BY <3>1, <1>3, <1>4
    <3>2. CASE i # Len(combined) + 1
      BY <3>2, <1>1, <1>4 DEF Partition
    <3>3. QED
      BY <3>1, <3>2
  <2>2. Adjacent(combined)'
    <3> SUFFICES ASSUME NEW i \in 1 .. Len(combined') - 1
                 PROVE  combined'[i].e + 1 = combined'[i + 1].s
      BY DEF Adjacent
    <3>1. CASE i = Len(combined)
      <4>1. combined # <<>> /\ NextHeight = combined[i].e + 1
        BY <3>1, <1>1 DEF NextHeight
      <4>2. QED
        BY <4>1, <3>1, <1>3, <1>4
    <3>2. CASE i # Len(combined)
      <4>1. i \in 1 .. Len(combined) - 1
        BY <3>2, <1>1, <1>4
      <4>2. QED
        BY <4>1, <1>1, <1>4 DEF Partition, Adjacent
    <3>3. QED
      BY <3>1, <3>2
  <2>3. combined'[1].s = StartHeight
    <3>1. CASE combined = <<>>
      BY <3>1, <1>3, <1>4 DEF NextHeight
    <3>2. CASE combined # <<>>
      BY <3>2, <1>1, <1>4 DEF Partition
    <3>3. QED
      BY <3>1, <3>2
  <2>4. Covers(NextHeight', pending', EndHeight)
    BY <1>2, <1>3, <1>5
  <2>5. QED
    BY <2>1, <2>2, <2>3, <2>4 DEF Partition, Covers
<1>7. AttemptsBounded'
  BY <1>2 DEF AttemptsBounded, IsCons
<1>8. BackoffMayRetry'
  BY DEF BackoffMayRetry, ScanSucceeds
<1>9. RequestsExact'
  <2>1. queue' = queue /\ requests' = requests /\ Len(pending) = Len(queue) + 1
    BY <1>2 DEF ScanSucceeds, IsCons
  <2>2. QED
    BY <2>1, <1>1, <1>2, <1>4 DEF RequestsExact
<1>10. Spaced'
  <2>1. Len(combined') <= NextHeight' - StartHeight
    <3>1. /\ Len(combined') = Len(combined) + 1 /\ NextHeight' = current.e + 1
          /\ Len(combined) <= current.s - StartHeight /\ current.s <= current.e
      BY <1>3, <1>4, <1>5 DEF Spaced, NonEmpty
    <3>2. /\ Len(combined) \in Nat /\ StartHeight \in Nat
          /\ current.s \in Nat /\ current.e \in Nat
      BY <1>1, RetryAssumption
    <3>3. QED
      BY ONLY <3>1, <3>2
  <2>2. ASSUME NEW i \in 1 .. Len(pending')
        PROVE  pending'[i].s + Len(pending') - i <= EndHeight
    <3>1. /\ i + 1 \in 1 .. Len(pending) /\ pending[i + 1] = pending'[i]
          /\ Len(pending) = Len(pending') + 1 /\ pending'[i] \in Entry
      BY <1>1, <1>2 DEF IsCons
    <3>2. pending[i + 1].s + Len(pending) - (i + 1) <= EndHeight
      BY <3>1 DEF Spaced
    <3>3. QED
      BY <3>1, <3>2, <1>1, <1>2, EntryFields
  <2>3. QED
    BY <2>1, <2>2 DEF Spaced
<1>11. QED
  BY <1>6, <1>7, <1>8, <1>9, <1>10

\* A split replaces the current range by its two halves.
LEMMA SplitInvariant ==
  ASSUME IInv, TypeOK', Split
  PROVE  IInv'
<1> USE DEF IInv
<1> DEFINE lo == Lower(current)
           up == Upper(current)
           rest == <<up>> \o queue
<1>1. /\ current \in Entry /\ queue \in Seq(Entry) /\ Len(queue) \in Nat
      /\ Len(combined) \in Nat /\ requests \in Nat
      /\ current.s \in Nat /\ current.e \in Nat /\ current.attempts \in Nat
      /\ NextHeight \in Nat /\ NextHeight' = NextHeight
      /\ combined' = combined /\ requests' = requests
  BY EntryFields, NextHeightInNat DEF TypeOK, Split, NextHeight
<1>2. IsCons(pending, current, queue) /\ Len(pending) = Len(queue) + 1
  BY PendingInSeq DEF Split, IsCons
<1>3. NextHeight = current.s /\ NonEmpty(current) /\ Covers(current.e + 1, queue, EndHeight)
  BY <1>1, <1>2, CoversCons DEF Partition
<1>4. /\ lo \in Entry /\ up \in Entry /\ NonEmpty(lo) /\ NonEmpty(up)
      /\ lo.s = current.s /\ lo.e + 1 = up.s /\ up.e = current.e
      /\ lo.attempts = current.attempts + 1 /\ up.attempts = current.attempts + 1
      /\ lo.s \in Nat /\ lo.e \in Nat /\ up.s \in Nat /\ up.e \in Nat
  BY <1>1, <1>3, HalvesProperties, EntryFields DEF Split
<1>5. IsCons(rest, up, queue) /\ rest \in Seq(Entry) /\ Len(rest) = Len(queue) + 1
  BY <1>1, <1>4, ConcatIsCons DEF IsCons
<1>6. pending' = queue' /\ queue' = <<lo>> \o rest
  <2>1. pending' = queue' /\ queue' = <<lo, up>> \o queue
    BY DEF Split, pending, Halves
  <2>2. <<lo, up>> = <<lo>> \o <<up>>
    OBVIOUS
  <2>3. (<<lo>> \o <<up>>) \o queue = <<lo>> \o (<<up>> \o queue)
    BY <1>1, <1>4, ConcatAssociative
  <2>4. QED
    BY <2>1, <2>2, <2>3
<1>7. IsCons(pending', lo, rest) /\ Len(pending') = Len(queue) + 2
  BY <1>4, <1>5, <1>6, <1>1, ConcatIsCons DEF IsCons
<1> HIDE DEF lo, up, rest
<1>8. Partition'
  <2>1. Covers(up.s, rest, EndHeight)
    BY <1>1, <1>3, <1>4, <1>5, CoversCons
  <2>2. Covers(NextHeight, pending', EndHeight)
    <3>1. IsCons(pending', lo, rest) /\ lo \in Entry /\ rest \in Seq(Entry)
      BY <1>4, <1>5, <1>7
    <3>2. lo.s = NextHeight /\ NonEmpty(lo) /\ Covers(lo.e + 1, rest, EndHeight)
      BY <2>1, <1>3, <1>4
    <3>3. NextHeight \in Nat /\ EndHeight \in Nat
      BY <1>1, RetryAssumption
    <3>4. QED
      BY ONLY <3>1, <3>2, <3>3, CoversCons
  <2>3. QED
    BY <2>2, <1>1 DEF Partition, Covers
<1>9. \A i \in 1 .. Len(pending') :
        \/ i = 1 /\ pending'[i] = lo
        \/ i = 2 /\ pending'[i] = up
        \/ i > 2 /\ i - 2 \in 1 .. Len(queue) /\ pending'[i] = queue[i - 2]
  <2> SUFFICES ASSUME NEW i \in 1 .. Len(pending')
               PROVE  \/ i = 1 /\ pending'[i] = lo
                      \/ i = 2 /\ pending'[i] = up
                      \/ /\ i > 2 /\ i - 2 \in 1 .. Len(queue)
                         /\ pending'[i] = queue[i - 2]
    OBVIOUS
  <2>1. CASE i = 1
    BY <2>1, <1>7 DEF IsCons
  <2>2. CASE i > 1
    <3>1. i - 1 \in 1 .. Len(rest) /\ (i - 1) + 1 = i
      BY <2>2, <1>1, <1>5, <1>7
    <3>2. pending'[i] = rest[i - 1]
      BY <3>1, <1>7 DEF IsCons
    <3>3. CASE i = 2
      BY <3>3, <3>2, <1>5 DEF IsCons
    <3>4. CASE i > 2
      <4>1. i - 2 \in 1 .. Len(queue) /\ (i - 2) + 1 = i - 1
        BY <3>4, <1>1, <1>7
      <4>2. rest[(i - 2) + 1] = queue[i - 2]
        BY <4>1, <1>5 DEF IsCons
      <4>3. QED
        BY <3>2, <3>4, <4>1, <4>2
    <3>5. QED
      BY <2>2, <3>3, <3>4
  <2>3. QED
    BY <2>1, <2>2
<1>10. \A i \in 1 .. Len(queue) : i + 1 \in 1 .. Len(pending) /\ pending[i + 1] = queue[i]
  BY <1>1, <1>2 DEF IsCons
<1>11. AttemptsBounded'
  <2>1. current.attempts + 1 <= MaxRetries
    BY <1>1 DEF BackoffMayRetry, MayRetry, Split
  <2>2. \A i \in 1 .. Len(queue) : queue[i].attempts <= MaxRetries
    BY <1>10 DEF AttemptsBounded
  <2>3. QED
    BY <2>1, <2>2, <1>4, <1>9 DEF AttemptsBounded
<1>12. BackoffMayRetry'
  BY DEF BackoffMayRetry, Split
<1>13. RequestsExact'
  <2>1. Len(queue') = Len(queue) + 2
    BY <1>6, <1>7
  <2>2. requests' + Len(queue') = 2 * (Len(combined') + Len(pending')) - 1
    BY <2>1, <1>1, <1>2, <1>7 DEF RequestsExact
  <2>3. QED
    BY <2>2 DEF RequestsExact
<1>14. Spaced'
  <2>1. Len(combined') <= NextHeight' - StartHeight
    BY <1>1 DEF Spaced
  <2>2. current.s + Len(pending) - 1 <= EndHeight
    <3>1. pending[1] = current /\ 1 \in 1 .. Len(pending)
      BY <1>1, <1>2 DEF IsCons
    <3>2. QED
      BY <3>1 DEF Spaced
  <2>3. current.e + Len(queue) <= EndHeight
    <3>1. CASE queue = <<>>
      BY <3>1, <1>1, <1>3 DEF Covers
    <3>2. CASE queue # <<>>
      <4>1. 1 \in 1 .. Len(queue) /\ queue[1].s = current.e + 1
        BY <3>2, <1>1, <1>3 DEF Covers
      <4>2. pending[2].s + Len(pending) - 2 <= EndHeight /\ pending[2] = queue[1]
        BY <4>1, <1>10 DEF Spaced
      <4>3. QED
        BY <4>1, <4>2, <1>1, <1>2
    <3>3. QED
      BY <3>1, <3>2
  <2>4. \A i \in 1 .. Len(queue) : queue[i].s + Len(queue) - i <= EndHeight
    <3> SUFFICES ASSUME NEW i \in 1 .. Len(queue)
                 PROVE  queue[i].s + Len(queue) - i <= EndHeight
      OBVIOUS
    <3>1. pending[i + 1].s + Len(pending) - (i + 1) <= EndHeight
      BY <1>10 DEF Spaced
    <3>2. queue[i].s \in Nat
      BY <1>1, EntryFields
    <3>3. QED
      BY <3>1, <3>2, <1>1, <1>2, <1>10
  <2>5. ASSUME NEW i \in 1 .. Len(pending')
        PROVE  pending'[i].s + Len(pending') - i <= EndHeight
    <3> Len(pending') = Len(queue) + 2
      BY <1>7
    <3> EndHeight \in Nat
      BY RetryAssumption
    <3>a. /\ current.s \in Nat /\ current.e \in Nat
          /\ up.s \in Nat /\ Len(queue) \in Nat
      BY <1>1, <1>4
    <3>b. current.s < up.s /\ up.s <= current.e
      BY <1>1, <1>4 DEF NonEmpty
    <3>c. current.s + Len(queue) + 1 <= EndHeight /\ up.s + Len(queue) <= EndHeight
      BY ONLY <2>3, <3>a, <3>b, EndHeight \in Nat
    <3>1. CASE i = 1 /\ pending'[i] = lo
      <4>1. pending'[i].s = current.s
        BY <3>1, <1>4
      <4>2. QED
        BY <4>1, <3>1, <3>a, <3>c
    <3>2. CASE i = 2 /\ pending'[i] = up
      BY <3>2, <3>a, <3>c
    <3>3. CASE i > 2 /\ i - 2 \in 1 .. Len(queue) /\ pending'[i] = queue[i - 2]
      <4>1. queue[i - 2].s + Len(queue) - (i - 2) <= EndHeight
        BY <3>3, <2>4
      <4>2. queue[i - 2] \in Entry
        BY <3>3, <1>1
      <4>3. queue[i - 2].s \in Nat
        BY <4>2, EntryFields
      <4>4. QED
        BY <4>1, <4>3, <3>3, <1>1, <1>7
    <3>4. QED
      BY <3>1, <3>2, <3>3, <1>9
  <2>6. QED
    BY <2>1, <2>5 DEF Spaced
<1>15. QED
  BY <1>8, <1>11, <1>12, <1>13, <1>14

\* Every step of run_sync keeps the invariant.
LEMMA NextInvariant ==
  ASSUME IInv, [Next]_vars
  PROVE  IInv'
<1>1. TypeOK'
  BY NextTypeOK, NextHeightInNat DEF IInv, Partition
<1>2. CASE PopRange
  BY <1>1, <1>2, PopRangeInvariant
<1>3. CASE ScanSucceeds
  BY <1>1, <1>3, ScanSucceedsInvariant
<1>4. CASE ScanTimesOut
  <2>1. pending' = pending /\ BackoffMayRetry'
    BY <1>4 DEF ScanTimesOut, pending, BackoffMayRetry, MayRetry
  <2>2. QED
    BY <1>1, <1>4, <2>1, SameRanges DEF ScanTimesOut
<1>5. CASE ScanFails
  <2>1. pending' = pending /\ BackoffMayRetry'
    BY <1>5 DEF ScanFails, pending, BackoffMayRetry
  <2>2. QED
    BY <1>1, <1>5, <2>1, SameRanges DEF ScanFails
<1>6. CASE Split
  BY <1>1, <1>6, SplitInvariant
<1>7. CASE CannotSplit
  <2>1. pending' = pending /\ BackoffMayRetry'
    BY <1>7 DEF CannotSplit, pending, BackoffMayRetry
  <2>2. QED
    BY <1>1, <1>7, <2>1, SameRanges DEF CannotSplit
<1>8. CASE Finish
  <2>1. pending' = pending /\ BackoffMayRetry'
    BY <1>8 DEF Finish, pending, BackoffMayRetry
  <2>2. QED
    BY <1>1, <1>8, <2>1, SameRanges DEF Finish
<1>9. CASE UNCHANGED vars
  <2>1. pending' = pending /\ BackoffMayRetry'
    BY <1>9 DEF vars, pending, BackoffMayRetry, IInv, MayRetry
  <2>2. QED
    BY <1>1, <1>9, <2>1, SameRanges DEF vars
<1>10. QED
  BY <1>2, <1>3, <1>4, <1>5, <1>6, <1>7, <1>8, <1>9 DEF Next

\* The invariant holds in every reachable state.
LEMMA InvariantHolds == Spec => []IInv
BY InitInvariant, NextInvariant, PTL DEF Spec

-----------------------------------------------------------------------------
\* The pending ranges together are no longer than the requested range.
LEMMA PendingFits ==
  ASSUME IInv
  PROVE  /\ NextHeight \in Nat
         /\ NextHeight + Len(pending) <= EndHeight + 1
         /\ pending = <<>> => NextHeight = EndHeight + 1
<1>1. NextHeight \in Nat /\ pending \in Seq(Entry) /\ Len(pending) \in Nat
  BY NextHeightInNat, PendingInSeq DEF IInv
<1>2. Covers(NextHeight, pending, EndHeight)
  BY DEF IInv, Partition
<1>3. CASE pending = <<>>
  BY <1>1, <1>2, <1>3 DEF Covers
<1>4. CASE pending # <<>>
  <2>1. 1 \in 1 .. Len(pending) /\ pending[1].s = NextHeight
    BY <1>1, <1>2, <1>4 DEF Covers
  <2>2. pending[1].s + Len(pending) - 1 <= EndHeight
    BY <2>1 DEF IInv, Spaced
  <2>3. QED
    BY <1>1, <1>4, <2>1, <2>2
<1>5. QED
  BY <1>3, <1>4

PendingBounds ==
  /\ NextHeight \in Nat
  /\ Len(pending) \in Nat
  /\ NextHeight + Len(pending) <= EndHeight + 1

\* run_sync keeps its variables in their types.
THEOREM TypeCorrect == Spec => []TypeOK
<1>1. IInv => TypeOK
  BY DEF IInv
<1>2. QED
  BY <1>1, InvariantHolds, PTL

\* However a scan is split and retried, its scanned ranges tile a prefix of
\* the requested range and its pending ranges the rest.
THEOREM PartitionCorrect == Spec => []Partition
<1>1. IInv => Partition
  BY DEF IInv
<1>2. QED
  BY <1>1, InvariantHolds, PTL

\* No range is retried more than MaxRetries times.
THEOREM AttemptsCorrect == Spec => []AttemptsBounded
<1>1. IInv => AttemptsBounded
  BY DEF IInv
<1>2. QED
  BY <1>1, InvariantHolds, PTL

\* A node of the tree of ranges for each request: no more than there are.
LEMMA RequestsAreBounded ==
  ASSUME IInv
  PROVE  RequestsWithinBlocks
<1>1. /\ requests \in Nat /\ Len(queue) \in Nat
      /\ Len(combined) \in Nat /\ Len(pending) \in Nat
  BY PendingInSeq DEF IInv, TypeOK
<1>2. Len(combined) <= NextHeight - StartHeight
  BY DEF IInv, Spaced
<1>3. requests + Len(queue) = 2 * (Len(combined) + Len(pending)) - 1
  BY DEF IInv, RequestsExact
<1>4. Len(combined) + Len(pending) <= Blocks
  BY <1>1, <1>2, PendingFits DEF Blocks
<1>5. QED
  BY <1>1, <1>3, <1>4 DEF RequestsWithinBlocks, Blocks

\* A scan of n blocks issues at most 2n - 1 requests, for every MaxRetries.
THEOREM RequestsCorrect == Spec => []RequestsWithinBlocks
BY RequestsAreBounded, InvariantHolds, PTL

\* How many steps a scan has left at most: three for each request that it may still
\* make (pop, scan, back off), and those of the request under way.
StepsOf == [idle |-> 1, scanning |-> 3, backoff |-> 2, ok |-> 0, err |-> 0]
StepsLeft == 3 * (2 * Blocks - 1 - requests) + StepsOf[status]

\* Every step of a scan brings its end nearer, which is at most 6n steps away for n
\* blocks: no order of failures makes it retry for ever, whatever MaxRetries is.
THEOREM RetriesProgress == Spec => [][StepsLeft' \in Nat /\ StepsLeft' < StepsLeft]_vars
<1>1. IInv => RequestsWithinBlocks
  BY RequestsAreBounded
<1>2. IInv /\ IInv' /\ RequestsWithinBlocks' /\ Next => StepsLeft' \in Nat /\ StepsLeft' < StepsLeft
  <2> SUFFICES ASSUME IInv, IInv', RequestsWithinBlocks', Next
               PROVE  StepsLeft' \in Nat /\ StepsLeft' < StepsLeft
    OBVIOUS
  <2>1. /\ Blocks \in Int /\ requests \in Nat /\ requests' \in Nat
        /\ requests' <= 2 * Blocks - 1
    BY DEF IInv, TypeOK, RequestsWithinBlocks, Blocks
  <2>2. /\ StepsOf["idle"] = 1 /\ StepsOf["scanning"] = 3 /\ StepsOf["backoff"] = 2
        /\ StepsOf["ok"] = 0 /\ StepsOf["err"] = 0
    BY DEF StepsOf
  <2>3. /\ StepsLeft = 3 * (2 * Blocks - 1 - requests) + StepsOf[status]
        /\ StepsLeft' = 3 * (2 * Blocks - 1 - requests') + StepsOf[status']
    BY DEF StepsLeft, Blocks
  <2>4. CASE PopRange
    <3>1. status = "idle" /\ status' = "scanning" /\ requests' = requests + 1
      BY <2>4 DEF PopRange
    <3>2. QED
      BY <2>1, <2>2, <2>3, <3>1
  <2>5. CASE ~PopRange
    <3>1. /\ requests' = requests
          /\ \/ status = "scanning" /\ status' \in {"idle", "backoff", "err"}
             \/ status = "backoff" /\ status' \in {"idle", "err"}
             \/ status = "idle" /\ status' = "ok"
      BY <2>5 DEF Next, ScanSucceeds, ScanTimesOut, ScanFails, Split, CannotSplit, Finish
    <3>2. StepsOf[status'] < StepsOf[status] /\ StepsOf[status] \in Nat /\ StepsOf[status'] \in Nat
      BY <2>2, <3>1
    <3>3. QED
      BY <2>1, <2>3, <3>1, <3>2
  <2>6. QED
    BY <2>4, <2>5
<1>3. QED
  BY <1>1, <1>2, InvariantHolds, PTL DEF Spec

\* run_sync delivers growing prefixes of the range in order, and returns Ok
\* only when it has delivered the whole range.
THEOREM RefinesPrefixScan == Spec => Promise!SafeSpec
<1>1. Init => Promise!Init
  BY DEF Init, Promise!Init, NextHeight, Outcome
<1>2. IInv => PendingBounds
  BY PendingFits, PendingInSeq DEF PendingBounds, IInv
<1>3. IInv /\ PendingBounds' /\ [Next]_vars => [Promise!Next]_(Promise!vars)
  <2> SUFFICES ASSUME IInv, PendingBounds', [Next]_vars
               PROVE  [Promise!Next]_(Promise!vars)
    OBVIOUS
  <2> USE DEF Promise!Next, Promise!vars, Outcome
  <2>1. ASSUME combined' = combined
        PROVE  NextHeight' = NextHeight
    BY <2>1 DEF NextHeight
  <2>2. CASE PopRange
    BY <2>1, <2>2 DEF PopRange
  <2>3. CASE ScanSucceeds
    <3>1. NextHeight = current.s /\ current.s <= current.e
      <4>1. IsCons(pending, current, queue) /\ NextHeight \in Nat
        BY <2>3, PendingInSeq, PendingFits DEF ScanSucceeds, IInv
      <4>2. QED
        BY <4>1, CoversCons DEF IInv, Partition, TypeOK, NonEmpty
    <3>2. combined' # <<>> /\ combined'[Len(combined')] = current
      BY <2>3, AppendProperties DEF ScanSucceeds, IInv, TypeOK
    <3>3. NextHeight' = current.e + 1
      BY <3>2 DEF NextHeight
    <3>4. NextHeight' <= EndHeight + 1
      BY DEF PendingBounds
    <3>5. NextHeight' \in NextHeight + 1 .. EndHeight + 1
      <4>1. current.s \in Nat /\ current.e \in Nat
        BY EntryFields DEF IInv, TypeOK
      <4>2. QED
        BY <4>1, <3>1, <3>3, <3>4
    <3>6. QED
      BY <2>3, <3>5 DEF ScanSucceeds, Promise!Deliver
  <2>4. CASE ScanTimesOut
    BY <2>1, <2>4 DEF ScanTimesOut
  <2>5. CASE ScanFails
    BY <2>1, <2>5 DEF ScanFails, Promise!GiveUp
  <2>6. CASE Split
    BY <2>1, <2>6 DEF Split
  <2>7. CASE CannotSplit
    BY <2>1, <2>7 DEF CannotSplit, Promise!GiveUp
  <2>8. CASE Finish
    <3>1. NextHeight = EndHeight + 1
      BY <2>8, PendingFits DEF Finish, pending
    <3>2. QED
      BY <2>1, <2>8, <3>1 DEF Finish, Promise!Succeed
  <2>9. CASE UNCHANGED vars
    BY <2>1, <2>9 DEF vars
  <2>10. QED
    BY <2>2, <2>3, <2>4, <2>5, <2>6, <2>7, <2>8, <2>9 DEF Next
<1>4. QED
  BY <1>1, <1>2, <1>3, InvariantHolds, PTL DEF Spec, Promise!SafeSpec

-----------------------------------------------------------------------------
(* The backoff *)

\* The powers of two satisfy their equation, and are positive numbers.
LEMMA PowersOfTwo ==
  /\ Pow2[0] = 1
  /\ \A n \in Nat : Pow2[n + 1] = 2 * Pow2[n]
  /\ \A n \in Nat : Pow2[n] \in Nat /\ Pow2[n] >= 1
<1>1. Pow2 = [n \in Nat |-> IF n = 0 THEN 1 ELSE 2 * Pow2[n - 1]]
  BY DoublingExists DEF Pow2
<1>2. \A n \in Nat : Pow2[n] = IF n = 0 THEN 1 ELSE 2 * Pow2[n - 1]
  BY <1>1
<1>3. Pow2[0] = 1
  BY <1>2
<1>4. ASSUME NEW n \in Nat PROVE Pow2[n + 1] = 2 * Pow2[n]
  <2>1. n + 1 \in Nat /\ n + 1 # 0 /\ (n + 1) - 1 = n
    OBVIOUS
  <2>2. Pow2[n + 1] = 2 * Pow2[(n + 1) - 1]
    BY <1>2, <2>1
  <2>3. QED
    BY <2>1, <2>2
<1> DEFINE T == {n \in Nat : Pow2[n] \in Nat /\ Pow2[n] >= 1}
<1>5. 0 \in T
  BY <1>3
<1>6. ASSUME NEW n \in Nat, n \in T PROVE n + 1 \in T
  <2>1. Pow2[n] \in Nat /\ Pow2[n] >= 1 /\ Pow2[n + 1] = 2 * Pow2[n]
    BY <1>4, <1>6
  <2>2. QED
    BY <2>1
<1>7. Nat \subseteq T
  <2> HIDE DEF T
  <2>1. QED
    BY <1>5, <1>6, SetInduction
<1>8. QED
  BY <1>3, <1>4, <1>7

\* Halving a range pays for doubling its backoff.
LEMMA HalvesFit ==
  ASSUME NEW r \in Entry, NonEmpty(r), BlockCount(r) > 1, BackoffFits(r)
  PROVE  BackoffFits(Lower(r)) /\ BackoffFits(Upper(r))
<1> DEFINE c == BlockCount(r)  w == Pow2[r.attempts]  v == Pow2[r.attempts + 1]
<1>1. r.s \in Nat /\ r.e \in Nat /\ r.attempts \in Nat /\ Blocks \in Nat
  BY EntryFields DEF Blocks
<1>2. c \in Nat /\ c > 1 /\ c - 1 \in Nat
  BY <1>1 DEF BlockCount
<1>3. w \in Nat /\ w >= 1 /\ v = 2 * w
  BY <1>1, PowersOfTwo
<1>4. (c - 1) * w <= Blocks - 1 /\ (c - 1) * w \in Nat
  BY <1>2, <1>3 DEF BackoffFits
<1>5. ASSUME NEW h \in Nat, h >= 1, 2 * (h - 1) <= c - 1
      PROVE  (h - 1) * v <= Blocks - 1
  <2> HIDE DEF c, w, v
  <2>1. 2 * (h - 1) \in Nat
    BY <1>5
  <2>2. (2 * (h - 1)) * w <= (c - 1) * w /\ (2 * (h - 1)) * w \in Nat
    BY <1>2, <1>3, <1>5, <2>1, MulMonotone
  <2>3. (h - 1) * v = (2 * (h - 1)) * w
    BY <1>3, <1>5
  <2>4. QED
    BY <1>1, <1>4, <2>2, <2>3
<1>6. v <= 2 * (Blocks - 1)
  <2>1. 1 * w <= (c - 1) * w
    <3> HIDE DEF c, w
    <3>1. 1 <= c - 1
      BY <1>2
    <3>2. QED
      BY <1>2, <1>3, <3>1, MulMonotone
  <2> DEFINE q == (c - 1) * w
  <2>2. w <= q /\ q <= Blocks - 1 /\ q \in Nat
    BY <1>3, <1>4, <2>1
  <2> HIDE DEF q, w, v
  <2>3. QED
    BY <1>1, <1>3, <2>2
<1>7. /\ BlockCount(Lower(r)) = c \div 2 /\ BlockCount(Upper(r)) = c - (c \div 2)
      /\ Lower(r).attempts = r.attempts + 1 /\ Upper(r).attempts = r.attempts + 1
  BY <1>1, <1>2 DEF Lower, Upper, Mid, BlockCount
<1>8. /\ c \div 2 \in Nat /\ c \div 2 >= 1 /\ 2 * (c \div 2 - 1) <= c - 1
      /\ c - (c \div 2) \in Nat /\ c - (c \div 2) >= 1 /\ 2 * (c - (c \div 2) - 1) <= c - 1
  <2> HIDE DEF c
  <2>1. QED
    BY <1>2
<1> HIDE DEF c, w
<1>9. BackoffFits(Lower(r))
  BY <1>5, <1>6, <1>7, <1>8 DEF BackoffFits
<1>10. BackoffFits(Upper(r))
  BY <1>5, <1>6, <1>7, <1>8 DEF BackoffFits
<1>11. QED
  BY <1>9, <1>10

\* The backoffs of the ranges on the queue fit, and that of the range in hand.
BackoffInv ==
  /\ \A i \in 1 .. Len(queue) : BackoffFits(queue[i])
  /\ status \notin {"idle", "ok"} => BackoffFits(current)

\* The whole range waits for no backoff yet.
LEMMA InitBackoff == Init => BackoffInv
<1> SUFFICES ASSUME Init PROVE BackoffInv
  OBVIOUS
<1>1. queue = <<Whole>> /\ Len(queue) = 1 /\ queue[1] = Whole /\ status = "idle"
  BY DEF Init
<1>2. BackoffFits(Whole)
  BY PowersOfTwo DEF BackoffFits, Whole, BlockCount, Blocks
<1>3. QED
  BY <1>1, <1>2 DEF BackoffInv

\* Only the split of a range makes ranges that would wait longer.
LEMMA NextBackoff ==
  ASSUME IInv, BackoffInv, [Next]_vars
  PROVE  BackoffInv'
<1>1. queue \in Seq(Entry) /\ current \in Entry /\ Len(queue) \in Nat
  BY DEF IInv, TypeOK
<1>2. CASE PopRange
  <2>1. /\ queue # <<>> /\ current' = Head(queue) /\ queue' = Tail(queue)
    BY <1>2 DEF PopRange
  <2>2. IsCons(queue, current', queue')
    BY <1>1, <2>1, TailIsCons
  <2>3. queue' \in Seq(Entry) /\ Len(queue') \in Nat
    BY <1>1, <2>1, TailIsCons
  <2>4. ASSUME NEW i \in 1 .. Len(queue') PROVE BackoffFits(queue'[i])
    <3>1. i + 1 \in 1 .. Len(queue) /\ queue[i + 1] = queue'[i]
      BY <2>2, <2>3 DEF IsCons
    <3>2. QED
      BY <3>1 DEF BackoffInv
  <2>5. BackoffFits(current')
    <3>1. 1 \in 1 .. Len(queue) /\ queue[1] = current'
      BY <1>1, <2>2, <2>3 DEF IsCons
    <3>2. QED
      BY <3>1 DEF BackoffInv
  <2>6. QED
    BY <2>4, <2>5 DEF BackoffInv, BackoffFits, BlockCount, Blocks
<1>3. CASE Split
  <2>1. NonEmpty(current) /\ BlockCount(current) > 1 /\ BackoffFits(current)
    <3>1. IsCons(pending, current, queue)
      BY <1>3, PendingInSeq DEF Split, IInv
    <3>2. NonEmpty(current)
      BY <1>1, <3>1, CoversCons, NextHeightInNat DEF IInv, Partition
    <3>3. QED
      BY <1>3, <3>2 DEF Split, BackoffInv
  <2>2. /\ BackoffFits(Lower(current)) /\ BackoffFits(Upper(current))
        /\ Lower(current) \in Entry /\ Upper(current) \in Entry
    BY <1>1, <2>1, HalvesFit, HalvesProperties
  <2>3. Halves(current) \in Seq(Entry) /\ Len(Halves(current)) = 2
        /\ Halves(current)[1] = Lower(current) /\ Halves(current)[2] = Upper(current)
    BY <2>2 DEF Halves
  <2>4. /\ Len(queue') = 2 + Len(queue)
        /\ \A i \in 1 .. 2 + Len(queue) :
             queue'[i] = IF i <= 2 THEN Halves(current)[i] ELSE queue[i - 2]
    <3> DEFINE h == Halves(current)
    <3>1. queue' = h \o queue /\ h \in Seq(Entry) /\ Len(h) = 2
      BY <1>3, <2>3 DEF Split
    <3> HIDE DEF h
    <3>2. /\ Len(h \o queue) = Len(h) + Len(queue)
          /\ \A i \in 1 .. Len(h) + Len(queue) :
               (h \o queue)[i] = IF i <= Len(h) THEN h[i] ELSE queue[i - Len(h)]
      BY <1>1, <3>1, ConcatProperties
    <3>3. /\ Len(queue') = 2 + Len(queue)
          /\ \A i \in 1 .. 2 + Len(queue) :
               queue'[i] = IF i <= 2 THEN h[i] ELSE queue[i - 2]
      BY <3>1, <3>2
    <3>4. QED
      BY <3>3 DEF h
  <2>5. ASSUME NEW i \in 1 .. Len(queue') PROVE BackoffFits(queue'[i])
    <3>1. CASE i <= 2
      BY <2>2, <2>3, <2>4, <3>1
    <3>2. CASE ~(i <= 2)
      <4>1. i - 2 \in 1 .. Len(queue) /\ queue'[i] = queue[i - 2]
        BY <1>1, <2>4, <3>2
      <4>2. QED
        BY <4>1 DEF BackoffInv
    <3>3. QED
      BY <3>1, <3>2
  <2>6. status' = "idle"
    BY <1>3 DEF Split
  <2>7. QED
    BY <2>5, <2>6 DEF BackoffInv, BackoffFits, BlockCount, Blocks
<1>4. CASE ~PopRange /\ ~Split
  <2>1. UNCHANGED <<queue, current>>
        /\ (status' \notin {"idle", "ok"} => status \notin {"idle", "ok"})
    BY <1>4 DEF Next, vars, ScanSucceeds, ScanTimesOut, ScanFails, CannotSplit, Finish
  <2>2. QED
    BY <2>1 DEF BackoffInv, BackoffFits, BlockCount, Blocks
<1>5. QED
  BY <1>2, <1>3, <1>4

\* However large MaxRetries is, the backoff stays below twice the blocks of the
\* request, so that 2u64.pow cannot overflow.
THEOREM BackoffCorrect == Spec => []BackoffBounded
<1>1. Init => IInv /\ BackoffInv
  BY InitInvariant, InitBackoff
<1>2. IInv /\ BackoffInv /\ [Next]_vars => (IInv /\ BackoffInv)'
  BY NextInvariant, NextBackoff
<1>3. IInv /\ BackoffInv => BackoffBounded
  <2> SUFFICES ASSUME IInv, BackoffInv, NEW i \in 1 .. Len(pending)
               PROVE  BackoffFits(pending[i])
    BY DEF BackoffBounded
  <2>1. CASE status \in {"idle", "ok"}
    BY <2>1 DEF pending, BackoffInv
  <2>2. CASE status \notin {"idle", "ok"}
    <3>1. IsCons(pending, current, queue) /\ Len(queue) \in Nat
      BY <2>2, PendingInSeq DEF IInv
    <3>2. CASE i = 1
      BY <2>2, <3>1, <3>2 DEF IsCons, BackoffInv
    <3>3. CASE i # 1
      <4>1. i - 1 \in 1 .. Len(queue) /\ (i - 1) + 1 = i
        BY <3>1, <3>3 DEF IsCons
      <4>2. pending[i] = queue[i - 1]
        BY <3>1, <4>1 DEF IsCons
      <4>3. QED
        BY <4>1, <4>2 DEF BackoffInv
    <3>4. QED
      BY <3>2, <3>3
  <2>3. QED
    BY <2>1, <2>2
<1>4. QED
  BY <1>1, <1>2, <1>3, PTL DEF Spec

-----------------------------------------------------------------------------
(* What scans owe *)

Within(lo, hi) == lo \in Nat /\ hi \in Int /\ lo - 1 <= hi /\ lo .. hi \subseteq Heights

IsChain == chain \in [Heights -> Block]

\* A transaction's txid starts with the height of its block.
LEMMA TxidsHaveHeights ==
  ASSUME NEW lo, NEW hi, NEW t \in TxidsIn(lo, hi)
  PROVE  t[1] \in lo .. hi
BY DEF TxidsIn, TxidsOf

\* The transactions of adjacent ranges are those of both together.
LEMMA TxidsSplit ==
  ASSUME NEW lo \in Int, NEW m \in Int, NEW hi \in Int, lo - 1 <= m, m <= hi
  PROVE  TxidsIn(lo, hi) = TxidsIn(lo, m) \cup TxidsIn(m + 1, hi)
<1>1. lo .. hi = (lo .. m) \cup (m + 1 .. hi)
  OBVIOUS
<1>2. QED
  BY <1>1 DEF TxidsIn

\* A greater range has the transactions of a smaller one, and its spends.
LEMMA TxidsGrow ==
  ASSUME NEW lo \in Int, NEW hi \in Int, NEW lo2 \in Int, NEW hi2 \in Int, lo2 <= lo, hi <= hi2
  PROVE  /\ TxidsIn(lo, hi) \subseteq TxidsIn(lo2, hi2)
         /\ \A p : SpentIn(lo, hi, p) \subseteq SpentIn(lo2, hi2, p)
         /\ ExpectedTxids(lo, hi) \subseteq ExpectedTxids(lo2, hi2)
<1>1. lo .. hi \subseteq lo2 .. hi2
  OBVIOUS
<1>2. TxidsIn(lo, hi) \subseteq TxidsIn(lo2, hi2)
  BY <1>1 DEF TxidsIn
<1>3. \A p : SpentIn(lo, hi, p) \subseteq SpentIn(lo2, hi2, p)
  BY <1>2 DEF SpentIn
<1>4. NotesKnown(lo, hi) \subseteq NotesKnown(lo2, hi2)
  BY <1>2 DEF NotesKnown
<1>5. ExpectedTxids(lo, hi) \subseteq ExpectedTxids(lo2, hi2)
  BY <1>2, <1>4 DEF ExpectedTxids
<1>6. QED
  BY <1>2, <1>3, <1>5

\* An empty range has no transactions.
LEMMA NoTxids ==
  ASSUME NEW lo \in Int
  PROVE  TxidsIn(lo, lo - 1) = {} /\ ScanReportKnown(lo, lo - 1) = {}
<1>1. lo .. lo - 1 = {}
  OBVIOUS
<1>2. TxidsIn(lo, lo - 1) = {}
  BY <1>1 DEF TxidsIn
<1>3. QED
  BY <1>2 DEF ScanReportKnown, SpentIn

\* The spends of known notes in adjacent ranges are those in both together.
LEMMA KnownSplit ==
  ASSUME NEW lo \in Int, NEW m \in Int, NEW hi \in Int, lo - 1 <= m, m <= hi
  PROVE  ScanReportKnown(lo, hi) = ScanReportKnown(lo, m) \cup ScanReportKnown(m + 1, hi)
<1>1. \A p : SpentIn(lo, hi, p) = SpentIn(lo, m, p) \cup SpentIn(m + 1, hi, p)
  BY TxidsSplit DEF SpentIn
<1>2. QED
  BY <1>1 DEF ScanReportKnown

\* A range has finitely many transactions.
LEMMA FiniteTxids ==
  ASSUME IsChain, NEW lo \in Int, NEW hi \in Int, lo .. hi \subseteq Heights
  PROVE  IsFiniteSet(TxidsIn(lo, hi))
<1> DEFINE H == lo .. hi
<1>1. IsFiniteSet(H)
  BY FS_Interval
<1>2. ASSUME NEW h \in H PROVE IsFiniteSet(TxidsOf(h))
  <2> DEFINE D == 1 .. Len(chain[h].txs)
  <2>1. chain[h].txs \in Seq(Tx)
    BY <1>2 DEF IsChain, Block
  <2>2. DOMAIN chain[h].txs = D /\ Len(chain[h].txs) \in Nat
    BY <2>1
  <2>3. IsFiniteSet(D)
    BY <2>2, FS_Interval
  <2> DEFINE f == [i \in D |-> <<h, i>>]
  <2>4. TxidsOf(h) = {f[i] : i \in D}
    BY <2>2 DEF TxidsOf
  <2> HIDE DEF D, f
  <2>5. QED
    BY <2>3, <2>4, FiniteValues
<1> DEFINE g == [h \in H |-> TxidsOf(h)]
<1>2a. {TxidsOf(h) : h \in H} = {g[h] : h \in H}
  OBVIOUS
<1> HIDE DEF H, g
<1>3. IsFiniteSet({TxidsOf(h) : h \in H})
  BY <1>1, <1>2a, FiniteValues
<1>4. \A T \in {TxidsOf(h) : h \in H} : IsFiniteSet(T)
  BY <1>2
<1>5. IsFiniteSet(UNION {TxidsOf(h) : h \in H})
  BY <1>3, <1>4, FS_UNION
<1>6. QED
  BY <1>5 DEF TxidsIn, H

\* The blocks of the request.
Requested == StartHeight .. EndHeight

\* The request lies within the chain.
LEMMA RequestedInChain == Requested \subseteq Heights
BY ChainAssumption, CallersAssumption DEF Requested

\* What any scan within the request may report.
Rows == UNION {{Row(t, lo, hi) : t \in ExpectedTxids(lo, hi)} : lo \in Requested, hi \in Requested}

\* A row of ReportSound.
RowSound(r) ==
  /\ r.txid \in ExpectedTxids(StartHeight, EndHeight)
  /\ \A p \in Pools : \A n \in r.notes[p] :
       n.isSpent => n.nf \in SpentIn(StartHeight, EndHeight, p)

\* Whatever part of the request is scanned, its rows are right for the whole.
LEMMA RowsAreSound ==
  ASSUME NEW r \in Rows
  PROVE  RowSound(r)
<1>1. PICK lo \in Requested, hi \in Requested : r \in {Row(t, lo, hi) : t \in ExpectedTxids(lo, hi)}
  BY DEF Rows
<1>2. PICK t \in ExpectedTxids(lo, hi) : r = Row(t, lo, hi)
  BY <1>1
<1>3. /\ ExpectedTxids(lo, hi) \subseteq ExpectedTxids(StartHeight, EndHeight)
      /\ \A p : SpentIn(lo, hi, p) \subseteq SpentIn(StartHeight, EndHeight, p)
  <2>1. /\ lo \in Int /\ hi \in Int /\ StartHeight \in Int /\ EndHeight \in Int
        /\ StartHeight <= lo /\ hi <= EndHeight
    BY DEF Requested
  <2>2. QED
    BY <2>1, TxidsGrow
<1>4. r.txid = t
  BY <1>2 DEF Row
<1>5. ASSUME NEW p \in Pools, NEW n \in r.notes[p], n.isSpent
      PROVE  n.nf \in SpentIn(StartHeight, EndHeight, p)
  <2> DEFINE revealed == SpentIn(lo, hi, p) \cap NotesKnown(lo, hi)
  <2>1. r.notes[p] = {[nf |-> m, isSpent |-> m \in revealed] : m \in Receives(TxOf(t), p)}
    BY <1>2 DEF Row
  <2> HIDE DEF revealed
  <2>2. PICK m \in Receives(TxOf(t), p) : n = [nf |-> m, isSpent |-> m \in revealed]
    BY <1>5, <2>1
  <2>3. n.nf = m /\ (n.isSpent <=> m \in revealed)
    BY <2>2, Zenon
  <2>4. QED
    BY <1>3, <1>5, <2>3 DEF revealed
<1>6. QED
  BY <1>3, <1>4, <1>5 DEF RowSound

\* A scan reports what it owes, once.
LEMMA ReportsAreOwed ==
  ASSUME IsChain, NEW lo \in Requested, NEW hi \in Requested, NEW rows \in ScanReports(lo, hi)
  PROVE  rows \in Seq(Rows) /\ Owed(rows, lo, hi)
<1> DEFINE S == ExpectedTxids(lo, hi)
<1>1. PICK s \in Orders(S) : rows = [i \in DOMAIN s |-> Row(s[i], lo, hi)]
  BY DEF ScanReports
<1>2. IsFiniteSet(S) /\ S \subseteq TxidsIn(lo, hi)
  <2>1. lo \in Int /\ hi \in Int /\ lo .. hi \subseteq Heights
    BY RequestedInChain DEF Requested
  <2>2. IsFiniteSet(TxidsIn(lo, hi))
    BY <2>1, FiniteTxids
  <2>3. S \subseteq TxidsIn(lo, hi)
    BY DEF ExpectedTxids
  <2>4. QED
    BY <2>2, <2>3, FS_Subset
<1>3. s \in SetToSeqs(S) /\ \A i, j \in DOMAIN s : i < j => s[i][1] <= s[j][1]
  BY <1>1 DEF Orders
<1>4. OwedTxids(lo, hi) \subseteq S
  <2>1. known \subseteq NotesKnown(lo, hi)
    BY DEF NotesKnown
  <2>2. QED
    BY <2>1 DEF OwedTxids, ExpectedTxids
<1>5. \A t \in S : Row(t, lo, hi) \in Rows /\ Row(t, lo, hi).txid = t
  <2> SUFFICES ASSUME NEW t \in S PROVE Row(t, lo, hi) \in Rows /\ Row(t, lo, hi).txid = t
    OBVIOUS
  <2>1. Row(t, lo, hi) \in Rows
    <3> DEFINE Of(l, h) == {Row(u, l, h) : u \in ExpectedTxids(l, h)}
    <3>1. Row(t, lo, hi) \in Of(lo, hi)
      OBVIOUS
    <3> HIDE DEF Of
    <3>2. Of(lo, hi) \in {Of(l, h) : l \in Requested, h \in Requested}
      OBVIOUS
    <3>3. Row(t, lo, hi) \in UNION {Of(l, h) : l \in Requested, h \in Requested}
      BY <3>1, <3>2
    <3>4. QED
      BY <3>3 DEF Rows, Of
  <2>2. QED
    BY <2>1 DEF Row
<1> HIDE DEF S
<1>6. /\ s \in Seq(S)
      /\ \A i, j \in DOMAIN s : i # j => s[i] # s[j]
      /\ \A x \in S : \E i \in DOMAIN s : s[i] = x
  BY <1>2, <1>3, SeqsListAll
<1>7. rows \in Seq(Rows)
  BY <1>1, <1>5, <1>6
<1>8. DOMAIN rows = DOMAIN s /\ \A i \in DOMAIN rows : rows[i].txid = s[i] /\ s[i] \in S
  BY <1>1, <1>5, <1>6
<1>9. TxidsReported(rows) = S
  BY <1>6, <1>8 DEF TxidsReported
<1>10. ASSUME NEW i \in DOMAIN rows, NEW j \in DOMAIN rows, i < j
       PROVE  rows[i].txid # rows[j].txid /\ rows[i].txid[1] <= rows[j].txid[1]
  <2>1. DOMAIN s = 1 .. Len(s) /\ Len(s) \in Nat
    BY <1>6
  <2>2. i \in DOMAIN s /\ j \in DOMAIN s /\ i # j
    BY <1>8, <1>10, <2>1
  <2>3. QED
    BY <1>3, <1>6, <1>8, <1>10, <2>2
<1>11. QED
  BY <1>2, <1>4, <1>7, <1>9, <1>10 DEF Owed

\* Nothing is owed for no blocks.
LEMMA NothingOwed ==
  ASSUME NEW lo \in Int
  PROVE  Owed(<<>>, lo, lo - 1)
BY NoTxids DEF Owed, OwedTxids, TxidsReported

\* What is owed for adjacent ranges, one after the other, is owed for both.
LEMMA OwedConcat ==
  ASSUME NEW lo \in Int, NEW m \in Int, NEW hi \in Int, lo - 1 <= m, m <= hi,
         NEW a \in Seq(Rows), NEW b \in Seq(Rows), Owed(a, lo, m), Owed(b, m + 1, hi)
  PROVE  a \o b \in Seq(Rows) /\ Owed(a \o b, lo, hi)
<1> DEFINE c == a \o b  R == Rows
<1> HIDE DEF R
<1>1. /\ a \in Seq(R) /\ b \in Seq(R) /\ Len(a) \in Nat /\ Len(b) \in Nat
      /\ DOMAIN a = 1 .. Len(a) /\ DOMAIN b = 1 .. Len(b)
  BY DEF R
<1>2. /\ c \in Seq(R) /\ Len(c) = Len(a) + Len(b) /\ DOMAIN c = 1 .. Len(a) + Len(b)
      /\ \A i \in 1 .. Len(a) : c[i] = a[i]
      /\ \A i \in 1 .. Len(b) : c[Len(a) + i] = b[i]
  BY <1>1
<1> HIDE DEF c
<1>3. \A i \in DOMAIN c : \/ i \in DOMAIN a /\ c[i] = a[i]
                          \/ i > Len(a) /\ i - Len(a) \in DOMAIN b /\ c[i] = b[i - Len(a)]
  <2> SUFFICES ASSUME NEW i \in DOMAIN c
               PROVE  \/ i \in DOMAIN a /\ c[i] = a[i]
                      \/ i > Len(a) /\ i - Len(a) \in DOMAIN b /\ c[i] = b[i - Len(a)]
    OBVIOUS
  <2>1. CASE i <= Len(a)
    BY <1>1, <1>2, <2>1
  <2>2. CASE i > Len(a)
    <3>1. i - Len(a) \in 1 .. Len(b) /\ Len(a) + (i - Len(a)) = i
      BY <1>1, <1>2, <2>2
    <3>2. QED
      BY <1>1, <1>2, <2>2, <3>1
  <2>3. QED
    BY <1>1, <1>2, <2>1, <2>2
<1>4. TxidsReported(c) = TxidsReported(a) \cup TxidsReported(b)
  <2>1. TxidsReported(c) \subseteq TxidsReported(a) \cup TxidsReported(b)
    BY <1>3 DEF TxidsReported
  <2>2. ASSUME NEW i \in DOMAIN a PROVE a[i].txid \in TxidsReported(c)
    <3>1. i \in DOMAIN c /\ c[i] = a[i]
      BY <1>1, <1>2
    <3>2. QED
      BY <3>1 DEF TxidsReported
  <2>3. ASSUME NEW i \in DOMAIN b PROVE b[i].txid \in TxidsReported(c)
    <3>1. Len(a) + i \in DOMAIN c /\ c[Len(a) + i] = b[i]
      BY <1>1, <1>2
    <3>2. QED
      BY <3>1 DEF TxidsReported
  <2>4. QED
    BY <2>1, <2>2, <2>3 DEF TxidsReported
<1>5. TxidsIn(lo, hi) = TxidsIn(lo, m) \cup TxidsIn(m + 1, hi)
  BY TxidsSplit
<1>6. (\A i \in DOMAIN a : a[i].txid[1] \in lo .. m) /\ \A i \in DOMAIN b : b[i].txid[1] \in m + 1 .. hi
  BY TxidsHaveHeights DEF Owed, TxidsReported
<1>7. ASSUME NEW i \in DOMAIN c, NEW j \in DOMAIN c, i < j
      PROVE  c[i].txid # c[j].txid /\ c[i].txid[1] <= c[j].txid[1]
  <2>1. CASE i \in DOMAIN a /\ c[i] = a[i] /\ j \in DOMAIN a /\ c[j] = a[j]
    BY <1>7, <2>1 DEF Owed
  <2>2. CASE i \in DOMAIN a /\ c[i] = a[i] /\ j - Len(a) \in DOMAIN b /\ c[j] = b[j - Len(a)]
    <3>1. c[i].txid[1] \in lo .. m /\ c[j].txid[1] \in m + 1 .. hi
      BY <1>6, <2>2
    <3>2. c[i].txid[1] < c[j].txid[1]
      BY <3>1
    <3>3. c[i].txid[1] # c[j].txid[1] /\ c[i].txid[1] <= c[j].txid[1]
      BY <3>1, <3>2
    <3>4. QED
      BY <3>3
  <2>3. CASE /\ i > Len(a) /\ i - Len(a) \in DOMAIN b /\ c[i] = b[i - Len(a)]
             /\ j - Len(a) \in DOMAIN b /\ c[j] = b[j - Len(a)]
    <3>1. i - Len(a) < j - Len(a)
      BY <1>1, <1>2, <1>7
    <3>2. QED
      BY <2>3, <3>1 DEF Owed
  <2>4. i > Len(a) => j \notin DOMAIN a
    BY <1>1, <1>2, <1>7
  <2>5. QED
    BY <1>3, <2>1, <2>2, <2>3, <2>4
<1>8. OwedTxids(lo, hi) \subseteq TxidsReported(c)
  <2>1. OwedTxids(lo, hi) = OwedTxids(lo, m) \cup OwedTxids(m + 1, hi)
    BY <1>5 DEF OwedTxids
  <2>2. QED
    BY <1>4, <2>1 DEF Owed
<1>9. QED
  BY <1>2, <1>4, <1>5, <1>7, <1>8 DEF Owed, c, R

-----------------------------------------------------------------------------
(* The sessions *)

\* What the chain and the wallet are, they remain: and so does what is owed.
LEMMA ChainFrozen ==
  ASSUME UNCHANGED chainVars
  PROVE  /\ Rows' = Rows /\ (IsChain' <=> IsChain)
         /\ \A txs, lo, hi : Owed(txs, lo, hi)' <=> Owed(txs, lo, hi)
         /\ \A lo, hi : ScanReportKnown(lo, hi)' = ScanReportKnown(lo, hi)
<1>1. /\ chain' = chain /\ known' = known /\ ufvk' = ufvk
      /\ orchardOnly' = orchardOnly /\ undecodable' = undecodable
  BY DEF chainVars
<1>2. \A t : TxOf(t)' = TxOf(t)
  BY <1>1 DEF TxOf
<1>3. \A h : TxidsOf(h)' = TxidsOf(h)
  BY <1>1 DEF TxidsOf
<1>4. \A lo, hi : TxidsIn(lo, hi)' = TxidsIn(lo, hi)
  BY <1>3 DEF TxidsIn
<1>5. \A t, p : Receives(TxOf(t), p)' = Receives(TxOf(t), p)
  BY <1>1, <1>2 DEF Receives, OutputsFound
<1>6. \A t : ReceivesAny(TxOf(t))' = ReceivesAny(TxOf(t))
  BY <1>5 DEF ReceivesAny
<1>7. \A t : Matches(TxOf(t))' = Matches(TxOf(t))
  BY <1>1, <1>2 DEF Matches, HasIvks, Parsed
<1>8. \A t, p : Spends(TxOf(t), p)' = Spends(TxOf(t), p)
  BY <1>2 DEF Spends
<1>9. \A lo, hi, p : SpentIn(lo, hi, p)' = SpentIn(lo, hi, p)
  BY <1>4, <1>8 DEF SpentIn
<1>10. \A lo, hi : ScanReportKnown(lo, hi)' = ScanReportKnown(lo, hi)
  BY <1>1, <1>9 DEF ScanReportKnown
<1>11. \A t : SpendsAny(TxOf(t))' = SpendsAny(TxOf(t))
  BY <1>8 DEF SpendsAny
<1>12. \A lo, hi : NotesKnown(lo, hi)' = NotesKnown(lo, hi)
  BY <1>1, <1>4, <1>6, <1>7 DEF NotesKnown
<1>13. \A lo, hi : ExpectedTxids(lo, hi)' = ExpectedTxids(lo, hi)
  BY <1>1, <1>4, <1>7, <1>11, <1>12 DEF ExpectedTxids
<1>14. ASSUME NEW t, NEW lo, NEW hi
       PROVE  Row(t, lo, hi)' = Row(t, lo, hi)
  <2> DEFINE Revealed(p) == SpentIn(lo, hi, p) \cap NotesKnown(lo, hi)
             Notes(p) == {[nf |-> n, isSpent |-> n \in Revealed(p)] : n \in Receives(TxOf(t), p)}
  <2>1. \A p : Revealed(p)' = Revealed(p)
    BY <1>9, <1>12
  <2> HIDE DEF Revealed
  <2>2. \A p : Notes(p)' = Notes(p)
    BY <1>5, <2>1
  <2>3. /\ Row(t, lo, hi) = [txid |-> t, notes |-> [p \in Pools |-> Notes(p)]]
        /\ Row(t, lo, hi)' = [txid |-> t, notes |-> [p \in Pools |-> Notes(p)']]
    BY DEF Row, Revealed
  <2> HIDE DEF Notes
  <2>4. QED
    BY ONLY <2>2, <2>3
<1>15. Rows' = Rows
  BY <1>13, <1>14 DEF Rows, Requested
<1>16. \A txs : TxidsReported(txs)' = TxidsReported(txs)
  BY DEF TxidsReported
<1>17. \A txs, lo, hi : Owed(txs, lo, hi)' <=> Owed(txs, lo, hi)
  <2>1. \A lo, hi : OwedTxids(lo, hi)' = OwedTxids(lo, hi)
    BY <1>1, <1>4, <1>7, <1>11 DEF OwedTxids
  <2>2. QED
    BY <1>4, <1>16, <2>1 DEF Owed
<1>18. QED
  BY <1>1, <1>10, <1>15, <1>17 DEF IsChain

\* The ranges of a cover end within it.
LEMMA CoversBounded ==
  ASSUME NEW from \in Nat, NEW to \in Nat, NEW rs \in Seq(Entry), Covers(from, rs, to)
  PROVE  \A i \in 1 .. Len(rs) : rs[i].e <= to
<1> DEFINE T == {k \in Nat : \A i \in 1 .. Len(rs) : Len(rs) - i = k => rs[i].e <= to}
<1>1. Len(rs) \in Nat /\ \A i \in 1 .. Len(rs) : rs[i].s \in Nat /\ rs[i].e \in Nat
  BY EntryFields
<1>2. 0 \in T
  <2> SUFFICES ASSUME NEW i \in 1 .. Len(rs), Len(rs) - i = 0 PROVE rs[i].e <= to
    OBVIOUS
  <2>1. i = Len(rs) /\ rs # <<>>
    BY <1>1
  <2>2. QED
    BY <1>1, <2>1 DEF Covers
<1>3. ASSUME NEW k \in Nat, k \in T PROVE k + 1 \in T
  <2> SUFFICES ASSUME NEW i \in 1 .. Len(rs), Len(rs) - i = k + 1 PROVE rs[i].e <= to
    OBVIOUS
  <2>1. i + 1 \in 1 .. Len(rs) /\ i \in 1 .. Len(rs) - 1 /\ Len(rs) - (i + 1) = k
    BY <1>1
  <2>2. rs[i + 1].e <= to
    BY <1>3, <2>1
  <2>3. rs[i].e + 1 = rs[i + 1].s /\ rs[i + 1].s <= rs[i + 1].e
    BY <2>1 DEF Covers, Adjacent, NonEmpty
  <2>4. QED
    BY <1>1, <2>1, <2>2, <2>3
<1>4. Nat \subseteq T
  <2> HIDE DEF T
  <2>1. QED
    BY <1>2, <1>3, SetInduction
<1>5. ASSUME NEW i \in 1 .. Len(rs) PROVE rs[i].e <= to
  <2>1. Len(rs) - i \in Nat
    BY <1>1
  <2>2. QED
    BY <1>4, <2>1
<1>6. QED
  BY <1>5

\* The first height from lo that `combined` does not hold yet.
Upto(lo) == IF combined = <<>> THEN lo ELSE combined[Len(combined)].e + 1

\* A session that scans lo..hi: what is scanned and what is pending tile the range,
\* and everything that is owed for what is scanned is reported.
SessionInv(lo, hi) ==
  /\ TypeOK
  /\ status = "ok" => queue = <<>>
  /\ \A i \in 1 .. Len(combined) : NonEmpty(combined[i])
  /\ Upto(lo) \in lo .. hi + 1
  /\ Covers(Upto(lo), pending, hi)
  /\ report \in Seq(Rows)
  /\ Owed(report, lo, Upto(lo) - 1)
  /\ reportKnown = ScanReportKnown(lo, Upto(lo) - 1)
  /\ BlocksScanned = Upto(lo) - lo

IsRequest(lo, hi) == lo \in Requested /\ hi \in Requested /\ lo <= hi

\* Its ends are heights.
LEMMA RequestNumbers ==
  ASSUME NEW lo, NEW hi, IsRequest(lo, hi)
  PROVE  lo \in Nat /\ hi \in Nat /\ lo <= hi
BY DEF IsRequest, Requested

\* It starts with nothing scanned and nothing reported.
LEMMA SessionStarts ==
  ASSUME NEW lo, NEW hi
  PROVE  IsRequest(lo, hi) /\ SessionInit(lo, hi) => SessionInv(lo, hi)
<1> SUFFICES ASSUME IsRequest(lo, hi), SessionInit(lo, hi) PROVE SessionInv(lo, hi)
  OBVIOUS
<1>1. lo \in Nat /\ hi \in Nat /\ lo <= hi
  BY RequestNumbers
<1> DEFINE r == [s |-> lo, e |-> hi, attempts |-> 0]
<1>2. /\ current = r /\ queue = <<r>> /\ status = "idle" /\ combined = <<>> /\ requests = 0
      /\ report = <<>> /\ reportKnown = {}
  BY DEF SessionInit
<1>3. r \in Entry /\ r.s = lo /\ r.e = hi
  BY <1>1 DEF Entry
<1> HIDE DEF r
<1>4. TypeOK
  BY <1>2, <1>3 DEF TypeOK, Status
<1>5. Upto(lo) = lo
  BY <1>2 DEF Upto
<1>6. Covers(lo, pending, hi)
  <2>1. pending = <<r>> /\ Len(pending) = 1 /\ pending[1] = r /\ pending # <<>>
    BY <1>2 DEF pending
  <2>2. QED
    BY <1>1, <1>3, <2>1 DEF Covers, Adjacent, NonEmpty
<1>7. BlocksScanned = 0
  <2> DEFINE ns == [i \in DOMAIN combined |-> BlockCount(combined[i])]
  <2>1. ns \in Seq(Nat) /\ Len(ns) = 0
    BY <1>2
  <2>2. BlocksScanned = TotalOf(ns)
    BY DEF BlocksScanned, TotalOf
  <2> HIDE DEF ns
  <2>3. PICK p \in [0 .. Len(ns) -> Nat] : p[0] = 0 /\ p[Len(ns)] = TotalOf(ns)
    BY <2>1, TotalPrefixSums
  <2>4. QED
    BY <2>1, <2>2, <2>3
<1>8. report \in Seq(Rows) /\ Owed(report, lo, lo - 1) /\ reportKnown = ScanReportKnown(lo, lo - 1)
  BY <1>1, <1>2, NothingOwed, NoTxids
<1>9. QED
  BY <1>1, <1>2, <1>4, <1>5, <1>6, <1>7, <1>8 DEF SessionInv

\* ... also when it follows another.
LEMMA SessionFollows ==
  ASSUME NEW lo, NEW hi
  PROVE  (IsRequest(lo, hi) /\ SessionInit(lo, hi) => SessionInv(lo, hi))'
<1>1. IsRequest(lo, hi) /\ SessionInit(lo, hi) => SessionInv(lo, hi)
  BY SessionStarts
<1>2. QED
  BY <1>1, PTL

\* While a range is in hand, it is the first of the pending ones.
LEMMA InHand ==
  ASSUME TypeOK, NEW from \in Nat, NEW to \in Nat, Covers(from, pending, to),
         status \notin {"idle", "ok"}
  PROVE  /\ current.s = from /\ NonEmpty(current) /\ current.e \in Nat /\ current.e <= to
         /\ Covers(current.e + 1, queue, to)
<1>1. IsCons(pending, current, queue) /\ pending \in Seq(Entry) /\ current \in Entry /\ queue \in Seq(Entry)
  BY PendingInSeq DEF TypeOK
<1>2. current.s = from /\ NonEmpty(current) /\ Covers(current.e + 1, queue, to)
  BY <1>1, CoversCons
<1>3. 1 \in 1 .. Len(pending) /\ pending[1] = current
  BY <1>1 DEF IsCons
<1>4. pending[1].e <= to
  BY <1>1, <1>3, CoversBounded
<1>5. QED
  BY <1>1, <1>2, <1>3, <1>4, EntryFields

\* The halves of a range cover what the range did.
LEMMA SplitCovers ==
  ASSUME TypeOK, NEW from \in Nat, NEW to \in Nat, Covers(from, pending, to), Split
  PROVE  Covers(from, pending', to)
<1> DEFINE low == Lower(current)
           up == Upper(current)
           rest == <<up>> \o queue
<1>1. /\ current.s = from /\ NonEmpty(current) /\ Covers(current.e + 1, queue, to)
      /\ current \in Entry /\ queue \in Seq(Entry)
  BY InHand DEF Split, TypeOK
<1>2. /\ low \in Entry /\ up \in Entry /\ NonEmpty(low) /\ NonEmpty(up)
      /\ low.s = from /\ low.e + 1 = up.s /\ up.e = current.e
      /\ up.s \in Nat
  BY <1>1, HalvesProperties, EntryFields DEF Split
<1>3. IsCons(rest, up, queue) /\ rest \in Seq(Entry)
  BY <1>1, <1>2, ConcatIsCons DEF IsCons
<1>4. pending' = <<low>> \o rest
  <2>1. pending' = queue' /\ queue' = <<low, up>> \o queue
    BY DEF Split, pending, Halves
  <2>2. <<low, up>> = <<low>> \o <<up>>
    OBVIOUS
  <2>3. (<<low>> \o <<up>>) \o queue = <<low>> \o (<<up>> \o queue)
    BY <1>1, <1>2, ConcatAssociative
  <2>4. QED
    BY <2>1, <2>2, <2>3
<1> HIDE DEF low, up, rest
<1>5. IsCons(pending', low, rest)
  BY <1>2, <1>3, <1>4, ConcatIsCons
<1>6. Covers(up.s, rest, to)
  BY <1>1, <1>2, <1>3, CoversCons
<1>7. QED
  BY <1>2, <1>3, <1>5, <1>6, CoversCons

Counts(rs) == [i \in DOMAIN rs |-> BlockCount(rs[i])]

\* The blocks scanned are the total of the counts, before and after a step.
LEMMA BlocksAreTotal == BlocksScanned = TotalOf(Counts(combined))
BY DEF BlocksScanned, TotalOf, Counts

\* The same of the next state.
LEMMA BlocksAreTotalNext == BlocksScanned' = TotalOf(Counts(combined'))
<1>1. BlocksScanned = TotalOf(Counts(combined))
  BY BlocksAreTotal
<1>2. (BlocksScanned = TotalOf(Counts(combined)))'
  BY <1>1, PTL
<1>3. QED
  BY <1>2

\* The blocks scanned grow by those of the range appended.
LEMMA BlocksGrow ==
  ASSUME combined \in Seq(Entry), \A i \in 1 .. Len(combined) : NonEmpty(combined[i]),
         current \in Entry, NonEmpty(current), combined' = Append(combined, current)
  PROVE  /\ BlocksScanned \in Nat /\ BlocksScanned' = BlocksScanned + BlockCount(current)
         /\ \A i \in 1 .. Len(combined') : NonEmpty(combined'[i])
         /\ combined' # <<>> /\ combined'[Len(combined')] = current
<1> DEFINE ns == Counts(combined)  ms == Counts(combined')
<1> USE DEF Counts
<1>1. /\ Len(combined) \in Nat /\ DOMAIN combined = 1 .. Len(combined)
      /\ combined' \in Seq(Entry) /\ Len(combined') = Len(combined) + 1
      /\ DOMAIN combined' = 1 .. Len(combined) + 1
      /\ \A i \in 1 .. Len(combined) : combined'[i] = combined[i]
      /\ combined'[Len(combined) + 1] = current
  BY AppendProperties
<1>2. \A r \in Entry : NonEmpty(r) => BlockCount(r) \in Nat
  BY EntryFields DEF NonEmpty, BlockCount
<1>3. BlockCount(current) \in Nat
  BY <1>2
<1>4. ns \in Seq(Nat) /\ Len(ns) = Len(combined)
  <2>1. \A i \in 1 .. Len(combined) : BlockCount(combined[i]) \in Nat
    BY <1>2
  <2>2. QED
    BY <1>1, <2>1
<1>5. ms = Append(ns, BlockCount(current))
  <2> DEFINE as == Append(ns, BlockCount(current))
  <2>1. ms = [i \in 1 .. Len(combined) + 1 |-> BlockCount(combined'[i])]
    BY <1>1
  <2>2. /\ as \in Seq(Nat) /\ Len(as) = Len(combined) + 1
        /\ \A i \in 1 .. Len(combined) : as[i] = ns[i]
        /\ as[Len(combined) + 1] = BlockCount(current)
    <3> HIDE DEF ns
    <3>1. QED
      BY <1>3, <1>4, AppendProperties
  <2>3. ASSUME NEW i \in 1 .. Len(combined) + 1 PROVE as[i] = BlockCount(combined'[i])
    <3>1. CASE i = Len(combined) + 1
      BY <1>1, <2>2, <3>1
    <3>2. CASE i # Len(combined) + 1
      <4>1. i \in 1 .. Len(combined)
        BY <1>1, <3>2
      <4>2. as[i] = ns[i] /\ ns[i] = BlockCount(combined[i]) /\ combined'[i] = combined[i]
        <5>1. as[i] = ns[i]
          BY <2>2, <4>1
        <5>2. QED
          BY <1>1, <4>1, <5>1
      <4>3. QED
        BY <4>2
    <3>3. QED
      BY <3>1, <3>2
  <2> HIDE DEF as
  <2>4. as \in [1 .. Len(combined) + 1 -> Nat]
    <3>1. as \in Seq(Nat) /\ Len(as) = Len(combined) + 1
      BY <2>2
    <3>2. as \in [1 .. Len(as) -> Nat]
      BY <3>1, LenProperties
    <3>3. QED
      BY <3>1, <3>2, Zenon
  <2>5. as = ms
    BY <2>1, <2>3, <2>4
  <2>6. QED
    BY <2>5 DEF as
<1>6. BlocksScanned = TotalOf(ns) /\ BlocksScanned' = TotalOf(ms)
  BY BlocksAreTotal, BlocksAreTotalNext
<1> HIDE DEF ns, ms
<1>7. TotalOf(ns) \in Nat /\ TotalOf(ms) = TotalOf(ns) + BlockCount(current)
  BY <1>3, <1>4, <1>5, TotalInNat, TotalOfAppend
<1>8. ASSUME NEW i \in 1 .. Len(combined') PROVE NonEmpty(combined'[i])
  BY <1>1
<1>9. combined' # <<>> /\ combined'[Len(combined')] = current
  BY <1>1
<1>10. QED
  BY <1>6, <1>7, <1>8, <1>9

\* What Upto and SessionInv say of the numbers.
LEMMA SessionNumbers ==
  ASSUME NEW lo, NEW hi, IsRequest(lo, hi), SessionInv(lo, hi)
  PROVE  /\ lo \in Nat /\ hi \in Nat /\ Upto(lo) \in Nat /\ lo <= Upto(lo) /\ Upto(lo) <= hi + 1
         /\ TypeOK /\ Covers(Upto(lo), pending, hi)
         /\ BlocksScanned \in Nat
BY RequestNumbers DEF SessionInv

\* A scan that succeeds: its range and its report are appended.
LEMMA SuccessKeepsSession ==
  ASSUME NEW lo, NEW hi, IsRequest(lo, hi), IsChain, SessionInv(lo, hi), UNCHANGED chainVars,
         SessionScanSucceeds, TypeOK'
  PROVE  SessionInv(lo, hi)'
<1>1. /\ lo \in Nat /\ hi \in Nat /\ Upto(lo) \in Nat /\ lo <= Upto(lo) /\ Upto(lo) <= hi + 1
      /\ TypeOK /\ Covers(Upto(lo), pending, hi) /\ status = "scanning"
      /\ combined' = Append(combined, current) /\ status' = "idle" /\ queue' = queue
  BY SessionNumbers DEF SessionScanSucceeds, ScanSucceeds
<1>2. /\ current.s = Upto(lo) /\ current.e \in Nat /\ current.s <= current.e /\ current.e <= hi
      /\ NonEmpty(current) /\ Covers(current.e + 1, queue, hi)
  BY <1>1, InHand DEF NonEmpty
<1>3. /\ BlocksScanned' = BlocksScanned + BlockCount(current)
      /\ \A i \in 1 .. Len(combined') : NonEmpty(combined'[i])
      /\ Upto(lo)' = current.e + 1
  <2>1. /\ combined \in Seq(Entry) /\ current \in Entry
        /\ \A i \in 1 .. Len(combined) : NonEmpty(combined[i])
    BY DEF SessionInv, TypeOK
  <2>2. QED
    BY <1>1, <1>2, <2>1, BlocksGrow DEF Upto
<1>4. pending' = queue
  BY <1>1 DEF pending
<1>5. PICK rows \in ScanReports(current.s, current.e) : report' = report \o rows
  BY DEF SessionScanSucceeds
<1>6. current.s \in Requested /\ current.e \in Requested
  BY <1>1, <1>2 DEF Requested, IsRequest
<1>7. rows \in Seq(Rows) /\ Owed(rows, current.s, current.e)
  BY <1>5, <1>6, ReportsAreOwed
<1>8. report' \in Seq(Rows) /\ Owed(report', lo, current.e)
  <2>1. Upto(lo) - 1 \in Int /\ lo - 1 <= Upto(lo) - 1 /\ Upto(lo) - 1 <= current.e
        /\ (Upto(lo) - 1) + 1 = current.s /\ lo \in Int /\ current.e \in Int
    BY <1>1, <1>2
  <2>2. report \in Seq(Rows) /\ Owed(report, lo, Upto(lo) - 1)
    BY DEF SessionInv
  <2>3. QED
    BY <1>5, <1>7, <2>1, <2>2, OwedConcat
<1>9. reportKnown' = ScanReportKnown(lo, current.e)
  <2>1. Upto(lo) - 1 \in Int /\ lo - 1 <= Upto(lo) - 1 /\ Upto(lo) - 1 <= current.e
        /\ (Upto(lo) - 1) + 1 = current.s /\ lo \in Int /\ current.e \in Int
    BY <1>1, <1>2
  <2>2. reportKnown = ScanReportKnown(lo, Upto(lo) - 1)
    BY DEF SessionInv
  <2>3. reportKnown' = reportKnown \cup ScanReportKnown(current.s, current.e)
    BY DEF SessionScanSucceeds
  <2>4. QED
    BY <2>1, <2>2, <2>3, KnownSplit
<1>10. (current.e + 1) - 1 = current.e
  BY <1>2
<1>11. report' \in Seq(Rows') /\ Owed(report, lo, Upto(lo) - 1)' /\ reportKnown' = ScanReportKnown(lo, Upto(lo) - 1)'
  BY <1>3, <1>8, <1>9, <1>10, ChainFrozen
<1>12. Upto(lo)' \in lo .. hi + 1 /\ Covers(Upto(lo)', pending', hi)
  BY <1>1, <1>2, <1>3, <1>4
<1>13. BlocksScanned' = Upto(lo)' - lo
  <2>1. BlocksScanned = Upto(lo) - lo
    BY DEF SessionInv
  <2>2. BlockCount(current) = current.e - current.s + 1
    BY DEF BlockCount
  <2>3. QED
    BY <1>1, <1>2, <1>3, <2>1, <2>2
<1>14. QED
  BY <1>1, <1>3, <1>11, <1>12, <1>13 DEF SessionInv, Covers, NonEmpty

\* A step that scans nothing keeps what is reported.
LEMMA SameReports ==
  ASSUME NEW lo, NEW hi, IsRequest(lo, hi), SessionInv(lo, hi), UNCHANGED chainVars,
         UNCHANGED <<combined, report, reportKnown>>, TypeOK',
         status' = "ok" => queue' = <<>>, Covers(Upto(lo), pending', hi)
  PROVE  SessionInv(lo, hi)'
<1>1. Upto(lo)' = Upto(lo)
  BY DEF Upto
<1>2. BlocksScanned' = BlocksScanned
  BY BlocksAreTotal, BlocksAreTotalNext
<1>3. /\ \A i \in 1 .. Len(combined) : NonEmpty(combined[i])
      /\ Upto(lo) \in lo .. hi + 1
      /\ report \in Seq(Rows) /\ Owed(report, lo, Upto(lo) - 1)
      /\ reportKnown = ScanReportKnown(lo, Upto(lo) - 1)
      /\ BlocksScanned = Upto(lo) - lo
  BY DEF SessionInv
<1>4. report' \in Seq(Rows') /\ Owed(report, lo, Upto(lo) - 1)' /\ reportKnown' = ScanReportKnown(lo, Upto(lo) - 1)'
  BY <1>1, <1>3, ChainFrozen
<1>5. \A i \in 1 .. Len(combined') : NonEmpty(combined'[i])
  BY <1>3
<1>6. Covers(Upto(lo)', pending', hi) /\ Upto(lo)' \in lo .. hi + 1 /\ BlocksScanned' = Upto(lo)' - lo
  BY <1>1, <1>2, <1>3
<1>7. QED
  BY <1>4, <1>5, <1>6 DEF SessionInv, Covers, NonEmpty

\* Every step of a session keeps its invariant.
LEMMA SessionKeeps ==
  ASSUME NEW lo, NEW hi, IsRequest(lo, hi), IsChain, SessionInv(lo, hi), SessionNext
  PROVE  SessionInv(lo, hi)'
<1>1. /\ lo \in Nat /\ hi \in Nat /\ Upto(lo) \in Nat /\ TypeOK /\ Covers(Upto(lo), pending, hi)
      /\ UNCHANGED chainVars
  BY SessionNumbers DEF SessionNext
<1>2. TypeOK'
  <2>1. [Next]_vars
    BY DEF SessionNext, SessionScanSucceeds, SessionScanFails, SessionOther, Next
  <2>2. QED
    BY <1>1, <2>1, NextTypeOK
<1>3. CASE SessionScanSucceeds
  BY <1>1, <1>2, <1>3, SuccessKeepsSession
<1>4. CASE SessionScanFails
  <2>1. /\ UNCHANGED <<combined, report, reportKnown, queue, current>>
        /\ status = "scanning" /\ status' \in {"backoff", "err"}
    BY <1>4 DEF SessionScanFails, ScanTimesOut, ScanFails
  <2>2. pending' = pending
    BY <2>1 DEF pending
  <2>3. QED
    BY <1>1, <1>2, <2>1, <2>2, SameReports
<1>5. CASE PopRange /\ UNCHANGED <<report, reportKnown>>
  <2>1. pending' = pending /\ UNCHANGED combined /\ status' = "scanning"
    BY <1>1, <1>5, PopKeepsPending DEF PopRange
  <2>2. QED
    BY <1>1, <1>2, <1>5, <2>1, SameReports
<1>6. CASE Split /\ UNCHANGED <<report, reportKnown>>
  <2>1. Covers(Upto(lo), pending', hi) /\ UNCHANGED combined /\ status' = "idle"
    BY <1>1, <1>6, SplitCovers DEF Split
  <2>2. QED
    BY <1>1, <1>2, <1>6, <2>1, SameReports
<1>7. CASE CannotSplit /\ UNCHANGED <<report, reportKnown>>
  <2>1. pending' = pending /\ UNCHANGED combined /\ status' = "err"
    BY <1>7 DEF CannotSplit, pending
  <2>2. QED
    BY <1>1, <1>2, <1>7, <2>1, SameReports
<1>8. CASE Finish /\ UNCHANGED <<report, reportKnown>>
  <2>1. pending' = pending /\ UNCHANGED combined /\ queue' = <<>>
    BY <1>8 DEF Finish, pending
  <2>2. QED
    BY <1>1, <1>2, <1>8, <2>1, SameReports
<1>9. QED
  BY <1>3, <1>4, <1>5, <1>6, <1>7, <1>8 DEF SessionNext, SessionOther

-----------------------------------------------------------------------------
(* The chunks *)

Spans == {r \in Requested \X Requested : r[1] <= r[2]}

\* The ranges cs tile from..EndHeight, in order.
Tiles(cs, from) ==
  /\ cs \in Seq(Spans)
  /\ \A i \in 1 .. Len(cs) - 1 : cs[i][2] + 1 = cs[i + 1][1]
  /\ IF cs = <<>> THEN from = EndHeight + 1
     ELSE cs[1][1] = from /\ cs[Len(cs)][2] = EndHeight

\* The ends of a chunk are heights of the request.
LEMMA SpanNumbers ==
  ASSUME NEW x \in Spans
  PROVE  x[1] \in Nat /\ x[2] \in Nat /\ IsRequest(x[1], x[2]) /\ x = <<x[1], x[2]>>
BY DEF Spans, Requested, IsRequest

\* A range in front of what tiles the rest.
LEMMA TilesCons ==
  ASSUME NEW x \in Spans, NEW cs, Tiles(cs, x[2] + 1)
  PROVE  Tiles(<<x>> \o cs, x[1]) /\ <<x>> \o cs # <<>>
<1> DEFINE ds == <<x>> \o cs
<1>1. cs \in Seq(Spans) /\ Len(cs) \in Nat /\ x[1] \in Nat /\ x[2] \in Nat
  BY SpanNumbers DEF Tiles
<1>2. /\ ds \in Seq(Spans) /\ Len(ds) = Len(cs) + 1 /\ ds[1] = x
      /\ \A i \in 1 .. Len(cs) : ds[i + 1] = cs[i]
  <2> DEFINE S == Spans
  <2>0. cs \in Seq(S) /\ x \in S
    BY <1>1
  <2> HIDE DEF S
  <2>1. <<x>> \in Seq(S) /\ Len(<<x>>) = 1 /\ <<x>>[1] = x
    BY <2>0
  <2>2. /\ ds \in Seq(S) /\ Len(ds) = Len(cs) + 1 /\ ds[1] = x
        /\ \A i \in 1 .. Len(cs) : ds[i + 1] = cs[i]
    BY <2>0, <2>1, <1>1, ConcatProperties
  <2>3. QED
    BY <2>2 DEF S
<1> HIDE DEF ds
<1>3. ds # <<>>
  BY <1>1, <1>2
<1>4. ASSUME NEW i \in 1 .. Len(ds) - 1 PROVE ds[i][2] + 1 = ds[i + 1][1]
  <2>1. i \in 1 .. Len(cs) /\ ds[i + 1] = cs[i]
    BY <1>1, <1>2
  <2>2. CASE i = 1
    <3>1. cs # <<>> /\ cs[1][1] = x[2] + 1
      BY <1>1, <2>1, <2>2 DEF Tiles
    <3>2. QED
      BY <1>2, <2>1, <2>2, <3>1
  <2>3. CASE i # 1
    <3>1. i - 1 \in 1 .. Len(cs) - 1 /\ i - 1 \in 1 .. Len(cs) /\ (i - 1) + 1 = i
      BY <1>1, <2>1, <2>3
    <3>2. ds[i] = cs[i - 1]
      <4>1. ds[(i - 1) + 1] = cs[i - 1]
        BY <1>2, <3>1
      <4>2. QED
        BY <3>1, <4>1
    <3>3. cs[i - 1][2] + 1 = cs[(i - 1) + 1][1]
      BY <3>1 DEF Tiles
    <3>4. QED
      BY <2>1, <3>1, <3>2, <3>3
  <2>4. QED
    BY <2>2, <2>3
<1>5. ds[Len(ds)][2] = EndHeight
  <2>1. CASE cs = <<>>
    <3>1. Len(ds) = 1 /\ x[2] + 1 = EndHeight + 1
      BY <1>1, <1>2, <2>1 DEF Tiles
    <3>2. QED
      BY <1>1, <1>2, <3>1
  <2>2. CASE cs # <<>>
    <3>1. Len(cs) \in 1 .. Len(cs) /\ cs[Len(cs)][2] = EndHeight
      BY <1>1, <2>2 DEF Tiles
    <3>2. ds[Len(cs) + 1] = cs[Len(cs)]
      BY <1>2, <3>1
    <3>3. QED
      BY <1>2, <3>1, <3>2
  <2>3. QED
    BY <2>1, <2>2
<1>6. QED
  BY <1>2, <1>3, <1>4, <1>5 DEF Tiles, ds

\* A chunk ends at or after its start, within the range.
LEMMA ChunkEnds ==
  ASSUME NEW size \in ChunkSizes, size > 0, NEW h \in 0 .. EndHeight
  PROVE  ChunkEnd(h, size) \in h .. EndHeight
<1>1. size \in Nat /\ U32 \in Nat /\ EndHeight + size <= U32 /\ h \in Nat /\ EndHeight \in Nat
  BY CallersAssumption, NoWrapAssumption
<1> DEFINE last == h + size - 1
<1>2. last \in Nat /\ last >= h /\ last < U32
  BY <1>1
<1>3. last % U32 = last
  <2> HIDE DEF last
  <2>1. QED
    BY <1>1, <1>2
<1>4. ChunkEnd(h, size) = IF last < EndHeight THEN last ELSE EndHeight
  BY <1>3 DEF ChunkEnd
<1>5. QED
  BY <1>1, <1>2, <1>4

\* build_chunks tiles the range.
LEMMA ChunksTile ==
  ASSUME NEW size \in ChunkSizes, size > 0
  PROVE  Tiles(BuildChunks(StartHeight, size), StartHeight) /\ BuildChunks(StartHeight, size) # <<>>
<1> DEFINE Iter(f) == f = [h \in 0 .. EndHeight + 1 |-> IF h > EndHeight THEN <<>>
                             ELSE <<<<h, ChunkEnd(h, size)>>>> \o f[ChunkEnd(h, size) + 1]]
           from == CHOOSE f : Iter(f)
           to == [h \in 0 .. EndHeight |-> ChunkEnd(h, size)]
           hd == [h \in 0 .. EndHeight |-> <<h, ChunkEnd(h, size)>>]
<1>1. \A h \in 0 .. EndHeight : to[h] \in h .. EndHeight
  BY ChunkEnds
<1>2. \E f : Iter(f)
  <2> DEFINE Step(f) == [h \in 0 .. EndHeight + 1 |-> IF h > EndHeight THEN <<>>
                           ELSE <<hd[h]>> \o f[to[h] + 1]]
  <2>1. PICK f : f = Step(f)
    <3> HIDE DEF to, hd
    <3>1. EndHeight \in Nat
      OBVIOUS
    <3>2. \E f : Descends(f, EndHeight, to, hd)
      BY <1>1, <3>1, DescentExists
    <3>3. QED
      BY <3>2 DEF Descends
  <2>2. Step(f) = [h \in 0 .. EndHeight + 1 |-> IF h > EndHeight THEN <<>>
                     ELSE <<<<h, ChunkEnd(h, size)>>>> \o f[ChunkEnd(h, size) + 1]]
    <3> SUFFICES ASSUME NEW h \in 0 .. EndHeight + 1, ~(h > EndHeight)
                 PROVE  <<hd[h]>> \o f[to[h] + 1] = <<<<h, ChunkEnd(h, size)>>>> \o f[ChunkEnd(h, size) + 1]
      OBVIOUS
    <3>1. h \in 0 .. EndHeight
      OBVIOUS
    <3>2. hd[h] = <<h, ChunkEnd(h, size)>> /\ to[h] = ChunkEnd(h, size)
      BY <3>1
    <3>3. QED
      BY <3>2
  <2> HIDE DEF Step
  <2>3. QED
    BY <2>1, <2>2
<1>3. Iter(from)
  <2> HIDE DEF Iter
  <2>1. QED
    BY <1>2
<1>4. BuildChunks(StartHeight, size) = from[StartHeight]
  BY DEF BuildChunks
<1> HIDE DEF from, to, hd
<1>5. \A h \in 0 .. EndHeight + 1 : from[h] = IF h > EndHeight THEN <<>>
         ELSE <<<<h, ChunkEnd(h, size)>>>> \o from[ChunkEnd(h, size) + 1]
  BY <1>3
<1> HIDE DEF Iter
<1> DEFINE T == {k \in Nat : \A h \in StartHeight .. EndHeight + 1 :
                   EndHeight + 1 - h <= k => Tiles(from[h], h) /\ (h <= EndHeight => from[h] # <<>>)}
<1>6. 0 \in T
  <2> SUFFICES ASSUME NEW h \in StartHeight .. EndHeight + 1, EndHeight + 1 - h <= 0
               PROVE  Tiles(from[h], h) /\ (h <= EndHeight => from[h] # <<>>)
    OBVIOUS
  <2>1. h = EndHeight + 1 /\ h > EndHeight /\ h \in 0 .. EndHeight + 1
    OBVIOUS
  <2>2. from[h] = <<>>
    BY <1>5, <2>1
  <2>3. Tiles(<<>>, EndHeight + 1)
    BY DEF Tiles
  <2>4. QED
    BY <2>1, <2>2, <2>3
<1>7. ASSUME NEW k \in Nat, k \in T PROVE k + 1 \in T
  <2> SUFFICES ASSUME NEW h \in StartHeight .. EndHeight + 1, EndHeight + 1 - h <= k + 1
               PROVE  Tiles(from[h], h) /\ (h <= EndHeight => from[h] # <<>>)
    OBVIOUS
  <2>1. CASE h > EndHeight
    <3>1. EndHeight + 1 - h <= k
      BY <2>1
    <3>2. QED
      BY <1>7, <3>1
  <2>2. CASE h <= EndHeight
    <3> DEFINE e == ChunkEnd(h, size)
    <3>1. h \in 0 .. EndHeight /\ h \in 0 .. EndHeight + 1 /\ ~(h > EndHeight)
      BY <2>2
    <3>2. e \in h .. EndHeight
      BY <3>1, ChunkEnds
    <3>3. from[h] = <<<<h, e>>>> \o from[e + 1]
      BY <1>5, <3>1
    <3> HIDE DEF e
    <3>4. e + 1 \in StartHeight .. EndHeight + 1 /\ EndHeight + 1 - (e + 1) <= k
      BY <3>1, <3>2
    <3>5. Tiles(from[e + 1], e + 1)
      BY <1>7, <3>4
    <3> DEFINE x == <<h, e>>
    <3>6. x \in Spans /\ x[1] = h /\ x[2] = e
      BY <3>1, <3>2 DEF Spans, Requested
    <3> HIDE DEF x
    <3>7. Tiles(<<x>> \o from[e + 1], x[1]) /\ <<x>> \o from[e + 1] # <<>>
      BY <3>5, <3>6, TilesCons
    <3>8. QED
      BY <3>3, <3>6, <3>7 DEF x
  <2>3. QED
    BY <2>1, <2>2
<1>8. Nat \subseteq T
  <2> HIDE DEF T
  <2>1. QED
    BY <1>6, <1>7, SetInduction
<1>9. EndHeight + 1 - StartHeight \in Nat /\ StartHeight \in StartHeight .. EndHeight + 1
  OBVIOUS
<1>10. Tiles(from[StartHeight], StartHeight) /\ from[StartHeight] # <<>>
  <2> DEFINE k == EndHeight + 1 - StartHeight
  <2>1. k \in T
    <3> HIDE DEF T
    <3>1. QED
      BY <1>8, <1>9
  <2>2. QED
    BY <1>9, <2>1
<1>11. QED
  BY <1>4, <1>10

\* The result of a session that scanned lo..hi.
Result == [chunk : Nat, ok : BOOLEAN, transactions : Seq(Rows), blocks : Nat]
ResultFits(r, span) ==
  r.ok => Owed(r.transactions, span[1], span[2]) /\ r.blocks = span[2] - span[1] + 1

\* What the fields of a result are.
LEMMA ResultFields ==
  ASSUME NEW r \in Result
  PROVE  r.transactions \in Seq(Rows) /\ r.blocks \in Nat
<1> DEFINE S == Seq(Rows)
<1>1. r \in [chunk : Nat, ok : BOOLEAN, transactions : S, blocks : Nat]
  BY DEF Result
<1> HIDE DEF S
<1>2. r.transactions \in S /\ r.blocks \in Nat
  BY <1>1
<1>3. QED
  BY <1>2 DEF S

\* All the chunks together: what is owed for the request, and its blocks.
LEMMA MergedIsOwed ==
  ASSUME Tiles(chunks, StartHeight), chunks # <<>>, results \in Seq(Result),
         Len(results) = Len(chunks),
         \A i \in 1 .. Len(results) : results[i].ok /\ ResultFits(results[i], chunks[i])
  PROVE  LET txs == FlattenSeq([i \in DOMAIN results |-> results[i].transactions])
         IN  txs \in Seq(Rows) /\ Owed(txs, StartHeight, EndHeight)
<1> DEFINE n == Len(results)
           seqs == [i \in DOMAIN results |-> results[i].transactions]
<1>1. /\ n \in Nat /\ n >= 1 /\ DOMAIN results = 1 .. n /\ n = Len(chunks)
      /\ chunks \in Seq(Spans) /\ chunks[n][2] = EndHeight /\ chunks[1][1] = StartHeight
      /\ \A i \in 1 .. n - 1 : chunks[i][2] + 1 = chunks[i + 1][1]
  BY DEF Tiles
<1>2. Len(seqs) = n /\ \A i \in 1 .. n : seqs[i] = results[i].transactions
  BY <1>1
<1>3. ASSUME NEW i \in 1 .. n
      PROVE  /\ seqs[i] \in Seq(Rows) /\ Owed(seqs[i], chunks[i][1], chunks[i][2])
             /\ chunks[i][1] \in Nat /\ chunks[i][2] \in Nat /\ chunks[i][1] <= chunks[i][2]
             /\ StartHeight <= chunks[i][1]
  <2>1. chunks[i] \in Spans /\ results[i] \in Result
    BY <1>1
  <2>2. chunks[i][1] \in Nat /\ chunks[i][2] \in Nat /\ chunks[i][1] <= chunks[i][2]
        /\ StartHeight <= chunks[i][1]
    BY <2>1, SpanNumbers DEF IsRequest, Requested
  <2>3. results[i].transactions \in Seq(Rows)
    BY <2>1, ResultFields
  <2>4. Owed(results[i].transactions, chunks[i][1], chunks[i][2])
    BY DEF ResultFits
  <2>5. seqs[i] = results[i].transactions
    BY <1>2
  <2> HIDE DEF seqs
  <2>6. QED
    BY <2>2, <2>3, <2>4, <2>5
<1> HIDE DEF n, seqs
<1>4. PICK f : FlattensTo(f, seqs)
  BY <1>1, <1>2, FlattenSteps
<1>5. f[1] = seqs[1] /\ f[n] = FlattenSeq(seqs) /\ \A i \in 2 .. n : f[i] = f[i - 1] \o seqs[i]
  BY <1>2, <1>4 DEF FlattensTo
<1> DEFINE Good(k) == f[k] \in Seq(Rows) /\ Owed(f[k], StartHeight, chunks[k][2])
           T == {k \in Nat : k + 1 <= n => Good(k + 1)}
<1>6. Good(1)
  <2>1. 1 \in 1 .. n
    BY <1>1
  <2>2. seqs[1] \in Seq(Rows) /\ Owed(seqs[1], StartHeight, chunks[1][2])
    BY <1>1, <1>3, <2>1
  <2>3. QED
    BY <1>5, <2>2
<1>7. ASSUME NEW k \in 1 .. n - 1, Good(k) PROVE Good(k + 1)
  <2>1. k \in 1 .. n /\ k + 1 \in 1 .. n /\ k + 1 \in 2 .. n /\ (k + 1) - 1 = k
    BY <1>1
  <2>2. f[k + 1] = f[k] \o seqs[k + 1]
    BY <1>5, <2>1
  <2> DEFINE m == chunks[k][2]  e == chunks[k + 1][2]
  <2>3. m \in Int /\ e \in Int /\ StartHeight \in Int /\ StartHeight - 1 <= m /\ m <= e
        /\ chunks[k + 1][1] = m + 1
    <3>1. chunks[k][2] + 1 = chunks[k + 1][1]
      BY <1>1
    <3>2. /\ chunks[k][1] \in Nat /\ chunks[k][2] \in Nat /\ chunks[k][1] <= chunks[k][2]
          /\ StartHeight <= chunks[k][1]
      BY <1>3, <2>1
    <3>3. chunks[k + 1][1] \in Nat /\ chunks[k + 1][2] \in Nat /\ chunks[k + 1][1] <= chunks[k + 1][2]
      BY <1>3, <2>1
    <3>4. m <= e
      BY ONLY <3>1, <3>2, <3>3 DEF m, e
    <3>5. QED
      BY <3>1, <3>2, <3>3, <3>4
  <2>4. seqs[k + 1] \in Seq(Rows) /\ Owed(seqs[k + 1], m + 1, e)
    <3>1. seqs[k + 1] \in Seq(Rows) /\ Owed(seqs[k + 1], chunks[k + 1][1], e)
      BY <1>3, <2>1
    <3>2. QED
      BY <2>3, <3>1
  <2>5. f[k] \in Seq(Rows) /\ Owed(f[k], StartHeight, m)
    BY <1>7
  <2> HIDE DEF m, e
  <2>6. f[k] \o seqs[k + 1] \in Seq(Rows) /\ Owed(f[k] \o seqs[k + 1], StartHeight, e)
    BY <2>3, <2>4, <2>5, OwedConcat
  <2>7. QED
    BY <2>2, <2>6 DEF e
<1> HIDE DEF Good
<1>8. 0 \in T
  BY <1>6
<1>9. ASSUME NEW k \in Nat, k \in T PROVE k + 1 \in T
  <2> SUFFICES ASSUME (k + 1) + 1 <= n PROVE Good((k + 1) + 1)
    OBVIOUS
  <2>1. k + 1 \in 1 .. n - 1 /\ k + 1 <= n
    BY <1>1
  <2>2. Good(k + 1)
    BY <1>9, <2>1
  <2>3. QED
    BY <1>7, <2>1, <2>2
<1>10. Nat \subseteq T
  <2> HIDE DEF T
  <2>1. QED
    BY <1>8, <1>9, SetInduction
<1>11. Good(n)
  <2>1. n - 1 \in Nat /\ (n - 1) + 1 = n
    BY <1>1
  <2>2. n - 1 \in T
    BY <1>10, <2>1
  <2>3. QED
    BY <1>1, <2>1, <2>2
<1>12. QED
  BY <1>1, <1>5, <1>11 DEF Good, seqs

\* The chunks of the request count its blocks, each once.
LEMMA MergedBlocks ==
  ASSUME Tiles(chunks, StartHeight), chunks # <<>>, results \in Seq(Result),
         Len(results) = Len(chunks),
         \A i \in 1 .. Len(results) : results[i].ok /\ ResultFits(results[i], chunks[i])
  PROVE  BlocksMerged = EndHeight - StartHeight + 1
<1> DEFINE n == Len(results)
           ns == [i \in DOMAIN results |-> results[i].blocks]
<1>1. /\ n \in Nat /\ n >= 1 /\ DOMAIN results = 1 .. n /\ n = Len(chunks)
      /\ chunks \in Seq(Spans) /\ chunks[n][2] = EndHeight /\ chunks[1][1] = StartHeight
      /\ \A i \in 1 .. n - 1 : chunks[i][2] + 1 = chunks[i + 1][1]
  BY DEF Tiles
<1>2. ASSUME NEW i \in 1 .. n
      PROVE  /\ results[i].blocks \in Nat /\ chunks[i][1] \in Nat /\ chunks[i][2] \in Nat
             /\ results[i].blocks = chunks[i][2] - chunks[i][1] + 1
  <2>1. chunks[i] \in Spans /\ results[i] \in Result
    BY <1>1
  <2>2. chunks[i][1] \in Nat /\ chunks[i][2] \in Nat
    BY <2>1, SpanNumbers
  <2>3. results[i].blocks \in Nat
    BY <2>1, ResultFields
  <2>4. QED
    BY <2>2, <2>3 DEF ResultFits
<1>3. ns \in Seq(Nat) /\ Len(ns) = n /\ \A i \in 1 .. n : ns[i] = results[i].blocks
  BY <1>1, <1>2
<1>4. BlocksMerged = TotalOf(ns)
  BY DEF BlocksMerged, TotalOf
<1> HIDE DEF n, ns
<1>5. PICK p \in [0 .. n -> Nat] : p[0] = 0 /\ p[n] = TotalOf(ns) /\ \A k \in 1 .. n : p[k] = p[k - 1] + ns[k]
  BY <1>3, TotalPrefixSums
<1> DEFINE T == {k \in Nat : k + 1 <= n => p[k + 1] = chunks[k + 1][2] - StartHeight + 1}
<1>6. 0 \in T
  <2>1. 1 \in 1 .. n /\ 1 - 1 = 0
    BY <1>1
  <2>1a. p[1] = p[0] + ns[1]
    <3>1. p[1] = p[1 - 1] + ns[1]
      BY <1>5, <2>1
    <3>2. QED
      BY <2>1, <3>1
  <2>2. p[1] = p[0] + ns[1] /\ p[0] = 0 /\ ns[1] = chunks[1][2] - chunks[1][1] + 1
        /\ chunks[1][2] \in Nat
    BY <1>2, <1>3, <1>5, <2>1, <2>1a
  <2>3. QED
    BY <1>1, <2>2
<1>7. ASSUME NEW k \in Nat, k \in T PROVE k + 1 \in T
  <2> SUFFICES ASSUME (k + 1) + 1 <= n
               PROVE  p[(k + 1) + 1] = chunks[(k + 1) + 1][2] - StartHeight + 1
    OBVIOUS
  <2> DEFINE j == k + 1
  <2>1. j \in 1 .. n - 1 /\ j \in 1 .. n /\ j + 1 \in 1 .. n /\ (j + 1) - 1 = j /\ j <= n
    BY <1>1
  <2>2. p[j] = chunks[j][2] - StartHeight + 1
    BY <1>7, <2>1
  <2> HIDE DEF j
  <2>3. p[j + 1] = p[j] + ns[j + 1] /\ ns[j + 1] = chunks[j + 1][2] - chunks[j + 1][1] + 1
    BY <1>2, <1>3, <1>5, <2>1
  <2>4. chunks[j][2] + 1 = chunks[j + 1][1] /\ chunks[j][2] \in Nat
        /\ chunks[j + 1][1] \in Nat /\ chunks[j + 1][2] \in Nat
    BY <1>1, <1>2, <2>1
  <2>5. p[j + 1] = chunks[j + 1][2] - StartHeight + 1
    <3> DEFINE a == chunks[j][2]  b == chunks[j + 1][2]  c == chunks[j + 1][1]
    <3>1. a \in Nat /\ b \in Nat /\ c = a + 1 /\ p[j] = a - StartHeight + 1
          /\ p[j + 1] = p[j] + (b - c + 1)
      <4> HIDE DEF a, b, c
      <4>1. a \in Nat /\ b \in Nat /\ a + 1 = c /\ p[j] = a - StartHeight + 1
            /\ ns[j + 1] = b - c + 1 /\ p[j + 1] = p[j] + ns[j + 1]
        BY <2>2, <2>3, <2>4 DEF a, b, c
      <4>2. QED
        BY <4>1
    <3> HIDE DEF a, b, c
    <3>2. p[j + 1] = b - StartHeight + 1
      BY <3>1
    <3>3. QED
      BY <3>2 DEF b
  <2>6. QED
    BY <2>5 DEF j
<1>8. Nat \subseteq T
  <2> HIDE DEF T
  <2>1. QED
    BY <1>6, <1>7, SetInduction
<1>9. p[n] = chunks[n][2] - StartHeight + 1
  <2>1. n - 1 \in Nat /\ (n - 1) + 1 = n
    BY <1>1
  <2>2. n - 1 \in T
    <3> HIDE DEF T
    <3>1. QED
      BY <1>8, <2>1
  <2>3. QED
    BY <1>1, <2>1, <2>2
<1>10. QED
  BY <1>1, <1>4, <1>5, <1>9

-----------------------------------------------------------------------------
(* The callers *)

\* The session under way scans lo..hi, the chunk after those that have ended.
InChunk(lo, hi) == Chunk <= Len(chunks) /\ lo = chunks[Chunk][1] /\ hi = chunks[Chunk][2]

\* The inductive invariant of the callers.
Scanning ==
  /\ Tiles(chunks, StartHeight) /\ chunks # <<>> /\ Len(results) <= Len(chunks)
  /\ \A i \in 1 .. Len(results) : ResultFits(results[i], chunks[i])
  /\ \A lo, hi : InChunk(lo, hi) => SessionInv(lo, hi)

\* What startSync passes on: its range is one chunk, and the session of that chunk has
\* reported what is owed for the blocks it scanned.
StartSyncLeft ==
  caller = "startSync" /\ exit = "scanning" =>
    /\ Len(chunks) = 1 /\ chunks[1][1] = StartHeight
    /\ \A i \in 1 .. Len(results) : Owed(results[i].transactions, StartHeight, ScannedTo(StartHeight))

CallersInv ==
  /\ IsChain
  /\ caller \in {"startSync", "cli"}
  /\ exit \in {"starting", "scanning", "ok", "failed"}
  /\ report \in Seq(Rows) /\ printed.transactions \in Seq(Rows) /\ results \in Seq(Result)
  /\ caller = "cli" => chunkSize \in ChunkSizes
  /\ exit = "starting" => results = <<>> /\ SessionInv(StartHeight, EndHeight)
  /\ exit = "scanning" => Scanning
  /\ exit \in {"starting", "scanning"} => printed = Nothing
  /\ StartSyncLeft
  /\ PrintedIsComplete

\* The whole request is one that a session may have.
LEMMA WholeRequest == IsRequest(StartHeight, EndHeight)
BY DEF IsRequest, Requested

\* A call that leaves nothing leaves no transaction.
LEMMA NothingPrinted == Nothing.transactions \in Seq(Rows)
BY DEF Nothing

\* The chunk under way is one that a session may have.
LEMMA ChunkIsRequest ==
  ASSUME Tiles(chunks, StartHeight), NEW k \in 1 .. Len(chunks)
  PROVE  IsRequest(chunks[k][1], chunks[k][2])
<1>1. chunks[k] \in Spans
  BY DEF Tiles
<1>2. QED
  BY <1>1, SpanNumbers

\* It holds at the start: no chunk is made yet.
LEMMA CallersStart == CallersInit => CallersInv
<1> SUFFICES ASSUME CallersInit PROVE CallersInv
  OBVIOUS
<1>1. IsChain
  BY ChainAssumption DEF CallersInit, ChainInit, IsChain
<1>2. SessionInv(StartHeight, EndHeight)
  BY WholeRequest, SessionStarts DEF CallersInit
<1>3. report \in Seq(Rows) /\ results = <<>> /\ results \in Seq(Result)
  BY DEF CallersInit, SessionInit
<1>4. printed = Nothing /\ exit = "starting" /\ (caller = "cli" => chunkSize \in ChunkSizes)
  BY DEF CallersInit
<1>5. PrintedIsComplete
  BY <1>4 DEF PrintedIsComplete
<1>6. StartSyncLeft /\ caller \in {"startSync", "cli"}
  BY <1>4 DEF StartSyncLeft, CallersInit
<1>7. QED
  BY <1>1, <1>2, <1>3, <1>4, <1>5, <1>6, NothingPrinted DEF CallersInv

\* Chain and printed transactions as they were: what was right of them stays right,
\* while a call is under way and after it.
LEMMA PrintedStays ==
  ASSUME CallersInv, UNCHANGED chainVars, UNCHANGED printed
  PROVE  /\ IsChain' /\ Rows' = Rows /\ Result' = Result
         /\ printed.transactions' \in Seq(Rows')
         /\ (exit' = exit /\ (exit = "scanning" \/ UNCHANGED <<caller, combined>>) => PrintedIsComplete')
         /\ \A r, span : ResultFits(r, span)' <=> ResultFits(r, span)
<1>1. /\ Rows' = Rows /\ IsChain'
      /\ \A txs, lo, hi : Owed(txs, lo, hi)' <=> Owed(txs, lo, hi)
  BY ChainFrozen DEF CallersInv
<1>2. Result' = Result
  BY <1>1 DEF Result
<1>3. printed.transactions' \in Seq(Rows')
  BY <1>1 DEF CallersInv
<1>4. exit' = exit /\ (exit = "scanning" \/ UNCHANGED <<caller, combined>>) => PrintedIsComplete'
  BY <1>1 DEF CallersInv, PrintedIsComplete, ScannedTo
<1>5. \A r, span : ResultFits(r, span)' <=> ResultFits(r, span)
  BY <1>1 DEF ResultFits
<1>6. QED
  BY <1>1, <1>2, <1>3, <1>4, <1>5

\* SessionOf leaves the session at its start.
LEMMA SessionOfStarts ==
  ASSUME NEW range, SessionOf(range), NEW lo, NEW hi, lo = range[1], hi = range[2], IsRequest(lo, hi)
  PROVE  SessionInv(lo, hi)' /\ UNCHANGED chainVars /\ report' = <<>>
<1>1. SessionInit(lo, hi)' /\ UNCHANGED chainVars /\ report' = <<>>
  BY DEF SessionOf, SessionInit
<1>2. IsRequest(lo, hi)'
  BY DEF IsRequest, Requested
<1>3. QED
  BY <1>1, <1>2, SessionFollows

\* A session that is left alone keeps its invariant.
LEMMA SessionStays ==
  ASSUME NEW lo, NEW hi, IsRequest(lo, hi), SessionInv(lo, hi), UNCHANGED sessionVars
  PROVE  SessionInv(lo, hi)'
<1>1. UNCHANGED <<vars, chainVars, report, reportKnown>>
  BY DEF sessionVars
<1>2. UNCHANGED <<queue, current, status, combined, requests>> /\ pending' = pending
  BY <1>1 DEF vars, pending
<1>3. TypeOK' /\ (status' = "ok" => queue' = <<>>) /\ Covers(Upto(lo), pending', hi)
  BY <1>2 DEF SessionInv, TypeOK
<1>4. QED
  BY <1>1, <1>2, <1>3, SameReports

\* startSync scans its range as one chunk.
LEMMA StartSyncKeeps ==
  ASSUME CallersInv, StartSync
  PROVE  CallersInv'
<1>1. /\ chunks' = <<<<StartHeight, EndHeight>>>> /\ exit' = "scanning" /\ exit = "starting"
      /\ UNCHANGED <<sessionVars, caller, chunkSize, results, printed>>
      /\ UNCHANGED <<chainVars, report>>
  BY DEF StartSync, sessionVars
<1>2. SessionInv(StartHeight, EndHeight)' /\ results = <<>>
  BY <1>1, SessionStays, WholeRequest DEF CallersInv
<1>3. Tiles(chunks', StartHeight) /\ chunks' # <<>> /\ Len(chunks') = 1
      /\ chunks'[1][1] = StartHeight /\ chunks'[1][2] = EndHeight
  <2> DEFINE x == <<StartHeight, EndHeight>>
  <2>1. x \in Spans /\ x[1] = StartHeight /\ x[2] = EndHeight
    BY DEF Spans, Requested
  <2> HIDE DEF x
  <2>2. <<x>> \in Seq(Spans) /\ Len(<<x>>) = 1 /\ <<x>>[1] = x /\ <<x>> # <<>>
    BY <2>1
  <2>3. Tiles(<<x>>, StartHeight)
    BY <2>1, <2>2 DEF Tiles
  <2>4. QED
    BY <1>1, <2>1, <2>2, <2>3 DEF x
<1>4. Scanning'
  <2>1. results' = <<>> /\ Len(results') = 0 /\ Chunk' = 1
    BY <1>1, <1>2 DEF Chunk
  <2>2. ASSUME NEW lo, NEW hi, InChunk(lo, hi)' PROVE SessionInv(lo, hi)'
    BY <1>2, <1>3, <2>1, <2>2 DEF InChunk
  <2>3. Tiles(chunks, StartHeight)'
    BY <1>3 DEF Tiles
  <2>4. QED
    BY <1>3, <2>1, <2>2, <2>3 DEF Scanning
<1>5. /\ IsChain' /\ report' \in Seq(Rows') /\ printed.transactions' \in Seq(Rows')
      /\ results' \in Seq(Result')
  BY <1>1, PrintedStays DEF CallersInv
<1>6. PrintedIsComplete' /\ printed' = Nothing
  BY <1>1 DEF CallersInv, PrintedIsComplete
<1>7. StartSyncLeft'
  <2>1. results' = <<>> /\ Len(results') = 0
    BY <1>1, <1>2
  <2>2. QED
    BY <1>3, <2>1 DEF StartSyncLeft
<1>8. QED
  BY <1>1, <1>4, <1>5, <1>6, <1>7 DEF CallersInv

\* The sync command starts with the first of its chunks.
LEMMA StartChunksKeeps ==
  ASSUME CallersInv, StartChunks
  PROVE  CallersInv'
<1>1. /\ chunks' = BuildChunks(StartHeight, chunkSize) /\ exit' = "scanning" /\ exit = "starting"
      /\ SessionOf(chunks'[1]) /\ chunkSize \in ChunkSizes /\ chunkSize > 0
      /\ UNCHANGED <<caller, chunkSize, results, printed>>
  BY DEF StartChunks, CallersInv
<1>2. Tiles(chunks', StartHeight) /\ chunks' # <<>>
  BY <1>1, ChunksTile
<1>3. chunks' \in Seq(Spans) /\ 1 \in 1 .. Len(chunks')
  BY <1>2 DEF Tiles
<1>4. IsRequest(chunks'[1][1], chunks'[1][2])
  BY <1>3, SpanNumbers
<1>5. UNCHANGED chainVars /\ report' = <<>>
  BY <1>1 DEF SessionOf
<1>5a. ASSUME NEW lo, NEW hi, lo = chunks'[1][1], hi = chunks'[1][2]
       PROVE  SessionInv(lo, hi)'
  <2>1. IsRequest(lo, hi)
    BY <1>4, <1>5a
  <2>2. PICK range : range = chunks'[1]
    OBVIOUS
  <2>3. SessionOf(range) /\ lo = range[1] /\ hi = range[2]
    BY <1>1, <1>5a, <2>2
  <2>4. QED
    BY <2>1, <2>3, SessionOfStarts
<1>6. results = <<>>
  BY <1>1 DEF CallersInv
<1>7. Scanning'
  <2>1. results' = <<>> /\ Len(results') = 0 /\ Chunk' = 1
    BY <1>1, <1>6 DEF Chunk
  <2>2. ASSUME NEW lo, NEW hi, InChunk(lo, hi)' PROVE SessionInv(lo, hi)'
    BY <1>5a, <2>1, <2>2 DEF InChunk
  <2>3. Tiles(chunks, StartHeight)'
    BY <1>2 DEF Tiles
  <2>4. Len(results') <= Len(chunks')
    BY <1>3, <2>1
  <2>5. QED
    BY <1>2, <2>1, <2>2, <2>3, <2>4 DEF Scanning
<1>8. IsChain' /\ report' \in Seq(Rows') /\ printed.transactions' \in Seq(Rows') /\ results' \in Seq(Result')
  <2>1. IsChain' /\ Rows' = Rows /\ Result' = Result /\ printed.transactions' \in Seq(Rows')
    BY <1>1, <1>5, PrintedStays
  <2>2. report' \in Seq(Rows') /\ results' \in Seq(Result')
    BY <1>1, <1>5, <1>6
  <2>3. QED
    BY <2>1, <2>2
<1>9. PrintedIsComplete' /\ printed' = Nothing
  BY <1>1 DEF CallersInv, PrintedIsComplete
<1>10. StartSyncLeft'
  BY DEF StartChunks, StartSyncLeft
<1>11. QED
  BY <1>1, <1>7, <1>8, <1>9, <1>10 DEF CallersInv

\* The command refuses its arguments.
LEMMA RefuseKeeps ==
  ASSUME CallersInv, Refuse
  PROVE  CallersInv'
<1>1. /\ exit' = "failed" /\ exit = "starting" /\ caller' = "cli"
      /\ UNCHANGED <<chainVars, report, caller, chunkSize, chunks, results, printed>>
  BY DEF Refuse, sessionVars
<1>2. IsChain' /\ report' \in Seq(Rows') /\ printed.transactions' \in Seq(Rows') /\ results' \in Seq(Result')
  BY <1>1, PrintedStays DEF CallersInv
<1>3. PrintedIsComplete' /\ printed' = Nothing
  BY <1>1 DEF CallersInv, PrintedIsComplete
<1>4. StartSyncLeft'
  BY <1>1 DEF StartSyncLeft
<1>5. QED
  BY <1>1, <1>2, <1>3, <1>4 DEF CallersInv

\* The chunk under way, and its session.
LEMMA ChunkUnderWay ==
  ASSUME CallersInv, exit = "scanning", Chunk <= Len(chunks)
  PROVE  /\ Chunk \in 1 .. Len(chunks) /\ Chunk = Len(results) + 1
         /\ \A lo, hi : InChunk(lo, hi) => IsRequest(lo, hi) /\ SessionInv(lo, hi)
         /\ \E lo, hi : InChunk(lo, hi)
<1>1. Tiles(chunks, StartHeight) /\ Len(results) \in Nat
  BY DEF CallersInv, Scanning
<1>2. Chunk \in 1 .. Len(chunks) /\ Chunk = Len(results) + 1
  BY <1>1 DEF Chunk, Tiles
<1>3. ASSUME NEW lo, NEW hi, InChunk(lo, hi) PROVE IsRequest(lo, hi) /\ SessionInv(lo, hi)
  BY <1>1, <1>2, <1>3, ChunkIsRequest DEF InChunk, CallersInv, Scanning
<1>4. QED
  BY <1>2, <1>3 DEF InChunk

\* A step of the session under way.
LEMMA SessionStepKeeps ==
  ASSUME CallersInv, SessionStep
  PROVE  CallersInv'
<1>1. /\ exit = "scanning" /\ Chunk <= Len(chunks) /\ SessionNext /\ UNCHANGED chainVars
      /\ UNCHANGED <<caller, chunkSize, chunks, results, exit, printed>>
  BY DEF SessionStep, SessionNext, callerVars
<1>2. /\ \A lo, hi : InChunk(lo, hi) => IsRequest(lo, hi) /\ SessionInv(lo, hi)
      /\ \E lo, hi : InChunk(lo, hi)
  BY <1>1, ChunkUnderWay
<1>3. \A lo, hi : InChunk(lo, hi) => SessionInv(lo, hi)'
  BY <1>1, <1>2, SessionKeeps DEF CallersInv
<1>4. \A lo, hi : InChunk(lo, hi)' <=> InChunk(lo, hi)
  BY <1>1 DEF InChunk, Chunk
<1>5. report' \in Seq(Rows')
  <2>1. PICK lo, hi : InChunk(lo, hi)
    BY <1>2
  <2>2. SessionInv(lo, hi)'
    BY <1>3, <2>1
  <2>3. QED
    BY <2>2 DEF SessionInv
<1>6. /\ IsChain' /\ Rows' = Rows /\ Result' = Result
      /\ printed.transactions' \in Seq(Rows') /\ PrintedIsComplete'
      /\ \A r, span : ResultFits(r, span)' <=> ResultFits(r, span)
  BY <1>1, PrintedStays
<1>7. Scanning'
  <2>1. Scanning
    BY <1>1 DEF CallersInv
  <2>2. Tiles(chunks, StartHeight)' /\ chunks' # <<>> /\ Len(results') <= Len(chunks')
    BY <1>1, <2>1 DEF Scanning, Tiles
  <2>3. \A i \in 1 .. Len(results') : ResultFits(results[i], chunks[i])'
    BY <1>1, <1>6, <2>1 DEF Scanning
  <2>4. \A lo, hi : InChunk(lo, hi)' => SessionInv(lo, hi)'
    BY <1>3, <1>4
  <2>5. QED
    BY <2>2, <2>3, <2>4 DEF Scanning
<1>8. StartSyncLeft'
  <2> SUFFICES ASSUME caller' = "startSync" PROVE StartSyncLeft'
    BY DEF StartSyncLeft
  <2>1. Len(chunks) = 1 /\ chunks[1][1] = StartHeight
    BY <1>1 DEF CallersInv, StartSyncLeft
  <2>2. Chunk \in 1 .. Len(chunks) /\ Chunk = Len(results) + 1
    BY <1>1, ChunkUnderWay
  <2>3. Len(results) = 0
    BY <1>1, <2>1, <2>2 DEF CallersInv
  <2>4. Len(results') = 0 /\ Len(chunks') = 1 /\ chunks'[1][1] = StartHeight
    BY <1>1, <2>1, <2>3
  <2>5. QED
    BY <2>4 DEF StartSyncLeft
<1>9. QED
  BY <1>1, <1>5, <1>6, <1>7, <1>8 DEF CallersInv

\* The last height scanned is the one before the next.
LEMMA ScannedBeforeNext ==
  ASSUME TypeOK, NEW lo \in Nat
  PROVE  ScannedTo(lo) = Upto(lo) - 1
<1>1. CASE combined = <<>>
  BY <1>1 DEF Upto, ScannedTo
<1>2. CASE combined # <<>>
  <2>1. combined[Len(combined)] \in Entry
    BY <1>2 DEF TypeOK
  <2>2. combined[Len(combined)].e \in Nat
    BY <2>1, EntryFields
  <2>3. QED
    BY <1>2, <2>2 DEF Upto, ScannedTo
<1>3. QED
  BY <1>1, <1>2

\* What a session that has ended leaves is what its chunk is owed.
LEMMA EndedFits ==
  ASSUME NEW lo, NEW hi, IsRequest(lo, hi), SessionInv(lo, hi), NEW n \in Nat
  PROVE  LET r == [chunk |-> n, ok |-> status = "ok", transactions |-> report, blocks |-> BlocksScanned]
         IN  r \in Result /\ ResultFits(r, <<lo, hi>>)
<1> DEFINE r == [chunk |-> n, ok |-> status = "ok", transactions |-> report, blocks |-> BlocksScanned]
<1>1. /\ lo \in Nat /\ hi \in Nat /\ Upto(lo) \in Nat /\ BlocksScanned \in Nat
      /\ Covers(Upto(lo), pending, hi) /\ report \in Seq(Rows)
      /\ Owed(report, lo, Upto(lo) - 1) /\ BlocksScanned = Upto(lo) - lo
  BY SessionNumbers DEF SessionInv
<1>2. r \in Result
  <2> DEFINE S == Seq(Rows)  b == status = "ok"
  <2>1. report \in S /\ b \in BOOLEAN
    BY <1>1
  <2> HIDE DEF S, b
  <2>2. [chunk |-> n, ok |-> b, transactions |-> report, blocks |-> BlocksScanned]
          \in [chunk : Nat, ok : BOOLEAN, transactions : S, blocks : Nat]
    BY <1>1, <2>1, Zenon
  <2>3. QED
    BY <2>2 DEF Result, S, b
<1>3. r.ok <=> status = "ok"
  BY Zenon
<1>4. r.transactions = report /\ r.blocks = BlocksScanned
  OBVIOUS
<1>5. ASSUME status = "ok" PROVE Owed(report, lo, hi) /\ BlocksScanned = hi - lo + 1
  <2>1. pending = <<>>
    BY <1>5 DEF SessionInv, pending
  <2>2. Upto(lo) = hi + 1
    BY <1>1, <2>1 DEF Covers
  <2>3. Upto(lo) - 1 = hi
    BY <1>1, <2>2
  <2>4. QED
    BY <1>1, <2>2, <2>3
<1> HIDE DEF r
<1>6. <<lo, hi>>[1] = lo /\ <<lo, hi>>[2] = hi
  OBVIOUS
<1>7. ResultFits(r, <<lo, hi>>)
  BY <1>3, <1>4, <1>5, <1>6 DEF ResultFits
<1>8. QED
  BY <1>2, <1>7 DEF r

\* A session has ended: its result is kept, and the next chunk is scanned.
LEMMA SessionEndsKeeps ==
  ASSUME CallersInv, SessionEnds
  PROVE  CallersInv'
<1> DEFINE new == [chunk |-> Chunk, ok |-> status = "ok", transactions |-> report,
                   blocks |-> BlocksScanned]
<1>1. /\ exit = "scanning" /\ Chunk <= Len(chunks) /\ results' = Append(results, new)
      /\ IF Chunk < Len(chunks) THEN SessionOf(chunks[Chunk + 1]) ELSE UNCHANGED sessionVars
      /\ UNCHANGED <<caller, chunkSize, chunks, exit, printed>>
      /\ UNCHANGED chainVars
  BY DEF SessionEnds, SessionOf, sessionVars
<1>2. /\ Chunk \in 1 .. Len(chunks) /\ Chunk = Len(results) + 1 /\ Chunk \in Nat
      /\ \A lo, hi : InChunk(lo, hi) => IsRequest(lo, hi) /\ SessionInv(lo, hi)
      /\ \E lo, hi : InChunk(lo, hi)
  BY <1>1, ChunkUnderWay
<1>3. /\ Scanning /\ results \in Seq(Result) /\ Len(results) \in Nat
      /\ chunks \in Seq(Spans) /\ Len(chunks) \in Nat /\ Tiles(chunks, StartHeight)
  <2>1. Scanning /\ results \in Seq(Result)
    BY <1>1 DEF CallersInv
  <2>2. Tiles(chunks, StartHeight)
    BY <2>1 DEF Scanning
  <2>3. chunks \in Seq(Spans)
    BY <2>2 DEF Tiles
  <2>4. QED
    BY <2>1, <2>2, <2>3, LenProperties
<1>4. new \in Result /\ ResultFits(new, chunks[Chunk])
  <2>1. PICK lo, hi : InChunk(lo, hi)
    BY <1>2
  <2>2. chunks[Chunk] \in Spans
    BY <1>2, <1>3
  <2>3. chunks[Chunk] = <<lo, hi>>
    BY <2>1, <2>2, SpanNumbers DEF InChunk
  <2>4. PICK n \in Nat : n = Chunk
    BY <1>2
  <2>5. IsRequest(lo, hi) /\ SessionInv(lo, hi)
    BY <1>2, <2>1
  <2>6. /\ [chunk |-> n, ok |-> status = "ok", transactions |-> report, blocks |-> BlocksScanned] \in Result
        /\ ResultFits([chunk |-> n, ok |-> status = "ok", transactions |-> report, blocks |-> BlocksScanned],
                      <<lo, hi>>)
    BY <2>5, EndedFits
  <2>7. QED
    BY <2>3, <2>4, <2>6, Zenon
<1> HIDE DEF new
<1>5. /\ results' \in Seq(Result) /\ Len(results') = Len(results) + 1
      /\ \A i \in 1 .. Len(results) : results'[i] = results[i]
      /\ results'[Len(results) + 1] = new
  <2> DEFINE S == Result
  <2>1. results \in Seq(S) /\ new \in S
    BY <1>3, <1>4
  <2> HIDE DEF S
  <2>2. /\ Append(results, new) \in Seq(S) /\ Len(Append(results, new)) = Len(results) + 1
        /\ \A i \in 1 .. Len(results) : Append(results, new)[i] = results[i]
        /\ Append(results, new)[Len(results) + 1] = new
    BY <2>1, AppendProperties
  <2>3. QED
    BY <1>1, <2>2 DEF S
<1>6. /\ IsChain' /\ Rows' = Rows /\ Result' = Result
      /\ printed.transactions' \in Seq(Rows') /\ PrintedIsComplete'
      /\ \A r, span : ResultFits(r, span)' <=> ResultFits(r, span)
  BY <1>1, PrintedStays
<1>7. report' \in Seq(Rows')
  <2>1. CASE Chunk < Len(chunks)
    <3>1. report' = <<>>
      BY <1>1, <2>1 DEF SessionOf
    <3>2. QED
      BY <3>1
  <2>2. CASE ~(Chunk < Len(chunks))
    <3>1. report' = report
      BY <1>1, <2>2 DEF sessionVars
    <3>2. QED
      BY <1>6, <3>1 DEF CallersInv
  <2>3. QED
    BY <2>1, <2>2
<1>8. Chunk' = Chunk + 1
  BY <1>2, <1>3, <1>5 DEF Chunk
<1>9. ASSUME NEW lo, NEW hi, InChunk(lo, hi)' PROVE SessionInv(lo, hi)'
  <2>1. Chunk < Len(chunks) /\ Chunk + 1 \in 1 .. Len(chunks)
        /\ lo = chunks[Chunk + 1][1] /\ hi = chunks[Chunk + 1][2]
    <3>1. Chunk + 1 <= Len(chunks) /\ lo = chunks[Chunk + 1][1] /\ hi = chunks[Chunk + 1][2]
      BY <1>1, <1>8, <1>9 DEF InChunk
    <3>2. QED
      BY <1>2, <1>3, <3>1
  <2>2. IsRequest(lo, hi)
    BY <1>3, <2>1, ChunkIsRequest
  <2>3. PICK range : range = chunks[Chunk + 1]
    OBVIOUS
  <2>4. SessionOf(range) /\ lo = range[1] /\ hi = range[2]
    BY <1>1, <2>1, <2>3
  <2>5. QED
    BY <2>2, <2>4, SessionOfStarts
<1>10. Scanning'
  <2>1. Tiles(chunks, StartHeight)' /\ chunks' # <<>>
    BY <1>1, <1>3 DEF Scanning, Tiles
  <2>2. Len(results') <= Len(chunks')
    BY <1>1, <1>2, <1>3, <1>5
  <2>3. ASSUME NEW i \in 1 .. Len(results') PROVE ResultFits(results[i], chunks[i])'
    <3>1. CASE i = Len(results) + 1
      <4>1. ResultFits(results'[i], chunks'[i])
        BY <1>1, <1>2, <1>4, <1>5, <3>1
      <4>2. QED
        BY <1>6, <4>1
    <3>2. CASE i # Len(results) + 1
      <4>1. i \in 1 .. Len(results)
        BY <1>3, <1>5, <3>2
      <4>2. ResultFits(results'[i], chunks'[i])
        BY <1>1, <1>3, <1>5, <4>1 DEF Scanning
      <4>3. QED
        BY <1>6, <4>2
    <3>3. QED
      BY <3>1, <3>2
  <2>4. QED
    BY <1>9, <2>1, <2>2, <2>3 DEF Scanning
<1>11. StartSyncLeft'
  <2> SUFFICES ASSUME caller' = "startSync" PROVE StartSyncLeft'
    BY DEF StartSyncLeft
  <2>1. Len(chunks) = 1 /\ chunks[1][1] = StartHeight
    BY <1>1 DEF CallersInv, StartSyncLeft
  <2>2. Chunk = 1 /\ Len(results) = 0 /\ UNCHANGED sessionVars
    BY <1>1, <1>2, <1>3, <2>1
  <2>3. UNCHANGED combined
    BY <2>2 DEF sessionVars, vars
  <2>4. PICK lo, hi : InChunk(lo, hi)
    BY <1>2
  <2>5. lo = StartHeight /\ SessionInv(lo, hi) /\ lo \in Nat
    BY <1>2, <2>1, <2>2, <2>4, RequestNumbers DEF InChunk
  <2>6. Owed(report, StartHeight, ScannedTo(StartHeight))
    <3>1. Owed(report, lo, Upto(lo) - 1) /\ TypeOK
      BY <2>5 DEF SessionInv
    <3>2. QED
      BY <2>5, <3>1, ScannedBeforeNext
  <2>7. Len(results') = 1 /\ results'[1].transactions = report
    BY <1>5, <2>2 DEF new
  <2>8. ScannedTo(StartHeight)' = ScannedTo(StartHeight)
    BY <2>3 DEF ScannedTo
  <2>9. Owed(report, StartHeight, ScannedTo(StartHeight))'
    <3>1. report' = report /\ \A txs, l, h : Owed(txs, l, h)' <=> Owed(txs, l, h)
      BY <1>1, <2>2, ChainFrozen DEF sessionVars
    <3>2. QED
      BY <2>6, <2>8, <3>1
  <2>10. \A i \in 1 .. Len(results') : Owed(results[i].transactions, StartHeight, ScannedTo(StartHeight))'
    <3>1. report' = report
      BY <2>2 DEF sessionVars
    <3>2. QED
      BY <2>7, <2>9, <3>1
  <2>11. QED
    BY <1>1, <2>1, <2>10 DEF StartSyncLeft
<1>12. QED
  BY <1>1, <1>5, <1>6, <1>7, <1>10, <1>11 DEF CallersInv

\* The chunks are merged, if all succeeded.
LEMMA MergeKeeps ==
  ASSUME CallersInv, Merge
  PROVE  CallersInv'
<1> DEFINE txs == FlattenSeq([i \in DOMAIN results |-> results[i].transactions])
<1>1. /\ exit = "scanning" /\ Chunk > Len(chunks)
      /\ IF \A i \in DOMAIN results : results[i].ok
         THEN exit' = "ok" /\ printed' = [transactions |-> txs, blocks |-> BlocksMerged]
         ELSE /\ exit' = "failed"
              /\ printed' = IF caller = "cli" THEN Nothing
                            ELSE [transactions |-> results[1].transactions, blocks |-> 0]
      /\ UNCHANGED <<sessionVars, caller, chunkSize, chunks, results>>
      /\ UNCHANGED <<chainVars, report, combined>>
  BY DEF Merge, sessionVars, vars
<1> HIDE DEF txs
<1>2. /\ Scanning /\ results \in Seq(Result) /\ Len(results) \in Nat /\ Len(chunks) \in Nat
      /\ DOMAIN results = 1 .. Len(results)
  BY <1>1 DEF CallersInv, Scanning, Tiles
<1>3. Len(results) = Len(chunks)
  BY <1>1, <1>2 DEF Scanning, Chunk
<1>4. /\ Rows' = Rows /\ IsChain' /\ report' \in Seq(Rows') /\ results' \in Seq(Result')
      /\ \A ts, lo, hi : Owed(ts, lo, hi)' <=> Owed(ts, lo, hi)
  <2>1. Rows' = Rows /\ IsChain' /\ \A ts, lo, hi : Owed(ts, lo, hi)' <=> Owed(ts, lo, hi)
    BY <1>1, ChainFrozen DEF CallersInv
  <2>2. Result' = Result
    BY <2>1 DEF Result
  <2>3. QED
    BY <1>1, <1>2, <2>1, <2>2 DEF CallersInv
<1>5. CASE \A i \in DOMAIN results : results[i].ok
  <2>1. exit' = "ok" /\ printed' = [transactions |-> txs, blocks |-> BlocksMerged]
    BY <1>1, <1>5
  <2>2. \A i \in 1 .. Len(results) : results[i].ok /\ ResultFits(results[i], chunks[i])
    BY <1>2, <1>5 DEF Scanning
  <2>3. Tiles(chunks, StartHeight) /\ chunks # <<>>
    BY <1>2 DEF Scanning
  <2>4. txs \in Seq(Rows) /\ Owed(txs, StartHeight, EndHeight)
    BY <1>2, <1>3, <2>2, <2>3, MergedIsOwed DEF txs
  <2>5. BlocksMerged = EndHeight - StartHeight + 1
    BY <1>2, <1>3, <2>2, <2>3, MergedBlocks
  <2>6. printed'.transactions = txs /\ printed'.blocks = BlocksMerged
    BY <2>1
  <2>7. printed'.transactions \in Seq(Rows') /\ Owed(printed.transactions, StartHeight, EndHeight)'
    BY <1>4, <2>4, <2>6
  <2>8. PrintedIsComplete' /\ StartSyncLeft'
    BY <2>1, <2>5, <2>6, <2>7 DEF PrintedIsComplete, StartSyncLeft
  <2>9. QED
    BY <1>1, <1>4, <2>1, <2>7, <2>8 DEF CallersInv
<1>6. CASE ~(\A i \in DOMAIN results : results[i].ok)
  <2>1. /\ exit' = "failed" /\ caller' = caller
        /\ printed' = IF caller = "cli" THEN Nothing
                      ELSE [transactions |-> results[1].transactions, blocks |-> 0]
    BY <1>1, <1>6
  <2>2. CASE caller = "cli"
    <3>1. printed' = Nothing
      BY <2>1, <2>2
    <3>2. PrintedIsComplete' /\ printed'.transactions \in Seq(Rows') /\ StartSyncLeft'
      BY <2>1, <2>2, <3>1, NothingPrinted DEF PrintedIsComplete, StartSyncLeft, Nothing
    <3>3. QED
      BY <1>1, <1>4, <2>1, <3>2 DEF CallersInv
  <2>3. CASE caller = "startSync"
    <3>1. printed'.transactions = results[1].transactions
      BY <2>1, <2>3
    <3>2. Len(results) = 1 /\ Owed(results[1].transactions, StartHeight, ScannedTo(StartHeight))
      BY <1>1, <1>3, <2>3 DEF CallersInv, StartSyncLeft
    <3>3. results[1].transactions \in Seq(Rows)
      <4>1. results[1] \in Result
        <5> DEFINE S == Result
        <5>1. results \in Seq(S) /\ 1 \in 1 .. Len(results)
          BY <1>2, <3>2
        <5> HIDE DEF S
        <5>2. results[1] \in S
          BY <5>1
        <5>3. QED
          BY <5>2 DEF S
      <4>2. QED
        BY <4>1, ResultFields
    <3>4. ScannedTo(StartHeight)' = ScannedTo(StartHeight)
      BY <1>1 DEF ScannedTo
    <3>5. Owed(printed.transactions, StartHeight, ScannedTo(StartHeight))'
      BY <1>4, <3>1, <3>2, <3>4
    <3>6. PrintedIsComplete' /\ StartSyncLeft'
      BY <2>1, <2>3, <3>5 DEF PrintedIsComplete, StartSyncLeft
    <3>7. printed'.transactions \in Seq(Rows')
      BY <1>4, <3>1, <3>3
    <3>8. QED
      BY <1>1, <1>4, <2>1, <3>6, <3>7 DEF CallersInv
  <2>4. QED
    BY <2>2, <2>3 DEF CallersInv
<1>7. QED
  BY <1>5, <1>6

\* Every step of the callers keeps the invariant.
LEMMA CallersKeep ==
  ASSUME CallersInv, [CallersNext]_allVars
  PROVE  CallersInv'
<1>1. CASE StartSync
  BY <1>1, StartSyncKeeps
<1>2. CASE StartChunks
  BY <1>2, StartChunksKeeps
<1>3. CASE Refuse
  BY <1>3, RefuseKeeps
<1>4. CASE SessionStep
  BY <1>4, SessionStepKeeps
<1>5. CASE SessionEnds
  BY <1>5, SessionEndsKeeps
<1>6. CASE Merge
  BY <1>6, MergeKeeps
<1>7. CASE UNCHANGED allVars
  <2>1. /\ UNCHANGED <<sessionVars, chainVars, report, caller, chunkSize, chunks, results, exit, printed>>
        /\ UNCHANGED combined
    BY <1>7 DEF allVars, callerVars, sessionVars, vars
  <2>2. /\ IsChain' /\ Rows' = Rows /\ Result' = Result
        /\ printed.transactions' \in Seq(Rows') /\ PrintedIsComplete'
        /\ \A r, span : ResultFits(r, span)' <=> ResultFits(r, span)
    BY <2>1, PrintedStays
  <2>3. exit = "starting" => SessionInv(StartHeight, EndHeight)'
    BY <2>1, SessionStays, WholeRequest DEF CallersInv
  <2>4. exit = "scanning" => Scanning'
    <3> SUFFICES ASSUME exit = "scanning" PROVE Scanning'
      OBVIOUS
    <3>1. Scanning
      BY DEF CallersInv
    <3>2. ASSUME NEW lo, NEW hi, InChunk(lo, hi)' PROVE SessionInv(lo, hi)'
      <4>1. InChunk(lo, hi) /\ Chunk <= Len(chunks)
        BY <2>1, <3>2 DEF InChunk, Chunk
      <4>2. IsRequest(lo, hi) /\ SessionInv(lo, hi)
        BY <4>1, ChunkUnderWay
      <4>3. QED
        BY <2>1, <4>2, SessionStays
    <3>3. Tiles(chunks, StartHeight)' /\ chunks' # <<>> /\ Len(results') <= Len(chunks')
      BY <2>1, <3>1 DEF Scanning, Tiles
    <3>4. \A i \in 1 .. Len(results') : ResultFits(results[i], chunks[i])'
      BY <2>1, <2>2, <3>1 DEF Scanning
    <3>5. QED
      BY <3>2, <3>3, <3>4 DEF Scanning
  <2>5. StartSyncLeft'
    <3>1. \A txs, lo, hi : Owed(txs, lo, hi)' <=> Owed(txs, lo, hi)
      BY <2>1, ChainFrozen
    <3>2. ScannedTo(StartHeight)' = ScannedTo(StartHeight)
      BY <2>1 DEF ScannedTo
    <3>3. \A i : Owed(results[i].transactions, StartHeight, ScannedTo(StartHeight))'
                 <=> Owed(results[i].transactions, StartHeight, ScannedTo(StartHeight))
      BY <2>1, <3>1, <3>2
    <3>4. QED
      BY <2>1, <3>3 DEF CallersInv, StartSyncLeft
  <2>6. QED
    BY <2>1, <2>2, <2>3, <2>4, <2>5 DEF CallersInv
<1>8. QED
  BY <1>1, <1>2, <1>3, <1>4, <1>5, <1>6, <1>7 DEF CallersNext

\* It holds at any time.
LEMMA CallersInvHolds == CallersSpec => []CallersInv
BY CallersStart, CallersKeep, PTL DEF CallersSpec

\* Whatever is reported or printed, however the request is cut into chunks, split and
\* retried, is one of ours, and a note marked as spent is spent in the request.
THEOREM ReportsSound == CallersSpec => []ReportSound
<1>1. CallersInv => ReportSound
  <2> SUFFICES ASSUME CallersInv, NEW txs \in {report, printed.transactions}, NEW i \in DOMAIN txs
               PROVE  RowSound(txs[i])
    BY DEF ReportSound, RowSound
  <2>1. txs \in Seq(Rows)
    BY DEF CallersInv
  <2>2. txs[i] \in Rows
    BY <2>1
  <2>3. QED
    BY <2>2, RowsAreSound
<1>2. QED
  BY <1>1, CallersInvHolds, PTL

\* At any time, a session has reported what is owed for the blocks it has scanned, and
\* the spends of known notes in them, once.
THEOREM ReportsMatchPrefix == CallersSpec => []ReportMatchesPrefix
<1>1. CallersInv => ReportMatchesPrefix
  <2> SUFFICES ASSUME CallersInv, exit = "scanning", Chunk <= Len(chunks)
               PROVE  LET from == chunks[Chunk][1]
                          to == ScannedTo(from)
                      IN Owed(report, from, to) /\ reportKnown = ScanReportKnown(from, to)
    BY DEF ReportMatchesPrefix
  <2>1. PICK lo, hi : InChunk(lo, hi)
    BY ChunkUnderWay
  <2>2. IsRequest(lo, hi) /\ SessionInv(lo, hi) /\ lo = chunks[Chunk][1]
    BY <2>1, ChunkUnderWay DEF InChunk
  <2>3. ScannedTo(lo) = Upto(lo) - 1
    BY <2>2, RequestNumbers, ScannedBeforeNext DEF SessionInv
  <2>4. Owed(report, lo, ScannedTo(lo)) /\ reportKnown = ScanReportKnown(lo, ScannedTo(lo))
    BY <2>2, <2>3 DEF SessionInv
  <2>5. QED
    BY <2>2, <2>4
<1>2. QED
  BY <1>1, CallersInvHolds, PTL

\* A call that succeeds leaves, of its whole range, every transaction that pays us or
\* spends a note passed as known, once and in order, and has counted each block once. A
\* command that fails leaves nothing; a startSync that fails has passed on exactly such
\* transactions of the blocks it scanned.
THEOREM PrintedComplete == CallersSpec => []PrintedIsComplete
<1>1. CallersInv => PrintedIsComplete
  BY DEF CallersInv
<1>2. QED
  BY <1>1, CallersInvHolds, PTL
=============================================================================
