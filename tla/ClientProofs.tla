---------------------------- MODULE ClientProofs ----------------------------
(***************************************************************************)
(* Proofs about what client.rs asks of the server, for every chain,         *)
(* timestamp, threshold, call and order of the answers.                      *)
(*                                                                         *)
(* BlockHeightSearch: the bracket never loses the timestamp, whatever the    *)
(* block times are, and with increasing times the result is the block that   *)
(* was asked for.  TransactionDetails: every request of a call has its own   *)
(* answer in its place, with the fee and the payees of its transaction.      *)
(***************************************************************************)
EXTENDS BlockHeightSearch, TransactionDetails, FoldLemmas

-----------------------------------------------------------------------------
(* BlockHeightSearch *)

USE SearchAssumption

\* What the states before the search know of the ends of the bracket.
Ends ==
  /\ pc \in {"tip", "low", "high"} => low = Low /\ high = Tip
  /\ pc = "high" => Low <= Tip /\ lowT = time[low] /\ lowT < timestamp

\* Of the stream, the blocks below the cursor have been read, and qualified.
Scanned ==
  pc = "range" =>
    /\ cursor \in low .. high + 1
    /\ candidate = IF cursor = low THEN low ELSE cursor - 1
    /\ time[candidate] <= timestamp

Final == NeverLater /\ LatestWhenIncreasing

IInv == TypeOK /\ Bracket /\ Ends /\ Scanned /\ Final

-----------------------------------------------------------------------------
\* The probe lies strictly inside a bracket of at least three blocks, whatever
\* the interpolation gives.
LEMMA EstInside ==
  ASSUME NEW l \in Nat, NEW h \in Nat, NEW lt \in Nat, NEW ht \in Nat,
         timestamp \in Nat, h - l > 1
  PROVE  Est(l, h, lt, ht) \in l + 1 .. h - 1
<1> DEFINE span == MaxOf(ht - lt, 1)
           offset == ((timestamp - lt) * (h - l)) \div span
<1>1. span \in Int /\ span > 0
  BY DEF MaxOf
<1>2. (timestamp - lt) * (h - l) \in Int
  OBVIOUS
<1>3. offset \in Int
  <2> HIDE DEF span
  <2> QED BY <1>1, <1>2
<1>4. Est(l, h, lt, ht) = l + MinOf(MaxOf(offset, 1), (h - l) - 1)
  BY DEF Est
<1> HIDE DEF offset
<1> QED BY <1>3, <1>4 DEF MinOf, MaxOf

\* The invariant holds before the first request.
LEMMA InitIInv == Init => IInv
BY DEF Init, IInv, TypeOK, Bracket, Ends, Scanned, Final, NeverLater,
       LatestWhenIncreasing

\* Every step preserves the invariant.
LEMMA NextIInv == IInv /\ [Next]_vars => IInv'
<1> SUFFICES ASSUME IInv, [Next]_vars PROVE IInv'
  OBVIOUS
<1> USE DEF IInv
<1>1. CASE UNCHANGED vars
  BY <1>1 DEF vars, TypeOK, Bracket, Ends, Scanned, Final, NeverLater,
              LatestWhenIncreasing, Increasing
<1>2. ASSUME Next, UNCHANGED Inputs PROVE IInv'
  <2> USE <1>2 DEF Inputs
  <2>1. CASE GetTip
    BY <2>1 DEF GetTip, Return, bracket, scan, TypeOK, Bracket, Ends, Scanned,
                Final, NeverLater, LatestWhenIncreasing
  <2>2. CASE FetchLow
    <3>0. low = Low /\ high = Tip /\ low \in 1 .. Tip /\ time[low] \in Nat /\ lowT' = time[low]
      BY <2>2 DEF FetchLow, Ends, TypeOK
    <3>1. CASE timestamp <= time[low]
      <4>1. pc' = "ok" /\ result' = low
        BY <2>2, <3>0, <3>1 DEF FetchLow, Return
      <4>2. (TypeOK /\ Bracket /\ Ends /\ Scanned /\ NeverLater)'
        BY <2>2, <3>0, <4>1 DEF FetchLow, scan, TypeOK, Bracket, Ends, Scanned, NeverLater
      <4>3. LatestWhenIncreasing'
        BY <3>0, <3>1, <4>1 DEF LatestWhenIncreasing, Increasing, TypeOK
      <4> QED BY <4>2, <4>3 DEF Final
    <3>2. CASE timestamp > time[low]
      BY <2>2, <3>0, <3>2 DEF FetchLow, Return, scan, TypeOK, Bracket, Ends, Scanned,
                  Final, NeverLater, LatestWhenIncreasing
    <3> QED BY <3>0, <3>1, <3>2 DEF TypeOK
  <2>3. CASE FetchHigh
    <3>0. /\ low = Low /\ high = Tip /\ high \in 1 .. Tip /\ low \in 1 .. Tip
          /\ time[high] \in Nat /\ time[low] \in Nat /\ highT' = time[high]
          /\ lowT = time[low] /\ lowT < timestamp
      BY <2>3 DEF FetchHigh, Ends, TypeOK
    <3>1. CASE timestamp >= time[high]
      BY <2>3, <3>0, <3>1 DEF FetchHigh, Return, scan, TypeOK, Bracket, Ends,
                  Scanned, Final, NeverLater, LatestWhenIncreasing
    <3>2. CASE timestamp < time[high]
      BY <2>3, <3>0, <3>2 DEF FetchHigh, Return, scan, TypeOK, Bracket, Ends,
                  Scanned, Final, NeverLater, LatestWhenIncreasing
    <3>3. timestamp \in Nat /\ time[high] \in Nat
      BY <3>0 DEF TypeOK
    <3> QED BY ONLY <3>1, <3>2, <3>3
  <2>4. CASE Probe
    <3> DEFINE est == Est(low, high, lowT, highT)
    <3>1. est \in low + 1 .. high - 1
      <4>1. high - low > 1 /\ low \in Nat /\ high \in Nat /\ lowT \in Nat
            /\ highT \in Nat /\ timestamp \in Nat
        BY <2>4, SearchAssumption DEF Probe, TypeOK
      <4> QED BY <4>1, EstInside
    <3>2. est \in 1 .. Tip /\ time[est] \in Nat
      BY <2>4, <3>1 DEF Probe, TypeOK, Bracket
    <3>3. pc = "search" /\ pc' = "search" /\ UNCHANGED <<cursor, candidate, result>>
      BY <2>4 DEF Probe, scan
    <3>4. CASE time[est] < timestamp
      <4>1. low' = est /\ lowT' = time[est] /\ high' = high /\ highT' = highT
        BY <2>4, <3>4 DEF Probe
      <4> HIDE DEF est
      <4> QED BY <3>1, <3>2, <3>3, <3>4, <4>1 DEF TypeOK, Bracket, Ends, Scanned,
                 Final, NeverLater, LatestWhenIncreasing
    <3>5. CASE ~(time[est] < timestamp)
      <4>1. high' = est /\ highT' = time[est] /\ low' = low /\ lowT' = lowT
        BY <2>4, <3>5 DEF Probe
      <4> HIDE DEF est
      <4> QED BY <3>1, <3>2, <3>3, <3>5, <4>1 DEF TypeOK, Bracket, Ends, Scanned,
                 Final, NeverLater, LatestWhenIncreasing
    <3> QED BY <3>4, <3>5
  <2>5. CASE StartRange
    BY <2>5 DEF StartRange, bracket, TypeOK, Bracket, Ends, Scanned, Final,
                NeverLater, LatestWhenIncreasing
  <2>6. CASE ReadBlock
    <3>0. /\ cursor \in 1 .. Tip /\ time[cursor] \in Nat /\ pc = "range"
          /\ candidate \in Low .. Tip /\ UNCHANGED bracket
      <4>1. pc = "range" /\ cursor <= high /\ UNCHANGED bracket
        BY <2>6 DEF ReadBlock
      <4>2. cursor \in 1 .. Tip /\ candidate \in Low .. Tip
        BY <4>1 DEF TypeOK, Bracket, Scanned
      <4>3. QED
        BY <4>1, <4>2 DEF TypeOK
    <3>1. CASE time[cursor] <= timestamp
      <4>1. candidate' = cursor /\ cursor' = cursor + 1 /\ pc' = pc /\ result' = result
        BY <2>6, <3>1 DEF ReadBlock
      <4>2. Bracket' /\ Ends' /\ Final'
        BY <3>0, <4>1 DEF bracket, TypeOK, Bracket, Ends, Final, NeverLater,
                   LatestWhenIncreasing
      <4>3. Scanned' /\ TypeOK'
        BY <2>6, <3>0, <3>1, <4>1 DEF ReadBlock, bracket, TypeOK, Bracket, Scanned
      <4>4. QED
        BY <4>2, <4>3
    <3>2. CASE ~(time[cursor] <= timestamp)
      <4>1. pc' = "ok" /\ result' = candidate /\ UNCHANGED scan
        BY <2>6, <3>2 DEF ReadBlock, Return
      <4>2. candidate = cursor - 1 /\ time[candidate] <= timestamp
        BY <3>0, <3>2 DEF Scanned, Bracket, TypeOK
      <4>3. (TypeOK /\ Bracket /\ Ends /\ Scanned /\ NeverLater)'
        BY <3>0, <4>1, <4>2 DEF bracket, scan, TypeOK, Bracket, Ends, Scanned, NeverLater
      <4>4. ASSUME Increasing, NEW h \in candidate + 1 .. Tip PROVE time[h] > timestamp
        <5>1. h = cursor \/ time[cursor] < time[h]
          BY <3>0, <4>2, <4>4 DEF Increasing, TypeOK
        <5> QED BY <3>0, <3>2, <4>2, <5>1 DEF TypeOK
      <4>5. LatestWhenIncreasing'
        BY <3>0, <4>1, <4>2, <4>4 DEF LatestWhenIncreasing, Increasing
      <4> QED BY <4>3, <4>5 DEF Final
    <3> QED BY <3>1, <3>2
  <2>7. CASE StreamEnds
    <3>1. /\ pc' = "ok" /\ result' = candidate /\ candidate = high
          /\ UNCHANGED <<bracket, scan>>
      BY <2>7 DEF StreamEnds, Return, Scanned, Bracket, TypeOK
    <3>2. high \in Low .. Tip /\ time[high] = timestamp /\ time[high] \in Nat
      BY <2>7, <3>1 DEF StreamEnds, Scanned, Bracket, TypeOK
    <3>3. (TypeOK /\ Bracket /\ Ends /\ Scanned /\ NeverLater)'
      BY <3>1, <3>2 DEF bracket, scan, TypeOK, Bracket, Ends, Scanned, NeverLater
    <3>4. LatestWhenIncreasing'
      BY <3>1, <3>2 DEF LatestWhenIncreasing, Increasing, TypeOK
    <3> QED BY <3>3, <3>4 DEF Final
  <2>8. CASE RpcFails
    BY <2>8 DEF RpcFails, bracket, scan, TypeOK, Bracket, Ends, Scanned, Final,
                NeverLater, LatestWhenIncreasing
  <2> QED BY <2>1, <2>2, <2>3, <2>4, <2>5, <2>6, <2>7, <2>8 DEF Next, Answered, Inputs
<1> QED BY <1>1, <1>2 DEF Next

\* The invariant holds in every reachable state.
LEMMA Invariant == Spec => []IInv
<1> QED BY InitIInv, NextIInv, PTL DEF Spec

-----------------------------------------------------------------------------
\* The search asks for no height outside Low..Tip: types of all its variables.
THEOREM SearchTypeCorrect == Spec => []TypeOK
BY Invariant, PTL DEF IInv

\* Whatever times the server answers, the bracket encloses the timestamp and no
\* unsigned subtraction of the search wraps around.
THEOREM BracketCorrect == Spec => []Bracket
BY Invariant, PTL DEF IInv

\* Whatever times the server answers, the result is never later than asked for.
THEOREM NeverLaterCorrect == Spec => []NeverLater
BY Invariant, PTL DEF IInv, Final

\* With strictly increasing block times the result is the latest block that is
\* not later than the timestamp.
THEOREM LatestCorrect == Spec => []LatestWhenIncreasing
BY Invariant, PTL DEF IInv, Final

\* How many steps the search has left at most: a probe takes one block off the bracket,
\* a read one off the stream.
SearchLeft ==
  CASE pc = "tip" -> 2 * Tip + 6
    [] pc = "low" -> 2 * Tip + 5
    [] pc = "high" -> 2 * Tip + 4
    [] pc = "search" -> 2 * (high - low) + 3
    [] pc = "range" -> high + 2 - cursor
    [] OTHER -> 0

\* What the count is at each pc.
LEMMA SearchLeftAt ==
  /\ pc = "tip" => SearchLeft = 2 * Tip + 6
  /\ pc = "low" => SearchLeft = 2 * Tip + 5
  /\ pc = "high" => SearchLeft = 2 * Tip + 4
  /\ pc = "search" => SearchLeft = 2 * (high - low) + 3
  /\ pc = "range" => SearchLeft = high + 2 - cursor
  /\ pc \in {"ok", "err"} => SearchLeft = 0
BY DEF SearchLeft

\* Whatever times the server answers, the interpolation makes progress: every step
\* of the search brings its end nearer, which is at most 2n + 6 steps away.
THEOREM SearchProgresses == Spec => [][SearchLeft' \in Nat /\ SearchLeft' < SearchLeft]_vars
<1>1. IInv /\ IInv' /\ Next => SearchLeft' \in Nat /\ SearchLeft' < SearchLeft
  <2> SUFFICES ASSUME IInv, IInv', Next PROVE SearchLeft' \in Nat /\ SearchLeft' < SearchLeft
    OBVIOUS
  <2>1. PICK l \in Nat, h \in Nat, c \in Nat : l = low' /\ h = high' /\ c = cursor'
    BY DEF IInv, TypeOK
  <2>2. /\ low \in Nat /\ high \in Nat /\ cursor \in Nat /\ Tip \in Nat
        /\ pc \in {"search", "range"} => low < high /\ high <= Tip
        /\ pc' \in {"search", "range"} => l < h /\ h <= Tip
        /\ pc = "range" => cursor <= high + 1
        /\ pc' = "range" => c <= h + 1
    <3>1. Bracket /\ Bracket' /\ Scanned /\ Scanned'
      BY DEF IInv
    <3>2. low \in Nat /\ high \in Nat /\ cursor \in Nat /\ Tip \in Nat
      BY DEF IInv, TypeOK
    <3>3. /\ pc \in {"search", "range"} => low < high /\ high <= Tip
          /\ pc' \in {"search", "range"} => l < h /\ h <= Tip
      BY <2>1, <3>1 DEF Bracket
    <3>4. /\ pc = "range" => cursor \in low .. high + 1
          /\ pc' = "range" => c \in l .. h + 1
      BY <2>1, <3>1 DEF Scanned
    <3>5. QED
      BY <3>2, <3>3, <3>4
  <2>3. /\ pc' = "tip" => SearchLeft' = 2 * Tip + 6
        /\ pc' = "low" => SearchLeft' = 2 * Tip + 5
        /\ pc' = "high" => SearchLeft' = 2 * Tip + 4
        /\ pc' = "search" => SearchLeft' = 2 * (h - l) + 3
        /\ pc' = "range" => SearchLeft' = h + 2 - c
        /\ pc' \in {"ok", "err"} => SearchLeft' = 0
    BY <2>1 DEF SearchLeft
  <2>4. pc \in {"tip", "low", "high", "search", "range"} => SearchLeft \in Nat /\ SearchLeft > 0
    BY <2>2, SearchLeftAt
  <2>5. CASE GetTip \/ FetchLow \/ FetchHigh
    <3>1. \/ pc = "tip" /\ pc' \in {"low", "ok"}
          \/ pc = "low" /\ pc' \in {"high", "ok"}
          \/ pc = "high" /\ pc' \in {"search", "ok"}
      BY <2>5 DEF GetTip, FetchLow, FetchHigh, Return
    <3>2. QED
      BY <2>2, <2>3, <3>1, SearchLeftAt
  <2>6. CASE Probe
    <3>1. pc = "search" /\ pc' = "search"
      BY <2>6 DEF Probe
    <3>2. h - l < high - low
      <4> DEFINE est == Est(low, high, lowT, highT)
      <4>1. est \in low + 1 .. high - 1
        <5>1. high - low > 1 /\ lowT \in Nat /\ highT \in Nat /\ timestamp \in Nat
          BY <2>2, <2>6 DEF Probe, IInv, TypeOK
        <5>2. QED
          BY <2>2, <5>1, EstInside
      <4>2. \/ l = est /\ h = high
            \/ h = est /\ l = low
        BY <2>1, <2>6 DEF Probe
      <4> HIDE DEF est
      <4>3. QED
        BY <2>2, <4>1, <4>2
    <3>3. QED
      BY <2>2, <2>3, <3>1, <3>2, SearchLeftAt
  <2>7. CASE StartRange
    <3>1. pc = "search" /\ pc' = "range" /\ c = low /\ h = high
      BY <2>1, <2>7 DEF StartRange, bracket
    <3>2. QED
      BY <2>2, <2>3, <3>1, SearchLeftAt
  <2>8. CASE ReadBlock \/ StreamEnds
    <3>1. /\ pc = "range" /\ h = high
          /\ \/ pc' = "ok"
             \/ pc' = "range" /\ c = cursor + 1
      BY <2>1, <2>8 DEF ReadBlock, StreamEnds, Return, bracket
    <3>2. QED
      BY <2>2, <2>3, <2>4, <3>1, SearchLeftAt
  <2>9. CASE RpcFails
    <3>1. pc \in {"tip", "low", "high", "search", "range"} /\ pc' = "err"
      BY <2>9 DEF RpcFails, IInv, TypeOK
    <3>2. QED
      BY <2>3, <2>4, <3>1
  <2>10. QED
    BY <2>5, <2>6, <2>7, <2>8, <2>9 DEF Next, Answered
<1>2. QED
  BY <1>1, Invariant, PTL DEF Spec

-----------------------------------------------------------------------------
(* TransactionDetails: fees and payees *)

\* Ascending gives the list of the elements of a set of positions, in their order.
LEMMA AscendingLists ==
  ASSUME NEW n \in Nat, NEW S \in SUBSET (1 .. n)
  PROVE  ListsInOrder(Ascending(S), S)
<1>1. PICK s : ListsInOrder(s, S)
  BY ListExists
<1>2. /\ s \in [1 .. Cardinality(S) -> S]
      /\ \A i, j \in DOMAIN s : i < j => s[i] < s[j]
  BY <1>1 DEF ListsInOrder
<1>3. /\ Ascending(S) \in [1 .. Cardinality(S) -> S]
      /\ \A i, j \in DOMAIN Ascending(S) : i < j => Ascending(S)[i] < Ascending(S)[j]
  BY <1>2 DEF Ascending
<1>4. QED
  BY <1>3 DEF ListsInOrder

\* The balances of the three bundles may be negative: their sum, in any order.
LEMMA SumOfThree ==
  ASSUME NEW s \in [1 .. 3 -> Int]
  PROVE  Sum(s) = s[1] + s[2] + s[3]
<1> DEFINE S == DOMAIN s
           Iter(f) == f = [r \in SUBSET S |-> IF r = {} THEN 0
                             ELSE s[CHOOSE x \in r : TRUE] + f[r \ {CHOOSE x \in r : TRUE}]]
           iter == CHOOSE f : Iter(f)
           ch == [r \in SUBSET S |-> CHOOSE x \in r : TRUE]
           part(r, i) == IF i \in r THEN s[i] ELSE 0
           g == [r \in SUBSET S |-> part(r, 1) + part(r, 2) + part(r, 3)]
<1>1. Sum(s) = iter[S]
  BY DEF Sum, FoldSeq, FoldFunction, FoldFunctionOnSet, MapThenFoldSet
<1>2. S = 1 .. 3 /\ S = {1, 2, 3} /\ IsFiniteSet(S)
  <2>1. S = 1 .. 3
    OBVIOUS
  <2>2. IsFiniteSet(1 .. 3)
    <3>1. 1 \in Int /\ 3 \in Int
      OBVIOUS
    <3>2. QED
      BY ONLY <3>1, FS_Interval
  <2>3. 1 .. 3 = {1, 2, 3}
    OBVIOUS
  <2>4. QED
    BY <2>1, <2>2, <2>3
<1>3. \A r \in SUBSET S : ch[r] = (CHOOSE x \in r : TRUE) /\ (r # {} => ch[r] \in r)
  OBVIOUS
<1>4. SumsBy(g, s, ch, SUBSET S)
  <2>1. ASSUME NEW r \in SUBSET S, r # {}
        PROVE  g[r] = s[ch[r]] + g[r \ {ch[r]}]
    <3>1. ch[r] \in r /\ ch[r] \in {1, 2, 3} /\ r \ {ch[r]} \in SUBSET S
      BY <1>2, <1>3, <2>1
    <3> HIDE DEF ch
    <3>2. \A t \in SUBSET S : g[t] = part(t, 1) + part(t, 2) + part(t, 3)
      OBVIOUS
    <3>3. s[1] \in Int /\ s[2] \in Int /\ s[3] \in Int
      OBVIOUS
    <3> HIDE DEF g, S
    <3>4. QED
      BY <3>1, <3>2, <3>3
  <2>2. g[{}] = 0
    OBVIOUS
  <2>3. QED
    <3> HIDE DEF g, ch
    <3>1. QED
      BY <2>1, <2>2 DEF SumsBy
<1>5. Iter(g)
  <2>1. ASSUME NEW r \in SUBSET S
        PROVE  g[r] = IF r = {} THEN 0
                      ELSE s[CHOOSE x \in r : TRUE] + g[r \ {CHOOSE x \in r : TRUE}]
    <3> HIDE DEF g, ch
    <3>1. QED
      BY <1>3, <1>4 DEF SumsBy
  <2>2. g = [r \in SUBSET S |-> g[r]]
    OBVIOUS
  <2>3. QED
    <3> HIDE DEF g
    <3>1. QED
      BY <2>1, <2>2
<1>6. Iter(iter)
  <2> HIDE DEF Iter
  <2>1. QED
    BY <1>5
<1>7. SumsBy(iter, s, ch, SUBSET S)
  <2>1. ASSUME NEW r \in SUBSET S
        PROVE  iter[r] = IF r = {} THEN 0
                      ELSE s[CHOOSE x \in r : TRUE] + iter[r \ {CHOOSE x \in r : TRUE}]
    <3> HIDE DEF iter
    <3>1. QED
      BY <1>6
  <2>2. QED
    <3> HIDE DEF iter, ch, Iter
    <3>1. QED
      BY <1>3, <2>1 DEF SumsBy
<1>8. iter[S] = g[S]
  <2> HIDE DEF iter, g, ch, Iter
  <2>1. \A r \in SUBSET S : r # {} => ch[r] \in r
    BY <1>3
  <2>2. IsFiniteSet(S)
    BY <1>2
  <2> HIDE DEF S
  <2>3. \A r \in SUBSET S : iter[r] = g[r]
    BY ONLY <1>4, <1>7, <2>1, <2>2, SumUnique
  <2>4. QED
    BY <2>3
<1>9. g[S] = s[1] + s[2] + s[3]
  OBVIOUS
<1>10. QED
  <2> HIDE DEF iter, g
  <2>1. QED
    BY <1>1, <1>8, <1>9

\* What a transaction spends are outputs with values that are natural numbers.
Spends(s) ==
  /\ Len(s) \in Nat /\ DOMAIN s = 1 .. Len(s)
  /\ \A i \in 1 .. Len(s) : s[i].value \in Nat

LEMMA SpendsAre == \A s \in Seq([outpoint : STRING, value : Nat]) : Spends(s)
<1> DEFINE R == [outpoint : STRING, value : Nat]
<1>1. ASSUME NEW s \in Seq(R) PROVE Spends(s)
  <2>1. \A r \in R : r.value \in Nat
    OBVIOUS
  <2> HIDE DEF R
  <2>2. Len(s) \in Nat /\ DOMAIN s = 1 .. Len(s) /\ \A i \in 1 .. Len(s) : s[i] \in R
    OBVIOUS
  <2>3. QED
    BY <2>1, <2>2 DEF Spends
<1>2. QED
  BY <1>1

\* A transaction that the server has is well-formed.
LEMMA TxsTyped ==
  ASSUME NEW txid \in DOMAIN Txs
  PROVE  /\ Spends(Txs[txid].spends)
         /\ Txs[txid].pays \in Nat
         /\ Txs[txid].balance \in [ShieldedPools -> Int]
         /\ \A pool \in ShieldedPools : Txs[txid].outs[pool] \in Seq(Output)
<1>1. Txs[txid] \in Tx
  BY DetailsAssumption
<1>2. Txs[txid].spends \in Seq([outpoint : STRING, value : Nat])
  BY <1>1 DEF Tx
<1>3. QED
  BY <1>1, <1>2, SpendsAre DEF Tx

\* Values that are right are priced right: nothing is missed and nothing counted twice.
LEMMA FeeIsTrue ==
  ASSUME NEW request, request.txid \in DOMAIN Txs, Honest(request),
         AllKnown(Txs[request.txid], request)
  PROVE  /\ FeePaid(Txs[request.txid], request) = TrueFee(request.txid)
         /\ TrueFee(request.txid) \in Int
<1> DEFINE tx == Txs[request.txid]  I == DOMAIN tx.spends
           paid == [i \in I |-> ValueOf(request, tx.spends[i].outpoint)]
           values == [i \in I |-> tx.spends[i].value]
           b == [i \in 1 .. 3 |-> tx.balance[<<"orchard", "ironwood", "sapling">>[i]]]
<1>1. /\ Spends(tx.spends) /\ tx.pays \in Nat
      /\ tx.balance \in [ShieldedPools -> Int]
  BY TxsTyped
<1>2. paid = values
  <2>1. ASSUME NEW i \in I
        PROVE  ValueOf(request, tx.spends[i].outpoint) = tx.spends[i].value
    BY DEF AllKnown, Honest
  <2>2. QED
    BY <2>1
<1>3. Sum(values) \in Nat
  <2>1. values \in Seq(Nat)
    <3>1. values \in [1 .. Len(tx.spends) -> Nat] /\ Len(tx.spends) \in Nat
      BY <1>1 DEF Spends
    <3>2. QED
      <4> HIDE DEF tx, values
      <4>1. QED
        BY <3>1
  <2>2. QED
    <3> HIDE DEF values
    <3>1. TotalOf(values) \in Nat
      BY <2>1, TotalInNat
    <3>2. QED
      BY <3>1 DEF Sum, TotalOf
<1>4. /\ tx.balance["orchard"] \in Int /\ tx.balance["ironwood"] \in Int
      /\ tx.balance["sapling"] \in Int
  BY <1>1 DEF ShieldedPools
<1>5. Sum(b) = tx.balance["orchard"] + tx.balance["ironwood"] + tx.balance["sapling"]
  <2>1. /\ b[1] = tx.balance["orchard"] /\ b[2] = tx.balance["ironwood"]
        /\ b[3] = tx.balance["sapling"] /\ b \in [1 .. 3 -> Int]
    <3>1. \A i \in 1 .. 3 : i = 1 \/ i = 2 \/ i = 3
      OBVIOUS
    <3>2. /\ <<"orchard", "ironwood", "sapling">>[1] = "orchard"
          /\ <<"orchard", "ironwood", "sapling">>[2] = "ironwood"
          /\ <<"orchard", "ironwood", "sapling">>[3] = "sapling"
      OBVIOUS
    <3> HIDE DEF tx
    <3>3. QED
      BY <1>4, <3>1, <3>2
  <2> HIDE DEF b
  <2>2. QED
    BY <2>1, SumOfThree
<1>6. TrueFee(request.txid) = Sum(values) + Sum(b) - tx.pays
  BY DEF TrueFee
<1>7. FeePaid(tx, request)
        = Sum(paid) - tx.pays + tx.balance["sapling"] + tx.balance["orchard"] + tx.balance["ironwood"]
  BY DEF FeePaid
<1>8. FeePaid(tx, request) = TrueFee(request.txid) /\ TrueFee(request.txid) \in Int
  <2>1. tx.pays \in Nat
    BY <1>1
  <2> HIDE DEF paid, values, b, tx
  <2>2. QED
    BY <2>1, <1>2, <1>3, <1>4, <1>5, <1>6, <1>7
<1>9. QED
  BY <1>8

\* ... and they are accepted.
LEMMA HonestIsPriced ==
  ASSUME NEW request, request.txid \in DOMAIN Txs, Txs[request.txid].parses, Honest(request)
  PROVE  CanPrice(Txs[request.txid], request)
<1> DEFINE tx == Txs[request.txid]
<1>1. /\ TrueFee(request.txid) >= 0
      /\ \A i \in DOMAIN tx.spends : tx.spends[i].value <= MaxMoney
  BY MinedAssumption
<1>2. \A i \in DOMAIN tx.spends : tx.spends[i].value \in Nat /\ i \in Nat /\ i \in 1 .. i
  BY TxsTyped DEF Spends
<1>3. ASSUME NEW i \in DOMAIN tx.spends, \A j \in 1 .. i : Known(request, tx.spends[j].outpoint)
      PROVE  ~(ValueOf(request, tx.spends[i].outpoint) > MaxMoney)
  <2>1. Known(request, tx.spends[i].outpoint)
    BY <1>2, <1>3
  <2>2. ValueOf(request, tx.spends[i].outpoint) = tx.spends[i].value
    BY <2>1 DEF Honest
  <2>3. QED
    BY <1>1, <1>2, <2>2, DetailsAssumption
<1>4. ~BadValue(tx, request)
  BY <1>3 DEF BadValue
<1>5. AllKnown(tx, request) => FeePaid(tx, request) >= 0
  BY <1>1, FeeIsTrue
<1>6. QED
  BY <1>4, <1>5 DEF CanPrice

\* What we pay to others in one pool of a transaction, and nothing else.
PaidBy(out) == out.by = "us" /\ out.to = "others"
ArePaid(payees, outs) ==
  /\ payees \in Seq(STRING)
  /\ \A k \in DOMAIN payees : \E out \in Range(outs) : PaidBy(out) /\ out.address = payees[k]
  /\ \A out \in Range(outs) : PaidBy(out) => \E k \in DOMAIN payees : payees[k] = out.address

LEMMA OutgoingArePaid ==
  ASSUME NEW tx, NEW pool, tx.outs[pool] \in Seq(Output)
  PROVE  ArePaid(Outgoing(tx, pool), tx.outs[pool])
<1> DEFINE outs == tx.outs[pool]  n == Len(outs)
           S == {i \in DOMAIN outs : TransferType(outs[i]) = "outgoing"}
           list == Ascending(S)
<1>1. n \in Nat /\ DOMAIN outs = 1 .. n /\ \A i \in 1 .. n : outs[i] \in Output
  OBVIOUS
<1>2. \A i \in 1 .. n : i \in S <=> PaidBy(outs[i])
  <2>1. ASSUME NEW out \in Output PROVE TransferType(out) = "outgoing" <=> PaidBy(out)
    <3>1. out.by \in {"us", "others"} /\ out.to \in {"external", "internal", "others"}
      BY DEF Output
    <3>2. QED
      BY <3>1 DEF TransferType, PaidBy
  <2>2. QED
    BY <1>1, <2>1
<1>3. S \in SUBSET (1 .. n)
  BY <1>1
<1>4. Outgoing(tx, pool) = [k \in DOMAIN list |-> outs[list[k]].address]
  BY DEF Outgoing
<1> HIDE DEF S, outs, n
<1>5. ListsInOrder(list, S)
  BY <1>1, <1>3, AscendingLists
<1>6. ListsAll(list, S)
  BY <1>1, <1>3, <1>5, ListIsComplete
<1> DEFINE C == Cardinality(S)
<1>7. C \in Nat /\ list \in [1 .. C -> S] /\ \A x \in S : \E i \in 1 .. C : list[i] = x
  BY <1>5, <1>6 DEF ListsInOrder, ListsAll
<1> HIDE DEF C, list
<1>8. DOMAIN list = 1 .. C /\ \A k \in 1 .. C : list[k] \in S /\ list[k] \in 1 .. n
  BY <1>3, <1>7
<1>9. \A k \in 1 .. C : outs[list[k]] \in Range(outs) /\ PaidBy(outs[list[k]])
                        /\ outs[list[k]].address \in STRING
  BY <1>1, <1>2, <1>8 DEF Range, Output
<1>10. Outgoing(tx, pool) \in Seq(STRING) /\ DOMAIN Outgoing(tx, pool) = 1 .. C
       /\ \A k \in 1 .. C : Outgoing(tx, pool)[k] = outs[list[k]].address
  BY <1>4, <1>7, <1>8, <1>9
<1>11. ASSUME NEW out \in Range(outs), PaidBy(out)
       PROVE  \E k \in 1 .. C : Outgoing(tx, pool)[k] = out.address
  <2>1. PICK i \in 1 .. n : out = outs[i]
    BY <1>1, <1>11 DEF Range
  <2>2. i \in S
    BY <1>2, <1>11, <2>1
  <2>3. PICK k \in 1 .. C : list[k] = i
    BY <1>7, <2>2
  <2>4. QED
    BY <1>10, <2>1, <2>3
<1>12. ArePaid(Outgoing(tx, pool), outs)
  BY <1>9, <1>10, <1>11 DEF ArePaid
<1>13. QED
  BY <1>12 DEF outs

\* The payees of a transaction are those that we pay in any of its pools, all of them.
LEMMA PayeesArePaid ==
  ASSUME NEW tx, \A pool \in ShieldedPools : tx.outs[pool] \in Seq(Output)
  PROVE  /\ \A k \in DOMAIN OutgoingPayees(tx) :
              \E pool \in ShieldedPools : \E out \in Range(tx.outs[pool]) :
                PaidBy(out) /\ out.address = OutgoingPayees(tx)[k]
         /\ \A pool \in ShieldedPools : \A out \in Range(tx.outs[pool]) :
              PaidBy(out) => Contains(OutgoingPayees(tx), out.address)
<1> DEFINE A == Outgoing(tx, "orchard")  B == Outgoing(tx, "ironwood")
           C == Outgoing(tx, "sapling")  all == (A \o B) \o C
<1>1. /\ ArePaid(A, tx.outs["orchard"]) /\ ArePaid(B, tx.outs["ironwood"])
      /\ ArePaid(C, tx.outs["sapling"])
  BY OutgoingArePaid DEF ShieldedPools
<1>2. A \in Seq(STRING) /\ B \in Seq(STRING) /\ C \in Seq(STRING)
  BY <1>1 DEF ArePaid
<1>3. OutgoingPayees(tx) = all
  BY DEF OutgoingPayees
<1>4. /\ all \in Seq(STRING) /\ Len(A) \in Nat /\ Len(B) \in Nat /\ Len(C) \in Nat
      /\ Len(all) = Len(A) + Len(B) + Len(C) /\ DOMAIN all = 1 .. Len(all)
      /\ DOMAIN A = 1 .. Len(A) /\ DOMAIN B = 1 .. Len(B) /\ DOMAIN C = 1 .. Len(C)
  BY <1>2
<1>5. /\ \A k \in 1 .. Len(A) : all[k] = A[k]
      /\ \A k \in 1 .. Len(B) : all[Len(A) + k] = B[k]
      /\ \A k \in 1 .. Len(C) : all[Len(A) + Len(B) + k] = C[k]
  BY <1>2
<1> HIDE DEF A, B, C, all
<1>6. ASSUME NEW k \in DOMAIN all
      PROVE  \E pool \in ShieldedPools : \E out \in Range(tx.outs[pool]) :
               PaidBy(out) /\ out.address = all[k]
  <2>0. {"orchard", "ironwood", "sapling"} = ShieldedPools
    BY DEF ShieldedPools
  <2>1. CASE k \in 1 .. Len(A)
    <3>1. PICK out \in Range(tx.outs["orchard"]) : PaidBy(out) /\ out.address = A[k]
      BY <1>1, <1>4, <2>1 DEF ArePaid
    <3>2. QED
      BY <2>0, <2>1, <1>5, <3>1
  <2>2. CASE k - Len(A) \in 1 .. Len(B)
    <3> DEFINE m == k - Len(A)
    <3>1. m \in 1 .. Len(B) /\ all[Len(A) + m] = B[m] /\ Len(A) + m = k
      BY <1>4, <1>5, <2>2
    <3> HIDE DEF m
    <3>2. PICK out \in Range(tx.outs["ironwood"]) : PaidBy(out) /\ out.address = B[m]
      BY <1>1, <1>4, <3>1 DEF ArePaid
    <3>3. QED
      BY <2>0, <3>1, <3>2
  <2>3. CASE k - Len(A) - Len(B) \in 1 .. Len(C)
    <3> DEFINE m == k - Len(A) - Len(B)
    <3>1. m \in 1 .. Len(C) /\ all[Len(A) + Len(B) + m] = C[m] /\ Len(A) + Len(B) + m = k
      BY <1>4, <1>5, <2>3
    <3> HIDE DEF m
    <3>2. PICK out \in Range(tx.outs["sapling"]) : PaidBy(out) /\ out.address = C[m]
      BY <1>1, <1>4, <3>1 DEF ArePaid
    <3>3. QED
      BY <2>0, <3>1, <3>2
  <2>4. QED
    BY <1>4, <2>1, <2>2, <2>3
<1>7. ASSUME NEW pool \in ShieldedPools, NEW out \in Range(tx.outs[pool]), PaidBy(out)
      PROVE  \E k \in 1 .. Len(all) : all[k] = out.address
  <2>1. CASE pool = "orchard"
    <3>1. PICK k \in 1 .. Len(A) : A[k] = out.address
      BY <1>1, <1>4, <1>7, <2>1 DEF ArePaid
    <3>2. QED
      BY <1>4, <1>5, <3>1
  <2>2. CASE pool = "ironwood"
    <3>1. PICK k \in 1 .. Len(B) : B[k] = out.address
      BY <1>1, <1>4, <1>7, <2>2 DEF ArePaid
    <3>2. Len(A) + k \in 1 .. Len(all)
      BY <1>4
    <3>3. QED
      BY <1>5, <3>1, <3>2
  <2>3. CASE pool = "sapling"
    <3>1. PICK k \in 1 .. Len(C) : C[k] = out.address
      BY <1>1, <1>4, <1>7, <2>3 DEF ArePaid
    <3>2. Len(A) + Len(B) + k \in 1 .. Len(all)
      BY <1>4
    <3>3. QED
      BY <1>5, <3>1, <3>2
  <2>4. QED
    BY <2>1, <2>2, <2>3 DEF ShieldedPools
<1>8. QED
  BY <1>3, <1>6, <1>7 DEF Contains

\* Increasing within 1..n, all of it, is not to change.
LEMMA IncreasingIsIdentity ==
  ASSUME NEW n \in Nat, NEW f \in [1 .. n -> 1 .. n],
         \A i, j \in 1 .. n : i < j => f[i] < f[j]
  PROVE  \A i \in 1 .. n : f[i] = i
<1> DEFINE T == {k \in Nat : \A i \in 1 .. n : i <= k => f[i] >= i}
           U == {k \in Nat : \A i \in 1 .. n : i >= n - k => f[i] <= i}
<1>0. \A i \in 1 .. n : f[i] \in 1 .. n /\ f[i] \in Int
  OBVIOUS
<1>1. Nat \subseteq T
  <2>1. 0 \in T
    OBVIOUS
  <2>2. ASSUME NEW k \in Nat, k \in T PROVE k + 1 \in T
    <3> SUFFICES ASSUME k + 1 \in 1 .. n PROVE f[k + 1] >= k + 1
      BY <2>2
    <3>1. CASE k = 0
      BY <1>0, <3>1
    <3>2. CASE k # 0
      <4>1. k \in 1 .. n /\ f[k] >= k /\ f[k] < f[k + 1]
        BY <2>2, <3>2
      <4>2. QED
        BY <1>0, <4>1
    <3>3. QED
      BY <3>1, <3>2
  <2> HIDE DEF T
  <2>3. QED
    BY <2>1, <2>2, SetInduction
<1>2. Nat \subseteq U
  <2>1. 0 \in U
    BY <1>0
  <2>2. ASSUME NEW k \in Nat, k \in U PROVE k + 1 \in U
    <3> SUFFICES ASSUME n - (k + 1) \in 1 .. n PROVE f[n - (k + 1)] <= n - (k + 1)
      BY <2>2
    <3> DEFINE i == n - (k + 1)
    <3>1. i \in 1 .. n /\ i + 1 \in 1 .. n /\ i + 1 >= n - k
      OBVIOUS
    <3>2. f[i + 1] <= i + 1
      BY <2>2, <3>1
    <3>3. f[i] < f[i + 1]
      BY <3>1
    <3> HIDE DEF i
    <3>4. f[i] <= i
      BY <1>0, <3>1, <3>2, <3>3
    <3>5. QED
      BY <3>4 DEF i
  <2> HIDE DEF U
  <2>3. QED
    BY <2>1, <2>2, SetInduction
<1>3. ASSUME NEW i \in 1 .. n PROVE f[i] = i
  <2>1. i \in T /\ n \in U
    <3> HIDE DEF T, U
    <3>1. QED
      BY <1>1, <1>2
  <2>2. QED
    BY <1>0, <2>1
<1>4. QED
  BY <1>3

-----------------------------------------------------------------------------
\* What has been started is in flight or done, and it is done once: it has failed, or
\* the server has its transaction.
Done == (1 .. pulled) \ inFlight
Fetching ==
  /\ call \in Calls
  /\ pulled \in 0 .. Len(call.requests)
  /\ inFlight \subseteq 1 .. pulled /\ failed \subseteq Done
  /\ \A position \in Done \ failed : call.requests[position].txid \in DOMAIN Txs
  /\ status \in {"called", "fetching", "ok", "error"}

\* What is done has one outcome, and it is kept once, whenever it came.
Outcome(position) ==
  IF position \in failed THEN Result(position, Unknown, <<>>) ELSE FetchAndRead(position)
Kept ==
  /\ results \in Seq({Outcome(position) : position \in Done})
  /\ \A i, j \in DOMAIN results : i # j => results[i].position # results[j].position

\* The answer is complete, and in its order.
AllAnswered ==
  /\ Len(answer) = Len(call.requests) /\ DOMAIN answer = 1 .. Len(call.requests)
  /\ \A i \in 1 .. Len(call.requests) : i \in Done /\ answer[i] = Outcome(i)
Returned == IF status = "ok" THEN AllAnswered ELSE answer = <<>>

DetailsInv == Fetching /\ Kept /\ Returned

\* Each outcome is that of its position.
LEMMA OutcomeOf ==
  \A position : /\ Outcome(position).position = position
                /\ Outcome(position).txid = call.requests[position].txid
BY DEF Outcome, FetchAndRead, Result

\* A call has a list of requests.
LEMMA CallTyped ==
  ASSUME Fetching
  PROVE  call.requests \in Seq(Request) /\ Len(call.requests) \in Nat
<1>1. call \in Call
  BY DetailsAssumption DEF Fetching
<1>2. call.requests \in Seq(Request)
  BY <1>1 DEF Call
<1>3. QED
  BY <1>2

\* When as many outcomes are kept as there are requests, each request has its own,
\* and sorting puts it in its place.
LEMMA SortedIsComplete ==
  ASSUME Fetching, Kept, Len(results) = Len(call.requests), NEW s \in InRequestOrder
  PROVE  /\ Len(s) = Len(call.requests) /\ DOMAIN s = 1 .. Len(call.requests)
         /\ \A i \in 1 .. Len(call.requests) : i \in Done /\ s[i] = Outcome(i)
<1> DEFINE n == Len(call.requests)
<1>1. n \in Nat /\ DOMAIN results = 1 .. n
  BY CallTyped DEF Kept
<1>2. PICK o \in SetToSeqs(DOMAIN results) :
        /\ \A i, j \in DOMAIN o : i < j => results[o[i]].position <= results[o[j]].position
        /\ s = [i \in DOMAIN o |-> results[o[i]]]
  BY DEF InRequestOrder
<1>3. Permutes(o, n)
  BY <1>1, <1>2, SeqsArePermutations
<1>4. DOMAIN o = 1 .. n /\ o \in [1 .. n -> 1 .. n] /\ \A i, j \in 1 .. n : i # j => o[i] # o[j]
  BY <1>3 DEF Permutes
<1>5. ASSUME NEW k \in 1 .. n
      PROVE  \E position \in Done : results[k] = Outcome(position)
  BY <1>1, <1>5 DEF Kept
<1> DEFINE f == [i \in 1 .. n |-> s[i].position]
<1>6. ASSUME NEW i \in 1 .. n
      PROVE  f[i] \in Done /\ f[i] \in 1 .. n /\ s[i] = Outcome(f[i])
  <2>1. o[i] \in 1 .. n /\ s[i] = results[o[i]]
    BY <1>2, <1>4
  <2>2. PICK position \in Done : s[i] = Outcome(position)
    BY <1>5, <2>1
  <2>3. f[i] = position
    BY <2>2, OutcomeOf
  <2>4. position \in 1 .. n
    BY <1>1 DEF Done, Fetching
  <2>5. QED
    BY <2>2, <2>3, <2>4
<1>7. ASSUME NEW i \in 1 .. n, NEW j \in 1 .. n, i < j PROVE f[i] < f[j]
  <2>1. o[i] \in 1 .. n /\ o[j] \in 1 .. n /\ o[i] # o[j]
    <3> HIDE DEF n, f
    <3>1. i # j
      BY <1>1, <1>7
    <3>2. QED
      BY ONLY <1>4, <3>1, i \in 1 .. n, j \in 1 .. n
  <2>2. results[o[i]].position # results[o[j]].position
    BY <1>1, <2>1 DEF Kept
  <2>3. results[o[i]].position <= results[o[j]].position
    BY <1>2, <1>4, <1>7
  <2>4. f[i] = results[o[i]].position /\ f[j] = results[o[j]].position
    BY <1>2, <1>4
  <2> HIDE DEF f
  <2>5. f[i] \in Int /\ f[j] \in Int
    <3>1. f[i] \in 1 .. n /\ f[j] \in 1 .. n
      BY <1>6
    <3> HIDE DEF n
    <3>2. QED
      BY <1>1, <3>1
  <2>6. QED
    BY <2>2, <2>3, <2>4, <2>5
<1>8. f \in [1 .. n -> 1 .. n]
  BY <1>6
<1>9. \A i \in 1 .. n : f[i] = i
  <2> HIDE DEF f, n
  <2>1. QED
    BY <1>1, <1>7, <1>8, IncreasingIsIdentity
<1>10. DOMAIN s = 1 .. n /\ Len(s) = n
  BY <1>1, <1>2, <1>4
<1>11. QED
  <2> HIDE DEF f
  <2>1. QED
    BY <1>6, <1>9, <1>10

\* The invariant holds before the call is looked at.
LEMMA InitDetailsInv == DetailsInit => DetailsInv
<1> SUFFICES ASSUME DetailsInit PROVE DetailsInv
  OBVIOUS
<1>1. Fetching
  <2>1. call \in Call
    BY DetailsAssumption DEF DetailsInit
  <2>2. Len(call.requests) \in Nat
    BY <2>1 DEF Call
  <2>3. QED
    BY <2>2 DEF DetailsInit, Fetching, Done
<1>2. Kept /\ Returned
  BY DEF DetailsInit, Kept, Returned
<1>3. QED
  BY <1>1, <1>2 DEF DetailsInv

\* Every step preserves it.
LEMMA NextDetailsInv == DetailsInv /\ [DetailsNext]_detailsVars => DetailsInv'
<1> SUFFICES ASSUME DetailsInv, [DetailsNext]_detailsVars PROVE DetailsInv'
  OBVIOUS
<1>0. /\ Fetching /\ Kept /\ Returned
      /\ call.requests \in Seq(Request) /\ Len(call.requests) \in Nat
  BY CallTyped DEF DetailsInv
<1>1. ASSUME UNCHANGED <<call, pulled, inFlight, failed, results>>
      PROVE  /\ Done' = Done /\ Kept' /\ (\A p : Outcome(p)' = Outcome(p))
             /\ (status' \in {"called", "fetching", "ok", "error"} => Fetching')
  <2>1. Done' = Done
    BY <1>1 DEF Done
  <2>2. \A p : Outcome(p)' = Outcome(p)
    BY <1>1 DEF Outcome, FetchAndRead, Result
  <2>3. {Outcome(p) : p \in Done}' = {Outcome(p) : p \in Done}
    BY <2>1, <2>2
  <2>4. Kept'
    BY <1>0, <1>1, <2>3 DEF Kept
  <2>5. status' \in {"called", "fetching", "ok", "error"} => Fetching'
    BY <1>0, <1>1, <2>1 DEF Fetching
  <2>6. QED
    BY <2>1, <2>2, <2>4, <2>5
<1>2. CASE UNCHANGED detailsVars
  <2>1. UNCHANGED <<call, pulled, inFlight, failed, results, answer, status>>
    BY <1>2 DEF detailsVars
  <2>2. Kept' /\ Fetching' /\ Done' = Done /\ \A p : Outcome(p)' = Outcome(p)
    BY <1>0, <1>1, <2>1 DEF Fetching
  <2>3. Returned'
    BY <1>0, <2>1, <2>2 DEF Returned, AllAnswered
  <2>4. QED
    BY <2>2, <2>3 DEF DetailsInv
<1>3. CASE Reject \/ Connect
  <2>1. /\ UNCHANGED <<call, pulled, inFlight, failed, results, answer>>
        /\ status = "called" /\ status' \in {"fetching", "error"}
    BY <1>3 DEF Reject, Connect
  <2>2. Kept' /\ Fetching'
    BY <1>1, <2>1
  <2>3. Returned'
    BY <1>0, <2>1 DEF Returned
  <2>4. QED
    BY <2>2, <2>3 DEF DetailsInv
<1>4. CASE Pull
  <2>1. /\ status = "fetching" /\ pulled < Len(call.requests) /\ pulled' = pulled + 1
        /\ inFlight' = inFlight \cup {pulled + 1}
        /\ UNCHANGED <<call, failed, results, answer, status>>
    BY <1>4 DEF Pull
  <2>2. pulled \in 0 .. Len(call.requests)
    BY <1>0 DEF Fetching
  <2>3. Done' = Done
    BY <1>0, <2>1, <2>2 DEF Done, Fetching
  <2>4. \A p : Outcome(p)' = Outcome(p)
    BY <2>1 DEF Outcome, FetchAndRead, Result
  <2>5. {Outcome(p) : p \in Done}' = {Outcome(p) : p \in Done}
    BY <2>3, <2>4
  <2>6. Kept'
    BY <1>0, <2>1, <2>5 DEF Kept
  <2>7. Fetching'
    <3>1. inFlight' \subseteq 1 .. pulled'
      BY <1>0, <2>1, <2>2 DEF Fetching
    <3>2. pulled' \in 0 .. Len(call'.requests)
      BY <1>0, <2>1, <2>2
    <3>3. QED
      BY <1>0, <2>1, <2>3, <3>1, <3>2 DEF Fetching
  <2>8. Returned'
    BY <1>0, <2>1 DEF Returned
  <2>9. QED
    BY <2>6, <2>7, <2>8 DEF DetailsInv
<1>5. CASE Complete
  <2>1. PICK p \in inFlight : (FetchSucceeds(p) \/ FetchFails(p)) /\ inFlight' = inFlight \ {p}
    BY <1>5 DEF Complete
  <2>2. UNCHANGED <<call, pulled, answer, status>>
    BY <1>5 DEF Complete
  <2>3. p \in 1 .. pulled /\ p \in 1 .. Len(call.requests) /\ p \notin Done /\ p \notin failed
    BY <1>0 DEF Fetching, Done
  <2>4. Done' = Done \cup {p}
    BY <2>1, <2>2, <2>3 DEF Done
  <2>5. \A q : FetchAndRead(q)' = FetchAndRead(q) /\ \A fee, payees : Result(q, fee, payees)' = Result(q, fee, payees)
    BY <2>2 DEF FetchAndRead, Result
  <2>6. /\ failed' \subseteq Done' /\ (\A q \in Done : q \in failed' <=> q \in failed)
        /\ results' = Append(results, Outcome(p)')
        /\ p \notin failed' => call'.requests[p].txid \in DOMAIN Txs
    <3>1. CASE FetchSucceeds(p)
      BY <1>0, <2>2, <2>3, <2>4, <2>5, <3>1 DEF FetchSucceeds, Outcome, Fetching
    <3>2. CASE FetchFails(p)
      BY <1>0, <2>3, <2>4, <2>5, <3>2 DEF FetchFails, Outcome, Fetching
    <3>3. QED
      BY <2>1, <3>1, <3>2
  <2>7. \A q \in Done : Outcome(q)' = Outcome(q)
    BY <2>5, <2>6 DEF Outcome
  <2>8. Fetching'
    BY <1>0, <2>1, <2>2, <2>4, <2>6 DEF Fetching
  <2>9. Kept'
    <3> DEFINE S == {Outcome(q) : q \in Done}  S1 == {Outcome(q)' : q \in Done'}
    <3>1. S \subseteq S1 /\ Outcome(p)' \in S1
      BY <2>4, <2>7
    <3>2. results \in Seq(S) /\ \A i, j \in DOMAIN results : i # j => results[i].position # results[j].position
      BY <1>0 DEF Kept
    <3>3. \A s \in S : \E q \in Done : s = Outcome(q) /\ s.position = q
      BY OutcomeOf
    <3>4. Outcome(p)'.position = p
      BY <2>2 DEF Outcome, FetchAndRead, Result
    <3> HIDE DEF S, S1
    <3>5. results' \in Seq(S1)
      BY <2>6, <3>1, <3>2
    <3>6. \A i \in DOMAIN results : results[i].position \in Done /\ results[i].position # p
      BY <2>3, <3>2, <3>3
    <3>7. \A i, j \in DOMAIN results' : i # j => results'[i].position # results'[j].position
      <4>1. /\ DOMAIN results' = DOMAIN results \cup {Len(results) + 1}
            /\ results'[Len(results) + 1] = Outcome(p)'
            /\ \A i \in DOMAIN results : results'[i] = results[i]
        BY <2>6, <3>2
      <4>2. QED
        BY <3>2, <3>4, <3>6, <4>1
    <3>8. QED
      BY <3>5, <3>7 DEF Kept, S1
  <2>10. Returned'
    <3>1. status # "ok"
      BY <1>0, <2>3 DEF Returned, AllAnswered
    <3>2. QED
      BY <1>0, <2>2, <3>1 DEF Returned
  <2>11. QED
    BY <2>8, <2>9, <2>10 DEF DetailsInv
<1>6. CASE Finish
  <2>1. /\ Len(results) = Len(call.requests) /\ answer' \in InRequestOrder /\ status' = "ok"
        /\ UNCHANGED <<call, pulled, inFlight, failed, results>>
    BY <1>6 DEF Finish
  <2>2. /\ Len(answer') = Len(call.requests) /\ DOMAIN answer' = 1 .. Len(call.requests)
        /\ \A i \in 1 .. Len(call.requests) : i \in Done /\ answer'[i] = Outcome(i)
    BY <1>0, <2>1, SortedIsComplete
  <2>3. Kept' /\ Fetching' /\ Done' = Done /\ \A p : Outcome(p)' = Outcome(p)
    BY <1>1, <2>1
  <2>4. AllAnswered'
    BY <2>1, <2>2, <2>3 DEF AllAnswered
  <2>5. QED
    BY <2>1, <2>3, <2>4 DEF DetailsInv, Returned
<1>7. QED
  BY <1>2, <1>3, <1>4, <1>5, <1>6 DEF DetailsNext

\* The invariant holds in every reachable state.
LEMMA DetailsInvariant == DetailsSpec => []DetailsInv
<1> QED BY InitDetailsInv, NextDetailsInv, PTL DEF DetailsSpec

-----------------------------------------------------------------------------
\* The details that are returned, one for one request.
LEMMA AnswerIs ==
  ASSUME DetailsInv, NEW i \in DOMAIN answer
  PROVE  /\ status = "ok" /\ i \in 1 .. Len(call.requests)
         /\ i \in Done /\ answer[i] = Outcome(i) /\ answer[i].txid = call.requests[i].txid
<1>1. status = "ok"
  <2>1. DOMAIN <<>> = {}
    OBVIOUS
  <2>2. QED
    BY <2>1 DEF DetailsInv, Returned
<1>2. QED
  BY <1>1, OutcomeOf DEF DetailsInv, Returned, AllAnswered

\* However the fetches complete, fail and overtake one another, each request of any
\* call has its answer in its place, with the true fee or none.
THEOREM FeesCorrect == DetailsSpec => []FeeExactOrUnknown
<1>1. DetailsInv => FeeExactOrUnknown
  <2> SUFFICES ASSUME DetailsInv, status = "ok" PROVE FeeExactOrUnknown
    BY DEF FeeExactOrUnknown
  <2>1. Len(answer) = Len(call.requests)
    BY DEF DetailsInv, Returned, AllAnswered
  <2>2. ASSUME NEW i \in DOMAIN answer
        PROVE  /\ answer[i].txid = call.requests[i].txid
               /\ answer[i].fee # Unknown /\ Honest(call.requests[i])
                    => answer[i].fee = TrueFee(call.requests[i].txid)
    <3> DEFINE request == call.requests[i]
    <3>1. i \in Done /\ answer[i] = Outcome(i) /\ answer[i].txid = request.txid
      BY AnswerIs
    <3>2. ASSUME answer[i].fee # Unknown, Honest(request)
          PROVE  answer[i].fee = TrueFee(request.txid)
      <4>1. i \notin failed
        BY <3>1, <3>2 DEF Outcome, Result
      <4>2. request.txid \in DOMAIN Txs
        BY <3>1, <4>1 DEF DetailsInv, Fetching
      <4>3. answer[i].fee = TransactionFee(Txs[request.txid], request)
        BY <3>1, <3>2, <4>1 DEF Outcome, FetchAndRead, Result
      <4>4. AllKnown(Txs[request.txid], request) /\ answer[i].fee = FeePaid(Txs[request.txid], request)
        BY <3>2, <4>3 DEF TransactionFee
      <4> HIDE DEF request
      <4>5. QED
        BY <3>2, <4>2, <4>4, FeeIsTrue
    <3>3. QED
      BY <3>1, <3>2
  <2>3. QED
    BY <2>1, <2>2 DEF FeeExactOrUnknown
<1>2. QED
  BY <1>1, DetailsInvariant, PTL

\* Whoever else the call asks about, the payees that are returned for a transaction are
\* others that it pays on our behalf.
THEOREM PayeesCorrect == DetailsSpec => []PayeesAreOthers
<1>1. DetailsInv => PayeesAreOthers
  <2> SUFFICES ASSUME DetailsInv, NEW i \in DOMAIN answer, NEW k \in DOMAIN answer[i].payees
               PROVE  \E pool \in ShieldedPools : \E out \in Range(Txs[answer[i].txid].outs[pool]) :
                        out.by = "us" /\ out.to = "others" /\ out.address = answer[i].payees[k]
    BY DEF PayeesAreOthers
  <2> DEFINE request == call.requests[i]  tx == Txs[request.txid]
  <2>1. i \in Done /\ answer[i] = Outcome(i) /\ answer[i].txid = request.txid
    BY AnswerIs
  <2>2. answer[i].payees # <<>>
    <3>1. DOMAIN <<>> = {}
      OBVIOUS
    <3>2. QED
      BY <3>1
  <2>3. i \notin failed
    BY <2>1, <2>2 DEF Outcome, Result
  <2>4. request.txid \in DOMAIN Txs
    BY <2>1, <2>3 DEF DetailsInv, Fetching
  <2>5. answer[i].payees = OutgoingPayees(tx)
    BY <2>1, <2>2, <2>3 DEF Outcome, FetchAndRead, Result
  <2>6. \A pool \in ShieldedPools : tx.outs[pool] \in Seq(Output)
    BY <2>4, TxsTyped
  <2> HIDE DEF request, tx
  <2>7. \E pool \in ShieldedPools : \E out \in Range(tx.outs[pool]) :
          PaidBy(out) /\ out.address = answer[i].payees[k]
    BY <2>5, <2>6, PayeesArePaid
  <2>8. QED
    BY <2>1, <2>7 DEF PaidBy, tx
<1>2. QED
  BY <1>1, DetailsInvariant, PTL

\* What fails makes nothing else unknown: of every call, a request that was answered
\* has its fee and all of its payees.
THEOREM FailuresIsolatedCorrect == DetailsSpec => []FailuresIsolated
<1>1. DetailsInv => FailuresIsolated
  <2> SUFFICES ASSUME DetailsInv, NEW i \in DOMAIN answer \ failed,
                      Txs[call.requests[i].txid].parses, Honest(call.requests[i])
               PROVE  /\ AllKnown(Txs[call.requests[i].txid], call.requests[i])
                           => answer[i].fee = TrueFee(call.requests[i].txid)
                      /\ call.ufvk = "ours" => \A pool \in ShieldedPools :
                           \A out \in Range(Txs[call.requests[i].txid].outs[pool]) :
                             out.by = "us" /\ out.to = "others" => Contains(answer[i].payees, out.address)
    BY DEF FailuresIsolated
  <2> DEFINE request == call.requests[i]  tx == Txs[request.txid]
  <2>1. i \in Done /\ answer[i] = Outcome(i)
    BY AnswerIs
  <2>2. request.txid \in DOMAIN Txs
    BY <2>1 DEF DetailsInv, Fetching
  <2>3. CanPrice(tx, request)
    <3> HIDE DEF request
    <3>1. QED
      BY <2>2, HonestIsPriced DEF request
  <2>4. answer[i] = Result(i, TransactionFee(tx, request),
                           IF call.ufvk = "ours" THEN OutgoingPayees(tx) ELSE <<>>)
    BY <2>1, <2>3 DEF Outcome, FetchAndRead
  <2>5. AllKnown(tx, request) => answer[i].fee = TrueFee(request.txid)
    <3>1. AllKnown(tx, request) => answer[i].fee = FeePaid(tx, request)
      BY <2>4 DEF TransactionFee, Result
    <3>2. QED
      BY <2>2, <3>1, FeeIsTrue
  <2>6. \A pool \in ShieldedPools : tx.outs[pool] \in Seq(Output)
    BY <2>2, TxsTyped
  <2>7. call.ufvk = "ours" => answer[i].payees = OutgoingPayees(tx)
    BY <2>4 DEF Result
  <2>8. call.ufvk = "ours" => \A pool \in ShieldedPools : \A out \in Range(tx.outs[pool]) :
          PaidBy(out) => Contains(answer[i].payees, out.address)
    <3> HIDE DEF tx
    <3>1. QED
      BY <2>6, <2>7, PayeesArePaid
  <2>9. QED
    BY <2>5, <2>8 DEF PaidBy
<1>2. QED
  BY <1>1, DetailsInvariant, PTL

\* How many steps a call has left at most.
StepsOf == [called |-> 2, fetching |-> 1, ok |-> 0, error |-> 0]
DetailsLeft ==
  2 * (Len(call.requests) - pulled) + Cardinality(inFlight) + StepsOf[status]

\* Every step of a call brings its end nearer, which is at most 2n + 2 steps away for n
\* requests: no slot of the pipeline is ever lost to a fetch that fails.
THEOREM DetailsProgress ==
  DetailsSpec => [][DetailsLeft' \in Nat /\ DetailsLeft' < DetailsLeft]_detailsVars
<1>1. DetailsInv /\ DetailsInv' /\ DetailsNext => DetailsLeft' \in Nat /\ DetailsLeft' < DetailsLeft
  <2> SUFFICES ASSUME DetailsInv, DetailsInv', DetailsNext
               PROVE  DetailsLeft' \in Nat /\ DetailsLeft' < DetailsLeft
    OBVIOUS
  <2> DEFINE n == Len(call.requests)  c == Cardinality(inFlight)
  <2>1. /\ call' = call /\ n \in Nat
        /\ pulled \in 0 .. n /\ inFlight \subseteq 1 .. pulled
        /\ pulled' \in 0 .. n /\ inFlight' \subseteq 1 .. pulled'
    <3>1. call' = call
      BY DEF DetailsNext, Reject, Connect, Pull, Complete, Finish
    <3>2. Fetching /\ Fetching' /\ n \in Nat
      BY CallTyped DEF DetailsInv
    <3>3. QED
      BY <3>1, <3>2 DEF Fetching
  <2>2. IsFiniteSet(inFlight) /\ IsFiniteSet(inFlight') /\ c \in Nat /\ c' \in Nat
    <3>1. IsFiniteSet(1 .. pulled) /\ IsFiniteSet(1 .. pulled')
      BY <2>1, FS_Interval
    <3>2. QED
      BY <2>1, <3>1, FS_Subset, FS_CardinalityType
  <2>3. /\ StepsOf["called"] = 2 /\ StepsOf["fetching"] = 1
        /\ StepsOf["ok"] = 0 /\ StepsOf["error"] = 0
    BY DEF StepsOf
  <2>4. /\ DetailsLeft = 2 * (n - pulled) + c + StepsOf[status]
        /\ DetailsLeft' = 2 * (n - pulled') + c' + StepsOf[status']
    BY <2>1 DEF DetailsLeft
  <2> HIDE DEF n, c
  <2>5. CASE Reject \/ Connect \/ Finish
    <3>1. /\ pulled' = pulled /\ c' = c
          /\ \/ status = "called" /\ status' \in {"fetching", "error"}
             \/ status = "fetching" /\ status' = "ok"
      BY <2>5 DEF Reject, Connect, Finish, c
    <3>2. QED
      BY <2>1, <2>2, <2>3, <2>4, <3>1
  <2>6. CASE Pull
    <3>1. status = "fetching" /\ status' = "fetching" /\ pulled' = pulled + 1
          /\ inFlight' = inFlight \cup {pulled + 1}
      BY <2>6 DEF Pull
    <3>2. c' = c + 1
      <4>1. pulled + 1 \notin inFlight
        BY <2>1
      <4>2. QED
        BY <2>2, <3>1, <4>1, FS_AddElement DEF c
    <3>3. QED
      BY <2>1, <2>2, <2>3, <2>4, <3>1, <3>2
  <2>7. CASE Complete
    <3>1. PICK p \in inFlight : inFlight' = inFlight \ {p}
      BY <2>7 DEF Complete
    <3>2. pulled' = pulled /\ status' = status
      BY <2>7 DEF Complete
    <3>3. c' = c - 1
      BY <2>2, <3>1, FS_RemoveElement DEF c
    <3>4. StepsOf[status] \in Nat
      BY <2>3 DEF DetailsInv, Fetching
    <3>5. QED
      BY <2>1, <2>2, <2>4, <3>2, <3>3, <3>4
  <2>8. QED
    BY <2>5, <2>6, <2>7 DEF DetailsNext
<1>2. QED
  BY <1>1, DetailsInvariant, PTL DEF DetailsSpec
=============================================================================
