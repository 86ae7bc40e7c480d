--------------------------- MODULE ScanRangeProofs ---------------------------
(***************************************************************************)
(* Why one scan reports what its range owes, for every chain, every range    *)
(* and every order in which the blocks of the pipeline complete.             *)
(***************************************************************************)
EXTENDS ScanRange, SequenceTheorems, FoldLemmas

(***************************************************************************)
(* The inductive invariant.  Until the stream has ended, the heights that    *)
(* are in flight or trial-decrypted are those pulled so far; in Phase 2 and  *)
(* in Phase 4 the transactions listed are those that are not to be fetched   *)
(* any more.                                                                 *)
(***************************************************************************)
InRange == TxidsIn(StartHeight, EndHeight)
Matched == {t \in InRange : Matches(TxOf(t))}
Expected == ExpectedTxids(StartHeight, EndHeight)
Ours == NotesKnown(StartHeight, EndHeight)
SpentOf(p) == SpentIn(StartHeight, EndHeight, p)

Fetched == (Matched \ todo) \ undecodable

\* txs lists the transactions of S, each once, as they are decrypted.
Listed(txs, S) ==
  /\ txs \in Seq({Decrypted(t) : t \in S})
  /\ \A i, j \in DOMAIN txs : i # j => txs[i].txid # txs[j].txid
  /\ \A t \in S : \E i \in DOMAIN txs : txs[i].txid = t

ByHeight(txs) == \A i, j \in DOMAIN txs : i < j => txs[i].height <= txs[j].height

StreamInv ==
  /\ next \in StartHeight .. EndHeight + 1
  /\ results \in Seq(Nat)
  /\ ToSet(results) \cup inflight = StartHeight .. next - 1
  /\ transactions = <<>>

Phase2Inv ==
  /\ ToSet(results) = StartHeight .. EndHeight
  /\ todo \subseteq Matched
  /\ ours = known \cup UNION {ReceivesAny(TxOf(t)) : t \in Fetched}
  /\ Listed(transactions, Fetched)
  /\ ByHeight(transactions)
  /\ \A i \in DOMAIN transactions, t \in todo : transactions[i].height <= t[1]

Phase4Inv ==
  /\ ToSet(results) = StartHeight .. EndHeight
  /\ ours = Ours
  /\ todo \subseteq InRange /\ todo \ undecodable \subseteq Expected
  /\ Listed(transactions, Expected \ todo)
  /\ ours = {} => todo = {} /\ ByHeight(transactions)

\* A transaction as it is reported: its notes that the range spends are marked.
Marked(t) ==
  [Decrypted(t) EXCEPT !.notes = [p \in Pools |->
     {IF n.nf \in SpentOf(p) \cap Ours THEN [n EXCEPT !.isSpent = TRUE] ELSE n :
        n \in NotesOf(t, p)}]]

OkInv ==
  /\ \A i \in DOMAIN emitted : emitted[i] = Marked(emitted[i].txid)
  /\ {emitted[i].txid : i \in DOMAIN emitted} = Expected
  /\ DOMAIN emitted = 1 .. Len(emitted) /\ Len(emitted) = Cardinality(Expected)
  /\ \A i, j \in DOMAIN emitted : i # j => emitted[i].txid # emitted[j].txid
  /\ ByHeight(emitted)
  /\ \A p \in Pools : spentKnown[p] = known \cap SpentOf(p)

IInv ==
  /\ chain \in [Heights -> Block]
  /\ pc \in {"start", "stream", "phase2", "phase4", "ok", "err"}
  /\ pc \in {"start", "stream"} => StreamInv
  /\ pc = "phase2" => Phase2Inv
  /\ pc = "phase4" => Phase4Inv
  /\ pc # "ok" => emitted = <<>>
  /\ pc = "ok" => OkInv

-----------------------------------------------------------------------------
(* Trial decryption *)

\* The scanned heights are heights of the chain.
LEMMA HeightsCover ==
  /\ StartHeight \in Nat /\ EndHeight \in Nat /\ StartHeight <= EndHeight
  /\ StartHeight .. EndHeight \subseteq Heights
<1>1. PICK a \in Heights, b \in Heights : Heights = a .. b
  BY ChainAssumption
<1>2. a \in Nat /\ b \in Nat /\ StartHeight \in Nat /\ EndHeight \in Nat
  BY <1>1, ChainAssumption, ScanAssumption
<1>3. QED
  BY <1>1, <1>2, ScanAssumption

\* The block that the fast path drops has nothing for us.
LEMMA FastPathLosesNothing ==
  ASSUME NEW h, FastPath(h), NEW t \in TxidsOf(h)
  PROVE  ~Matches(TxOf(t)) /\ \A p \in Pools : Spends(TxOf(t), p) = {} /\ OutputsFound(TxOf(t), p) = {}
<1>1. orchardOnly /\ \A p \in Pools : DOMAIN TxOf(t)[p] = {}
  BY DEF FastPath
<1>2. QED
  BY <1>1 DEF Matches, Parsed, Spends, OutputsFound

\* What is kept of a block: the transactions that match, and the spends.
LEMMA TrialFacts ==
  ASSUME NEW h
  PROVE  /\ Trial(h).matched = {t \in TxidsOf(h) : Matches(TxOf(t))}
         /\ DOMAIN Trial(h).spends \subseteq TxidsOf(h)
         /\ \A t \in DOMAIN Trial(h).spends, p \in Pools : Trial(h).spends[t][p] = Spends(TxOf(t), p)
         /\ \A t \in TxidsOf(h), p \in Pools :
              Spends(TxOf(t), p) # {} => t \in DOMAIN Trial(h).spends
<1>1. CASE FastPath(h)
  <2>1. Trial(h).matched = {} /\ DOMAIN Trial(h).spends = {}
    BY <1>1 DEF Trial
  <2>2. QED
    BY <1>1, <2>1, FastPathLosesNothing
<1>2. CASE ~FastPath(h)
  BY <1>2 DEF Trial
<1>3. QED
  BY <1>1, <1>2

\* The transactions that Phase 2 fetches.
LEMMA AllMatched ==
  ASSUME ToSet(results) = StartHeight .. EndHeight
  PROVE  UNION {Trial(h).matched : h \in ToSet(results)} = Matched
BY TrialFacts DEF Matched, InRange, TxidsIn

\* A txid is in the block that it names.
LEMMA TxidHeight ==
  ASSUME NEW h, NEW t \in TxidsOf(h)
  PROVE  t[1] = h /\ t = <<t[1], t[2]>> /\ t[2] \in DOMAIN chain[h].txs
BY DEF TxidsOf

\* The transactions that Phase 4 fetches.
LEMMA AllSpenders ==
  ASSUME ToSet(results) = StartHeight .. EndHeight
  PROVE  Spenders = {t \in InRange : t \notin AlreadyFound /\ SpendsAny(TxOf(t)) \cap ours # {}}
<1>1. ASSUME NEW t \in Spenders
      PROVE  t \in InRange /\ t \notin AlreadyFound /\ SpendsAny(TxOf(t)) \cap ours # {}
  <2>1. PICK h \in StartHeight .. EndHeight : t \in DOMAIN Trial(h).spends
    BY DEF Spenders
  <2>2. t \in TxidsOf(h) /\ t[1] = h
    BY <2>1, TrialFacts, TxidHeight
  <2>3. PICK p \in Pools : Trial(h).spends[t][p] \cap ours # {}
    BY <2>2 DEF Spenders
  <2>4. Spends(TxOf(t), p) \cap ours # {}
    BY <2>1, <2>3, TrialFacts
  <2>5. QED
    BY <2>2, <2>4 DEF Spenders, InRange, TxidsIn, SpendsAny
<1>2. ASSUME NEW t \in InRange, t \notin AlreadyFound, SpendsAny(TxOf(t)) \cap ours # {}
      PROVE  t \in Spenders
  <2>1. PICK h \in StartHeight .. EndHeight : t \in TxidsOf(h)
    BY DEF InRange, TxidsIn
  <2>2. PICK p \in Pools : Spends(TxOf(t), p) \cap ours # {}
    BY <1>2 DEF SpendsAny
  <2>3. t[1] = h /\ t \in DOMAIN Trial(h).spends
        /\ Trial(h).spends[t][p] \cap ours # {}
    BY <2>1, <2>2, TrialFacts, TxidHeight
  <2>4. QED
    BY <1>2, <2>1, <2>3 DEF Spenders
<1>3. QED
  BY <1>1, <1>2

\* The nullifiers that Phase 5 goes by.
LEMMA AllSpent ==
  ASSUME ToSet(results) = StartHeight .. EndHeight, NEW p \in Pools
  PROVE  SpentNullifiers(p) = SpentOf(p) \cap ours
<1>1. ASSUME NEW n \in SpentNullifiers(p)
      PROVE  n \in SpentOf(p) /\ n \in ours
  <2>1. PICK h \in StartHeight .. EndHeight :
          n \in UNION {Trial(h).spends[t][p] : t \in DOMAIN Trial(h).spends}
    BY DEF SpentNullifiers
  <2>2. PICK t \in DOMAIN Trial(h).spends : n \in Trial(h).spends[t][p]
    BY <2>1
  <2>3. t \in TxidsOf(h) /\ n \in Spends(TxOf(t), p)
    BY <2>2, TrialFacts
  <2>4. t \in TxidsIn(StartHeight, EndHeight)
    BY <2>3 DEF TxidsIn
  <2>5. n \in SpentOf(p)
    BY <2>3, <2>4 DEF SpentOf, SpentIn
  <2>6. n \in ours
    BY DEF SpentNullifiers
  <2>7. QED
    BY <2>5, <2>6
<1>2. ASSUME NEW n \in SpentOf(p), n \in ours
      PROVE  n \in SpentNullifiers(p)
  <2>1. PICK t \in TxidsIn(StartHeight, EndHeight) : n \in Spends(TxOf(t), p)
    BY DEF SpentOf, SpentIn
  <2>2. PICK h \in StartHeight .. EndHeight : t \in TxidsOf(h)
    BY DEF TxidsIn
  <2>3. t \in DOMAIN Trial(h).spends /\ n \in Trial(h).spends[t][p]
    BY <2>1, <2>2, TrialFacts
  <2>4. n \in UNION {Trial(h).spends[u][p] : u \in DOMAIN Trial(h).spends} /\ h \in ToSet(results)
    BY <2>2, <2>3
  <2>5. QED
    BY <1>2, <2>4 DEF SpentNullifiers
<1>3. QED
  BY <1>1, <1>2

-----------------------------------------------------------------------------
(* Positions in the commitment trees *)

\* How many actions the transactions of a block have is a sequence of numbers.
LEMMA CountsInSeq ==
  ASSUME chain \in [Heights -> Block], NEW h \in Heights, NEW p \in Pools
  PROVE  /\ ActionCounts(h, p) \in Seq(Nat)
         /\ Len(ActionCounts(h, p)) = Len(chain[h].txs)
         /\ DOMAIN chain[h].txs = 1 .. Len(chain[h].txs) /\ Len(chain[h].txs) \in Nat
         /\ \A i \in DOMAIN chain[h].txs : ActionCounts(h, p)[i] = Len(chain[h].txs[i][p])
<1> DEFINE txs == chain[h].txs
<1>1. txs \in Seq(Tx)
  BY DEF Block
<1> HIDE DEF txs
<1>2. DOMAIN txs = 1 .. Len(txs) /\ Len(txs) \in Nat
  BY <1>1
<1>3. ASSUME NEW i \in 1 .. Len(txs) PROVE Len(txs[i][p]) \in Nat
  <2>1. txs[i] \in Tx
    BY <1>1
  <2>2. txs[i][p] \in Seq(Action)
    BY <2>1 DEF Tx, Pools
  <2>3. QED
    BY <2>2
<1>4. [i \in 1 .. Len(txs) |-> Len(txs[i][p])] \in Seq(Nat)
  BY <1>2, <1>3
<1>5. ActionCounts(h, p) = [i \in 1 .. Len(txs) |-> Len(txs[i][p])]
  BY <1>2 DEF ActionCounts, txs
<1>6. Len([i \in 1 .. Len(txs) |-> Len(txs[i][p])]) = Len(txs)
  BY <1>2
<1>7. QED
  BY <1>2, <1>4, <1>5, <1>6 DEF txs

\* The sums over a block that the scan computes.
LEMMA BlockSums ==
  ASSUME chain \in [Heights -> Block], NEW h \in Heights, NEW p \in Pools
  PROVE  /\ ActionsOf(h, p) \in Nat
         /\ SumSeq(ActionCounts(h, p)) = ActionsOf(h, p)
         /\ \A i \in DOMAIN chain[h].txs :
              /\ SumSeq(SubSeq(ActionCounts(h, p), 1, i - 1))
                   = SumFunctionOnSet(ActionCounts(h, p), 1 .. i - 1)
              /\ SumFunctionOnSet(ActionCounts(h, p), 1 .. i - 1) \in Nat
              /\ ActionsOf(h, p) >= Len(chain[h].txs[i][p])
<1> DEFINE c == ActionCounts(h, p)  D == DOMAIN c
<1>1. /\ c \in Seq(Nat) /\ Len(c) = Len(chain[h].txs)
      /\ \A i \in DOMAIN chain[h].txs : c[i] = Len(chain[h].txs[i][p])
      /\ DOMAIN chain[h].txs = 1 .. Len(c)
  BY CountsInSeq
<1>2. ActionsOf(h, p) = SumFunctionOnSet(c, D)
  BY DEF ActionsOf, SumFunction
<1> HIDE DEF c
<1>3. D = 1 .. Len(c) /\ Len(c) \in Nat /\ c \in [D -> Nat]
  BY <1>1
<1>4. IsFiniteSet(D)
  <2>0. 1 \in Int /\ Len(c) \in Int
    BY <1>3
  <2>1. IsFiniteSet(1 .. Len(c))
    BY <2>0, FS_Interval
  <2>2. QED
    BY <1>3, <2>1
<1>5. Splits(c, D)
  <2> HIDE DEF D
  <2>1. QED
    BY <1>3, <1>4, SumSplits
<1>6. SumSeq(c) = SumFunctionOnSet(c, D)
  <2>1. SubSeq(c, 1, Len(c)) = c /\ Len(c) \in 0 .. Len(c)
    BY <1>1, <1>3
  <2>2. SumOf(SubSeq(c, 1, Len(c))) = SumFunctionOnSet(c, 1 .. Len(c))
    BY <1>1, <2>1, SumOfPrefix
  <2>3. SumSeq(c) = SumOf(c)
    BY DEF SumSeq, SumOf
  <2>4. QED
    BY <1>3, <2>1, <2>2, <2>3
<1>7. ASSUME NEW i \in DOMAIN chain[h].txs
      PROVE  /\ SumSeq(SubSeq(c, 1, i - 1)) = SumFunctionOnSet(c, 1 .. i - 1)
             /\ SumFunctionOnSet(c, 1 .. i - 1) \in Nat
             /\ SumFunctionOnSet(c, D) >= c[i]
  <2>1. i - 1 \in 0 .. Len(c) /\ i \in D
    BY <1>1, <1>3
  <2>2. SumOf(SubSeq(c, 1, i - 1)) = SumFunctionOnSet(c, 1 .. i - 1)
    BY <1>1, <2>1, SumOfPrefix
  <2>3. SumSeq(SubSeq(c, 1, i - 1)) = SumOf(SubSeq(c, 1, i - 1))
    BY DEF SumSeq, SumOf
  <2>4. D \ {i} \subseteq D /\ IsFiniteSet(D \ {i})
    BY <1>4, FS_Subset
  <2>5. Splits(c, D \ {i})
    <3> HIDE DEF D
    <3>1. QED
      BY <1>3, <2>4, SumSplits
  <2>6. SumFunctionOnSet(c, D) = c[i] + SumFunctionOnSet(c, D \ {i})
    BY <1>5, <2>1 DEF Splits
  <2>7. c[i] \in Nat /\ SumFunctionOnSet(c, D \ {i}) \in Nat
    BY <1>3, <2>1, <2>5 DEF Splits
  <2>8. SumFunctionOnSet(c, 1 .. i - 1) \in Nat
    <3> DEFINE B == 1 .. i - 1
    <3>1. B \subseteq D
      BY <1>3, <2>1
    <3>2. IsFiniteSet(B)
      BY <1>4, <3>1, FS_Subset
    <3> HIDE DEF B, D
    <3>3. Splits(c, B)
      BY <1>3, <3>1, <3>2, SumSplits
    <3>4. QED
      BY <3>3 DEF Splits, B
  <2>9. QED
    BY <2>2, <2>3, <2>6, <2>7, <2>8
<1>8. SumFunctionOnSet(c, D) \in Nat
  BY <1>5 DEF Splits
<1>9. QED
  BY <1>1, <1>2, <1>6, <1>7, <1>8 DEF c

\* A block adds its actions to the tree.
LEMMA TreeGrows ==
  ASSUME chain \in [Heights -> Block], NEW h \in Heights, NEW p \in Pools
  PROVE  /\ TreeSize(h - 1, p) \in Nat
         /\ TreeSize(h, p) = ActionsOf(h, p) + TreeSize(h - 1, p)
<1> DEFINE v == [g \in Heights |-> ActionsOf(g, p)]
           S == {g \in Heights : g <= h}  R == {g \in Heights : g <= h - 1}
<1>1. TreeSize(h, p) = SumFunctionOnSet(v, S) /\ TreeSize(h - 1, p) = SumFunctionOnSet(v, R)
  BY DEF TreeSize
<1>2. v \in [Heights -> Nat] /\ v[h] = ActionsOf(h, p)
  BY BlockSums
<1>3. h \in S /\ S \ {h} = R /\ S \subseteq Heights /\ R \subseteq Heights
  BY ChainAssumption
<1>4. IsFiniteSet(S) /\ IsFiniteSet(R)
  <2>1. PICK a \in Heights, b \in Heights : Heights = a .. b
    BY ChainAssumption
  <2>2. a \in Int /\ b \in Int
    BY <2>1, ChainAssumption
  <2>3. IsFiniteSet(Heights)
    BY <2>1, <2>2, FS_Interval
  <2>4. QED
    BY <1>3, <2>3, FS_Subset
<1> HIDE DEF v, S, R
<1>5. Splits(v, S) /\ Splits(v, R)
  BY <1>2, <1>3, <1>4, SumSplits
<1>6. QED
  BY <1>1, <1>2, <1>3, <1>5 DEF Splits

\* The position that is computed for a note is its leaf, if there is chain metadata.
LEMMA PositionExact ==
  ASSUME chain \in [Heights -> Block], NEW h \in Heights, NEW t \in TxidsOf(h),
         NEW p \in Pools, NEW k \in OutputsFound(TxOf(t), p)
  PROVE  Position(t, p, k) = IF chain[h].meta THEN LeafIndex(t, p, k) ELSE NoSize
<1> DEFINE i == t[2]
<1>1. t[1] = h /\ i \in DOMAIN chain[h].txs /\ TxOf(t) = chain[h].txs[i]
  BY TxidHeight DEF TxOf
<1>2. ~FastPath(h)
  BY FastPathLosesNothing
<1>3. chain[h].txs[i][p] \in Seq(Action)
  <2>1. chain[h].txs \in Seq(Tx)
    BY DEF Block
  <2>2. chain[h].txs[i] \in Tx
    BY <1>1, <2>1
  <2>3. QED
    BY <2>2 DEF Tx, Pools
<1>3a. Len(chain[h].txs[i][p]) \in Nat /\ Len(chain[h].txs[i][p]) > 0 /\ k \in Int
  <2>1. k \in DOMAIN chain[h].txs[i][p]
    BY <1>1 DEF OutputsFound
  <2>2. QED
    BY <1>3, <2>1
<1>4. /\ Trial(h).counts[p] = ActionCounts(h, p)
      /\ Trial(h).sizeAfter[p] = IF chain[h].meta /\ TreeSize(h, p) > 0
                                 THEN TreeSize(h, p) ELSE NoSize
  BY <1>2 DEF Trial
<1>5. /\ TreeSize(h - 1, p) \in Nat /\ TreeSize(h, p) = ActionsOf(h, p) + TreeSize(h - 1, p)
      /\ ActionsOf(h, p) \in Nat /\ ActionsOf(h, p) >= Len(chain[h].txs[i][p])
      /\ SumSeq(ActionCounts(h, p)) = ActionsOf(h, p)
      /\ SumSeq(SubSeq(ActionCounts(h, p), 1, i - 1)) = SumFunctionOnSet(ActionCounts(h, p), 1 .. i - 1)
      /\ SumFunctionOnSet(ActionCounts(h, p), 1 .. i - 1) \in Nat
  BY <1>1, BlockSums, TreeGrows
<1>6. TreeSize(h, p) > 0 /\ TreeSize(h, p) >= ActionsOf(h, p)
      /\ TreeSize(h, p) - ActionsOf(h, p) = TreeSize(h - 1, p)
  <2> DEFINE n == Len(chain[h].txs[i][p])  a == ActionsOf(h, p)  b == TreeSize(h - 1, p)
  <2>1. n \in Nat /\ n > 0 /\ a \in Nat /\ a >= n /\ b \in Nat /\ TreeSize(h, p) = a + b
    BY <1>1, <1>3a, <1>5
  <2> HIDE DEF n, a, b
  <2>2. TreeSize(h, p) > 0 /\ TreeSize(h, p) >= a /\ TreeSize(h, p) - a = b
    BY <2>1
  <2>3. QED
    BY <2>2 DEF a, b
<1>7. SizeBefore(h, p) = IF chain[h].meta THEN TreeSize(h - 1, p) ELSE NoSize
  BY <1>4, <1>5, <1>6 DEF SizeBefore, NoSize
<1>8. ActionStart(t, p) = SumFunctionOnSet(ActionCounts(h, p), 1 .. i - 1)
  BY <1>1, <1>4, <1>5 DEF ActionStart
<1>9. TreeSize(h - 1, p) # NoSize
  BY <1>5 DEF NoSize
<1>10. QED
  BY <1>1, <1>3a, <1>5, <1>7, <1>8, <1>9 DEF Position, LeafIndex

-----------------------------------------------------------------------------
(* The steps *)

\* What the chain and the wallet are, they remain: and so does what is owed.
LEMMA Frozen ==
  ASSUME UNCHANGED chainVars
  PROVE  /\ InRange' = InRange /\ Matched' = Matched /\ Ours' = Ours /\ Expected' = Expected
         /\ \A p : SpentOf(p)' = SpentOf(p)
         /\ \A t : ReceivesAny(TxOf(t))' = ReceivesAny(TxOf(t))
         /\ \A t : Decrypted(t)' = Decrypted(t)
         /\ \A t : Marked(t)' = Marked(t)
<1>1. /\ chain' = chain /\ known' = known /\ ufvk' = ufvk
      /\ orchardOnly' = orchardOnly /\ undecodable' = undecodable
  BY DEF chainVars
<1>2. \A t : TxOf(t)' = TxOf(t)
  BY <1>1 DEF TxOf
<1>3. \A h : TxidsOf(h)' = TxidsOf(h)
  BY <1>1 DEF TxidsOf
<1>4. \A lo, hi : TxidsIn(lo, hi)' = TxidsIn(lo, hi)
  BY <1>3 DEF TxidsIn
<1>5. \A tx, p : OutputsFound(tx, p)' = OutputsFound(tx, p)
  BY <1>1 DEF OutputsFound
<1>6. \A t, p : OutputsFound(TxOf(t), p)' = OutputsFound(TxOf(t), p)
  BY <1>1, <1>2 DEF OutputsFound
<1>7. \A t : ReceivesAny(TxOf(t))' = ReceivesAny(TxOf(t))
  BY <1>2, <1>6 DEF ReceivesAny, Receives
<1>8. \A t : Matches(TxOf(t))' = Matches(TxOf(t))
  BY <1>1, <1>2 DEF Matches, HasIvks, Parsed
<1>9. \A t, p : Spends(TxOf(t), p)' = Spends(TxOf(t), p)
  BY <1>2 DEF Spends
<1>10. InRange' = InRange /\ Matched' = Matched
  BY <1>4, <1>8 DEF InRange, Matched
<1>11. Ours' = Ours
  BY <1>1, <1>4, <1>7, <1>8 DEF Ours, NotesKnown
<1>12. \A t : SpendsAny(TxOf(t))' = SpendsAny(TxOf(t))
  BY <1>9 DEF SpendsAny
<1>13. Expected' = Expected
  BY <1>1, <1>4, <1>8, <1>11, <1>12 DEF Expected, ExpectedTxids, Ours
<1>14. \A p : SpentOf(p)' = SpentOf(p)
  BY <1>4, <1>9 DEF SpentOf, SpentIn
<1>15. \A h, p : ActionsOf(h, p)' = ActionsOf(h, p) /\ ActionCounts(h, p)' = ActionCounts(h, p)
  BY <1>1 DEF ActionsOf, ActionCounts
<1>16. \A h, p : TreeSize(h, p)' = TreeSize(h, p)
  BY <1>15 DEF TreeSize
<1>17. \A h : Trial(h)' = Trial(h)
  <2>1. \A h : FastPath(h)' = FastPath(h)
    BY <1>1, <1>2, <1>3 DEF FastPath
  <2>2. QED
    BY <1>1, <1>3, <1>8, <1>9, <1>15, <1>16, <2>1 DEF Trial
<1>18. \A t, p, k : Position(t, p, k)' = Position(t, p, k)
  BY <1>17 DEF Position, SizeBefore, ActionStart
<1>19. \A t, p : NotesOf(t, p)' = NotesOf(t, p)
  BY <1>2, <1>6, <1>18 DEF NotesOf
<1>20. \A t : Decrypted(t)' = Decrypted(t)
  BY <1>19 DEF Decrypted
<1>21. \A t : Marked(t)' = Marked(t)
  BY <1>11, <1>14, <1>19, <1>20 DEF Marked
<1>22. QED
  BY <1>7, <1>10, <1>11, <1>13, <1>14, <1>20, <1>21

\* One more transaction is listed.
LEMMA ListedAppend ==
  ASSUME NEW txs, NEW S, Listed(txs, S), NEW t, t \notin S
  PROVE  /\ Listed(Append(txs, Decrypted(t)), S \cup {t})
         /\ DOMAIN txs = 1 .. Len(txs) /\ Len(txs) \in Nat
         /\ DOMAIN Append(txs, Decrypted(t)) = 1 .. Len(txs) + 1
         /\ \A i \in 1 .. Len(txs) : Append(txs, Decrypted(t))[i] = txs[i]
         /\ Append(txs, Decrypted(t))[Len(txs) + 1] = Decrypted(t)
<1> DEFINE E == {Decrypted(u) : u \in S}  F == {Decrypted(u) : u \in S \cup {t}}
           new == Append(txs, Decrypted(t))  n == Len(txs)
<1>1. txs \in Seq(E) /\ E \subseteq F /\ Decrypted(t) \in F
  BY DEF Listed
<1>2. \A u \in S \cup {t} : Decrypted(u).txid = u
  BY DEF Decrypted
<1>3. \A i \in DOMAIN txs : txs[i] \in E /\ txs[i].txid \in S
  <2>1. \A i \in DOMAIN txs : txs[i] \in E
    BY <1>1
  <2>2. QED
    BY <1>2, <2>1
<1> HIDE DEF E, F
<1>4. n \in Nat /\ DOMAIN txs = 1 .. n /\ txs \in Seq(F)
  BY <1>1
<1>5. /\ new \in Seq(F) /\ DOMAIN new = 1 .. n + 1
      /\ \A i \in 1 .. n : new[i] = txs[i]
      /\ new[n + 1] = Decrypted(t)
  BY <1>1, <1>4
<1>6. Decrypted(t).txid = t
  BY <1>2
<1> HIDE DEF new, n
<1>7. ASSUME NEW i \in DOMAIN new, NEW j \in DOMAIN new, i # j
      PROVE  new[i].txid # new[j].txid
  <2>1. CASE i \in 1 .. n /\ j \in 1 .. n
    <3>1. txs[i].txid # txs[j].txid
      BY <1>4, <1>7, <2>1 DEF Listed
    <3>2. QED
      BY <1>5, <2>1, <3>1
  <2>2. CASE i = n + 1 /\ j \in 1 .. n
    <3>1. new[i].txid = t /\ new[j].txid \in S
      BY <1>3, <1>4, <1>5, <1>6, <2>2
    <3>2. QED
      BY <3>1
  <2>3. CASE j = n + 1 /\ i \in 1 .. n
    <3>1. new[j].txid = t /\ new[i].txid \in S
      BY <1>3, <1>4, <1>5, <1>6, <2>3
    <3>2. QED
      BY <3>1
  <2>4. QED
    BY <1>4, <1>5, <1>7, <2>1, <2>2, <2>3
<1>8. ASSUME NEW u \in S \cup {t} PROVE \E i \in DOMAIN new : new[i].txid = u
  <2>1. CASE u = t
    BY <1>4, <1>5, <1>6, <2>1
  <2>2. CASE u \in S
    <3>1. PICK i \in DOMAIN txs : txs[i].txid = u
      BY <2>2 DEF Listed
    <3>2. i \in DOMAIN new /\ new[i] = txs[i]
      BY <1>4, <1>5, <3>1
    <3>3. QED
      BY <3>1, <3>2
  <2>3. QED
    BY <2>1, <2>2
<1>9. Listed(new, S \cup {t})
  BY <1>5, <1>7, <1>8 DEF Listed, F
<1>10. QED
  BY <1>4, <1>5, <1>9 DEF new, n

\* Nothing is listed at first.
LEMMA ListedNothing == Listed(<<>>, {})
BY DEF Listed

\* A list of what was decrypted names its own heights.
LEMMA ListedHeights ==
  ASSUME NEW txs, NEW S, Listed(txs, S)
  PROVE  /\ DOMAIN txs = 1 .. Len(txs) /\ Len(txs) \in Nat
         /\ \A i \in DOMAIN txs : txs[i].txid \in S /\ txs[i] = Decrypted(txs[i].txid)
                                  /\ txs[i].height = txs[i].txid[1]
<1> DEFINE E == {Decrypted(u) : u \in S}
<1>1. txs \in Seq(E) /\ \A e \in E : e.txid \in S /\ e = Decrypted(e.txid) /\ e.height = e.txid[1]
  BY DEF Listed, Decrypted
<1> HIDE DEF E
<1>2. DOMAIN txs = 1 .. Len(txs) /\ Len(txs) \in Nat /\ \A i \in DOMAIN txs : txs[i] \in E
  BY <1>1
<1>3. QED
  BY <1>1, <1>2

\* The scan starts with nothing.
LEMMA InitInvariant == Init => IInv
<1> SUFFICES ASSUME Init PROVE IInv
  OBVIOUS
<1>1. chain \in [Heights -> Block]
  BY ChainAssumption DEF Init, ChainInit
<1>2. StartHeight .. StartHeight - 1 = {} /\ StartHeight \in StartHeight .. EndHeight + 1
  BY HeightsCover
<1>3. ToSet(<<>>) = {} /\ <<>> \in Seq(Nat)
  BY DEF ToSet
<1>4. StreamInv
  BY <1>2, <1>3 DEF Init, StreamInv
<1>5. QED
  BY <1>1, <1>4 DEF Init, IInv

\* Steps that leave the phase and its lists alone, and failures.
LEMMA KeepsInvariant ==
  ASSUME IInv, UNCHANGED chainVars, OpenStream \/ OpenFails \/ StreamFails \/ FetchFails
  PROVE  IInv'
<1>1. chain' = chain
  BY DEF chainVars
<1>2. CASE OpenStream
  <2>1. StreamInv' /\ pc' = "stream" /\ emitted' = <<>>
    BY <1>2 DEF OpenStream, IInv, StreamInv
  <2>2. QED
    BY <1>1, <2>1 DEF IInv
<1>3. CASE OpenFails \/ StreamFails \/ FetchFails
  <2>1. pc' = "err" /\ emitted' = <<>>
    BY <1>3 DEF OpenFails, StreamFails, FetchFails, Fail, IInv
  <2>2. QED
    BY <1>1, <2>1 DEF IInv
<1>4. QED
  BY <1>2, <1>3

\* A block is pulled.
LEMMA PullInvariant ==
  ASSUME IInv, UNCHANGED chainVars, PullBlock
  PROVE  IInv'
<1>1. chain' = chain /\ pc' = "stream" /\ emitted' = <<>>
  BY DEF chainVars, PullBlock, IInv
<1>2. /\ next \in StartHeight .. EndHeight /\ ToSet(results) \cup inflight = StartHeight .. next - 1
      /\ results \in Seq(Nat) /\ transactions = <<>>
  BY HeightsCover DEF PullBlock, IInv, StreamInv
<1>3. StartHeight .. next = (StartHeight .. next - 1) \cup {next}
      /\ next + 1 \in StartHeight .. EndHeight + 1 /\ (next + 1) - 1 = next
  BY <1>2, HeightsCover
<1>4. /\ next' = next + 1 /\ inflight' = inflight \cup {next} /\ results' = results
      /\ transactions' = transactions
  BY DEF PullBlock
<1>5. ToSet(results) \cup inflight' = StartHeight .. next' - 1
  BY <1>2, <1>3, <1>4
<1>6. StreamInv'
  BY <1>2, <1>3, <1>4, <1>5 DEF StreamInv
<1>7. QED
  BY <1>1, <1>6 DEF IInv

\* A block is trial-decrypted.
LEMMA BlockDoneInvariant ==
  ASSUME IInv, UNCHANGED chainVars, NEW h \in Heights, BlockDone(h)
  PROVE  IInv'
<1>1. chain' = chain /\ pc' = "stream" /\ emitted' = <<>>
  BY DEF chainVars, BlockDone, IInv
<1>2. /\ next \in StartHeight .. EndHeight + 1
      /\ ToSet(results) \cup inflight = StartHeight .. next - 1
      /\ results \in Seq(Nat) /\ transactions = <<>> /\ h \in inflight
  BY DEF BlockDone, IInv, StreamInv
<1>3. h \in Nat
  BY ChainAssumption
<1>4. /\ next' = next /\ inflight' = inflight \ {h} /\ results' = Append(results, h)
      /\ transactions' = transactions
  BY DEF BlockDone
<1>5. results' \in Seq(Nat) /\ ToSet(results') = ToSet(results) \cup {h}
  <2>1. /\ Len(results) \in Nat /\ DOMAIN results = 1 .. Len(results)
        /\ results' \in Seq(Nat) /\ DOMAIN results' = 1 .. Len(results) + 1
        /\ \A i \in 1 .. Len(results) : results'[i] = results[i]
        /\ results'[Len(results) + 1] = h
    BY <1>2, <1>3, <1>4
  <2>2. QED
    BY <2>1 DEF ToSet
<1>6. StreamInv'
  BY <1>2, <1>4, <1>5 DEF StreamInv
<1>7. QED
  BY <1>1, <1>6 DEF IInv

\* The stream has ended, and Phase 2 starts.
LEMMA CollectInvariant ==
  ASSUME IInv, UNCHANGED chainVars, Collect
  PROVE  IInv'
<1>1. chain' = chain /\ known' = known /\ undecodable' = undecodable
      /\ pc' = "phase2" /\ emitted' = <<>>
  BY DEF chainVars, Collect, IInv
<1>2. /\ next \in StartHeight .. EndHeight + 1 /\ next > EndHeight /\ inflight = {}
      /\ ToSet(results) \cup inflight = StartHeight .. next - 1
      /\ results \in Seq(Nat) /\ transactions' = <<>>
      /\ ours' = known /\ todo' = UNION {Trial(h).matched : h \in ToSet(results)}
  BY DEF Collect, IInv, StreamInv
<1>3. ToSet(results) = StartHeight .. EndHeight
  <2>1. next - 1 = EndHeight
    BY <1>2, HeightsCover
  <2>2. QED
    BY <1>2, <2>1
<1>4. ToSet(results') = ToSet(results)
  <2>1. PICK o \in SetToSeqs(DOMAIN results) : results' = [i \in DOMAIN o |-> results[o[i]]]
    BY DEF Collect, SortedBy
  <2>2. DOMAIN results = 1 .. Len(results) /\ Len(results) \in Nat
    BY <1>2
  <2>3. Permutes(o, Len(results))
    BY <2>1, <2>2, SeqsArePermutations
  <2>4. DOMAIN o = 1 .. Len(results)
    BY <2>3 DEF Permutes
  <2>5. \A i \in 1 .. Len(results) : o[i] \in DOMAIN results /\ results'[i] = results[o[i]]
    BY <2>1, <2>2, <2>3, <2>4 DEF Permutes
  <2>6. DOMAIN results' = 1 .. Len(results)
    BY <2>1, <2>4
  <2>7. \A k \in DOMAIN results : \E i \in DOMAIN results' : results'[i] = results[k]
    BY <2>2, <2>3, <2>5, <2>6 DEF Permutes
  <2>8. \A i \in DOMAIN results' : \E k \in DOMAIN results : results'[i] = results[k]
    BY <2>5, <2>6
  <2>9. QED
    BY <2>7, <2>8 DEF ToSet
<1>5. todo' = Matched' /\ Fetched' = {}
  <2>1. todo' = Matched
    BY <1>2, <1>3, AllMatched
  <2>2. QED
    BY <2>1, Frozen DEF Fetched
<1>6. Phase2Inv'
  <2>1. Listed(transactions, Fetched)'
    BY <1>2, <1>5 DEF Listed
  <2>2. QED
    BY <1>1, <1>2, <1>3, <1>4, <1>5, <2>1 DEF Phase2Inv, ByHeight
<1>7. QED
  BY <1>1, <1>6 DEF IInv

\* The transactions of the range have their heights.
LEMMA RangeHeights ==
  ASSUME NEW t \in InRange
  PROVE  t[1] \in StartHeight .. EndHeight /\ t[1] \in Nat /\ t[1] \in Heights /\ t \in TxidsOf(t[1])
<1>1. PICK h \in StartHeight .. EndHeight : t \in TxidsOf(h)
  BY DEF InRange, TxidsIn
<1>2. QED
  BY <1>1, TxidHeight, HeightsCover

\* A list stays one while the chain is what it is.
LEMMA ListedFrozen ==
  ASSUME UNCHANGED chainVars, NEW S, S = Fetched' \/ S = (Expected \ todo)',
         Listed(transactions', S)
  PROVE  /\ S = Fetched' => Listed(transactions, Fetched)'
         /\ S = (Expected \ todo)' => Listed(transactions, Expected \ todo)'
<1>1. \A t : Decrypted(t)' = Decrypted(t)
  BY Frozen
<1>2. CASE S = Fetched'
  <2>1. {Decrypted(t)' : t \in Fetched'} = {Decrypted(t) : t \in S}
    BY <1>1, <1>2
  <2>2. Listed(transactions, Fetched)'
    BY <1>2, <2>1 DEF Listed
  <2>3. S = (Expected \ todo)' => Listed(transactions, Expected \ todo)'
    <3> SUFFICES ASSUME S = (Expected \ todo)' PROVE Listed(transactions, Expected \ todo)'
      OBVIOUS
    <3>1. {Decrypted(t)' : t \in (Expected \ todo)'} = {Decrypted(t) : t \in S}
      BY <1>1
    <3>2. QED
      BY <3>1 DEF Listed
  <2>4. QED
    BY <2>2, <2>3
<1>3. CASE S # Fetched'
  <2>1. S = (Expected \ todo)'
    BY <1>3
  <2>2. {Decrypted(t)' : t \in (Expected \ todo)'} = {Decrypted(t) : t \in S}
    BY <1>1, <2>1
  <2>3. QED
    BY <1>3, <2>1, <2>2 DEF Listed
<1>4. QED
  BY <1>2, <1>3

\* Phase 2 fetches a transaction.
LEMMA FetchMatchedInvariant ==
  ASSUME IInv, UNCHANGED chainVars, NEW t \in todo, FetchMatched(t)
  PROVE  IInv'
<1>1. chain' = chain /\ known' = known /\ undecodable' = undecodable
      /\ pc = "phase2" /\ pc' = "phase2" /\ emitted' = <<>> /\ results' = results
  BY DEF chainVars, FetchMatched, IInv
<1>2. Phase2Inv
  BY <1>1 DEF IInv
<1>3. Matched' = Matched /\ todo' = todo \ {t} /\ todo \subseteq Matched /\ Matched \subseteq InRange
      /\ \A u : ReceivesAny(TxOf(u))' = ReceivesAny(TxOf(u))
  BY <1>2, Frozen DEF FetchMatched, Phase2Inv, Matched
<1>4. t[1] \in Nat /\ \A u \in todo' : t[1] <= u[1] /\ u[1] \in Nat
  <2>1. ASSUME NEW u \in todo' PROVE t[1] <= u[1] /\ u[1] \in Nat
    <3>1. Earlier(t, u)
      BY <1>3 DEF FetchMatched
    <3>2. t[1] \in Nat /\ u[1] \in Nat
      BY <1>3, RangeHeights
    <3>3. QED
      BY <3>1, <3>2 DEF Earlier
  <2>2. QED
    BY <1>3, <2>1, RangeHeights
<1>5. /\ DOMAIN transactions = 1 .. Len(transactions) /\ Len(transactions) \in Nat
      /\ \A i \in DOMAIN transactions : transactions[i].txid \in Fetched
                                        /\ transactions[i].height = transactions[i].txid[1]
                                        /\ transactions[i].height <= t[1]
  BY <1>2, ListedHeights DEF Phase2Inv
<1>6. /\ ToSet(results') = StartHeight .. EndHeight /\ todo' \subseteq Matched'
  BY <1>1, <1>2, <1>3 DEF Phase2Inv
<1>7. CASE t \in undecodable
  <2>1. UNCHANGED <<ours, transactions>>
    BY <1>7 DEF FetchMatched
  <2>2. Fetched' = Fetched
    BY <1>1, <1>3, <1>7 DEF Fetched
  <2>3. Listed(transactions, Fetched)'
    BY <1>2, <2>1, <2>2, ListedFrozen DEF Phase2Inv
  <2>4. ours' = known' \cup UNION {ReceivesAny(TxOf(u))' : u \in Fetched'}
    BY <1>1, <1>2, <1>3, <2>1, <2>2 DEF Phase2Inv
  <2>5. ByHeight(transactions')
        /\ \A i \in DOMAIN transactions', u \in todo' : transactions'[i].height <= u[1]
    BY <1>2, <1>3, <2>1 DEF Phase2Inv
  <2>6. Phase2Inv'
    BY <1>6, <2>3, <2>4, <2>5 DEF Phase2Inv
  <2>7. QED
    BY <1>1, <2>6 DEF IInv
<1>8. CASE t \notin undecodable
  <2> DEFINE n == Len(transactions)
  <2>1. ours' = ours \cup ReceivesAny(TxOf(t)) /\ transactions' = Append(transactions, Decrypted(t))
    BY <1>8 DEF FetchMatched
  <2>2. Fetched' = Fetched \cup {t} /\ t \notin Fetched
    BY <1>1, <1>3, <1>8 DEF Fetched
  <2>3. /\ Listed(transactions', Fetched') /\ DOMAIN transactions' = 1 .. n + 1
        /\ \A i \in 1 .. n : transactions'[i] = transactions[i]
        /\ transactions'[n + 1] = Decrypted(t)
    BY <1>2, <2>1, <2>2, ListedAppend DEF Phase2Inv
  <2>4. Listed(transactions, Fetched)'
    BY <2>3, ListedFrozen
  <2>5. ours' = known' \cup UNION {ReceivesAny(TxOf(u))' : u \in Fetched'}
    <3>1. ours = known \cup UNION {ReceivesAny(TxOf(u)) : u \in Fetched}
      BY <1>2 DEF Phase2Inv
    <3>2. UNION {ReceivesAny(TxOf(u)) : u \in Fetched \cup {t}}
            = ReceivesAny(TxOf(t)) \cup UNION {ReceivesAny(TxOf(u)) : u \in Fetched}
      OBVIOUS
    <3>3. {ReceivesAny(TxOf(u))' : u \in Fetched'} = {ReceivesAny(TxOf(u)) : u \in Fetched'}
      BY <1>3
    <3>4. QED
      BY <1>1, <2>1, <2>2, <3>1, <3>2, <3>3
  <2>6. Decrypted(t).height = t[1]
    BY DEF Decrypted
  <2>7. \A i \in DOMAIN transactions' :
          transactions'[i].height \in Nat /\ transactions'[i].height <= t[1]
    <3>1. \A i \in 1 .. n : transactions[i].height \in Nat
      BY <1>3, <1>5, RangeHeights DEF Fetched
    <3>2. QED
      BY <1>4, <1>5, <2>3, <2>6, <3>1
  <2>8. ByHeight(transactions')
    <3> SUFFICES ASSUME NEW i \in DOMAIN transactions', NEW j \in DOMAIN transactions', i < j
                 PROVE  transactions'[i].height <= transactions'[j].height
      BY DEF ByHeight
    <3>1. CASE j = n + 1
      BY <2>3, <2>6, <2>7, <3>1
    <3>2. CASE j # n + 1
      <4>1. i \in 1 .. n /\ j \in 1 .. n
        BY <1>5, <2>3, <3>2
      <4>2. QED
        BY <1>2, <1>5, <2>3, <4>1 DEF Phase2Inv, ByHeight
    <3>3. QED
      BY <3>1, <3>2
  <2>9. \A i \in DOMAIN transactions', u \in todo' : transactions'[i].height <= u[1]
    <3> SUFFICES ASSUME NEW i \in DOMAIN transactions', NEW u \in todo'
                 PROVE  transactions'[i].height <= u[1]
      OBVIOUS
    <3>1. transactions'[i].height \in Nat /\ transactions'[i].height <= t[1]
          /\ t[1] <= u[1] /\ u[1] \in Nat /\ t[1] \in Nat
      BY <1>4, <2>7
    <3>2. QED
      BY <3>1
  <2>10. Phase2Inv'
    BY <1>6, <2>4, <2>5, <2>8, <2>9 DEF Phase2Inv
  <2>11. QED
    BY <1>1, <2>10 DEF IInv
<1>9. QED
  BY <1>7, <1>8

\* Phase 4 starts, with the transactions that spend a note of ours.
LEMMA StartPhase4Invariant ==
  ASSUME IInv, UNCHANGED chainVars, StartPhase4
  PROVE  IInv'
<1>1. chain' = chain /\ undecodable' = undecodable /\ pc = "phase2" /\ pc' = "phase4"
      /\ emitted' = <<>> /\ results' = results /\ ours' = ours /\ transactions' = transactions
      /\ todo = {} /\ todo' = IF ours = {} THEN {} ELSE Spenders
  BY DEF chainVars, StartPhase4, IInv
<1>2. Phase2Inv
  BY <1>1 DEF IInv
<1>3. Fetched = Matched \ undecodable
  BY <1>1 DEF Fetched
<1>4. ours = Ours
  <2>1. Fetched = {u \in TxidsIn(StartHeight, EndHeight) \ undecodable : Matches(TxOf(u))}
    BY <1>3 DEF Matched, InRange
  <2>2. QED
    BY <1>2, <2>1 DEF Phase2Inv, Ours, NotesKnown
<1>5. Expected = {t \in InRange \ undecodable : t \in Matched \/ SpendsAny(TxOf(t)) \cap Ours # {}}
  BY DEF Expected, ExpectedTxids, InRange, Matched, Ours
<1>6. AlreadyFound = Fetched
  <2>1. \A i \in DOMAIN transactions : transactions[i].txid \in Fetched
    BY <1>2, ListedHeights DEF Phase2Inv
  <2>2. \A t \in Fetched : \E i \in DOMAIN transactions : transactions[i].txid = t
    BY <1>2 DEF Phase2Inv, Listed
  <2>3. QED
    BY <2>1, <2>2 DEF AlreadyFound
<1>7. /\ todo' \subseteq InRange /\ todo' \ undecodable \subseteq Expected
      /\ Expected \ todo' = Fetched
  <2>1. CASE ours = {}
    <3>1. Expected = Fetched
      BY <1>3, <1>4, <1>5, <2>1 DEF Matched
    <3>2. QED
      BY <1>1, <2>1, <3>1
  <2>2. CASE ours # {}
    <3>1. todo' = {t \in InRange : t \notin Fetched /\ SpendsAny(TxOf(t)) \cap Ours # {}}
      BY <1>1, <1>2, <1>4, <1>6, <2>2, AllSpenders DEF Phase2Inv
    <3>2. QED
      BY <1>3, <1>5, <3>1 DEF Matched
  <2>3. QED
    BY <2>1, <2>2
<1>8. Expected' = Expected /\ Ours' = Ours /\ InRange' = InRange
  BY Frozen
<1>9. Listed(transactions, Expected \ todo)'
  BY <1>1, <1>2, <1>7, <1>8, ListedFrozen DEF Phase2Inv
<1>10. Phase4Inv'
  BY <1>1, <1>2, <1>4, <1>7, <1>8, <1>9 DEF Phase2Inv, Phase4Inv
<1>11. QED
  BY <1>1, <1>10 DEF IInv

\* Phase 4 fetches a transaction.
LEMMA FetchSpenderInvariant ==
  ASSUME IInv, UNCHANGED chainVars, NEW t \in todo, FetchSpender(t)
  PROVE  IInv'
<1>1. chain' = chain /\ undecodable' = undecodable /\ pc = "phase4" /\ pc' = "phase4"
      /\ emitted' = <<>> /\ results' = results /\ ours' = ours /\ todo' = todo \ {t}
  BY DEF chainVars, FetchSpender, IInv
<1>2. Phase4Inv
  BY <1>1 DEF IInv
<1>3. Expected' = Expected /\ Ours' = Ours /\ InRange' = InRange
  BY Frozen
<1>4. ours # {} /\ todo' \subseteq InRange /\ todo' \ undecodable \subseteq Expected
  BY <1>1, <1>2 DEF Phase4Inv
<1>5. Expected \cap undecodable = {}
  BY DEF Expected, ExpectedTxids
<1>6. Listed(transactions', Expected \ todo')
  <2>1. CASE t \in undecodable
    <3>1. transactions' = transactions /\ Expected \ todo' = Expected \ todo
      BY <1>1, <1>5, <2>1 DEF FetchSpender
    <3>2. QED
      BY <1>2, <3>1 DEF Phase4Inv
  <2>2. CASE t \notin undecodable
    <3>1. transactions' = Append(transactions, Decrypted(t))
      BY <2>2 DEF FetchSpender
    <3>2. t \notin Expected \ todo /\ Expected \ todo' = (Expected \ todo) \cup {t}
      BY <1>1, <1>2, <2>2 DEF Phase4Inv
    <3>3. QED
      BY <1>2, <3>1, <3>2, ListedAppend DEF Phase4Inv
  <2>3. QED
    BY <2>1, <2>2
<1>7. Listed(transactions, Expected \ todo)'
  BY <1>3, <1>6, ListedFrozen
<1>8. Phase4Inv'
  BY <1>1, <1>2, <1>3, <1>4, <1>7 DEF Phase4Inv
<1>9. QED
  BY <1>1, <1>8 DEF IInv

\* Phase 5 marks what is reported of a transaction.
LEMMA MarksExactly ==
  ASSUME ToSet(results) = StartHeight .. EndHeight, ours = Ours, NEW t
  PROVE  MarkSpent(Decrypted(t)) = Marked(t)
<1>1. \A p \in Pools : SpentNullifiers(p) = SpentOf(p) \cap Ours
  BY AllSpent
<1>2. Decrypted(t).notes = [p \in Pools |-> NotesOf(t, p)]
  BY DEF Decrypted
<1> DEFINE mark(n, S) == IF n.nf \in S THEN [n EXCEPT !.isSpent = TRUE] ELSE n
           a == [p \in Pools |-> {mark(n, SpentNullifiers(p)) : n \in Decrypted(t).notes[p]}]
           b == [p \in Pools |-> {mark(n, SpentOf(p) \cap Ours) : n \in NotesOf(t, p)}]
<1>3. a = b
  BY <1>1, <1>2
<1>4. MarkSpent(Decrypted(t)) = [Decrypted(t) EXCEPT !.notes = a]
  BY DEF MarkSpent
<1>5. Marked(t) = [Decrypted(t) EXCEPT !.notes = b]
  BY DEF Marked
<1> HIDE DEF a, b
<1>6. QED
  BY <1>3, <1>4, <1>5

\* What is marked is the same transaction.
LEMMA MarkedFields ==
  ASSUME NEW t
  PROVE  /\ Marked(t).txid = t /\ Marked(t).height = t[1]
         /\ \A p \in Pools : Marked(t).notes[p] =
              {IF n.nf \in SpentOf(p) \cap Ours THEN [n EXCEPT !.isSpent = TRUE] ELSE n :
                 n \in NotesOf(t, p)}
BY DEF Marked, Decrypted

\* The orders that the sort of Phase 4 may leave.
LEMMA SortedIsPermuted ==
  ASSUME NEW s \in Sorted(transactions), Phase4Inv, todo = {}
  PROVE  /\ DOMAIN transactions = 1 .. Len(transactions) /\ Len(transactions) \in Nat
         /\ DOMAIN s = 1 .. Len(transactions) /\ ByHeight(s)
         /\ \E o : /\ Permutes(o, Len(transactions))
                   /\ \A i \in 1 .. Len(transactions) : s[i] = transactions[o[i]]
<1> DEFINE n == Len(transactions)
<1>1. DOMAIN transactions = 1 .. n /\ n \in Nat
  BY ListedHeights DEF Phase4Inv
<1> HIDE DEF n
<1>2. CASE ours = {}
  <2>1. s = transactions /\ ByHeight(s)
    BY <1>2 DEF Sorted, Phase4Inv
  <2> DEFINE o == [i \in 1 .. n |-> i]
  <2>2. Permutes(o, n) /\ \A i \in 1 .. n : s[i] = transactions[o[i]]
    BY <2>1 DEF Permutes
  <2>3. QED
    BY <1>1, <2>1, <2>2 DEF n
<1>3. CASE ours # {}
  <2>1. PICK o \in SetToSeqs(DOMAIN transactions) :
          /\ s = [i \in DOMAIN o |-> transactions[o[i]]]
          /\ \A i, j \in DOMAIN o : i < j => transactions[o[i]].height <= transactions[o[j]].height
    BY <1>3 DEF Sorted, SortedBy
  <2>2. Permutes(o, n) /\ DOMAIN o = 1 .. n
    <3>1. Permutes(o, n)
      BY <1>1, <2>1, SeqsArePermutations
    <3>2. QED
      BY <3>1 DEF Permutes
  <2>3. DOMAIN s = 1 .. n /\ \A i \in 1 .. n : s[i] = transactions[o[i]]
    BY <2>1, <2>2
  <2>4. ByHeight(s)
    BY <2>1, <2>2, <2>3 DEF ByHeight
  <2>5. QED
    BY <1>1, <2>2, <2>3, <2>4 DEF n
<1>4. QED
  BY <1>2, <1>3

\* The sort, the marks and the callback.
LEMMA FinishInvariant ==
  ASSUME IInv, UNCHANGED chainVars, Finish
  PROVE  IInv'
<1>1. chain' = chain /\ known' = known /\ pc = "phase4" /\ pc' = "ok" /\ todo = {}
      /\ spentKnown' = [p \in Pools |-> SpentNullifiers(p) \cap known]
  BY DEF chainVars, Finish
<1>2. Phase4Inv /\ Listed(transactions, Expected)
  <2>1. Phase4Inv
    BY <1>1 DEF IInv
  <2>2. Expected \ todo = Expected
    BY <1>1
  <2>3. QED
    BY <2>1, <2>2 DEF Phase4Inv
<1>3. PICK s \in Sorted(transactions) : emitted' = [i \in DOMAIN s |-> MarkSpent(s[i])]
  BY DEF Finish
<1> DEFINE n == Len(transactions)
<1>4. DOMAIN transactions = 1 .. n /\ n \in Nat /\ DOMAIN s = 1 .. n /\ ByHeight(s)
  BY <1>1, <1>2, SortedIsPermuted
<1>5. PICK o : Permutes(o, n) /\ \A i \in 1 .. n : s[i] = transactions[o[i]]
  BY <1>1, <1>2, SortedIsPermuted
<1>6. ASSUME NEW i \in DOMAIN transactions
      PROVE  /\ transactions[i].txid \in Expected
             /\ transactions[i] = Decrypted(transactions[i].txid)
             /\ transactions[i].height = transactions[i].txid[1]
  BY <1>2, ListedHeights
<1> DEFINE id == [i \in 1 .. n |-> s[i].txid]
<1>7. \A i \in 1 .. n : o[i] \in DOMAIN transactions
  BY <1>4, <1>5 DEF Permutes
<1>8. id \in [1 .. n -> Expected]
  BY <1>5, <1>6, <1>7
<1>9. \A i, j \in 1 .. n : i # j => id[i] # id[j]
  <2>1. \A i, j \in 1 .. n : i # j => o[i] # o[j]
    BY <1>5 DEF Permutes
  <2>2. \A i, j \in DOMAIN transactions : i # j => transactions[i].txid # transactions[j].txid
    BY <1>2 DEF Listed
  <2>3. QED
    BY <1>5, <1>7, <2>1, <2>2
<1>10. \A t \in Expected : \E i \in 1 .. n : id[i] = t
  <2> SUFFICES ASSUME NEW t \in Expected PROVE \E i \in 1 .. n : id[i] = t
    OBVIOUS
  <2>1. PICK k \in DOMAIN transactions : transactions[k].txid = t
    BY <1>2 DEF Listed
  <2>2. PICK i \in 1 .. n : o[i] = k
    BY <1>4, <1>5 DEF Permutes
  <2>3. QED
    BY <1>5, <2>1, <2>2
<1>11. ASSUME NEW i \in 1 .. n
       PROVE  emitted'[i] = Marked(id[i]) /\ emitted'[i].txid = id[i]
              /\ emitted'[i].height = s[i].height
  <2>1. s[i] = Decrypted(id[i]) /\ s[i].height = id[i][1]
    BY <1>5, <1>6, <1>7
  <2>2. emitted'[i] = MarkSpent(Decrypted(id[i]))
    BY <1>3, <1>4, <2>1
  <2>3. emitted'[i] = Marked(id[i])
    BY <1>2, <2>2, MarksExactly DEF Phase4Inv
  <2>4. QED
    BY <2>1, <2>3, MarkedFields
<1>12. DOMAIN emitted' = 1 .. n
  BY <1>3, <1>4
<1>13. Len(emitted') = n
  <2>1. emitted' = [i \in 1 .. n |-> emitted'[i]]
    BY <1>3, <1>4
  <2>2. Len([i \in 1 .. n |-> emitted'[i]]) = n
    BY <1>4
  <2>3. QED
    BY <2>1, <2>2
<1>14. Cardinality(Expected) = n
  <2> HIDE DEF id, n
  <2>1. n \in Nat
    BY <1>4
  <2>2. QED
    BY <1>8, <1>9, <1>10, <2>1, ListCounts
<1>15. Expected' = Expected /\ (\A t : Marked(t)' = Marked(t)) /\ \A p : SpentOf(p)' = SpentOf(p)
  BY Frozen
<1> HIDE DEF id
<1>16. {emitted'[i].txid : i \in DOMAIN emitted'} = Expected
  BY <1>8, <1>10, <1>11, <1>12
<1>17. ByHeight(emitted')
  BY <1>4, <1>11, <1>12 DEF ByHeight
<1>18. \A p \in Pools : spentKnown'[p] = known \cap SpentOf(p)
  <2>1. \A p \in Pools : SpentNullifiers(p) = SpentOf(p) \cap Ours
    BY <1>2, AllSpent DEF Phase4Inv
  <2>2. known \subseteq Ours
    BY DEF Ours, NotesKnown
  <2>3. QED
    BY <1>1, <2>1, <2>2
<1>19. OkInv'
  <2>1. \A i \in DOMAIN emitted' : emitted'[i] = Marked(emitted[i].txid)'
    <3>1. \A i \in DOMAIN emitted' : emitted'[i] = Marked(emitted'[i].txid)
      BY <1>11, <1>12
    <3>2. QED
      BY <1>15, <3>1
  <2>2. \A i, j \in DOMAIN emitted' : i # j => emitted'[i].txid # emitted'[j].txid
    BY <1>9, <1>11, <1>12
  <2>3. QED
    BY <1>1, <1>12, <1>13, <1>14, <1>15, <1>16, <1>17, <1>18, <2>1, <2>2 DEF OkInv
<1>20. QED
  BY <1>1, <1>19 DEF IInv

\* Nothing else happens.
LEMMA NextInvariant == ASSUME IInv, [Next]_vars PROVE IInv'
<1>1. CASE UNCHANGED vars
  <2>1. UNCHANGED chainVars /\ UNCHANGED scanVars
    BY <1>1 DEF vars
  <2>2. /\ Matched' = Matched /\ Ours' = Ours /\ Expected' = Expected /\ InRange' = InRange
        /\ (\A p : SpentOf(p)' = SpentOf(p)) /\ (\A t : Marked(t)' = Marked(t))
        /\ \A t : ReceivesAny(TxOf(t))' = ReceivesAny(TxOf(t))
    BY <2>1, Frozen
  <2>3. /\ pc' = pc /\ next' = next /\ inflight' = inflight /\ results' = results
        /\ todo' = todo /\ ours' = ours /\ transactions' = transactions /\ emitted' = emitted
        /\ spentKnown' = spentKnown /\ chain' = chain /\ known' = known
        /\ undecodable' = undecodable
    BY <2>1 DEF scanVars, chainVars
  <2>4. StreamInv => StreamInv'
    BY <2>3 DEF StreamInv
  <2>5. Fetched' = Fetched
    BY <2>2, <2>3 DEF Fetched
  <2>6. Phase2Inv => Phase2Inv'
    <3> SUFFICES ASSUME Phase2Inv PROVE Phase2Inv'
      OBVIOUS
    <3>1. Listed(transactions, Fetched)'
      BY <2>1, <2>3, <2>5, ListedFrozen DEF Phase2Inv
    <3>2. ours' = known' \cup UNION {ReceivesAny(TxOf(t))' : t \in Fetched'}
      BY <2>2, <2>3, <2>5 DEF Phase2Inv
    <3>3. QED
      BY <2>2, <2>3, <3>1, <3>2 DEF Phase2Inv
  <2>7. Phase4Inv => Phase4Inv'
    <3> SUFFICES ASSUME Phase4Inv PROVE Phase4Inv'
      OBVIOUS
    <3>1. Listed(transactions, Expected \ todo)'
      BY <2>1, <2>2, <2>3, ListedFrozen DEF Phase4Inv
    <3>2. QED
      BY <2>2, <2>3, <3>1 DEF Phase4Inv
  <2>8. OkInv => OkInv'
    BY <2>2, <2>3 DEF OkInv
  <2>9. QED
    BY <2>3, <2>4, <2>6, <2>7, <2>8 DEF IInv
<1>2. CASE Step /\ UNCHANGED chainVars
  BY <1>2, KeepsInvariant, PullInvariant, BlockDoneInvariant, CollectInvariant,
     FetchMatchedInvariant, StartPhase4Invariant, FetchSpenderInvariant, FinishInvariant DEF Step
<1>3. QED
  BY <1>1, <1>2 DEF Next

\* The inductive invariant holds in every state of a scan.
THEOREM ScanInvariant == Spec => []IInv
<1>1. Init => IInv
  BY InitInvariant
<1>2. IInv /\ [Next]_vars => IInv'
  BY NextInvariant
<1>3. QED
  BY <1>1, <1>2, PTL DEF Spec

-----------------------------------------------------------------------------
(* What the scan promises *)

\* Every transaction of the range that pays us or spends a note of ours is reported,
\* each once and in block order, and nothing before the scan has succeeded.
THEOREM ResultCorrect == Spec => []ResultExact
<1>1. IInv => ResultExact
  BY DEF IInv, OkInv, ResultExact, Expected, ByHeight
<1>2. QED
  BY <1>1, ScanInvariant, PTL

\* A note is reported as spent exactly when its own pool reveals its nullifier in the
\* range, and so are the notes of earlier scans.
THEOREM SpentFlagsCorrect == Spec => []SpentFlagsExact
<1>1. IInv => SpentFlagsExact
  <2> SUFFICES ASSUME IInv PROVE SpentFlagsExact
    OBVIOUS
  <2>1. ASSUME NEW i \in DOMAIN emitted, NEW p \in Pools, NEW n \in emitted[i].notes[p]
        PROVE  n.isSpent <=> n.nf \in SpentOf(p) /\ n.nf \in Ours
    <3> DEFINE t == emitted[i].txid
    <3>1. emitted[i] = Marked(t)
      BY DEF IInv, OkInv
    <3> HIDE DEF t
    <3>2. n \in {IF m.nf \in SpentOf(p) \cap Ours THEN [m EXCEPT !.isSpent = TRUE] ELSE m :
                   m \in NotesOf(t, p)}
      <4>1. n \in Marked(t).notes[p]
        BY <3>1
      <4>2. Marked(t).notes[p] = {IF m.nf \in SpentOf(p) \cap Ours THEN [m EXCEPT !.isSpent = TRUE]
                                   ELSE m : m \in NotesOf(t, p)}
        BY DEF Marked, Decrypted
      <4>3. QED
        BY <4>1, <4>2
    <3>3. PICK m \in NotesOf(t, p) :
            n = IF m.nf \in SpentOf(p) \cap Ours THEN [m EXCEPT !.isSpent = TRUE] ELSE m
      BY <3>2
    <3>4. PICK nf, position : m = [nf |-> nf, position |-> position, isSpent |-> FALSE]
      BY DEF NotesOf
    <3>5. QED
      BY <3>3, <3>4
  <2>2. ASSUME pc = "ok"
        PROVE  UNION {spentKnown[p] : p \in Pools} = known \cap UNION {SpentOf(p) : p \in Pools}
    <3>1. \A p \in Pools : spentKnown[p] = known \cap SpentOf(p)
      BY <2>2 DEF IInv, OkInv
    <3>2. QED
      BY <3>1
  <2>3. QED
    BY <2>1, <2>2 DEF SpentFlagsExact, SpentOf, Ours
<1>2. QED
  BY <1>1, ScanInvariant, PTL

\* The position of a note is its leaf in the commitment tree of its pool.
THEOREM PositionsCorrect == Spec => []PositionsExact
<1>1. IInv => PositionsExact
  <2> SUFFICES ASSUME IInv, NEW i \in DOMAIN emitted, NEW p \in Pools
               PROVE  LET t == emitted[i].txid
                          Leaves == {<<TxOf(t)[p][k].note,
                                       IF chain[t[1]].meta /\ ~TxOf(t)[p][k].paid
                                       THEN LeafIndex(t, p, k) ELSE NoSize>> :
                                       k \in OutputsFound(TxOf(t), p)}
                      IN {<<n.nf, n.position>> : n \in emitted[i].notes[p]} = Leaves
    BY DEF PositionsExact
  <2> DEFINE t == emitted[i].txid
             found == OutputsFound(TxOf(t), p)
             marks == SpentOf(p) \cap Ours
             mark(m) == IF m.nf \in marks THEN [m EXCEPT !.isSpent = TRUE] ELSE m
             note(k) == [nf |-> TxOf(t)[p][k].note,
                         position |-> IF TxOf(t)[p][k].paid THEN NoSize ELSE Position(t, p, k),
                         isSpent |-> FALSE]
             leaf(k) == <<TxOf(t)[p][k].note,
                          IF chain[t[1]].meta /\ ~TxOf(t)[p][k].paid
                          THEN LeafIndex(t, p, k) ELSE NoSize>>
  <2>1. pc = "ok" /\ emitted[i] = Marked(t) /\ t \in Expected
    BY DEF IInv, OkInv
  <2>2. t \in InRange
    BY <2>1 DEF Expected, ExpectedTxids, InRange
  <2>3. emitted[i].notes[p] = {mark(m) : m \in NotesOf(t, p)}
    BY SMTT(20), <2>1, MarkedFields
  <2>4. NotesOf(t, p) = {note(k) : k \in found}
    BY DEF NotesOf
  <2>5. ASSUME NEW k \in found
        PROVE  <<mark(note(k)).nf, mark(note(k)).position>> = leaf(k)
    <3>1. Position(t, p, k) = IF chain[t[1]].meta THEN LeafIndex(t, p, k) ELSE NoSize
      BY <2>2, RangeHeights, PositionExact DEF IInv
    <3>2. mark(note(k)).nf = note(k).nf /\ mark(note(k)).position = note(k).position
      OBVIOUS
    <3>3. QED
      BY <3>1, <3>2
  <2>6. {<<n.nf, n.position>> : n \in emitted[i].notes[p]}
          = {<<mark(note(k)).nf, mark(note(k)).position>> : k \in found}
    <3> HIDE DEF t, found, mark, note
    <3>1. QED
      BY <2>3, <2>4
  <2> HIDE DEF found, mark, note, leaf
  <2>7. {<<mark(note(k)).nf, mark(note(k)).position>> : k \in found} = {leaf(k) : k \in found}
    BY <2>5
  <2>8. QED
    BY <2>6, <2>7 DEF found, leaf
<1>2. QED
  BY <1>1, ScanInvariant, PTL

-----------------------------------------------------------------------------
(* What a session may rely on *)

\* A transaction as SyncSession sees it: without positions, nor the notes that we paid.
Shown(tx) ==
  [txid |-> tx.txid,
   notes |-> [p \in Pools |-> {[nf |-> n.nf, isSpent |-> n.isSpent] :
                                n \in {m \in tx.notes[p] : m.nf # NoNullifier}}]]

\* A scan that succeeds hands over one of the reports that SyncSession takes it to have.
ReportIsOfSession ==
  pc = "ok" =>
    /\ [i \in DOMAIN emitted |-> Shown(emitted[i])] \in ScanReports(StartHeight, EndHeight)
    /\ UNION {spentKnown[p] : p \in Pools} = ScanReportKnown(StartHeight, EndHeight)

\* A transaction of the range is shown as its row.
LEMMA ShownIsRow ==
  ASSUME NEW t
  PROVE  Shown(Marked(t)) = Row(t, StartHeight, EndHeight)
<1> DEFINE marks(p) == SpentOf(p) \cap Ours
           show(n) == [nf |-> n.nf, isSpent |-> n.isSpent]
           row(p, n) == [nf |-> n, isSpent |-> n \in marks(p)]
           shown == [p \in Pools |-> {show(n) : n \in {m \in Marked(t).notes[p] : m.nf # NoNullifier}}]
           rows == [p \in Pools |-> {row(p, n) : n \in Receives(TxOf(t), p)}]
<1>1. ASSUME NEW p \in Pools
      PROVE  {show(n) : n \in {m \in Marked(t).notes[p] : m.nf # NoNullifier}}
               = {row(p, n) : n \in Receives(TxOf(t), p)}
  <2> DEFINE found == OutputsFound(TxOf(t), p)
             of(k) == TxOf(t)[p][k].note
             bare(k) == [nf |-> of(k),
                         position |-> IF TxOf(t)[p][k].paid THEN NoSize ELSE Position(t, p, k),
                         isSpent |-> FALSE]
             mark(m) == IF m.nf \in marks(p) THEN [m EXCEPT !.isSpent = TRUE] ELSE m
             L == {show(n) : n \in {m \in Marked(t).notes[p] : m.nf # NoNullifier}}
             R == {row(p, n) : n \in Receives(TxOf(t), p)}
  <2>1. Marked(t).notes[p] = {mark(bare(k)) : k \in found}
    <3>1. Marked(t).notes[p] = {mark(m) : m \in NotesOf(t, p)}
      BY DEF Marked, Decrypted
    <3>2. NotesOf(t, p) = {bare(k) : k \in found}
      BY DEF NotesOf
    <3> HIDE DEF mark, bare, found
    <3>3. QED
      BY <3>1, <3>2
  <2>2. Receives(TxOf(t), p) = {of(k) : k \in found} \ {NoNullifier}
    BY DEF Receives
  <2>3. ASSUME NEW k \in found
        PROVE  mark(bare(k)).nf = of(k) /\ show(mark(bare(k))) = row(p, of(k))
    <3>1. CASE of(k) \in marks(p)
      <4>1. mark(bare(k)) = [bare(k) EXCEPT !.isSpent = TRUE]
        BY <3>1
      <4>2. mark(bare(k)).nf = of(k) /\ mark(bare(k)).isSpent = TRUE
        BY <4>1
      <4> HIDE DEF mark, bare, of, marks
      <4>3. (of(k) \in marks(p)) = TRUE
        BY <3>1
      <4>4. QED
        BY <4>2, <4>3
    <3>2. CASE of(k) \notin marks(p)
      <4>1. mark(bare(k)) = bare(k)
        BY <3>2
      <4>2. mark(bare(k)).nf = of(k) /\ mark(bare(k)).isSpent = FALSE
        BY <4>1
      <4> HIDE DEF mark, bare, of, marks
      <4>3. (of(k) \in marks(p)) = FALSE
        BY <3>2
      <4>4. QED
        BY <4>2, <4>3
    <3>3. QED
      BY <3>1, <3>2
  <2> HIDE DEF found, of, bare, mark, show, row
  <2>4. L \subseteq R
    <3> SUFFICES ASSUME NEW x \in L PROVE x \in R
      OBVIOUS
    <3>1. PICK k \in found : mark(bare(k)).nf # NoNullifier /\ x = show(mark(bare(k)))
      BY <2>1
    <3>2. QED
      BY <2>2, <2>3, <3>1
  <2>5. R \subseteq L
    <3> SUFFICES ASSUME NEW x \in R PROVE x \in L
      OBVIOUS
    <3>1. PICK k \in found : of(k) # NoNullifier /\ x = row(p, of(k))
      BY <2>2
    <3>2. QED
      BY <2>1, <2>3, <3>1
  <2>6. QED
    BY <2>4, <2>5
<1> HIDE DEF show, row
<1>2. shown = rows
  BY <1>1
<1>3. Shown(Marked(t)) = [txid |-> t, notes |-> shown]
  BY MarkedFields DEF Shown, show
<1>4. Row(t, StartHeight, EndHeight) = [txid |-> t, notes |-> rows]
  BY DEF Row, row, SpentOf, Ours
<1> HIDE DEF shown, rows
<1>5. QED
  BY <1>2, <1>3, <1>4

\* What SyncSession composes run_sync with is what run_sync_inner does, for every chain.
THEOREM SessionMayRely == Spec => []ReportIsOfSession
<1>1. IInv => ReportIsOfSession
  <2> SUFFICES ASSUME IInv, pc = "ok" PROVE ReportIsOfSession
    BY DEF ReportIsOfSession
  <2>1. OkInv
    BY DEF IInv
  <2> DEFINE txids == [i \in DOMAIN emitted |-> emitted[i].txid]
             shown == [i \in DOMAIN emitted |-> Shown(emitted[i])]
  <2>2. txids \in SetToSeqs(Expected)
    <3>1. DOMAIN emitted = 1 .. Cardinality(Expected)
      BY <2>1 DEF OkInv
    <3>2. txids \in [1 .. Cardinality(Expected) -> Expected]
      BY <2>1, <3>1 DEF OkInv
    <3>3. \A i, j \in 1 .. Cardinality(Expected) : i # j => txids[i] # txids[j]
      BY <2>1, <3>1 DEF OkInv
    <3> HIDE DEF txids
    <3>4. QED
      BY <3>2, <3>3 DEF SetToSeqs, IsInjective
  <2>3. \A i, j \in DOMAIN txids : i < j => txids[i][1] <= txids[j][1]
    <3>1. \A i \in DOMAIN emitted : emitted[i].height = txids[i][1]
      BY <2>1, MarkedFields DEF OkInv
    <3>2. QED
      BY <2>1, <3>1 DEF OkInv, ByHeight
  <2>4. shown = [i \in DOMAIN txids |-> Row(txids[i], StartHeight, EndHeight)]
    <3>1. \A i \in DOMAIN emitted : Shown(emitted[i]) = Row(txids[i], StartHeight, EndHeight)
      BY <2>1, ShownIsRow DEF OkInv
    <3>2. QED
      BY <3>1
  <2>5. shown \in ScanReports(StartHeight, EndHeight)
    <3> HIDE DEF txids
    <3>1. txids \in Orders(ExpectedTxids(StartHeight, EndHeight))
      BY <2>2, <2>3 DEF Orders, Expected
    <3>2. QED
      BY <2>4, <3>1 DEF ScanReports
  <2>6. UNION {spentKnown[p] : p \in Pools} = ScanReportKnown(StartHeight, EndHeight)
    BY <2>1 DEF OkInv, ScanReportKnown, SpentOf
  <2>7. QED
    BY <2>5, <2>6 DEF ReportIsOfSession
<1>2. QED
  BY <1>1, ScanInvariant, PTL
=============================================================================
