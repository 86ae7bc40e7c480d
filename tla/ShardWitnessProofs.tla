------------------------- MODULE ShardWitnessProofs -------------------------
(***************************************************************************)
(* Proofs about ShardWitness, for every chain, every shard size and every   *)
(* request: the leaves fetched for a shard are exactly its leaves, up to    *)
(* the anchor, and a request fails only for a reason of its own.            *)
(***************************************************************************)
EXTENDS ShardWitness, SequenceTheorems, FoldLemmas

USE WitnessAssumption

Reading == {"shard", "search", "offset", "blocks"}

\* The types, and an anchor that is a block from its choice on.
Types ==
  /\ size \in Sizes /\ tip \in 1 .. MaxHeight /\ req \in Requests
  /\ pc \in {"anchor", "tree", "roots", "ok", "err"} \cup Reading
  /\ pc \in {"tree", "roots"} \cup Reading => anchor \in Nat \ {0}

\* What the tree state said: the anchor is on the chain, and the notes in its tree.
AnchorInv ==
  pc \in {"roots"} \cup Reading =>
    /\ anchor \in 1 .. tip /\ total = size[anchor] /\ total > 0
    /\ \A p \in Positions(notes) : p < total

\* What the subtree roots said: each completed shard ends in its block, and the tree
\* of the anchor in the first shard that is not listed, or before.
RootsInv ==
  pc \in Reading =>
    /\ roots \in Seq(1 .. MaxHeight)
    /\ \A i \in 1 .. Len(roots) :
         size[roots[i] - 1] < i * ShardSize /\ i * ShardSize <= size[roots[i]]
    /\ total < (Len(roots) + 1) * ShardSize

\* Shards of notes are still needed or have been fetched.
NeededInv ==
  pc \in Reading =>
    /\ needed \subseteq {ShardOf(p) : p \in Positions(notes)}
    /\ \A p \in Positions(notes) :
         ShardOf(p) \in needed \/ \E i \in DOMAIN fetched : fetched[i].shard = ShardOf(p)

\* The search keeps the first leaf of the tree between its two ends.
SearchInv ==
  pc = "search" => /\ needed # {} /\ Shard = 0
                   /\ low \in 1 .. high /\ high \in 1 .. EndHeight
                   /\ size[low - 1] = 0 /\ size[high] > 0

\* The scan of a shard starts no later than its first leaf, and not after its end.
ScanInv ==
  pc \in {"offset", "blocks"} =>
    /\ needed # {} /\ start \in 1 .. EndHeight /\ size[start - 1] <= ShardStart(Shard)
    /\ pc = "blocks" => base = size[start - 1]

\* Shards are pushed only while reading, and are as they should be.
FetchedInv ==
  /\ pc \in {"anchor", "tree", "roots"} => fetched = <<>>
  /\ fetched \in Seq([shard : Nat, cmxs : Seq(Nat)])
  /\ LeavesAligned /\ LeavesComplete

FailureInv == NoSpuriousFailure /\ (pc # "err" => why = "none")

\* The inductive invariant.
IInv ==
  /\ Types /\ AnchorInv /\ RootsInv /\ NeededInv /\ SearchInv /\ ScanInv
  /\ FetchedInv /\ FailureInv

-----------------------------------------------------------------------------
(* The chain and its shards *)

\* The tree of a chain only grows.
LEMMA SizesGrow ==
  ASSUME size \in Sizes
  PROVE  /\ size[0] = 0
         /\ \A h \in 0 .. MaxHeight : size[h] \in Nat
         /\ \A h \in 0 .. MaxHeight : \A g \in 0 .. h : size[g] <= size[h]
<1>1. size \in [0 .. MaxHeight -> Nat] /\ size[0] = 0
      /\ \A h \in 1 .. MaxHeight : size[h - 1] <= size[h]
  OBVIOUS
<1> DEFINE T == {h \in Nat : h <= MaxHeight => \A g \in 0 .. h : size[g] <= size[h]}
<1>2. 0 \in T
  BY <1>1
<1>3. ASSUME NEW h \in Nat, h \in T PROVE h + 1 \in T
  <2> SUFFICES ASSUME h + 1 <= MaxHeight, NEW g \in 0 .. h + 1 PROVE size[g] <= size[h + 1]
    OBVIOUS
  <2>1. size[(h + 1) - 1] <= size[h + 1] /\ (h + 1) - 1 = h
    BY <1>1
  <2>2. size[h] \in Nat /\ size[h + 1] \in Nat /\ size[g] \in Nat
    BY <1>1
  <2>3. CASE g = h + 1
    BY <2>2, <2>3
  <2>4. CASE g # h + 1
    <3>1. g \in 0 .. h /\ h <= MaxHeight
      BY <2>4
    <3>2. size[g] <= size[h]
      BY <1>3, <3>1
    <3>3. QED
      BY <2>1, <2>2, <3>2
  <2>5. QED
    BY <2>3, <2>4
<1>4. Nat \subseteq T
  <2> HIDE DEF T
  <2>1. QED
    BY <1>2, <1>3, SetInduction
<1>5. QED
  BY <1>1, <1>4

\* The multiples of the shard size, in order.
LEMMA Multiples ==
  ASSUME NEW a \in Nat, NEW b \in Nat
  PROVE  /\ a * ShardSize \in Nat /\ (a + 1) * ShardSize = a * ShardSize + ShardSize
         /\ a <= b => a * ShardSize <= b * ShardSize
         /\ a * ShardSize < b * ShardSize => a < b
<1>1. a * ShardSize \in Nat /\ b * ShardSize \in Nat /\ (a + 1) * ShardSize = a * ShardSize + ShardSize
  OBVIOUS
<1>2. ASSUME NEW c \in Nat, NEW d \in Nat, c <= d PROVE c * ShardSize <= d * ShardSize
  <2>1. PICK e \in Nat : d = c + e
    <3>1. d - c \in Nat /\ d = c + (d - c)
      BY <1>2
    <3>2. QED
      BY <3>1
  <2>2. e * ShardSize \in Nat /\ c * ShardSize \in Nat
        /\ d * ShardSize = c * ShardSize + e * ShardSize
    BY <2>1
  <2>3. QED
    BY <2>2
<1>3. ~(a < b) => b <= a
  OBVIOUS
<1>4. QED
  BY <1>1, <1>2, <1>3

\* A position lies in its shard.
LEMMA ShardBounds ==
  ASSUME NEW p \in Nat
  PROVE  /\ ShardOf(p) \in Nat /\ ShardStart(ShardOf(p)) \in Nat
         /\ ShardStart(ShardOf(p)) <= p /\ p < ShardStart(ShardOf(p)) + ShardSize
<1> DEFINE q == p \div ShardSize
<1>1. q \in Nat /\ q * ShardSize <= p /\ p < (q + 1) * ShardSize
  OBVIOUS
<1> HIDE DEF q
<1>2. q * ShardSize \in Nat /\ (q + 1) * ShardSize = q * ShardSize + ShardSize
  BY <1>1, Multiples
<1>3. ShardOf(p) = q /\ ShardStart(q) = q * ShardSize
  BY DEF ShardOf, ShardStart, q
<1>4. QED
  BY <1>1, <1>2, <1>3

\* A size that the chain reaches is reached in one block.
LEMMA FirstCrossing ==
  ASSUME size \in Sizes, NEW t \in 1 .. MaxHeight, NEW n \in Nat \ {0}, n <= size[t]
  PROVE  \E h \in 1 .. MaxHeight : size[h] >= n /\ size[h - 1] < n
<1> SUFFICES ASSUME \A h \in 1 .. MaxHeight : size[h] >= n => ~(size[h - 1] < n)
             PROVE  FALSE
  OBVIOUS
<1> DEFINE T == {h \in Nat : h <= MaxHeight => size[h] < n}
<1>1. 0 \in T
  BY SizesGrow
<1>2. ASSUME NEW h \in Nat, h \in T PROVE h + 1 \in T
  <2> SUFFICES ASSUME h + 1 <= MaxHeight PROVE size[h + 1] < n
    OBVIOUS
  <2>1. h + 1 \in 1 .. MaxHeight /\ (h + 1) - 1 = h /\ size[h] < n
    BY <1>2
  <2>2. size[h + 1] \in Nat
    BY <2>1, SizesGrow
  <2>3. QED
    BY SMTT(20), <2>1, <2>2
<1>3. Nat \subseteq T
  <2> HIDE DEF T
  <2>1. QED
    BY <1>1, <1>2, SetInduction
<1>4. size[t] \in Nat
  BY SizesGrow
<1>5. QED
  BY <1>3, <1>4

\* The server's completed shards are those whose last leaf the chain has, and each
\* was completed by a block.
LEMMA CompletedShards ==
  ASSUME size \in Sizes, tip \in 1 .. MaxHeight
  PROVE  /\ Completed \in Nat /\ size[tip] < (Completed + 1) * ShardSize
         /\ \A i \in 1 .. Completed :
              /\ CompletingHeight(i - 1) \in 1 .. MaxHeight
              /\ size[CompletingHeight(i - 1) - 1] < i * ShardSize
              /\ i * ShardSize <= size[CompletingHeight(i - 1)]
<1>0. size[tip] \in Nat
  BY SizesGrow
<1>1. Completed \in Nat /\ Completed * ShardSize <= size[tip]
      /\ size[tip] < (Completed + 1) * ShardSize
  <2>1. \A a \in Nat : /\ a \div ShardSize \in Nat /\ (a \div ShardSize) * ShardSize <= a
                       /\ a < (a \div ShardSize + 1) * ShardSize
    BY SMTT(20)
  <2>2. QED
    BY <1>0, <2>1 DEF Completed
<1>2. ASSUME NEW i \in 1 .. Completed
      PROVE  /\ CompletingHeight(i - 1) \in 1 .. MaxHeight
             /\ size[CompletingHeight(i - 1) - 1] < i * ShardSize
             /\ i * ShardSize <= size[CompletingHeight(i - 1)]
  <2> DEFINE n == i * ShardSize
  <2>1. n \in Nat \ {0}
    OBVIOUS
  <2>2. n <= size[tip]
    <3>1. i \in Nat /\ Completed \in Nat /\ i <= Completed
      BY <1>1
    <3>2. i * ShardSize <= Completed * ShardSize /\ Completed * ShardSize \in Nat
      BY <3>1, Multiples, Zenon
    <3> DEFINE m == Completed * ShardSize
    <3>3. n \in Nat /\ m \in Nat /\ n <= m /\ m <= size[tip]
      BY <1>1, <2>1, <3>2
    <3> HIDE DEF n, m
    <3>4. QED
      BY <1>0, <3>3
  <2>3. (i - 1) + 1 = i
    OBVIOUS
  <2> HIDE DEF n
  <2>4. \E h \in 1 .. MaxHeight : size[h] >= n /\ size[h - 1] < n
    BY <2>1, <2>2, FirstCrossing
  <2>5. CompletingHeight(i - 1) = CHOOSE h \in 1 .. MaxHeight : size[h] >= n /\ size[h - 1] < n
    BY <2>3 DEF CompletingHeight, n
  <2>6. /\ CompletingHeight(i - 1) \in 1 .. MaxHeight
        /\ size[CompletingHeight(i - 1)] >= n /\ size[CompletingHeight(i - 1) - 1] < n
    BY <2>4, <2>5
  <2>7. size[CompletingHeight(i - 1)] \in Nat
    BY <2>6, SizesGrow
  <2>8. QED
    BY <2>1, <2>6, <2>7 DEF n
<1>3. QED
  BY <1>1, <1>2

\* The leaves lo .. hi - 1 are hi - lo leaves.
LEMMA LeavesInOrder ==
  ASSUME NEW lo \in Nat, NEW hi \in Nat, lo <= hi
  PROVE  /\ Leaves(lo, hi) \in Seq(Nat) /\ Len(Leaves(lo, hi)) = hi - lo
         /\ \A i \in 1 .. hi - lo : Leaves(lo, hi)[i] = lo + i - 1
<1>1. (IF lo < hi THEN hi - lo ELSE 0) = hi - lo /\ hi - lo \in Nat
  OBVIOUS
<1>2. Leaves(lo, hi) = [i \in 1 .. hi - lo |-> lo + i - 1]
  BY <1>1 DEF Leaves
<1>3. Leaves(lo, hi) \in [1 .. hi - lo -> Nat]
  BY <1>2
<1>4. Leaves(lo, hi) \in Seq(Nat)
  BY <1>1, <1>3, SeqDef
<1>5. Len(Leaves(lo, hi)) = hi - lo
  BY <1>1, <1>3, <1>4, LenProperties
<1>6. QED
  BY <1>2, <1>4, <1>5

\* The notes of a request have positions and commitments.
LEMMA NoteTypes ==
  ASSUME req \in Requests
  PROVE  /\ Positions(notes) \subseteq Nat
         /\ \A i \in DOMAIN notes : notes[i].position \in Positions(notes)
         /\ \A i \in DOMAIN notes : notes[i].cmx \in Nat
<1>1. notes \in Seq(NoteRef)
  BY DEF notes, WitnessRequest
<1>2. \A i \in DOMAIN notes : notes[i] \in NoteRef
  BY <1>1
<1>3. QED
  BY <1>2 DEF Positions, NoteRef

-----------------------------------------------------------------------------
(* The shard in hand *)

\* The shard in hand is the first of those still needed.
LEMMA ShardIsLeast ==
  ASSUME needed \subseteq Nat, needed # {}
  PROVE  Shard \in needed
<1>1. PICK m \in needed : \A k \in needed : <<k, m>> \notin OpToRel(<, Nat)
  BY NatLessThanWellFounded, WFMin
<1>2. \A k \in needed : ~(k < m)
  BY <1>1 DEF OpToRel
<1>3. \A k \in needed : m <= k
  BY <1>2
<1>4. QED
  BY <1>3 DEF Shard

\* A needed shard holds a leaf of the anchor's tree, so that the server listed it or
\* it is the frontier; its leaves are there where the scan ends, and a block that
\* the tree enters without any of them is not beyond that end.
LEMMA ShardInReach ==
  ASSUME Types, AnchorInv, RootsInv, NeededInv, pc \in Reading, needed # {}
  PROVE  /\ Shard \in needed /\ Shard \in Nat /\ Shard <= FrontierShard
         /\ ShardStart(Shard) \in Nat /\ ShardStart(Shard) < total
         /\ ShardEnd(Shard) \in Nat /\ ShardStart(Shard) < ShardEnd(Shard)
         /\ ShardEnd(Shard) \in {ShardStart(Shard) + ShardSize, total}
         /\ EndHeight \in 1 .. MaxHeight /\ ShardEnd(Shard) <= size[EndHeight]
         /\ \A h \in 1 .. MaxHeight : size[h - 1] <= ShardStart(Shard) => h <= EndHeight
<1>1. /\ size \in Sizes /\ anchor \in 1 .. tip /\ tip \in 1 .. MaxHeight
      /\ total = size[anchor] /\ \A p \in Positions(notes) : p < total
  BY DEF Types, AnchorInv
<1>2. anchor \in 1 .. MaxHeight /\ total \in Nat
  BY <1>1, SizesGrow
<1>3. Positions(notes) \subseteq Nat
  BY NoteTypes DEF Types
<1>4. needed \subseteq Nat
  BY <1>3, ShardBounds DEF NeededInv
<1>5. Shard \in needed
  BY <1>4, ShardIsLeast
<1>6. PICK p \in Positions(notes) : Shard = ShardOf(p)
  BY <1>5 DEF NeededInv
<1> DEFINE s == Shard  a == s * ShardSize  b == (s + 1) * ShardSize
<1>7. s \in Nat /\ a \in Nat /\ b \in Nat /\ b = a + ShardSize /\ ShardStart(s) = a /\ a < total
  <2>1. p \in Nat /\ p < total
    BY <1>1, <1>3
  <2>2. s \in Nat /\ ShardStart(s) \in Nat /\ ShardStart(s) <= p
    BY <1>6, <2>1, ShardBounds
  <2>3. ShardStart(s) = a
    BY DEF ShardStart
  <2>4. b = a + ShardSize
    BY <2>2, Multiples
  <2> HIDE DEF a, b
  <2>5. QED
    BY <1>2, <2>1, <2>2, <2>3, <2>4
<1>8. roots \in Seq(1 .. MaxHeight) /\ FrontierShard = Len(roots) /\ Len(roots) \in Nat
  BY DEF RootsInv, FrontierShard
<1>9. s <= Len(roots)
  <2> DEFINE c == (Len(roots) + 1) * ShardSize
  <2>1. total < c /\ c \in Nat
    <3>1. Len(roots) + 1 \in Nat
      BY <1>8
    <3>2. QED
      BY <3>1, Multiples DEF RootsInv
  <2>2. a < c
    <3> HIDE DEF a, c, s
    <3>1. QED
      BY <1>2, <1>7, <2>1
  <2>3. s < Len(roots) + 1
    BY <1>7, <1>8, <2>2, Multiples
  <2>4. QED
    BY <1>7, <1>8, <2>3
<1>10. /\ EndHeight \in 1 .. MaxHeight /\ ShardEnd(s) <= size[EndHeight]
       /\ ShardEnd(s) \in {b, total}
  <2>1. CASE s < Len(roots)
    <3>1. EndHeight = roots[s + 1] /\ ShardEnd(s) = b
      BY <1>8, <2>1 DEF EndHeight, ShardEnd
    <3>2. s + 1 \in 1 .. Len(roots)
      BY <1>7, <1>8, <2>1
    <3>3. roots[s + 1] \in 1 .. MaxHeight /\ b <= size[roots[s + 1]]
      BY <1>8, <3>2 DEF RootsInv
    <3>4. QED
      BY <3>1, <3>3
  <2>2. CASE ~(s < Len(roots))
    <3>1. EndHeight = anchor /\ ShardEnd(s) = total
      BY <1>8, <2>2 DEF EndHeight, ShardEnd
    <3>2. QED
      BY <1>1, <1>2, <3>1
  <2>3. QED
    BY <2>1, <2>2
<1> HIDE DEF s, a, b
<1>11. ShardEnd(s) \in Nat /\ a < ShardEnd(s)
  BY <1>2, <1>7, <1>10
<1>12. ASSUME NEW h \in 1 .. MaxHeight, size[h - 1] <= a PROVE h <= EndHeight
  <2>1. SUFFICES ASSUME EndHeight <= h - 1 PROVE FALSE
    BY <1>10
  <2>2. h - 1 \in 0 .. MaxHeight /\ EndHeight \in 0 .. h - 1
    BY <1>10, <2>1
  <2>3. size[EndHeight] <= size[h - 1] /\ size[h - 1] \in Nat /\ size[EndHeight] \in Nat
    BY SMTT(20), <1>1, <1>10, <2>2, SizesGrow
  <2>4. QED
    BY <1>7, <1>10, <1>11, <1>12, <2>3
<1>13. QED
  BY <1>5, <1>7, <1>8, <1>9, <1>10, <1>11, <1>12 DEF s

\* What is cut out of the blocks is the shard.
LEMMA SliceExact ==
  ASSUME IInv, pc = "blocks"
  PROVE  LET raw == Collected(start, EndHeight) IN
         /\ BoundsOk(Shard, raw)
         /\ Slice(Shard, raw) \in Seq(Nat)
         /\ Len(Slice(Shard, raw)) = ShardEnd(Shard) - ShardStart(Shard)
         /\ \A k \in DOMAIN Slice(Shard, raw) :
              Slice(Shard, raw)[k] = ShardStart(Shard) + k - 1
<1> DEFINE raw == Collected(start, EndHeight)
           lo == ShardStart(Shard)  hi == ShardEnd(Shard)
           from == size[start - 1]  to == size[EndHeight]
<1>1. /\ lo \in Nat /\ hi \in Nat /\ lo < hi /\ hi <= to /\ EndHeight \in 1 .. MaxHeight
  BY ShardInReach DEF IInv, ScanInv, Reading
<1>2. base = from /\ from <= lo /\ start \in 1 .. EndHeight
  BY DEF IInv, ScanInv
<1>3. from \in Nat /\ to \in Nat /\ from <= to
  <2>1. start - 1 \in 0 .. EndHeight /\ EndHeight \in 0 .. MaxHeight /\ start - 1 \in 0 .. MaxHeight
    BY <1>1, <1>2
  <2>2. size \in Sizes
    BY DEF IInv, Types
  <2>3. QED
    BY <2>1, <2>2, SizesGrow
<1>4. raw = Leaves(from, to)
  BY DEF Collected
<1> HIDE DEF from, to, raw
<1>5. /\ raw \in Seq(Nat) /\ Len(raw) = to - from
      /\ \A i \in 1 .. to - from : raw[i] = from + i - 1
  BY <1>3, <1>4, LeavesInOrder
<1>6. BoundsOk(Shard, raw)
  BY <1>1, <1>2, <1>3, <1>5 DEF BoundsOk
<1> DEFINE m == lo - from + 1  n == hi - from  cut == SubSeq(raw, m, n)
<1>7. Slice(Shard, raw) = cut
  BY <1>2 DEF Slice
<1> HIDE DEF lo, hi
<1>8. m \in Int /\ n \in Int /\ m <= n /\ n - m + 1 = hi - lo
      /\ \A i \in m .. n : i \in 1 .. to - from
  BY <1>1, <1>2, <1>3
<1>9. \A i \in m .. n : raw[i] \in Nat
  BY SMTT(20), <1>3, <1>5, <1>8
<1> HIDE DEF m, n
<1>10. /\ cut \in Seq(Nat) /\ Len(cut) = n - m + 1
       /\ \A i \in 1 .. n - m + 1 : cut[i] = raw[m + i - 1]
  BY <1>8, <1>9, SubSeqProperties
<1>11. DOMAIN cut = 1 .. n - m + 1
  BY <1>10
<1> HIDE DEF cut
<1>12. ASSUME NEW k \in DOMAIN cut PROVE cut[k] = lo + k - 1
  <2>1. k \in 1 .. n - m + 1 /\ m + k - 1 \in m .. n
    BY <1>8, <1>11
  <2>2. cut[k] = from + (m + k - 1) - 1
    BY <1>5, <1>8, <1>10, <2>1
  <2>3. from + (m + k - 1) - 1 = lo + k - 1
    BY <1>1, <1>3, <2>1 DEF m
  <2>4. QED
    BY <2>2, <2>3
<1>13. QED
  BY <1>6, <1>7, <1>8, <1>10, <1>12 DEF raw, lo, hi

\* What has been fetched is a sequence of shards with their leaves.
LEMMA FetchedTypes ==
  ASSUME FetchedInv
  PROVE  /\ Len(fetched) \in Nat /\ DOMAIN fetched = 1 .. Len(fetched)
         /\ \A x \in DOMAIN fetched : fetched[x].shard \in Nat /\ fetched[x].cmxs \in Seq(Nat)
<1> DEFINE R == [shard : Nat, cmxs : Seq(Nat)]
<1>1. \A r \in R : r.shard \in Nat /\ r.cmxs \in Seq(Nat)
  OBVIOUS
<1>2. fetched \in Seq(R)
  BY DEF FetchedInv
<1> HIDE DEF R
<1>3. \A x \in DOMAIN fetched : fetched[x] \in R
  BY <1>2
<1>4. QED
  BY <1>1, <1>2, <1>3

\* With all shards fetched, every path leads to the anchor, unless a note is not
\* the leaf it claims to be.
LEMMA PathsLead ==
  ASSUME IInv, pc = "shard", needed = {},
         \A i \in DOMAIN notes : notes[i].cmx = notes[i].position
  PROVE  \A i \in DOMAIN notes : LeadsToAnchor(notes[i])
<1> SUFFICES ASSUME NEW j \in DOMAIN notes, NEW p \in DOMAIN PathLeaves(notes[j])
             PROVE  PathLeaves(notes[j])[p] = p
  BY DEF LeadsToAnchor
<1> DEFINE n == notes[j]  s == ShardOf(n.position)  first == ShardStart(s)
           end == MinOf(first + ShardSize, total)
<1>1. n.position \in Positions(notes) /\ n.position \in Nat
  BY NoteTypes DEF IInv, Types
<1>2. s \in Nat /\ first \in Nat
  BY <1>1, ShardBounds
<1>3. total \in Nat
  <2>1. anchor \in 0 .. MaxHeight /\ total = size[anchor] /\ size \in Sizes
    BY DEF IInv, Types, AnchorInv, Reading
  <2>2. QED
    BY <2>1, SizesGrow
<1>4. PathLeaves(n) = [q \in first .. end - 1 |->
                         IF q = n.position THEN n.cmx ELSE InsertedLeaf(s, q)]
  BY DEF PathLeaves
<1>5. p \in first .. end - 1
  BY <1>4
<1>6. CASE p = n.position
  BY <1>4, <1>5, <1>6
<1>7. CASE p # n.position
  <2>1. PICK i \in DOMAIN fetched : fetched[i].shard = s
    BY <1>1 DEF IInv, NeededInv, Reading
  <2> DEFINE k == p - first + 1
             At == {x \in DOMAIN fetched : fetched[x].shard = s /\ k \in DOMAIN fetched[x].cmxs}
  <2>2. \A x \in DOMAIN fetched : fetched[x].cmxs \in Seq(Nat)
    BY FetchedTypes DEF IInv
  <2>3. end \in Nat
    BY <1>2, <1>3 DEF MinOf
  <2>4. first + Len(fetched[i].cmxs) >= end
    BY <2>1 DEF IInv, FetchedInv, LeavesComplete
  <2> HIDE DEF end, first, s
  <2>5. k \in 1 .. Len(fetched[i].cmxs)
    BY <1>2, <1>5, <2>2, <2>3, <2>4
  <2>6. i \in At
    BY <2>1, <2>2, <2>5
  <2> DEFINE c == CHOOSE x \in At : TRUE
  <2>7. c \in At
    BY <2>6
  <2>8. InsertedLeaf(s, p) = fetched[c].cmxs[k]
    BY <2>6 DEF InsertedLeaf, first
  <2> HIDE DEF c
  <2>9. fetched[c].cmxs[k] = first + k - 1
    BY <2>7 DEF IInv, FetchedInv, LeavesAligned, first
  <2>10. first + k - 1 = p
    BY <1>2, <1>5, <2>3
  <2>11. QED
    BY <1>4, <1>5, <1>7, <2>8, <2>9, <2>10
<1>8. QED
  BY <1>6, <1>7

-----------------------------------------------------------------------------
(* The steps *)

\* The invariant holds before the first request.
LEMMA InitIInv == Init => IInv
<1> SUFFICES ASSUME Init PROVE IInv
  OBVIOUS
<1>1. /\ size \in Sizes /\ tip \in 1 .. MaxHeight /\ req \in Requests /\ fetched = <<>>
      /\ pc \in {"anchor", "err"} /\ why \in {"none", "request"}
      /\ pc # "err" => why = "none"
  BY DEF Init
<1>2. FetchedInv
  BY <1>1, EmptySeq DEF FetchedInv, LeavesAligned, LeavesComplete
<1>3. /\ pc \notin {"tree", "roots"} \cup Reading /\ pc \notin {"roots"} \cup Reading
      /\ pc \notin Reading /\ pc # "search" /\ pc \notin {"offset", "blocks"}
      /\ pc \in {"anchor", "tree", "roots", "ok", "err"} \cup Reading
  BY <1>1 DEF Reading
<1>4. Types
  BY <1>1, <1>3 DEF Types
<1>5. FailureInv
  BY <1>1 DEF FailureInv, NoSpuriousFailure
<1>6. AnchorInv /\ RootsInv /\ NeededInv /\ SearchInv /\ ScanInv
  BY <1>3 DEF AnchorInv, RootsInv, NeededInv, SearchInv, ScanInv
<1>7. QED
  BY <1>2, <1>4, <1>5, <1>6 DEF IInv

\* A step that pushes no shard keeps those there are.
LEMMA FetchedKept ==
  ASSUME FetchedInv, fetched' = fetched, total' = total \/ fetched = <<>>,
         pc' \in {"anchor", "tree", "roots"} => pc \in {"anchor", "tree", "roots"}
  PROVE  FetchedInv'
<1>1. CASE total' = total
  BY <1>1 DEF FetchedInv, LeavesAligned, LeavesComplete
<1>2. CASE fetched = <<>>
  BY <1>2 DEF FetchedInv, LeavesAligned, LeavesComplete
<1>3. QED
  BY <1>1, <1>2

\* A step that ends the request keeps the invariant, if it has a good reason.
LEMMA EndStep ==
  ASSUME IInv, UNCHANGED <<size, req, tip, fetched>>, total' = total \/ fetched = <<>>,
         pc' \in {"ok", "err"}, NoSpuriousFailure', pc' # "err" => why' = "none"
  PROVE  IInv'
<1>1. FetchedInv'
  BY FetchedKept DEF IInv
<1>2. QED
  BY <1>1 DEF IInv, Types, AnchorInv, RootsInv, NeededInv, SearchInv, ScanInv, FailureInv, Reading

\* A failure for a reason that is the server's or the request's is a good one.
LEMMA PlainFailure ==
  ASSUME why' \notin {"shards", "search", "bounds", "mismatch"}
  PROVE  NoSpuriousFailure'
BY DEF NoSpuriousFailure

\* The tree state at the anchor gives the size of its tree.
LEMMA LeafCountExact ==
  ASSUME size \in Sizes, NEW h \in 0 .. MaxHeight
  PROVE  LeafCount(Frontier(h)) = size[h] /\ size[h] \in Nat
<1>1. size[h] \in Nat
  BY SizesGrow
<1> DEFINE n == size[h]
<1>2. CASE n = 0
  BY <1>1, <1>2 DEF LeafCount, Frontier
<1>3. CASE n # 0
  <2>1. n - 1 \in 0 .. n - 1 /\ \A q \in 0 .. n - 1 : q <= n - 1
    BY <1>1, <1>3
  <2> DEFINE m == CHOOSE x \in 0 .. n - 1 : \A q \in 0 .. n - 1 : q <= x
  <2>2. m \in 0 .. n - 1 /\ \A q \in 0 .. n - 1 : q <= m
    BY <2>1
  <2>3. LeafCount(Frontier(h)) = 1 + m
    <3> DEFINE F == Frontier(h)
    <3>1. F = 0 .. n - 1 /\ F # {}
      BY <2>1 DEF Frontier
    <3>2. LeafCount(F) = 1 + CHOOSE x \in F : \A q \in F : q <= x
      <4> HIDE DEF F
      <4>1. QED
        BY <3>1 DEF LeafCount
    <3>3. QED
      BY <3>1, <3>2
  <2> HIDE DEF m, n
  <2>4. 1 + m = n
    <3>1. n - 1 <= m /\ n \in Nat
      BY <1>1, <2>1, <2>2 DEF n
    <3>2. QED
      BY <2>2, <3>1
  <2>5. QED
    BY <1>1, <2>3, <2>4 DEF n
<1>4. QED
  BY <1>1, <1>2, <1>3

\* Each answer of the server keeps the invariant.
LEMMA NextAnchor ==
  ASSUME IInv, ResolveAnchor \/ FetchTreeState \/ FetchAnchor
  PROVE  IInv'
<1>1. CASE ResolveAnchor
  <2>1. req \in WitnessRequest /\ req.anchorHeight \in Nat /\ req.depth \in Nat /\ tip \in Nat
    BY DEF IInv, Types, WitnessRequest
  <2>2. anchor' \in Nat \ {0}
    BY <1>1, <2>1 DEF ResolveAnchor, AnchorFromTip, Unset
  <2>3. FetchedInv'
    BY <1>1, FetchedKept DEF ResolveAnchor, IInv
  <2>4. QED
    BY <1>1, <2>2, <2>3 DEF ResolveAnchor, inputVars, IInv, Types, AnchorInv, RootsInv, NeededInv,
       SearchInv, ScanInv, FailureInv, NoSpuriousFailure, Reading, notes
<1>2. CASE FetchTreeState
  <2>1. fetched = <<>> /\ anchor \in Nat \ {0} /\ size \in Sizes /\ tip \in 1 .. MaxHeight
    BY <1>2 DEF FetchTreeState, IInv, Types, FetchedInv
  <2>2. CASE pc' = "err"
    <3>1. why' \in {"rpc", "request"} /\ UNCHANGED <<size, req, tip, fetched>>
      BY <1>2, <2>2 DEF FetchTreeState, Reject, chainVars, inputVars
    <3>2. QED
      BY <2>1, <2>2, <3>1, EndStep, PlainFailure
  <2>3. CASE pc' # "err"
    <3>1. /\ anchor \in 1 .. tip /\ total' = LeafCount(Frontier(anchor)) /\ total' # 0
          /\ ~(\E p \in Positions(notes) : p >= total')
          /\ pc' = "roots" /\ why' = why /\ pc = "tree"
          /\ UNCHANGED <<size, req, anchor, tip, fetched>>
      BY <1>2, <2>1, <2>3 DEF FetchTreeState, Reject, chainVars, inputVars
    <3>2. anchor \in 0 .. MaxHeight
      BY <2>1, <3>1
    <3>3. total' = size[anchor] /\ total' \in Nat
      BY <2>1, <3>1, <3>2, LeafCountExact
    <3>4. Positions(notes) \subseteq Nat
      BY NoteTypes DEF IInv, Types
    <3>5. \A p \in Positions(notes) : p < total'
      BY <3>1, <3>3, <3>4
    <3>6. FetchedInv'
      BY <2>1, <3>1, FetchedKept DEF IInv
    <3>7. AnchorInv'
      BY <3>1, <3>3, <3>5 DEF AnchorInv, notes, Positions
    <3>8. QED
      BY <3>1, <3>6, <3>7 DEF IInv, Types, RootsInv, NeededInv,
         SearchInv, ScanInv, FailureInv, NoSpuriousFailure, Reading, notes
  <2>4. QED
    BY <2>2, <2>3
<1>3. CASE FetchAnchor
  <2>1. fetched = <<>> /\ why = "none"
    BY <1>3 DEF FetchAnchor, IInv, FetchedInv, FailureInv
  <2>2. /\ UNCHANGED <<size, req, tip, fetched>>
        /\ (pc' = "err" /\ why' = "rpc") \/ (pc' = "ok" /\ why' = why)
    BY <1>3 DEF FetchAnchor, Reject, chainVars, inputVars
  <2>3. NoSpuriousFailure'
    BY <2>1, <2>2, PlainFailure
  <2>4. QED
    BY <2>1, <2>2, <2>3, EndStep
<1>4. QED
  BY <1>1, <1>2, <1>3

\* As long as no shard is taken off, the shard in hand and the end of its scan stay.
LEMMA SameShard ==
  ASSUME UNCHANGED <<needed, roots, anchor>>
  PROVE  Shard' = Shard /\ EndHeight' = EndHeight
BY DEF Shard, EndHeight, FrontierShard

\* A step of the reading of a shard, which keeps what the server said before it.
LEMMA ReadingStep ==
  ASSUME IInv, pc \in Reading, pc' \in Reading, why' = why,
         UNCHANGED <<size, req, tip, anchor, total, roots, needed, fetched>>,
         SearchInv', ScanInv'
  PROVE  IInv'
<1>1. FetchedInv'
  BY FetchedKept DEF IInv, Reading
<1>2. Types'
  BY DEF IInv, Types
<1>3. AnchorInv'
  BY DEF IInv, AnchorInv, notes
<1>4. RootsInv' /\ NeededInv'
  BY DEF IInv, RootsInv, NeededInv, notes
<1>5. FailureInv'
  BY DEF IInv, FailureInv, NoSpuriousFailure, notes, Reading
<1>6. QED
  BY <1>1, <1>2, <1>3, <1>4, <1>5 DEF IInv

\* The shards that the server lists cover the tree of the anchor but for its last
\* shard, although they are those of a later tip.
LEMMA NextRoots ==
  ASSUME IInv, FetchRoots
  PROVE  IInv'
<1>1. /\ pc = "roots" /\ pc' = "shard" /\ why' = why
      /\ roots' = [i \in 1 .. Completed |-> CompletingHeight(i - 1)]
      /\ needed' = {ShardOf(p) : p \in Positions(notes)}
      /\ UNCHANGED <<size, req, tip, anchor, total, fetched>>
  BY DEF FetchRoots, chainVars, inputVars
<1>2. size \in Sizes /\ tip \in 1 .. MaxHeight
  BY DEF IInv, Types
<1>3. anchor \in 1 .. tip /\ total = size[anchor]
  BY <1>1 DEF IInv, AnchorInv
<1>4. roots' \in [1 .. Completed -> 1 .. MaxHeight] /\ Completed \in Nat
  BY <1>1, <1>2, CompletedShards
<1>5. roots' \in Seq(1 .. MaxHeight) /\ Len(roots') = Completed
  <2>1. roots' \in Seq(1 .. MaxHeight)
    BY <1>4, SeqDef
  <2>2. QED
    BY <1>4, <2>1, LenProperties
<1>6. total < (Completed + 1) * ShardSize
  <2> DEFINE c == (Completed + 1) * ShardSize
  <2>1. size[tip] < c /\ c \in Nat
    BY <1>2, <1>4, CompletedShards, Multiples
  <2>2. anchor \in 0 .. tip /\ tip \in 0 .. MaxHeight /\ anchor \in 0 .. MaxHeight
    BY <1>2, <1>3
  <2>3. size[anchor] <= size[tip] /\ size[anchor] \in Nat /\ size[tip] \in Nat
    BY <1>2, <2>2, SizesGrow
  <2> HIDE DEF c
  <2>4. total < c
    BY <1>3, <2>1, <2>3
  <2>5. QED
    BY <2>4 DEF c
<1>7. RootsInv'
  <2>1. ASSUME NEW i \in 1 .. Completed
        PROVE  size[roots'[i] - 1] < i * ShardSize /\ i * ShardSize <= size[roots'[i]]
    <3>1. roots'[i] = CompletingHeight(i - 1)
      BY <1>1
    <3>2. QED
      BY <1>2, <3>1, CompletedShards
  <2>2. size' = size /\ total' = total
    BY <1>1
  <2>3. QED
    BY <1>5, <1>6, <2>1, <2>2 DEF RootsInv
<1>8. FetchedInv'
  BY <1>1, FetchedKept DEF IInv
<1>9. Types'
  BY <1>1 DEF IInv, Types, Reading
<1>10. AnchorInv'
  BY <1>1 DEF IInv, AnchorInv, notes
<1>11. NeededInv'
  BY <1>1 DEF NeededInv, notes
<1>12. FailureInv'
  BY <1>1 DEF IInv, FailureInv, NoSpuriousFailure, notes
<1>13. SearchInv' /\ ScanInv'
  BY <1>1 DEF SearchInv, ScanInv
<1>14. QED
  BY <1>7, <1>8, <1>9, <1>10, <1>11, <1>12, <1>13 DEF IInv

\* The scan of a shard starts where it should.
LEMMA NextStart ==
  ASSUME IInv, StartShard
  PROVE  IInv'
<1>1. /\ pc = "shard" /\ pc \in Reading /\ needed # {}
      /\ UNCHANGED <<size, req, tip, anchor, total, roots, needed, fetched>>
  BY DEF StartShard, chainVars, inputVars, Reading
<1>2. /\ Shard \in Nat /\ Shard <= FrontierShard /\ ShardStart(Shard) \in Nat
      /\ ShardStart(Shard) < total /\ ShardStart(Shard) < ShardEnd(Shard)
      /\ ShardEnd(Shard) \in Nat /\ ShardEnd(Shard) <= size[EndHeight]
      /\ EndHeight \in 1 .. MaxHeight
      /\ \A h \in 1 .. MaxHeight : size[h - 1] <= ShardStart(Shard) => h <= EndHeight
  BY <1>1, ShardInReach DEF IInv
<1>3. Shard' = Shard /\ EndHeight' = EndHeight
  BY <1>1, SameShard
<1>4. FrontierShard \in Nat
  BY <1>1 DEF FrontierShard, IInv, RootsInv
<1>5. size \in Sizes
  BY DEF IInv, Types
<1>6. CASE Shard = 0
  <2>1. pc' = "search" /\ low' = 1 /\ high' = EndHeight /\ why' = why
    <3>1. Shard = 0 /\ ~(Shard > FrontierShard)
      BY <1>2, <1>4, <1>6
    <3>2. pc' = "search" /\ low' = 1 /\ high' = EndHeight /\ UNCHANGED <<why, start>>
      BY <3>1 DEF StartShard
    <3>3. QED
      BY <3>2
  <2>2. size[EndHeight] \in Nat /\ size[EndHeight] > 0
    <3>1. size[EndHeight] \in Nat
      BY <1>2, <1>5, SizesGrow
    <3>2. QED
      BY <1>2, <3>1
  <2>3. size[1 - 1] = 0
    BY <1>5, SizesGrow
  <2>4. SearchInv'
    BY <1>1, <1>2, <1>3, <1>6, <2>1, <2>2, <2>3 DEF SearchInv
  <2>5. ScanInv' /\ pc' \in Reading
    BY <2>1 DEF ScanInv, Reading
  <2>6. QED
    BY <1>1, <2>1, <2>4, <2>5, ReadingStep
<1>7. CASE Shard # 0
  <2>1. pc' = "offset" /\ start' = ScanStart(Shard) /\ why' = why
    <3>1. ~(Shard = 0) /\ ~(Shard > FrontierShard)
      BY <1>2, <1>4, <1>7
    <3>2. /\ pc' = "offset" /\ start' = ScanStart(Shard)
          /\ UNCHANGED <<why, low, high>>
      BY <3>1, Zenon DEF StartShard
    <3>3. QED
      BY <3>2
  <2>2. Shard \in 1 .. Len(roots)
    BY <1>2, <1>4, <1>7 DEF FrontierShard
  <2>3. /\ roots[Shard] \in 1 .. MaxHeight
        /\ size[roots[Shard] - 1] < ShardStart(Shard)
    BY <1>1, <2>2 DEF IInv, RootsInv, ShardStart
  <2>4. size[roots[Shard] - 1] \in Nat
    BY <1>5, <2>3, SizesGrow
  <2>5. size[roots[Shard] - 1] <= ShardStart(Shard)
    BY <1>2, <2>3, <2>4
  <2>6. roots[Shard] \in 1 .. EndHeight
    BY <1>2, <2>3, <2>5
  <2>7. ScanInv'
    BY <1>1, <1>3, <2>1, <2>5, <2>6 DEF ScanInv, ScanStart
  <2>8. SearchInv' /\ pc' \in Reading
    BY <2>1 DEF SearchInv, Reading
  <2>9. QED
    BY <1>1, <2>1, <2>7, <2>8, ReadingStep
<1>8. QED
  BY <1>6, <1>7

\* The search narrows down on the first block that has a leaf, and always finds it.
LEMMA NextSearch ==
  ASSUME IInv, SearchStep \/ SearchDone
  PROVE  IInv'
<1>1. /\ pc = "search" /\ pc \in Reading /\ needed # {} /\ Shard = 0
      /\ low \in 1 .. high /\ high \in 1 .. EndHeight /\ size[low - 1] = 0 /\ size[high] > 0
      /\ UNCHANGED <<size, req, tip, anchor, total, roots, needed, fetched>>
  BY DEF IInv, SearchInv, SearchStep, SearchDone, chainVars, inputVars, Reading
<1>2. Shard' = Shard /\ EndHeight' = EndHeight
  BY <1>1, SameShard
<1>3. EndHeight \in 1 .. MaxHeight /\ size \in Sizes
  BY <1>1, ShardInReach DEF IInv, Types
<1>4. CASE SearchStep
  <2> DEFINE mid == Mid(low, high)
  <2>1. low < high /\ mid \in low .. high - 1
    BY <1>1, <1>4 DEF SearchStep, Mid
  <2>2. /\ pc' = "search" /\ why' = why
        /\ IF size[mid] = 0 THEN low' = mid + 1 /\ high' = high
           ELSE high' = mid /\ low' = low
    BY <1>1, <1>4 DEF SearchStep
  <2> HIDE DEF mid
  <2>3. mid \in 1 .. EndHeight /\ mid \in 0 .. MaxHeight /\ (mid + 1) - 1 = mid
    BY <1>1, <1>3, <2>1
  <2>4. size[mid] \in Nat
    BY <1>3, <2>3, SizesGrow
  <2>5. SearchInv'
    <3>1. CASE size[mid] = 0
      <4>1. low' = mid + 1 /\ high' = high /\ low' \in 1 .. high'
        BY <1>1, <2>1, <2>2, <3>1
      <4>2. QED
        BY <1>1, <1>2, <2>3, <3>1, <4>1 DEF SearchInv
    <3>2. CASE size[mid] # 0
      <4>1. low' = low /\ high' = mid /\ low' \in 1 .. high' /\ size[mid] > 0
        BY <1>1, <2>1, <2>2, <2>4, <3>2
      <4>2. QED
        BY <1>1, <1>2, <2>3, <4>1 DEF SearchInv
    <3>3. QED
      BY <3>1, <3>2
  <2>6. ScanInv' /\ pc' \in Reading
    BY <2>2 DEF ScanInv, Reading
  <2>7. QED
    BY <1>1, <2>2, <2>5, <2>6, ReadingStep
<1>5. CASE SearchDone
  <2>1. low = high /\ size[low] # 0
    BY <1>1, <1>5 DEF SearchDone
  <2>2. CASE pc' = "err"
    <3>1. why' = "width"
      BY <1>5, <2>1, <2>2 DEF SearchDone, Reject
    <3>2. QED
      BY <1>1, <2>2, <3>1, EndStep, PlainFailure
  <2>3. CASE pc' # "err"
    <3>1. pc' = "offset" /\ start' = low /\ why' = why
      BY <1>5, <2>1, <2>3 DEF SearchDone, Reject
    <3>2. ShardStart(Shard) = 0
      BY <1>1 DEF ShardStart
    <3>3. low \in 1 .. EndHeight /\ size[low - 1] <= ShardStart(Shard)
      BY <1>1, <2>1, <3>2
    <3>4. ScanInv'
      BY <1>1, <1>2, <3>1, <3>3 DEF ScanInv
    <3>5. SearchInv' /\ pc' \in Reading
      BY <3>1 DEF SearchInv, Reading
    <3>6. QED
      BY <1>1, <3>1, <3>4, <3>5, ReadingStep
  <2>4. QED
    BY <2>2, <2>3
<1>6. QED
  BY <1>4, <1>5

\* The shard is cut out of the blocks, exactly.
LEMMA NextBlocks ==
  ASSUME IInv, FetchOffset \/ FetchBlocks
  PROVE  IInv'
<1>1. /\ pc \in {"offset", "blocks"} /\ pc \in Reading /\ needed # {} /\ why = "none"
      /\ start \in 1 .. EndHeight /\ size[start - 1] <= ShardStart(Shard)
      /\ UNCHANGED <<size, req, tip, anchor, total, roots>>
  BY DEF IInv, ScanInv, FailureInv, FetchOffset, FetchBlocks, chainVars, inputVars, Reading
<1>2. /\ Shard \in needed /\ Shard \in Nat /\ ShardStart(Shard) \in Nat
      /\ ShardStart(Shard) < ShardEnd(Shard) /\ ShardEnd(Shard) \in Nat
      /\ ShardEnd(Shard) \in {ShardStart(Shard) + ShardSize, total}
  BY <1>1, ShardInReach DEF IInv
<1>3. size \in Sizes /\ size[0] = 0
  BY SizesGrow DEF IInv, Types
<1>4. CASE FetchOffset
  <2>1. /\ UNCHANGED <<needed, fetched, start>> /\ pc' = "blocks" /\ why' = why
        /\ base' = IF start <= 1 THEN 0 ELSE size[start - 1]
    BY <1>4 DEF FetchOffset
  <2>2. base' = size[start - 1]
    <3>1. CASE start <= 1
      <4>1. start - 1 = 0
        BY <1>1, <3>1
      <4>2. QED
        BY <1>3, <2>1, <3>1, <4>1
    <3>2. CASE ~(start <= 1)
      BY <2>1, <3>2
    <3>3. QED
      BY <3>1, <3>2
  <2>3. Shard' = Shard /\ EndHeight' = EndHeight
    BY <1>1, <2>1, SameShard
  <2>4. ScanInv'
    BY <1>1, <2>1, <2>2, <2>3 DEF ScanInv
  <2>5. SearchInv' /\ pc' \in Reading
    BY <2>1 DEF SearchInv, Reading
  <2>6. QED
    BY <1>1, <2>1, <2>4, <2>5, ReadingStep
<1>5. CASE FetchBlocks
  <2> DEFINE raw == Collected(start, EndHeight)
             cut == Slice(Shard, raw)
             piece == [shard |-> Shard, cmxs |-> cut]
  <2>1. /\ BoundsOk(Shard, raw) /\ cut \in Seq(Nat)
        /\ Len(cut) = ShardEnd(Shard) - ShardStart(Shard)
        /\ \A k \in DOMAIN cut : cut[k] = ShardStart(Shard) + k - 1
    BY <1>5, SliceExact DEF FetchBlocks
  <2>2. /\ fetched' = Append(fetched, piece) /\ needed' = needed \ {Shard}
        /\ pc' = "shard" /\ why' = why
    BY <1>5, <2>1 DEF FetchBlocks
  <2> HIDE DEF cut, raw
  <2>3. piece \in [shard : Nat, cmxs : Seq(Nat)] /\ piece.shard = Shard /\ piece.cmxs = cut
    BY <1>2, <2>1
  <2>4. FetchedInv /\ fetched \in Seq([shard : Nat, cmxs : Seq(Nat)])
    BY DEF IInv, FetchedInv
  <2> DEFINE n == Len(fetched)
             R == [shard : Nat, cmxs : Seq(Nat)]
  <2>5. /\ fetched' \in Seq(R) /\ Len(fetched') = n + 1 /\ n \in Nat
        /\ \A i \in 1 .. n : fetched'[i] = fetched[i]
        /\ fetched'[n + 1] = piece
    <3> HIDE DEF R, piece
    <3>1. fetched \in Seq(R) /\ piece \in R
      BY <2>3, <2>4 DEF R
    <3>2. QED
      BY <2>2, <3>1, AppendProperties
  <2>6. DOMAIN fetched' = 1 .. n + 1 /\ DOMAIN fetched = 1 .. n
    BY <2>4, <2>5
  <2> HIDE DEF n, piece, R
  <2>7. LeavesAligned'
    <3>1. ASSUME NEW i \in 1 .. n + 1, NEW k \in DOMAIN fetched'[i].cmxs
          PROVE  fetched'[i].cmxs[k] = ShardStart(fetched'[i].shard) + k - 1
      <4>1. CASE i = n + 1
        BY <2>1, <2>3, <2>5, <3>1, <4>1
      <4>2. CASE i # n + 1
        <5>1. i \in 1 .. n /\ fetched'[i] = fetched[i]
          BY <2>5, <4>2
        <5>2. QED
          BY <2>4, <2>6, <3>1, <5>1 DEF FetchedInv, LeavesAligned
      <4>3. QED
        BY <4>1, <4>2
    <3>2. QED
      BY <2>6, <3>1 DEF LeavesAligned
  <2>8. LeavesComplete'
    <3>1. ASSUME NEW i \in 1 .. n + 1
          PROVE  ShardStart(fetched'[i].shard) + Len(fetched'[i].cmxs)
                   >= MinOf(ShardStart(fetched'[i].shard) + ShardSize, total)
      <4>1. CASE i = n + 1
        <5>1. ShardStart(Shard) + Len(cut) = ShardEnd(Shard)
          BY <1>2, <2>1
        <5>2. total \in Nat
          <6>1. anchor \in 0 .. MaxHeight /\ total = size[anchor]
            BY <1>1 DEF IInv, Types, AnchorInv
          <6>2. QED
            BY <1>3, <6>1, SizesGrow
        <5>3. ShardEnd(Shard) >= MinOf(ShardStart(Shard) + ShardSize, total)
          BY <1>2, <5>2 DEF MinOf
        <5>4. QED
          BY <2>3, <2>5, <4>1, <5>1, <5>3
      <4>2. CASE i # n + 1
        <5>1. i \in 1 .. n /\ fetched'[i] = fetched[i]
          BY <2>5, <4>2
        <5>2. QED
          BY <2>4, <2>6, <5>1 DEF FetchedInv, LeavesComplete
      <4>3. QED
        BY <4>1, <4>2
    <3>2. total' = total
      BY <1>1
    <3>3. QED
      BY <2>6, <3>1, <3>2 DEF LeavesComplete
  <2>9. FetchedInv'
    BY <2>2, <2>5, <2>7, <2>8 DEF FetchedInv, R
  <2>10. NeededInv'
    <3>1. notes' = notes
      BY <1>1 DEF notes
    <3>2. needed' \subseteq {ShardOf(p) : p \in Positions(notes)}
      BY <1>1, <2>2 DEF IInv, NeededInv
    <3>3. ASSUME NEW p \in Positions(notes)
          PROVE  ShardOf(p) \in needed' \/ \E i \in DOMAIN fetched' : fetched'[i].shard = ShardOf(p)
      <4>1. CASE ShardOf(p) = Shard
        <5>1. n + 1 \in DOMAIN fetched' /\ fetched'[n + 1].shard = ShardOf(p)
          BY <2>3, <2>5, <2>6, <4>1
        <5>2. QED
          BY <5>1
      <4>2. CASE ShardOf(p) # Shard /\ ShardOf(p) \in needed
        BY <2>2, <4>2
      <4>3. CASE ShardOf(p) \notin needed
        <5>1. PICK i \in DOMAIN fetched : fetched[i].shard = ShardOf(p)
          BY <1>1, <4>3 DEF IInv, NeededInv
        <5>2. i \in DOMAIN fetched' /\ fetched'[i] = fetched[i]
          BY <2>5, <2>6
        <5>3. QED
          BY <5>1, <5>2
      <4>4. QED
        BY <4>1, <4>2, <4>3
    <3>4. QED
      BY <3>1, <3>2, <3>3 DEF NeededInv
  <2>11. Types'
    BY <1>1, <2>2 DEF IInv, Types, Reading
  <2>12. AnchorInv' /\ RootsInv'
    BY <1>1, <2>2 DEF IInv, AnchorInv, RootsInv, notes
  <2>13. FailureInv'
    BY <1>1, <2>2 DEF IInv, FailureInv, NoSpuriousFailure
  <2>14. SearchInv' /\ ScanInv'
    BY <2>2 DEF SearchInv, ScanInv
  <2>15. QED
    BY <2>9, <2>10, <2>11, <2>12, <2>13, <2>14 DEF IInv
<1>6. QED
  BY <1>4, <1>5

\* The invariant holds after every step.
LEMMA NextIInv ==
  ASSUME IInv, [Next]_vars
  PROVE  IInv'
<1>1. CASE ResolveAnchor \/ FetchTreeState \/ FetchAnchor
  BY <1>1, NextAnchor
<1>2. CASE FetchRoots
  BY <1>2, NextRoots
<1>3. CASE StartShard
  BY <1>3, NextStart
<1>4. CASE SearchStep \/ SearchDone
  BY <1>4, NextSearch
<1>5. CASE FetchOffset \/ FetchBlocks
  BY <1>5, NextBlocks
<1>6. CASE Assemble
  <2>1. /\ pc = "shard" /\ needed = {} /\ why = "none"
        /\ UNCHANGED <<size, req, tip, total, fetched>>
    BY <1>6 DEF Assemble, chainVars, inputVars, IInv, FailureInv
  <2>2. CASE \A i \in DOMAIN notes : LeadsToAnchor(notes[i])
    <3>1. pc' = "ok" /\ why' = "none"
      BY <1>6, <2>1, <2>2 DEF Assemble
    <3>2. QED
      BY <2>1, <3>1, EndStep, PlainFailure
  <2>3. CASE ~(\A i \in DOMAIN notes : LeadsToAnchor(notes[i]))
    <3>1. pc' = "err" /\ why' = "mismatch"
      BY <1>6, <2>3 DEF Assemble, Reject
    <3>2. \E i \in DOMAIN notes : notes[i].cmx # notes[i].position
      BY <2>1, <2>3, PathsLead
    <3>3. NoSpuriousFailure'
      BY <2>1, <3>1, <3>2 DEF NoSpuriousFailure, notes
    <3>4. QED
      BY <2>1, <3>1, <3>3, EndStep
  <2>4. QED
    BY <2>2, <2>3
<1>7. CASE RpcFails
  <2>1. pc' = "err" /\ why' = "rpc" /\ UNCHANGED <<size, req, tip, total, fetched>>
    BY <1>7 DEF RpcFails, Reject, chainVars, inputVars
  <2>2. QED
    BY <2>1, EndStep, PlainFailure
<1>8. CASE ChainGrows \/ UNCHANGED vars
  <2>1. /\ UNCHANGED <<size, req, anchor, pc, why, total, roots, needed, low, high, start, base,
                       fetched>>
        /\ tip' \in 1 .. MaxHeight /\ tip <= tip' /\ tip \in 1 .. MaxHeight
    BY <1>8 DEF ChainGrows, vars, chainVars, inputVars, IInv, Types
  <2>2. notes' = notes /\ Shard' = Shard /\ EndHeight' = EndHeight
    BY <2>1, SameShard DEF notes
  <2>3. FetchedInv'
    BY <2>1, FetchedKept DEF IInv
  <2>4. Types'
    BY <2>1 DEF IInv, Types
  <2>5. AnchorInv'
    BY <2>1, <2>2 DEF IInv, AnchorInv
  <2>6. RootsInv' /\ NeededInv'
    BY <2>1, <2>2 DEF IInv, RootsInv, NeededInv
  <2>7. SearchInv' /\ ScanInv'
    BY <2>1, <2>2 DEF IInv, SearchInv, ScanInv
  <2>8. FailureInv'
    BY <2>1, <2>2 DEF IInv, FailureInv, NoSpuriousFailure
  <2>9. QED
    BY <2>3, <2>4, <2>5, <2>6, <2>7, <2>8 DEF IInv
<1>9. QED
  BY <1>1, <1>2, <1>3, <1>4, <1>5, <1>6, <1>7, <1>8 DEF Next, ComputeWitnesses

\* The invariant holds in every reachable state.
LEMMA Invariant == Spec => []IInv
BY InitIInv, NextIInv, PTL DEF Spec

-----------------------------------------------------------------------------
\* Whatever the chain and however it grows, the leaves handed to the tree builder
\* for a shard are those of that shard, in order.
THEOREM AlignedCorrect == Spec => []LeavesAligned
<1>1. IInv => LeavesAligned
  BY DEF IInv, FetchedInv
<1>2. QED
  BY <1>1, Invariant, PTL

\* ... and all of those that the tree has at the anchor.
THEOREM CompleteCorrect == Spec => []LeavesComplete
<1>1. IInv => LeavesComplete
  BY DEF IInv, FetchedInv
<1>2. QED
  BY <1>1, Invariant, PTL

\* No shard of a note is missing, no search is in vain, no slice is out of range,
\* and a path leads elsewhere only for a note that is not the leaf it claims to be.
THEOREM FailureCorrect == Spec => []NoSpuriousFailure
<1>1. IInv => NoSpuriousFailure
  BY DEF IInv, FailureInv
<1>2. QED
  BY <1>1, Invariant, PTL
=============================================================================
