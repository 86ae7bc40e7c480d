---------------------------- MODULE ShardWitness ----------------------------
(***************************************************************************)
(* compute_witnesses_for_pool of crates/zcash-sync/src/witness.rs: for the  *)
(* notes to spend, find the blocks that hold the leaves of their shards of  *)
(* the commitment tree, read them, cut out each shard exactly, and check    *)
(* the path of every note against the anchor.  A request without notes is   *)
(* fetch_anchor_for_pool, or the early refusal of the former.  Every        *)
(* request is an await, during which the chain grows.                       *)
(*                                                                          *)
(* A leaf is named by its absolute position.  The server and the ShardTree  *)
(* that assembles the Merkle paths are external.                            *)
(***************************************************************************)
EXTENDS Integers, Sequences, FiniteSets

CONSTANTS MaxHeight,  \* bound: the highest block
          Sizes,      \* the chains to consider: tree sizes by height, on 0..MaxHeight
          ShardSize,  \* 2 ^ ORCHARD_SHARD_HEIGHT
          MaxScan,    \* MAX_FIRST_LEAF_SCAN_BLOCKS
          Requests    \* the requests to consider

Entries == {"witnesses", "anchor"}
Unset == 0          \* an explicit anchor height that is not given
NoteRef == [position : Nat, cmx : Nat]
WitnessRequest == [entry : Entries, anchorHeight : Nat, depth : Nat, notes : Seq(NoteRef)]

ASSUME WitnessAssumption ==
  /\ MaxHeight \in Nat \ {0}
  /\ Sizes \subseteq [0 .. MaxHeight -> Nat]
  /\ \A z \in Sizes : z[0] = 0 /\ \A h \in 1 .. MaxHeight : z[h - 1] <= z[h]
  /\ ShardSize \in Nat \ {0} /\ MaxScan \in Nat
  /\ Requests \subseteq WitnessRequest

VARIABLES
  size,      \* the size of the tree after each block
  tip,       \* the server's tip: it grows
  req,       \* the request; the cmx of the leaf p is p
  anchor,    \* anchor_height, once resolved
  pc,        \* "anchor", "tree", "roots", "shard", "search", "offset", "blocks",
             \* "ok" or "err"
  why,       \* what made it fail
  total,     \* anchor_total_leaves
  roots,     \* subtree_roots, as completing_block_height by shard, from 1
  needed,    \* the shards still to be fetched
  low, high, \* the search of find_pool_activation_height
  start, base,  \* start_height, base_offset
  fetched    \* shard_leaves: [shard, cmxs], in the order they were pushed

inputVars == <<size, req>>
chainVars == <<inputVars, anchor>>
vars == <<chainVars, tip, pc, why, total, roots, needed, low, high, start, base, fetched>>

MinOf(a, b) == IF a < b THEN a ELSE b
ShardOf(position) == position \div ShardSize
notes == req.notes
Positions(ns) == {ns[i].position : i \in DOMAIN ns}

\* The shards that the server knows to be complete, and the block of each that
\* completed it.
Completed == size[tip] \div ShardSize
CompletingHeight(s) ==
  CHOOSE h \in 1 .. MaxHeight :
    size[h] >= (s + 1) * ShardSize /\ size[h - 1] < (s + 1) * ShardSize

\* The shard in hand: BTreeSet iterates in ascending order.
Shard == CHOOSE s \in needed : \A r \in needed : s <= r

\* The first shard that GetSubtreeRoots did not list.
FrontierShard == Len(roots)
EndHeight == IF Shard < FrontierShard THEN roots[Shard + 1] ELSE anchor

\* The leaves lo .. hi - 1 in order.
Leaves(lo, hi) == [i \in 1 .. (IF lo < hi THEN hi - lo ELSE 0) |-> lo + i - 1]

-----------------------------------------------------------------------------
Init ==
  /\ size \in Sizes
  /\ tip \in 1 .. MaxHeight
  /\ req \in Requests
  /\ anchor = 0
  /\ IF req.entry = "witnesses" /\ req.notes = <<>>
     THEN pc = "err" /\ why = "request" ELSE pc = "anchor" /\ why = "none"
  /\ total = 0 /\ roots = <<>> /\ needed = {}
  /\ low = 0 /\ high = 0 /\ start = 0 /\ base = 0
  /\ fetched = <<>>

Reject(reason) == pc' = "err" /\ why' = reason

\* anchor_height_from_tip: a saturating difference, and never below 1.
AnchorFromTip(t, depth) == IF t > depth THEN t - depth ELSE 1

\* The height asked for, or one derived from the tip, which is asked for first.
ResolveAnchor ==
  /\ pc = "anchor"
  /\ anchor' = IF req.anchorHeight # Unset THEN req.anchorHeight
               ELSE AnchorFromTip(tip, req.depth)
  /\ pc' = "tree"
  /\ UNCHANGED <<inputVars, tip, why, total, roots, needed, low, high, start, base, fetched>>

\* frontier_leaf_count: the position of the last leaf of the frontier, plus one,
\* and 0 for an empty frontier.
LeafCount(frontier) ==
  IF frontier = {} THEN 0 ELSE 1 + CHOOSE p \in frontier : \A q \in frontier : q <= p
Frontier(height) == 0 .. size[height] - 1

\* GetTreeState at the anchor, which the server has only up to its tip;
\* check_pool_nonempty and check_note_positions.
FetchTreeState ==
  /\ pc = "tree" /\ req.entry = "witnesses"
  /\ IF anchor > tip THEN Reject("rpc") /\ UNCHANGED total
     ELSE /\ total' = LeafCount(Frontier(anchor))
          /\ IF total' = 0 \/ \E p \in Positions(notes) : p >= total'
             THEN Reject("request") ELSE pc' = "roots" /\ UNCHANGED why
  /\ UNCHANGED <<chainVars, tip, roots, needed, low, high, start, base, fetched>>

\* fetch_anchor_for_pool: the frontier alone gives the root, that of the empty tree
\* too.
FetchAnchor ==
  /\ pc = "tree" /\ req.entry = "anchor"
  /\ IF anchor > tip THEN Reject("rpc") /\ UNCHANGED total
     ELSE total' = LeafCount(Frontier(anchor)) /\ pc' = "ok" /\ UNCHANGED why
  /\ UNCHANGED <<chainVars, tip, roots, needed, low, high, start, base, fetched>>

\* GetSubtreeRoots answers for the tip, not for the anchor.
FetchRoots ==
  /\ pc = "roots"
  /\ roots' = [i \in 1 .. Completed |-> CompletingHeight(i - 1)]
  /\ needed' = {ShardOf(p) : p \in Positions(notes)}
  /\ pc' = "shard"
  /\ UNCHANGED <<chainVars, tip, why, total, low, high, start, base, fetched>>

\* The scan of a shard starts in the block that completed the one before it.
ScanStart(s) == roots[s]

\* The start of the scan of the next shard, if any: shard 0 has to be searched.
StartShard ==
  /\ pc = "shard" /\ needed # {}
  /\ CASE Shard = 0 ->
            /\ pc' = "search" /\ low' = 1 /\ high' = EndHeight
            /\ UNCHANGED <<why, start>>
       [] Shard > FrontierShard -> Reject("shards") /\ UNCHANGED <<low, high, start>>
       [] OTHER ->
            /\ pc' = "offset" /\ start' = ScanStart(Shard)
            /\ UNCHANGED <<why, low, high>>
  /\ UNCHANGED <<chainVars, tip, total, roots, needed, base, fetched>>

MidAbove(l, h) == l + (h - l + 1) \div 2  \* mutant
Mid(l, h) == l + (h - l) \div 2

\* find_pool_activation_height: one GetTreeState per step.
SearchStep ==
  /\ pc = "search" /\ low < high
  /\ LET mid == Mid(low, high) IN
     IF size[mid] = 0 THEN low' = mid + 1 /\ UNCHANGED high
     ELSE high' = mid /\ UNCHANGED low
  /\ UNCHANGED <<chainVars, tip, pc, why, total, roots, needed, start, base, fetched>>

\* ... its final guard, and check_first_leaf_scan_width.
SearchDone ==
  /\ pc = "search" /\ low >= high
  /\ IF size[low] = 0 THEN Reject("search") /\ UNCHANGED start
     ELSE IF EndHeight - low > MaxScan THEN Reject("width") /\ UNCHANGED start
     ELSE pc' = "offset" /\ start' = low /\ UNCHANGED why
  /\ UNCHANGED <<chainVars, tip, total, roots, needed, low, high, base, fetched>>

\* Mutant: the size after the first block instead of before it.
FetchOffsetAfter ==
  /\ pc = "offset"
  /\ base' = size[start]
  /\ pc' = "blocks"
  /\ UNCHANGED <<chainVars, tip, why, total, roots, needed, low, high, start, fetched>>

\* tree_size_at the block before the scan.
FetchOffset ==
  /\ pc = "offset"
  /\ base' = IF start <= 1 THEN 0 ELSE size[start - 1]
  /\ pc' = "blocks"
  /\ UNCHANGED <<chainVars, tip, why, total, roots, needed, low, high, start, fetched>>

\* collect_cmxs: the leaves of the blocks from..to.
Collected(from, to) == Leaves(size[from - 1], size[to])

\* shard_leaf_bounds.
ShardStart(s) == s * ShardSize
ShardEndShort(s) ==                                             \* mutant
  IF s < FrontierShard THEN (s + 1) * ShardSize ELSE total - 1
ShardEnd(s) == IF s < FrontierShard THEN (s + 1) * ShardSize ELSE total
BoundsOk(s, raw) ==
  LET lo == ShardStart(s) - base
      hi == ShardEnd(s) - base
  IN base <= ShardStart(s) /\ lo <= hi /\ hi <= Len(raw)

SliceWhole(s, raw) == raw                                       \* mutant
Slice(s, raw) == SubSeq(raw, ShardStart(s) - base + 1, ShardEnd(s) - base)

\* GetBlockRange, and the leaves of the shard out of it.
FetchBlocks ==
  /\ pc = "blocks"
  /\ LET raw == Collected(start, EndHeight) IN
     IF BoundsOk(Shard, raw)
     THEN /\ fetched' = Append(fetched, [shard |-> Shard, cmxs |-> Slice(Shard, raw)])
          /\ needed' = needed \ {Shard}
          /\ pc' = "shard"
          /\ UNCHANGED why
     ELSE Reject("bounds") /\ UNCHANGED <<fetched, needed>>
  /\ UNCHANGED <<chainVars, tip, total, roots, low, high, start, base>>

\* The leaves that the path of a note is computed from in its shard, those of the
\* tree at the anchor: the note's own commitment, and the leaves inserted next to
\* it. What the checkpoint has no value for has no path.
Missing == -1
InsertedLeaf(s, p) ==
  LET k == p - ShardStart(s) + 1
      At == {i \in DOMAIN fetched : fetched[i].shard = s /\ k \in DOMAIN fetched[i].cmxs}
  IN IF At = {} THEN Missing ELSE fetched[CHOOSE i \in At : TRUE].cmxs[k]
PathLeaves(n) ==
  LET s == ShardOf(n.position) IN
  [p \in ShardStart(s) .. MinOf(ShardStart(s) + ShardSize, total) - 1 |->
     IF p = n.position THEN n.cmx ELSE InsertedLeaf(s, p)]

\* path.root(cmx) is the anchor: the hash has no collisions, so that the leaves are
\* those of the chain. The completed shards and the frontier come from the server.
LeadsToAnchor(n) == \A p \in DOMAIN PathLeaves(n) : PathLeaves(n)[p] = p

\* build_witnesses, which rejects a path that does not lead to the anchor.
Assemble ==
  /\ pc = "shard" /\ needed = {}
  /\ IF \A i \in DOMAIN notes : LeadsToAnchor(notes[i])
     THEN pc' = "ok" /\ UNCHANGED why ELSE Reject("mismatch")
  /\ UNCHANGED <<chainVars, tip, total, roots, needed, low, high, start, base, fetched>>

Done == pc \in {"ok", "err"}

\* The connection or any request fails.
RpcFails ==
  /\ ~Done
  /\ Reject("rpc")
  /\ UNCHANGED <<chainVars, tip, total, roots, needed, low, high, start, base, fetched>>

ComputeWitnesses ==
  \/ ResolveAnchor \/ FetchTreeState \/ FetchAnchor \/ FetchRoots \/ StartShard
  \/ SearchStep \/ SearchDone
  \/ FetchOffset \/ FetchBlocks
  \/ Assemble

\* A block is mined while a request is under way.
ChainGrows ==
  /\ ~Done /\ tip < MaxHeight
  /\ tip' = tip + 1
  /\ UNCHANGED <<chainVars, pc, why, total, roots, needed, low, high, start, base, fetched>>

Next == ComputeWitnesses \/ RpcFails \/ ChainGrows

\* The server answers every request, as long as it does not fail one: failing is
\* never what makes the search stop. A range request has no timeout, so that a
\* server that never answers is outside this specification.
Spec == Init /\ [][Next]_vars /\ WF_vars(ComputeWitnesses)

-----------------------------------------------------------------------------
(* Properties *)

\* The leaves handed to the tree builder for a shard are the leaves of that
\* shard, from its first one on and in order, although the scan starts in a block
\* of the shard before it and may end in one of the shard after it.
LeavesAligned ==
  \A i \in DOMAIN fetched : \A k \in DOMAIN fetched[i].cmxs :
    fetched[i].cmxs[k] = ShardStart(fetched[i].shard) + k - 1

\* ... and none is missing of those that the tree has at the anchor.
LeavesComplete ==
  \A i \in DOMAIN fetched :
    ShardStart(fetched[i].shard) + Len(fetched[i].cmxs)
      >= MinOf(ShardStart(fetched[i].shard) + ShardSize, total)

\* A request that makes sense fails only if the server does, or because shard 0
\* is too wide: the shard a note is in is always found, however the chain grew
\* between the requests, its slice is always in range, and a witness is refused
\* only for a note that is not the leaf it claims to be.
NoSpuriousFailure ==
  /\ why \notin {"shards", "search", "bounds"}
  /\ why = "mismatch" => \E i \in DOMAIN notes : notes[i].cmx # notes[i].position

\* Every request ends, with witnesses or an error.
Terminates == <>Done
=============================================================================
