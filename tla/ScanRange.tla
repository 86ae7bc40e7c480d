----------------------------- MODULE ScanRange ------------------------------
(***************************************************************************)
(* run_sync_inner of crates/zcash-sync/src/sync.rs: one scan of the blocks  *)
(* StartHeight..EndHeight.  A pipeline trial-decrypts up to Depth blocks at *)
(* a time and delivers their results in completion order; the rest is       *)
(* sequential: the matched transactions are fetched (Phase 2), then those   *)
(* that spend a note of ours (Phase 4), notes are marked as spent (Phase 5) *)
(* and every transaction is handed to the callback (Phase 6).               *)
(***************************************************************************)
EXTENDS ShieldedChain

CONSTANTS StartHeight, EndHeight,  \* params.start_height, params.end_height
          Depth,                   \* pipeline_depth()
          Verbose                  \* params.verbose

ASSUME ScanAssumption ==
  /\ StartHeight \in Heights /\ EndHeight \in Heights
  /\ StartHeight <= EndHeight
  /\ Depth \in Nat \ {0}
  /\ Verbose \in BOOLEAN

VARIABLES
  pc,            \* "start", "stream", "phase2", "phase4", "ok" or "err"
  next,          \* the height of the block the server sends next
  inflight,      \* the blocks being trial-decrypted
  results,       \* block_results, as heights: see Trial
  blocksDone,    \* the calls of on_block_done
  todo,          \* the transactions the current phase has still to fetch
  ours,          \* our_nullifiers
  transactions,  \* all_transactions
  emitted,       \* what on_transaction was called with, in order
  spentKnown,    \* spent_known_nullifiers, with the pool each was found in
  diag           \* the diagnostic task is running

scanVars == <<pc, next, inflight, results, blocksDone, todo, ours, transactions,
              emitted, spentKnown, diag>>
vars == <<chainVars, scanVars>>

Done == pc \in {"ok", "err"}

-----------------------------------------------------------------------------
(* TrialResult, what process_compact_block keeps of block h.                 *)

\* The fast path drops a block without any Orchard or Ironwood action.
FastPath(h) ==
  orchardOnly /\ \A t \in TxidsOf(h), p \in Pools : TxOf(t)[p] = <<>>

NoSize == -1

Trial(h) ==
  IF FastPath(h)
  THEN [matched |-> {},
        spends |-> [t \in {} |-> {}],
        sizeAfter |-> [p \in Pools |-> NoSize],
        counts |-> [p \in Pools |-> <<>>]]
  ELSE [matched |-> {t \in TxidsOf(h) : Matches(TxOf(t))},
        spends |-> [t \in TxidsOf(h) |-> [p \in Pools |-> Spends(TxOf(t), p)]],
        sizeAfter |-> [p \in Pools |->
                         IF chain[h].meta /\ TreeSize(h, p) > 0
                         THEN TreeSize(h, p) ELSE NoSize],
        counts |-> [p \in Pools |-> ActionCounts(h, p)]]

SumSeq(s) == FoldLeft(LAMBDA x, y : x + y, 0, s)

\* compute_pool_position_ctx: the tree size before block h.
SizeBefore(h, p) ==
  LET r == Trial(h)
      total == SumSeq(r.counts[p])
  IN IF r.sizeAfter[p] = NoSize \/ r.sizeAfter[p] < total THEN NoSize
     ELSE r.sizeAfter[p] - total

ActionStartAfter(t, p) == SumSeq(SubSeq(Trial(t[1]).counts[p], 1, t[2]))  \* mutant
ActionStart(t, p) == SumSeq(SubSeq(Trial(t[1]).counts[p], 1, t[2] - 1))

\* The position of the note of action k (counted from 1) of t.
Position(t, p, k) ==
  IF SizeBefore(t[1], p) = NoSize THEN NoSize
  ELSE SizeBefore(t[1], p) + ActionStart(t, p) + (k - 1)

\* The notes of t in pool p, as fetch_and_decrypt_tx returns them. One that we pay
\* to somebody else has neither a nullifier nor an action index.
NotesOf(t, p) ==
  {[nf |-> TxOf(t)[p][k].note,
    position |-> IF TxOf(t)[p][k].paid THEN NoSize ELSE Position(t, p, k),
    isSpent |-> FALSE] : k \in OutputsFound(TxOf(t), p)}

Decrypted(t) == [txid |-> t, height |-> t[1], notes |-> [p \in Pools |-> NotesOf(t, p)]]

-----------------------------------------------------------------------------
Init ==
  /\ ChainInit(StartHeight)
  /\ pc = "start"
  /\ next = StartHeight
  /\ inflight = {}
  /\ results = <<>>
  /\ blocksDone = 0
  /\ todo = {}
  /\ ours = {}
  /\ transactions = <<>>
  /\ emitted = <<>>
  /\ spentKnown = [p \in Pools |-> {}]
  /\ diag = FALSE

\* Keys parsed, connected, GetBlockRange accepted, diagnostic task spawned.
OpenStream ==
  /\ pc = "start"
  /\ pc' = "stream"
  /\ diag' = Verbose
  /\ UNCHANGED <<next, inflight, results, blocksDone, todo, ours, transactions,
                 emitted, spentKnown>>

\* A step that fails ends the scan with its error, by `?`.
Fail(at) ==
  /\ pc = at
  /\ pc' = "err"
  /\ UNCHANGED <<next, inflight, results, blocksDone, todo, ours, transactions,
                 emitted, spentKnown, diag>>

\* Bad keys, no connection, or GetBlockRange refused.
OpenFails == Fail("start")

\* try_buffer_unordered pulls the next block while a slot is free.
PullBlock ==
  /\ pc = "stream"
  /\ next <= EndHeight
  /\ Cardinality(inflight) < Depth
  /\ inflight' = inflight \cup {next}
  /\ next' = next + 1
  /\ UNCHANGED <<pc, results, blocksDone, todo, ours, transactions, emitted,
                 spentKnown, diag>>

\* process_compact_block returns: on_block_done is called, the result collected.
BlockDone(h) ==
  /\ pc = "stream"
  /\ h \in inflight
  /\ inflight' = inflight \ {h}
  /\ results' = Append(results, h)
  /\ blocksDone' = blocksDone + 1
  /\ UNCHANGED <<pc, next, todo, ours, transactions, emitted, spentKnown, diag>>

\* The stream breaks or trial_decrypt_block panics: what is in flight is dropped.
StreamFails == Fail("stream")

\* What sort_unstable_by_key may make of s: any order of the elements of one key.
SortedBy(s, key(_)) ==
  {[i \in DOMAIN order |-> s[order[i]]] :
     order \in {o \in SetToSeqs(DOMAIN s) :
       \A i, j \in DOMAIN o : i < j => key(s[o[i]]) <= key(s[o[j]])}}

\* The stream has ended: stop the diagnostic task, sort, start Phase 2.
Collect ==
  /\ pc = "stream"
  /\ next > EndHeight
  /\ inflight = {}
  /\ results' \in SortedBy(results, LAMBDA h : h)
  /\ diag' = FALSE
  /\ ours' = known
  /\ todo' = UNION {Trial(h).matched : h \in ToSet(results)}
  /\ pc' = "phase2"
  /\ UNCHANGED <<next, inflight, blocksDone, transactions, emitted, spentKnown>>

Earlier(t, u) == t[1] < u[1] \/ (t[1] = u[1] /\ t[2] < u[2])

\* Phase 2 fetches in block order; a transaction that cannot be decrypted is
\* skipped with a warning.
FetchMatched(t) ==
  /\ pc = "phase2"
  /\ t \in todo
  /\ \A u \in todo \ {t} : Earlier(t, u)
  /\ todo' = todo \ {t}
  /\ IF t \in undecodable
     THEN UNCHANGED <<ours, transactions>>
     ELSE /\ ours' = ours \cup ReceivesAny(TxOf(t))
          /\ transactions' = Append(transactions, Decrypted(t))
  /\ UNCHANGED <<pc, next, inflight, results, blocksDone, emitted, spentKnown, diag>>

\* GetTransaction fails, in Phase 2 or in Phase 4.
FetchFails ==
  \/ todo # {} /\ Fail("phase2")
  \/ todo # {} /\ Fail("phase4")

NothingFound == {}  \* mutant
AlreadyFound == {transactions[i].txid : i \in DOMAIN transactions}

\* The transactions that reveal a nullifier of ours and were not found yet.
Spenders ==
  {t \in UNION {DOMAIN Trial(h).spends : h \in ToSet(results)} :
     /\ t \notin AlreadyFound
     /\ \E p \in Pools : Trial(t[1]).spends[t][p] \cap ours # {}}

\* Mutant: without any nullifier of ours the scan waits instead of going on.
StartPhase4Waits ==
  /\ pc = "phase2"
  /\ todo = {}
  /\ ours # {}
  /\ todo' = Spenders
  /\ pc' = "phase4"
  /\ UNCHANGED <<next, inflight, results, blocksDone, ours, transactions, emitted,
                 spentKnown, diag>>

StartPhase4 ==
  /\ pc = "phase2"
  /\ todo = {}
  /\ todo' = IF ours = {} THEN {} ELSE Spenders
  /\ pc' = "phase4"
  /\ UNCHANGED <<next, inflight, results, blocksDone, ours, transactions, emitted,
                 spentKnown, diag>>

\* Phase 4 visits the transactions of a block in the order of a HashMap, and
\* keeps no nullifiers of what it fetches.
FetchSpender(t) ==
  /\ pc = "phase4"
  /\ t \in todo
  /\ \A u \in todo : t[1] <= u[1]
  /\ todo' = todo \ {t}
  /\ transactions' = IF t \in undecodable THEN transactions
                     ELSE Append(transactions, Decrypted(t))
  /\ UNCHANGED <<pc, next, inflight, results, blocksDone, ours, emitted, spentKnown,
                 diag>>

\* The sort by height, which runs only with Phase 4.
Sorted(txs) == IF ours = {} THEN {txs} ELSE SortedBy(txs, LAMBDA tx : tx.height)

\* Mutant: the pools are not told apart.
SpentInAnyPool(p) ==
  ours \cap UNION {UNION {UNION {Trial(h).spends[t][q] : q \in Pools} :
                            t \in DOMAIN Trial(h).spends} : h \in ToSet(results)}
SpentNullifiers(p) ==
  ours \cap UNION {UNION {Trial(h).spends[t][p] : t \in DOMAIN Trial(h).spends} :
                     h \in ToSet(results)}

MarkSpent(tx) ==
  [tx EXCEPT !.notes = [p \in Pools |->
     {IF n.nf \in SpentNullifiers(p) THEN [n EXCEPT !.isSpent = TRUE] ELSE n :
        n \in tx.notes[p]}]]

\* The sort, Phase 5, Phase 6 and the result: no await separates them.
Finish ==
  /\ pc = "phase4"
  /\ todo = {}
  /\ \E s \in Sorted(transactions) :
       /\ transactions' = [i \in DOMAIN s |-> MarkSpent(s[i])]
       /\ emitted' = transactions'
  /\ spentKnown' = [p \in Pools |-> SpentNullifiers(p) \cap known]
  /\ pc' = "ok"
  /\ UNCHANGED <<next, inflight, results, blocksDone, todo, ours, diag>>

Step ==
  \/ OpenStream
  \/ OpenFails
  \/ PullBlock
  \/ \E h \in Heights : BlockDone(h)
  \/ StreamFails
  \/ Collect
  \/ \E t \in todo : FetchMatched(t)
  \/ FetchFails
  \/ StartPhase4
  \/ \E t \in todo : FetchSpender(t)
  \/ Finish

Next == Step /\ UNCHANGED chainVars

\* Every await of run_sync_inner ends: trial decryption does, and the server
\* answers or the request fails.
Spec == Init /\ [][Next]_vars /\ WF_vars(Next)

-----------------------------------------------------------------------------
(* Properties *)

\* Whatever order the blocks of the pipeline complete in, a scan that succeeds
\* reports every transaction of the range that pays us or spends a note of ours,
\* nothing else, and each once, though Phase 2 and Phase 4 both look for them. It
\* does so in block order, although Phase 4 finds its transactions after Phase 2.
\* A scan that fails has emitted nothing: its range may be scanned again.
ResultExact ==
  /\ pc # "ok" => emitted = <<>>
  /\ pc = "ok" =>
    /\ {emitted[i].txid : i \in DOMAIN emitted} = ExpectedTxids(StartHeight, EndHeight)
    /\ Len(emitted) = Cardinality(ExpectedTxids(StartHeight, EndHeight))
    /\ \A i, j \in DOMAIN emitted : i < j => emitted[i].height <= emitted[j].height

\* A note is reported as spent exactly when its own pool reveals its nullifier
\* in the range: not by the other pool, not by a note of an earlier scan, and
\* also when the spending transaction could not be decrypted. (A note whose compact
\* form is malformed and that comes with a spend of ours is reported, by Phase 4,
\* but nobody looks for its own spend.) The notes of earlier scans reported as spent
\* are exactly those that the range spends in either pool.
SpentFlagsExact ==
  /\ \A i \in DOMAIN emitted, p \in Pools : \A n \in emitted[i].notes[p] :
       n.isSpent <=> /\ n.nf \in SpentIn(StartHeight, EndHeight, p)
                     /\ n.nf \in NotesKnown(StartHeight, EndHeight)
  /\ pc = "ok" =>
       UNION {spentKnown[p] : p \in Pools}
         = known \cap UNION {SpentIn(StartHeight, EndHeight, p) : p \in Pools}

\* The position of a note of ours is its leaf in the commitment tree of its own
\* pool, whatever other actions its block has and whether or not their compact form
\* could be parsed; there is none when the block came without chain metadata, and
\* none for a note that we paid.
PositionsExact ==
  \A i \in DOMAIN emitted, p \in Pools :
    LET t == emitted[i].txid
        Leaves == {<<TxOf(t)[p][k].note,
                     IF chain[t[1]].meta /\ ~TxOf(t)[p][k].paid
                     THEN LeafIndex(t, p, k) ELSE NoSize>> : k \in OutputsFound(TxOf(t), p)}
    IN {<<n.nf, n.position>> : n \in emitted[i].notes[p]} = Leaves

\* Every scan ends, with a result or with an error.
Terminates == <>Done

-----------------------------------------------------------------------------
(* What the documentation says and the code does not do *)

\* sync.rs, spawn_diagnostic_task: "The returned handle must be aborted once the
\* pipeline finishes."
DocDiagnosticsStopped == Done => ~diag
=============================================================================
