---------------------------- MODULE SyncCallers -----------------------------
(***************************************************************************)
(* Who calls run_sync: startSync of crates/zcash-ffi-node, for its whole     *)
(* range with the nullifiers the wallet knows, and the sync command of       *)
(* crates/zcash-cli/src/main.rs, chunk by chunk and with no nullifier, which *)
(* prints what it found once all chunks are scanned.  A session is that of   *)
(* SyncSession.                                                              *)
(***************************************************************************)
EXTENDS SyncSession

CONSTANTS ChunkSizes,  \* the values of --chunk-size to consider
          U32          \* 2^32

ASSUME CallersAssumption ==
  /\ U32 \in Nat /\ EndHeight + 1 < U32 /\ ChunkSizes \subseteq 0 .. U32 - 1
  /\ StartHeight \in Heights /\ EndHeight \in Heights

\* No chunk wraps around. (With a --chunk-size that does, build_chunks goes on from
\* where the chunk has wrapped to, and the command asks for inverted ranges.)
ASSUME NoWrapAssumption == \A size \in ChunkSizes : EndHeight + size <= U32

VARIABLES
  caller,     \* "startSync" or "cli"
  chunkSize,  \* --chunk-size
  chunks,     \* the ranges to scan, <<start, end>>
  results,    \* the sessions that have ended: which chunk, whether it succeeded, what it found
  exit,       \* "starting", "scanning", "ok" or "failed"
  printed     \* what the caller is left with: the transactions and the blocks scanned

callerVars == <<caller, chunkSize, chunks, results, exit, printed>>
allVars == <<sessionVars, callerVars>>

Nothing == [transactions |-> <<>>, blocks |-> 0]

\* build_chunks, in u32: a chunk that would end past 2^32 wraps around.
ChunkEnd(h, size) ==
  LET last == (h + size - 1) % U32 IN IF last < EndHeight THEN last ELSE EndHeight
BuildChunks(start, size) ==
  LET from[h \in 0 .. EndHeight + 1] ==
        IF h > EndHeight THEN <<>> ELSE <<<<h, ChunkEnd(h, size)>>>> \o from[ChunkEnd(h, size) + 1]
  IN from[start]

-----------------------------------------------------------------------------
CallersInit ==
  /\ caller \in {"startSync", "cli"}
  /\ chunkSize \in IF caller = "cli" THEN ChunkSizes ELSE {0}
  /\ ChainInit(StartHeight) /\ (caller = "cli" => known = {})
  /\ chunks = <<>> /\ results = <<>> /\ exit = "starting" /\ printed = Nothing
  /\ SessionInit(StartHeight, EndHeight)

\* startSync scans the range it is given; the command its chunks, up to --end-height
\* or the tip of the chain.
StartSync ==
  /\ caller = "startSync" /\ exit = "starting"
  /\ chunks' = <<<<StartHeight, EndHeight>>>> /\ exit' = "scanning"
  /\ UNCHANGED <<sessionVars, caller, chunkSize, results, printed>>

SessionOf(range) ==
  /\ current' = [s |-> range[1], e |-> range[2], attempts |-> 0]
  /\ queue' = <<current'>>
  /\ status' = "idle" /\ combined' = <<>> /\ requests' = 0
  /\ report' = <<>> /\ reportKnown' = {}
  /\ UNCHANGED chainVars

StartChunks ==
  /\ caller = "cli" /\ exit = "starting" /\ chunkSize > 0
  /\ chunks' = BuildChunks(StartHeight, chunkSize) /\ exit' = "scanning"
  /\ SessionOf(chunks'[1])
  /\ UNCHANGED <<caller, chunkSize, results, printed>>

\* --chunk-size 0, or no tip.
Refuse ==
  /\ caller = "cli" /\ exit = "starting"
  /\ exit' = "failed"
  /\ UNCHANGED <<sessionVars, caller, chunkSize, chunks, results, printed>>

Chunk == Len(results) + 1

SessionStep ==
  /\ exit = "scanning" /\ Chunk <= Len(chunks)
  /\ SessionNext
  /\ UNCHANGED callerVars

\* blocks_scanned, of a session and of all of them.
BlocksScanned == FoldSeq(LAMBDA n, sum : n + sum, 0, [i \in DOMAIN combined |-> BlockCount(combined[i])])
BlocksMerged == FoldSeq(LAMBDA n, sum : n + sum, 0, [i \in DOMAIN results |-> results[i].blocks])

\* A session has ended. The command goes on with the next chunk even if it failed:
\* buffer_unordered(1) collects the results of all.
SessionEnds ==
  /\ exit = "scanning" /\ Chunk <= Len(chunks) /\ status \in {"ok", "err"}
  /\ results' = Append(results, [chunk |-> Chunk, ok |-> status = "ok", transactions |-> report,
                                 blocks |-> BlocksScanned])
  /\ IF Chunk < Len(chunks) THEN SessionOf(chunks[Chunk + 1]) ELSE UNCHANGED sessionVars
  /\ UNCHANGED <<caller, chunkSize, chunks, exit, printed>>

\* Mutant: the chunks that failed are left out.
MergeWhatSucceeded ==
  /\ exit = "scanning" /\ Chunk > Len(chunks)
  /\ exit' = "ok"
  /\ printed' = [transactions |-> FlattenSeq([i \in DOMAIN results |->
                    IF results[i].ok THEN results[i].transactions ELSE <<>>]),
                 blocks |-> BlocksMerged]
  /\ UNCHANGED <<sessionVars, caller, chunkSize, chunks, results>>

\* All chunks in their order. The first error ends the command, and nothing is printed;
\* startSync has passed on what its session emitted before it failed.
Merge ==
  /\ exit = "scanning" /\ Chunk > Len(chunks)
  /\ IF \A i \in DOMAIN results : results[i].ok
     THEN /\ exit' = "ok"
          /\ printed' = [transactions |-> FlattenSeq([i \in DOMAIN results |-> results[i].transactions]),
                         blocks |-> BlocksMerged]
     ELSE /\ exit' = "failed"
          /\ printed' = IF caller = "cli" THEN Nothing
                        ELSE [transactions |-> results[1].transactions, blocks |-> 0]
  /\ UNCHANGED <<sessionVars, caller, chunkSize, chunks, results>>

CallersNext == StartSync \/ StartChunks \/ Refuse \/ SessionStep \/ SessionEnds \/ Merge
CallersSpec == CallersInit /\ [][CallersNext]_allVars /\ WF_allVars(CallersNext)

-----------------------------------------------------------------------------
(* Properties *)

TxidsReported(txs) == {txs[i].txid : i \in DOMAIN txs}

\* What is owed whichever way the blocks lo..hi are cut: the transactions that pay us
\* or spend a note the caller passed as known. (One that only spends a note received
\* in lo..hi is found when the two fall in the same cut.)
OwedTxids(lo, hi) ==
  {t \in TxidsIn(lo, hi) \ undecodable :
     Matches(TxOf(t)) \/ SpendsAny(TxOf(t)) \cap known # {}}

\* The transactions txs are what a scan of lo..hi owes: all of those, none of another
\* block, in the order of the blocks and without repetition.
Owed(txs, lo, hi) ==
  /\ TxidsReported(txs) \subseteq TxidsIn(lo, hi)
  /\ OwedTxids(lo, hi) \subseteq TxidsReported(txs)
  /\ \A i, j \in DOMAIN txs : i < j =>
       txs[i].txid # txs[j].txid /\ txs[i].txid[1] <= txs[j].txid[1]

\* What is reported is right, wherever the chunks and the retries cut the range: a
\* transaction is one of ours, and a note marked as spent is spent in the range.
ReportSound ==
  \A txs \in {report, printed.transactions} : \A i \in DOMAIN txs :
    /\ txs[i].txid \in ExpectedTxids(StartHeight, EndHeight)
    /\ \A p \in Pools : \A n \in txs[i].notes[p] :
         n.isSpent => n.nf \in SpentIn(StartHeight, EndHeight, p)

\* The last height that the session has scanned, which began at from.
ScannedTo(from) == IF combined = <<>> THEN from - 1 ELSE combined[Len(combined)].e

\* At any time, and when a session fails at last, what it reported (startSync has
\* passed it on to JavaScript) is what is owed for the blocks it has scanned, and so
\* are the spends of known notes: splitting and retrying reports no transaction
\* twice, though the sub-scans that failed had looked at the same blocks.
ReportMatchesPrefix ==
  exit = "scanning" /\ Chunk <= Len(chunks) =>
    LET from == chunks[Chunk][1]
        to == ScannedTo(from)
    IN Owed(report, from, to) /\ reportKnown = ScanReportKnown(from, to)

\* A call that succeeds leaves what is owed for its whole range, and has counted each
\* of its blocks once, though the range was cut into chunks. A command that fails
\* leaves nothing, whichever chunks succeeded; a startSync that fails has passed on
\* exactly what is owed for the blocks it scanned, so that a call for the others
\* completes it.
PrintedIsComplete ==
  /\ exit = "ok" => /\ Owed(printed.transactions, StartHeight, EndHeight)
                    /\ printed.blocks = EndHeight - StartHeight + 1
  /\ exit = "failed" /\ caller = "cli" => printed = Nothing
  /\ exit = "failed" /\ caller = "startSync" =>
       Owed(printed.transactions, StartHeight, ScannedTo(StartHeight))

-----------------------------------------------------------------------------
(* What the documentation says and the code does not do *)

\* sync.rs, is_spent: "True if this note was spent in a subsequent block within
\* the scanned range."
DocIsSpent ==
  caller = "startSync" /\ exit = "ok" =>
    \A i \in DOMAIN printed.transactions : \A p \in Pools :
      \A n \in printed.transactions[i].notes[p] :
        n.nf \in SpentIn(StartHeight, EndHeight, p) => n.isSpent
=============================================================================
