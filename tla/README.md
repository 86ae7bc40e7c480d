# A TLA+ model of ledger-zcash-utils

The repository is a set of Rust crates with which a hardware-wallet application
scans the Zcash chain through a lightwalletd server for the notes of an account,
and crafts, finalizes and broadcasts shielded and transparent transactions.
This directory holds TLA+ modules of its state machines, TLC configurations that
check them on small instances, and proofs that TLAPS checks for all instances.

Paths below are relative to `src/crates/`. `PROJECT.json` maps every definition
to the lines it models and lists components, runs, findings, hazards and theorems.

## 1. Inventory

| Part | Source | State | Operations | What is hard |
|---|---|---|---|---|
| Retrying scan | `zcash-sync/src/sync.rs` `run_sync` | queue of (start, end, attempts), `combined` | pop, scan, back off, split, give up | a range is scanned again after it failed half way; splitting must lose and repeat nothing; requests must stay bounded |
| Scan of a range | `sync.rs` `run_sync_inner` | in-flight blocks, block results, our nullifiers, transactions | pull, trial-decrypt, collect; fetch (Phase 2), find spends (Phase 4), mark (5), emit (6) | out-of-order completion, HashMap order, undecodable transactions, malformed compact actions, two pools with separate nullifiers, tree positions |
| CLI | `zcash-cli/src/main.rs` | accumulated results of chunks | `cmd_sync` calls `run_sync` per chunk, then merges | a chunk fails among others; what a chunk finds is unknown to the next |
| FFI stream | `zcash-ffi-node/src/lib.rs` | tokio task, unbounded channel, oneshot, handle | `start_sync`, `next`, `stats`, `cancel` | three actors; abort acts only at an await |
| Height by time | `zcash-sync/src/client.rs` | bracket and its times | probe, then stream | unsigned differences, progress of the interpolation, irregular block times |
| Transaction details | `client.rs`, `zcash-crypto/src/fee.rs`, `payee.rs` | fetches in flight, results | `transaction_details`: fetch, price, decrypt, sort | concurrent fetches complete in any order, some fail; a fee spans all pools |
| Witnesses, anchors | `zcash-sync/src/witness.rs`, `zcash-crypto/src/tree.rs` | tree state at the anchor, shard roots at the tip, leaves | resolve the anchor, search the first leaf, read the blocks of a shard, slice, assemble | shards end inside blocks; the chain grows between requests |
| Crafting | `zcash-sync/src/craft.rs` | none between calls | check, query the tip, witnesses, build | checks made at different times have to agree |
| Builder | `zcash-crypto/src/craft.rs`, `circuit.rs`, `network.rs` | the PCZT while it goes through its roles | amounts, change, fee, expiry, stamps, proof, redaction | upgrades and fee changes between quoting, crafting, signing and broadcasting; the order of the roles; shuffled dummies |
| What the device sees | `zcash-crypto/src/parse.rs`, `lib.rs` | none | `parse_pczt` | a field that was redacted or never stamped |
| Finalize, broadcast | `zcash-crypto/src/finalize.rs`, `client.rs` | none | count, normalise and verify signatures, verify the proof, send | signatures are matched by position; the proof is verified minutes after it was made |
| Software signer | `zcash-crypto/src/testing.rs` | none | derive keys, sign what is unsigned | has to follow the paths the builder stamped |
| Keys | `zcash-crypto/src/keys.rs` | none | derivation of viewing keys and addresses | data, not control |

How they interact: JavaScript calls `start_sync`, whose task runs `run_sync` (the
CLI runs it directly, once per chunk), which calls `run_sync_inner` once per range;
every transaction goes to a callback that feeds the stream's channel. A send calls
`craft_transaction` or `craft_ironwood_transaction`, which ask the server for the
tip and the witnesses (`witness.rs`) and call the builder; the host shows the PCZT to
the device with `parse_pczt`, collects its signatures, and `finalize_transaction` and
`broadcast_transaction` end it. Nothing is persisted: there is no crash recovery in
this repository, only errors that end a call.

## 2. Modules

| Module | Models | Uses |
|---|---|---|
| `PrefixScan` | the promise of a scan: results for ever longer prefixes, then Ok or an error (abstract) | |
| `RetrySync` | `run_sync` with the outcome of each scan left open; implements `PrefixScan` | `PrefixScan` by INSTANCE |
| `ShieldedChain` | the blocks a server streams (external), which of their actions are ours, and what a scan should find | |
| `ScanRange` | one `run_sync_inner` call | `ShieldedChain` |
| `SyncSession` | `RetrySync` composed with what `ScanRange` is proved to report of a range | `RetrySync`, `ShieldedChain` |
| `SyncCallers` | the callers of a session: `startSync` and the chunk loop of `cmd_sync` | `SyncSession` |
| `TransactionStream` | the FFI stream over a scan that emits bursts | |
| `BlockHeightSearch` | `find_block_height`, `find_in_range` | |
| `TransactionDetails` | `transaction_details` with `fetch_and_read`, `transaction_fee`, `outgoing_payees` | |
| `ShardWitness` | `compute_witnesses_for_pool`, `fetch_anchor_for_pool`, `build_witnesses` | |
| `SendFlow` | a send from request to broadcast: heights, upgrades, fee, proof | |
| `Networks` | networks, their upgrades and their fees | |
| `Pczt` | external: a PCZT and its roles, as the `pczt` and `orchard` crates have them | |
| `PcztBuild` | `build_transaction`, `build_ironwood_transaction` | `Pczt`, `Networks` |
| `PcztSign` | `parse_pczt`, the software signer, `finalize_transaction` | `Pczt` |
| `PcztFlow` | the exports of the FFI crate that move a PCZT between host and device | `PcztBuild`, `PcztSign` |
| `MC*` | the instances for TLC | |
| `FoldLemmas` | induction through sets, the sums the modules write as folds, lists of positions, orders of a set | TLAPS |
| `SyncProofs` | theorems of `RetrySync` and `SyncCallers` | `SyncCallers`, `FoldLemmas`, TLAPS |
| `ClientProofs` | theorems of `BlockHeightSearch` and `TransactionDetails` | these, `FoldLemmas`, TLAPS |
| other `*Proofs` | the theorems of the module of that name | the module, `FoldLemmas`, TLAPS |

`RetrySync` and `PrefixScan`. One action per arm of the loop. `pending` (the
range in hand and the queue) and `combined` are what the properties relate. With
`max_retries = 0` the code skips the queue and calls the scan directly; a queue
with one entry and no attempts has the same outcomes.

`ShieldedChain` and `ScanRange`. A note of ours is named by the nullifier that
will spend it; an action spends one and creates one, or neither is ours, or it pays
a note of ours to somebody else. Two notes of different pools may have the same
nullifier, as the two domains are separate. `ValidChain` is consensus: a nullifier is
revealed once per pool, after its note. A transaction may be undecodable in full
although its compact form matched, and an action may have a malformed compact form
although the transaction decrypts. Which pools are scanned comes from the viewing key
and from `orchard_only`. The server delivers the blocks of a range in order, or the
stream breaks. Each phase is a value of `pc`; one fetch is one action, because another
block or request may complete between two; the sort, Phase 5, Phase 6 and the
result are one action, because no await separates them.

`SyncSession` and `SyncCallers`. A successful scan gives one of `ScanReports` (in
`ShieldedChain`): the transactions that the range owes, by height, the order within a
block being open (`sort_unstable_by_key`), each with its notes, marked by what the same
range reveals (`Row`). `ScanRangeProofs` proves that a scan gives nothing else
(`SessionMayRely`). The code's limits are kept: a sub-scan knows the *original* known
nullifiers only, and the command passes none. The command runs one session after
another (`buffer_unordered(1)`), also after one has failed, and merges at the end.

`TransactionStream`. The task is aborted only where it awaits, at its sub-scans;
a burst of `on_transaction` calls contains no await. The receiver is closed by
`cancel`, whatever the task does. `accepted` is a history variable.

`BlockHeightSearch`. The server answers with any block times.

`TransactionDetails`. A transaction is its transparent inputs and outputs, the
balance of each shielded bundle, and its shielded outputs: who made each and whom it
pays. The values of the inputs are the caller's, so that they may be missing, wrong
or beyond the supply. `failed` is a history variable.

`ShardWitness`. A leaf is named by its absolute position, so that "the leaves of
shard s" is an interval, and a slice is right when it holds that interval. The
tree state is asked for at the anchor, the subtree roots at the tip, and
`ChainGrows` may come between any two requests. A hash stands for the leaves below
it: a path leads to the anchor when the leaves it is computed from are those of the
chain. The roots of completed shards and the frontier come from the server and go
into the `ShardTree`, which is external.

`SendFlow`. Keys, addresses and proofs are reduced to what the checks tell
apart, amounts to small numbers, upgrades to the three that matter (NU5, NU6.3,
NU7). `quoted` is the height for which the wallet chose the fee. `Mine` may
happen at every step. Both flows (`v5`, `v6`) share their actions; where they
differ, the operators take the request. The node is external: it wants an expiry
that is not near, and the consensus branch of its next block. Orchard change of a
v5 send after NU6.3 is allowed and ordinary Orchard outputs are not, as in the
library that the builder calls. A transparent account key that does not parse
is one more reason for refusal by `WellFormed`, not told apart from the others.
A fee has to pass two checks: `caller_marginal_fee`, which counts actions as
`zip317_fee_at` does, and the cross-check with `Builder::get_fee`, which is external.
What it counts (`BuilderShieldedActions`) is taken from the comment of
`add_orchard_change`: from NU6.3 on, change is paired with a fabricated spend, so that
a bundle has as many actions as spends and change together.

`PcztFlow`. Where `SendFlow` follows one send through time, `PcztFlow` follows the
contents of a PCZT: who can sign which action, with which path, over which effects. A
key of the wallet is its path, a signature is who signed what (`Effects`: the fields
the sighash covers), and a build is the *set* of PCZTs it may give, one for each place
of the dummies. The roles of a PCZT (Creator, Updater, IoFinalizer, Prover, Redactor,
Signer, SpendFinalizer, Extractor) are external operators of `Pczt`, applied in the
order the code applies them. The host may craft the same send twice, and may hand the
lists of signatures on damaged, shortened, repeated, exchanged between the pools or to
the wrong PCZT. The device is external, as the comments of `craft.rs` describe it: it
wants the purpose and the coin type of its own network in every path. It signs on the
main and the test network; on regtest, where the header keeps coin type 1 and a real
device would refuse, the software signer does.

Mutants. Definitions marked `mutant` are not part of any specification: each is a
plausible bug of the definition after it, and the property it is listed with
fails when it takes that definition's place.

## 3. Runs

| Run | Instance | Shows |
|---|---|---|
| `RetrySync` | 11 blocks, 6 retries | Odd ranges at each level, split down to one block, where `CannotSplit` gives up. `Partition`: scanned ranges tile a prefix, pending ones the rest, in order. `RequestsWithinBlocks`: at most 2n-1 scans of n blocks. `BackoffBounded`: `2u64.pow(attempts)` cannot overflow for `u32` heights. `ImplementsPrefixScan`: refinement, with liveness. `Terminates`. |
| `SyncCallers` | 8 blocks, in one chunk or in three, 2 retries, two pools, 0 or 1 undecodable transaction, change with a malformed compact form | Attempts run out at ranges of two blocks. `ReportMatchesPrefix`: what was reported is right, ordered and without repetition for the prefix scanned, also after a final failure. `ReportSound`. `PrintedIsComplete`: a call that succeeds leaves each transaction of its range that pays us or spends a note passed as known, once and in order, and has counted each block once; a command that fails prints nothing, and a `startSync` that fails has passed on what is owed for the blocks scanned before. |
| `ScanRange` | 3 blocks after 1 of earlier scans, pipeline of 2, 0 or 1 undecodable transaction, with and without Sapling, a key without Orchard | The chains that consensus allows out of 180 combine receipts, pure spends, spends with change, payments to others, malformed actions, migrations between pools, blocks without metadata. Each order of completion and of Phase 4. `ResultExact`, `SpentFlagsExact`, `PositionsExact`, `Terminates`. |
| `TransactionStream` | sub-scans of 2, 0 and 1 transactions, 1 retry | `NothingLostInChannel`: order and completeness of the channel, whenever `cancel` comes. `StatsOkComplete`: success of `stats()` means that all transactions were sent; after a `cancel` that the task outran, only of the last sub-scan some may be missing, never an earlier batch. `CallsReturn`. |
| `BlockHeightSearch` | 9 blocks, 2 below the floor, streamed from brackets of 2; 8 chains, timestamps 0..20 | `Bracket` (no unsigned wrap), `NeverLater`, `LatestWhenIncreasing`, `Terminates`. |
| `ShardWitness` | 6 blocks, shards of 4 leaves, 4 lists of notes, anchors at every height and relative to the tip | Shards that end inside a block, at its end, two in one block, empty first blocks, a wrong note, an anchor above the tip. `LeavesAligned`, `LeavesComplete`, `NoSpuriousFailure`, `Terminates`. |
| `SendFlow` | upgrades at and around 9, fee change at 12, margins 1 and 2, up to 5 blocks mined; change beside one spend and beside two | Every phase of a send falls before, at and after an activation, within and after the margins. `WindowWithinBranch`, `AcceptedAfterSigning`, `RefusedOnlyNearActivation`, `ProofVerifies`, `ValueConserved`. `FeeQuoteHonoured`: a fee that was standard when quoted is refused only by the cross-check, and there only for a v5 send past NU6.3 with several Orchard spends and change. `FeeNotBelowStandard`: at least the standard fee for the actions the builder makes. |
| `PcztFlow` | 11 shapes of a send over three networks and five upgrades, four variants and 28 faulty requests; each send crafted up to twice | Every place of the dummies, both formats, change in every pool, a second build. `Signable`, `ChangeRecognised`, `BalancedAndCounted`, `HonestAnswersFinalize`, `ExtractedAsApproved`. |
| `TransactionDetails` | 5 transactions, calls of up to 4 requests, 2 in flight, three kinds of viewing key | Repeated requests, missing, wrong and absurd prevout values, unknown and unreadable transactions, fetches failing in any order. `FeeExactOrUnknown`, `PayeesAreOthers`, `FailuresIsolated`, `CallEnds`. |

Bounds: `MaxMined` (SendFlow), `MaxHeight` (ShardWitness), `MaxUndecodable`
(ShieldedChain), `MaxCrafts` (PcztFlow). The other constants are parameters of the code
(`Hardened`, `MaxMoney`, `MaxU64` and `U32` are its integer limits, made small).
`requests` and `failures` are bounded by what the code itself bounds. They are large
enough for each case above to occur: shards of four leaves end inside, between and
at the ends of blocks; two crafts are the fewest that can be confused; eight blocks
split twice leave ranges of two, and three chunks leave a first, a middle and a short
last one; three scanned blocks hold a receipt, its spend with change and the spend of
that change.

Some limits of what these properties say. A transaction whose compact form is
malformed and which is fetched only because it spends a note of ours is reported with
its new notes, but Phase 4 keeps no nullifiers of what it fetches: a later spend of
such a note is not looked for, and `SpentFlagsExact` speaks of the notes that trial
decryption finds. `PrintedIsComplete` speaks of chunk sizes that do not wrap around in
`u32` (`NoWrapAssumption`), and asks of a transaction that only spends notes unknown to
the call, found by an earlier half or chunk, nothing: the code misses it
(`SyncCallers_DocIsSpent`). A compact nullifier of a wrong length, which
`sync.rs:937-958` drops, does not occur. Transparent outputs are priced by their number,
as `zip317_fee_at` does; the builder prices their size, so that it would ask less for
seventeen or more P2SH outputs, and the cross-check would refuse the send.

Three runs check a line of the documentation or of a test and end in a violation:

| Run | What happens |
|---|---|
| `SyncCallers_DocIsSpent` | a note received in one half of a split range and spent in the other is not marked (and the spending transaction may be missing, against sync.rs:496). The chains of this run have no malformed and no undecodable transactions (`MCPlainChains`), so that the split is the only cause |
| `ScanRange_DocDiagnosticsStopped` | a broken stream leaks the diagnostic task |
| `SendFlow_DocExactBalance` | an exact-balance transparent send without an account key is refused |

Other divergences met while modelling, not given a run:
- `craft.rs:673` of zcash-crypto says of the cross-check with the builder's fee that it
  "should never fire". A v5 send past NU6.3 with several Orchard spends and change is
  refused by it, with "fee mismatch", at every fee that `caller_marginal_fee` accepts,
  if the builder counts as the comment of `add_orchard_change` says (its source is not
  in the repository). The test at craft.rs:3165 has one spend, for which both counts are
  two. `FeeQuoteHonoured` says that this is the only case.
- `sync.rs:240` says an error is returned when all retries are exhausted; a transient
  error on a range of one block ends the scan with attempts left (sync.rs:310).
- `sync.rs:81` says up to `2^max_retries` sub-requests; the tree of splits has up
  to `2^(max_retries+1) - 2` below its root.
- `sync.rs:62` says `on_block_done` is called once per block; blocks of a failed
  sub-scan count again when its halves are scanned.
- `zcash-ffi-node/src/lib.rs:163` says `stats()` returns an error after `cancel()`; past
  the last await of the scan the task completes and `stats()` succeeds.
- `lib.rs:34` says `max_retries` defaults to 3; `run_sync` takes `None` for 0.
- `lib.rs:260` says a timestamp before genesis gives the genesis height; the search
  starts at the Orchard activation height.
- `lib.rs:908` says that a transaction that cannot be fully priced has a null fee and no
  payees; one whose prevout value is missing has a null fee and its payees.
- `lib.rs:589`, `zcash-sync/src/craft.rs:572` and `zcash-crypto/src/craft.rs:1222` say
  that the change of an Ironwood send always goes to Ironwood; from transparent inputs
  alone it goes to a transparent address.
- `client.rs:99` says "the latest block"; among blocks of equal time, or when times
  go back, it may not be the latest (`LatestWhenIncreasing` is what holds).
- `witness.rs:415` says `cap_roots` holds completed shards only, the frontier's root
  coming from the frontier; shards completed after the anchor are in it too.
- `zcash-cli/src/main.rs:139` says that the chunk size defaults to 5 000; it is 10 000.
  A `--chunk-size` near 2^32 wraps in `build_chunks` (there are no overflow checks in
  the release build), so that inverted ranges are asked for first. The balance summary
  leaves out Ironwood notes.
- `zcash-crypto/src/decrypt.rs:193` dates ZIP 212 at the Heartwood height of the main
  network (903 800); it took effect with Canopy (1 046 400). The Sapling plaintexts of
  the old form in blocks 936 056 to 1 046 399 are taken for invalid.

## 4. Fairness

- `RetrySync`, `ScanRange`, `SyncCallers`: `WF` of the next-state action. An await ends:
  the sleep is a timer, trial decryption a computation, and a request is answered or
  fails. `run_sync_inner` itself sets no timeout on a stream: a server that never
  answers is excluded.
- `TransactionStream`: the runtime polls the task and wakes pending calls; nothing
  obliges the caller to call `next`, `stats` or `cancel`.
- `TransactionDetails`: `WF(Next)`. Each request has a timeout (`UNARY_TIMEOUT`), so it
  is answered or fails.
- `BlockHeightSearch`, `ShardWitness`: fairness on the answered requests only, so
  that `Terminates` does not rely on a failing one.
- `SendFlow` and `PcztFlow` have none: their properties are safety.

## 5. Proofs

Everything below holds for every value of the constants under the named ASSUME of each
module (which TLC evaluates on every run).

`FoldLemmas` carries what the others share. The theorems of the library state induction
for an operator, which the provers cannot instantiate; but they state for *sets* that
naturals and finite subsets are well-founded, and a set of counterexamples is
enough (`SetInduction`, `SubsetInduction`). From there: the recursive functions that
`FoldFunction` and `Pow2` choose exist, the sum of a sequence is the last of its
prefix sums (`PrefixSums`, `TotalPrefixSums`), it does not depend on the order
(`SumExchange`, `SumRenamed`, `TotalOfShuffled`), it is additive (`SumSplits`,
`TotalOfConcat`), and there is one ascending list of the positions in a finite set
(`ListExists`, `ListIsComplete`).

- `RetrySync`. Assumption: heights and `max_retries` are naturals, start <= end.
  `Partition` needs more to be inductive: `TypeOK`, the attempts bound, that a
  backing-off range has attempts left, the count `requests + Len(queue) =
  2 * (scanned + pending) - 1` (`RequestsExact`: the scans made are nodes of a
  binary tree whose leaves are the ranges), and that a list of non-empty adjacent
  ranges is no longer than the blocks it spans (`Spaced`). They give type
  correctness, `Partition`, `AttemptsBounded`, `RequestsWithinBlocks` and the safety
  part of the refinement of `PrefixScan`: a successful scan maps to `Deliver`, the
  end to `Succeed`, an error to `GiveUp`, everything else to a stutter.
  `BackoffBounded` follows from `BackoffInv`: for every range on the queue,
  `2^attempts` times one less than its length is less than twice what was asked for,
  which halving preserves; `BackoffBounded` alone does not survive a split.
  `RetriesProgress` bounds a scan of n blocks by 6n steps: three for each request.
- `SyncSession` and `SyncCallers`. Any chain, viewing key and set of undecodable
  transactions, any chunk sizes that do not wrap (`NoWrapAssumption`), a range within
  the chain. `SessionInv(lo, hi)` says of a session what `IInv` says of a scan, for the
  range it was called with (which `RetrySync` alone takes to be the constant one), and
  that its report is what is owed for the blocks up to `Upto(lo)`. A step keeps it
  because what two adjacent ranges owe, one after the other, is what their union owes
  (`OwedConcat`: in order and without repetition, since a txid has one height), and
  because a failed sub-scan adds nothing. `CallersInv` adds that the chunks tile the
  request (`ChunksTile`, by descent through the recursion of `build_chunks`), that each
  result is that of its chunk, and that the merge, a concatenation and a sum, is that of
  the request (`MergedIsOwed`, `MergedBlocks`). `ReportSound`, `ReportMatchesPrefix` and
  `PrintedIsComplete` follow; `StartSyncLeft` keeps what a `startSync` that failed has
  passed on. `ReportSound` does not say that every spent note is
  marked, which is false of this code (`SyncCallers_DocIsSpent`).
- `BlockHeightSearch`. Any block times, any floor >= 1. The interpolated height
  lies strictly inside the bracket (a lemma on `Est`), which makes `Bracket`
  inductive with the facts on the ends at each `pc` (`Ends`), on the blocks already
  streamed (`Scanned`) and on the result (`Final`). `NeverLater` and
  `LatestWhenIncreasing` follow. The same lemma makes every probe progress
  (`SearchProgresses`: at most 2n + 6 steps).
- `TransactionDetails`. Any transactions, any calls, any pipeline depth.
  `MinedAssumption` is consensus: a mined transaction has a fee and spends no more
  than the supply. `DetailsInv` says that what was started is in flight or done, that
  what is done has one outcome, which depends on its own request only (`Outcome`), and
  is kept once, and that an answer is complete. An answer sorted by position, of
  positions that are distinct and all of `1..n`, is in the order of the requests
  (`IncreasingIsIdentity`). An outcome has the true fee when all values are given and
  right (`FeeIsTrue`: the order in which the pools are added does not matter) and the
  payees of its transaction only (`PayeesArePaid`). `FeeExactOrUnknown`,
  `PayeesAreOthers` and `FailuresIsolated` follow. Every step leads to the end, a fetch
  that fails too (`DetailsProgress`). `sort_by_key` and the filter of the payees are
  stated by what they return, since the provers know nothing of an algorithm.
- `SendFlow`. Any schedule of upgrades, fee and margins such that the default
  expiry is at least the minimum validity. The invariant says what a crafted
  transaction is for (`Built`: its branch is that of the target, its expiry is
  capped below the next activation and leaves the minimum validity) and what a
  reason for failure implies (`Failure`). `WindowWithinBranch`,
  `AcceptedAfterSigning`, `RefusedOnlyNearActivation` and `ProofVerifies` follow.
  For the amounts, `AmountInv` remembers the check that a build passed. An accepted
  marginal fee covers the standard one (`AcceptedCoversStandard`), wherever ZIP 2009
  activates between the quote and the build, and the two prices of a fee differ only
  where change is counted apart from one of several spends (`PricesAgree`):
  `FeeQuoteHonoured` and `FeeNotBelowStandard` follow; `ValueConserved` is the builder's sum of
  a list of amounts (`Totals`, `ChangeExact`) compared with what it crafts.
- `TransactionStream`. Any batches, any number of retries. `NothingLostInChannel` is
  inductive with the fact that a stream that has ended has an empty channel which
  nothing can enter (`EndedForGood`). `StatsOkComplete` needs how much the task has
  sent at each point of the scan (`SendsAll`: the sum of the batches before this
  one, and this one but for what is left), that a `cancel` can only take from a burst
  that has begun (`SendsMost`) and that a result travels unchanged from
  the task through the oneshot to the call (`ResultTravels`).
- `ShardWitness`. Any tree sizes that do not shrink, any shard size, any lists of
  notes. One conjunct per stage of the computation: the anchor is on the chain and the
  notes are in its tree (`AnchorInv`), each listed shard ends in its block though
  the list is taken at a later tip (`RootsInv`), every shard of a note is fetched or
  still needed (`NeededInv`), the binary search keeps the first leaf between its ends
  (`SearchInv`), the scan starts no later than the first leaf of the shard (`ScanInv`).
  `LeavesAligned`, `LeavesComplete` and `NoSpuriousFailure` follow.
- `ScanRange`. Any chain that `ValidChain` admits, any viewing key and pipeline depth.
  `ChainAssumption` says that the heights are an interval and that a chain is one of
  blocks. The invariant has one part for each phase: the heights in flight and
  trial-decrypted are those pulled (`StreamInv`); the transactions listed are the
  matched ones that need not be fetched any more, in the order of the chain
  (`Phase2Inv`); with the spenders added, in no order (`Phase4Inv`); the result,
  sorted and marked (`OkInv`). That a note is revealed after it is received, which is
  consensus, makes marking exact; `ResultExact`, `SpentFlagsExact` and
  `PositionsExact` (a sum over the blocks before the note) follow. So does
  `SessionMayRely`: what a scan hands over, less the positions and the notes that we
  paid, is one of the `ScanReports` that `SyncSession` takes a sub-scan to give (the
  undecodable transactions and the known notes being those of the sub-scan's range and
  of the blocks below it). The sort is
  stated by `SortedBy`, what a stable sort does, since the provers know nothing of
  an algorithm.
- `PcztFlow`. Any requests whose fields have their types, any networks, any number of
  builds and any order the builder draws for its actions. What a build gives is
  described once (`BuiltFor`: its parts are those of the request, its actions are its
  spends, outputs and dummies, paired in some order, `Assembled` and `Holds`), and
  everything follows from that: it parses and is accepted (`BuiltIsAccepted`,
  `BuiltIsTestSigned`), its derivations are those of the wallet's own outputs
  (`BuiltRecognises`), its values balance (`BuiltBalances`). The invariant of
  host and device, `FlowInv`, says that every PCZT kept was built for the send, that
  every answer is honest for the build it names, and that the last call was made of
  one of the answers, handled in some way. `HonestFinalizes` shows that honest lists
  make a transaction; `OnlyTheApproved` that nothing else does: whatever finalizes is
  in place (`FinalizedIsRequired`), a signature is over the effects of one PCZT, a
  transaction has one at least (`SomethingIsSigned`), and PCZTs of equal effects want
  the same signatures (`SameUnsigned`).

Every safety property that a run checks is a theorem. Model-checked only:
- liveness (`Terminates`, `CallsReturn`, `CallEnds`, the fairness of the refinement),
  since the provers do not treat ENABLED. For `RetrySync`, `BlockHeightSearch` and
  `TransactionDetails` a theorem gives the part that is not about fairness: each step
  lowers a natural number, so that only a deadlock could keep them from ending, which
  TLC excludes on the instances. For `ScanRange`, `ShardWitness`, `SyncCallers` and
  `TransactionStream` there is no such theorem.

## 6. Not modelled

- Cryptography: derivation, decryption, proofs and hashes are what they decide; the
  ZIP 212 window, which decides which Sapling plaintexts are accepted; memos and
  amounts of scanned notes.
- Parsing and formatting: hex, addresses, amounts beyond their range, error texts, the
  field-by-field conversions of the FFI crate, the tables of the CLI. Which texts
  `is_retryable_error` takes for transient is data: both outcomes are possible.
- Exports and commands that pass one call on (`getChainTip`, `orchardAddressFromUfvk`,
  `testDeriveKeys`, the CLI's `derive` and `block-height`), and `compute_shard_root`,
  which only tests call.
- The proving-key caches, initialised once.
- Chain reorganisations: default anchors are ten blocks deep, and a witness that does
  not lead to the anchor is refused.
- Streams that end early without an error, which the code takes for complete; servers
  that never answer a range request, which has no timeout; the answer of a broadcast
  that is lost, beyond the error it causes.
- A stream object that JavaScript drops without `cancel`, whose task runs to its end,
  and calls of JavaScript that alias the `&mut self` of `unsafe` methods.

## 7. Plan

1. Done: the scan and its callers (`RetrySync`, `ScanRange`, `SyncSession`,
   `SyncCallers`), the stream, the height search, the details, the witnesses, the send
   and its PCZT; a theorem for every safety property of the runs; the link between a scan
   and the session that is composed of scans.
2. What could follow: counts of the steps left for `ScanRange` and `ShardWitness`, whose
   phases make them lexicographic; a model of a wrapping `build_chunks`, should the
   command ever check its `--chunk-size`.
