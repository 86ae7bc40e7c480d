--------------------------- MODULE ShieldedChain ----------------------------
(***************************************************************************)
(* The blocks a lightwalletd server streams, reduced to what the scan looks *)
(* at, and what a scan of some of them should find.  The chain is external  *)
(* to the repository: it is modelled from the CompactBlock fields that      *)
(* process_compact_block (crates/zcash-sync/src/sync.rs) reads.             *)
(***************************************************************************)
EXTENDS Integers, Sequences, FiniteSets, SequencesExt

CONSTANTS Heights,      \* the block heights of the chain, an interval
          Nullifiers,   \* the nullifiers that occur in it
          NoNullifier,  \* an action that is not about one of our notes
          Chains,       \* the chains to consider, functions on Heights
          Wallets,      \* the viewing keys and options to consider: [ufvk, orchardOnly]
          MaxUndecodable \* a bound on the number of undecodable transactions

Pools == {"orchard", "ironwood"}

VARIABLES chain,        \* the blocks, by height
          known,        \* params.known_nullifiers, decoded
          ufvk,         \* the keys that params.viewing_key has
          orchardOnly,  \* params.orchard_only
          undecodable   \* transactions that full_decrypt_tx_with_ufvk rejects

chainVars == <<chain, known, ufvk, orchardOnly, undecodable>>

(***************************************************************************)
(* An action spends nf and creates note; a note of ours is named by its own *)
(* nullifier.  The note may be one that we pay to somebody else, which our  *)
(* outgoing viewing key recovers from the full transaction, and the compact *)
(* form of the action may have a field of a wrong length.  A transaction    *)
(* has the actions of both pools and may have a Sapling output of ours.     *)
(* Two notes of different pools may have the same nullifier.  A txid is its *)
(* place in the chain, <<height, index>>.                                   *)
(***************************************************************************)
Keys == {"sapling", "orchard"}
Action == [nf : Nullifiers \cup {NoNullifier}, note : Nullifiers \cup {NoNullifier},
           paid : BOOLEAN, wellFormed : BOOLEAN]
Tx == [sapling : BOOLEAN, orchard : Seq(Action), ironwood : Seq(Action)]
Block == [txs : Seq(Tx), meta : BOOLEAN]

ASSUME ChainAssumption ==
  /\ Heights \subseteq Nat
  /\ \E first, last \in Heights : Heights = first .. last
  /\ Chains \subseteq [Heights -> Block]

TxidsOf(h) == {<<h, i>> : i \in DOMAIN chain[h].txs}
TxidsIn(lo, hi) == UNION {TxidsOf(h) : h \in lo .. hi}
TxOf(t) == chain[t[1]].txs[t[2]]

Spends(tx, p) == {tx[p][k].nf : k \in DOMAIN tx[p]} \ {NoNullifier}

\* map_orchard_family_output: the outputs of pool p that full decryption finds, by
\* the index of their action. One that we pay has no nullifier.
OutputsFound(tx, p) ==
  IF "orchard" \in ufvk
  THEN {k \in DOMAIN tx[p] : tx[p][k].note # NoNullifier \/ tx[p][k].paid} ELSE {}
Receives(tx, p) == {tx[p][k].note : k \in OutputsFound(tx, p)} \ {NoNullifier}
ReceivesAny(tx) == UNION {Receives(tx, p) : p \in Pools}
SpendsAny(tx) == UNION {Spends(tx, p) : p \in Pools}

\* derive_keys_with_options: the UFVK of a seed, of which Sapling may be dropped.
DerivedUfvk(includeSapling) == IF includeSapling THEN Keys ELSE Keys \ {"sapling"}

\* prepare_ivks: external and internal incoming viewing keys of each pool the key
\* covers, those of Orchard for Ironwood too.
HasIvks(p) == IF p \in Pools THEN "orchard" \in ufvk ELSE p \in ufvk

\* parse_compact_orchard_action: what cannot be parsed is left out, with a warning.
Parsed(tx, p) == {k \in DOMAIN tx[p] : tx[p][k].wellFormed}

\* trial_decrypt_block: some parsed output decrypts with one of our incoming viewing
\* keys.  The Sapling outputs are stripped from the block when orchardOnly.
Matches(tx) ==
  \/ \E p \in Pools : HasIvks(p) /\ \E k \in Parsed(tx, p) : tx[p][k].note # NoNullifier
  \/ tx.sapling /\ HasIvks("sapling") /\ ~orchardOnly

\* How many actions of pool p each transaction of block h has, and how many it has.
ActionCounts(h, p) == [i \in DOMAIN chain[h].txs |-> Len(chain[h].txs[i][p])]
ActionsOf(h, p) == SumFunction(ActionCounts(h, p))

\* The size of the commitment tree of pool p after block h.
TreeSize(h, p) ==
  SumFunctionOnSet([g \in Heights |-> ActionsOf(g, p)], {g \in Heights : g <= h})

(***************************************************************************)
(* Consensus: a nullifier is revealed once per pool, the notes of a pool    *)
(* have different nullifiers, and a spend refers to the tree of an earlier  *)
(* block, so that it comes at a greater height than its note.               *)
(***************************************************************************)
Places(p) ==
  {pl \in TxidsIn(Min(Heights), Max(Heights)) \X (1 .. 3) :
     pl[2] \in DOMAIN TxOf(pl[1])[p]}
ActionAt(pl, p) == TxOf(pl[1])[p][pl[2]]

ValidChain ==
  \A p \in Pools : \A a, b \in Places(p) :
    LET x == ActionAt(a, p)
        y == ActionAt(b, p)
    IN /\ a # b /\ x.nf = y.nf => x.nf = NoNullifier
       /\ a # b /\ x.note = y.note => x.note = NoNullifier
       /\ x.nf = y.note /\ x.nf # NoNullifier => b[1][1] < a[1][1]

\* The chain, and a wallet that scanned the blocks below lo in earlier sessions
\* and passes any of the notes received there as known.
ChainInit(lo) ==
  /\ chain \in Chains
  /\ ValidChain
  /\ \E w \in Wallets : ufvk = w.ufvk /\ orchardOnly = w.orchardOnly
  /\ known \in SUBSET UNION {ReceivesAny(TxOf(t)) : t \in TxidsIn(Min(Heights), lo - 1)}
  /\ undecodable \in {S \in SUBSET TxidsIn(lo, Max(Heights)) :
                        Cardinality(S) <= MaxUndecodable}

(***************************************************************************)
(* What a scan of the blocks lo..hi should report.                          *)
(***************************************************************************)
\* The notes it knows of: those of earlier scans and those received in lo..hi by a
\* transaction that trial decryption finds.
NotesKnown(lo, hi) ==
  known \cup UNION {ReceivesAny(TxOf(t)) :
                      t \in {u \in TxidsIn(lo, hi) \ undecodable : Matches(TxOf(u))}}

\* Every transaction that pays us, and every one that spends a note of ours.
\* (The second test is pool-agnostic by design.)
ExpectedTxids(lo, hi) ==
  {t \in TxidsIn(lo, hi) \ undecodable :
     Matches(TxOf(t)) \/ SpendsAny(TxOf(t)) \cap NotesKnown(lo, hi) # {}}

\* The nullifiers that pool p reveals in lo..hi.
SpentIn(lo, hi, p) == UNION {Spends(TxOf(t), p) : t \in TxidsIn(lo, hi)}

\* The leaf of the commitment tree of pool p that action k of t creates.
LeafIndex(t, p, k) ==
  TreeSize(t[1] - 1, p)
    + SumFunctionOnSet(ActionCounts(t[1], p), 1 .. t[2] - 1)
    + k - 1

\* Mutant: a note is marked as spent by the nullifiers of either pool.
RowAnyPool(t, lo, hi) ==
  LET revealed == UNION {SpentIn(lo, hi, p) : p \in Pools} \cap NotesKnown(lo, hi) IN
  [txid |-> t,
   notes |-> [p \in Pools |-> {[nf |-> n, isSpent |-> n \in revealed] : n \in Receives(TxOf(t), p)}]]
\* What a scan of lo..hi reports of transaction t: its notes, marked in their pool.
Row(t, lo, hi) ==
  LET revealed(p) == SpentIn(lo, hi, p) \cap NotesKnown(lo, hi) IN
  [txid |-> t,
   notes |-> [p \in Pools |-> {[nf |-> n, isSpent |-> n \in revealed(p)] : n \in Receives(TxOf(t), p)}]]

\* By height; sort_unstable_by_key leaves the order within a block open.
Orders(S) ==
  {txids \in SetToSeqs(S) : \A i, j \in DOMAIN txids : i < j => txids[i][1] <= txids[j][1]}

\* The reports that a scan of lo..hi may give.
ScanReports(lo, hi) ==
  {[i \in DOMAIN txids |-> Row(txids[i], lo, hi)] : txids \in Orders(ExpectedTxids(lo, hi))}

\* The notes of earlier scans that it reports as spent.
ScanReportKnown(lo, hi) == known \cap UNION {SpentIn(lo, hi, p) : p \in Pools}
=============================================================================
