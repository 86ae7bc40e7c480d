---------------------------- MODULE MCScanRange -----------------------------
(***************************************************************************)
(* An instance of ScanRange for TLC: one block of earlier scans, then three *)
(* blocks to scan.  The chains combine, over both pools and two nullifiers, *)
(* receipts, pure spends, spends with change, Sapling-only and unrelated    *)
(* transactions, several to a block.                                        *)
(***************************************************************************)
EXTENDS ScanRange

CONSTANT none

MCHeights == 1 .. 4
MCNullifiers == {1, 2}

MCWallets ==
  [ufvk : {DerivedUfvk(TRUE)}, orchardOnly : BOOLEAN]
    \cup [ufvk : {{"sapling"}}, orchardOnly : {FALSE}]

act(nf, note) == [nf |-> nf, note |-> note, paid |-> FALSE, wellFormed |-> TRUE]
pay(nf) == [act(nf, none) EXCEPT !.paid = TRUE]
malformed(a) == [a EXCEPT !.wellFormed = FALSE]
dummy == act(none, none)
tx(p, acts) ==
  [sapling |-> FALSE,
   orchard |-> IF p = "orchard" THEN acts ELSE <<>>,
   ironwood |-> IF p = "ironwood" THEN acts ELSE <<>>]

Receive(p, n) == tx(p, <<dummy, act(none, n)>>)
Spend(p, n) == tx(p, <<malformed(act(n, none))>>)
Change(p, n, m) == tx(p, <<pay(n), act(none, m)>>)
\* Change that trial decryption cannot see.
LostChange(p, n, m) == tx(p, <<act(n, none), malformed(act(none, m))>>)
Other(p) == tx(p, <<malformed(dummy)>>)
SaplingOnly == [sapling |-> TRUE, orchard |-> <<>>, ironwood |-> <<>>]
\* A migration from one pool to the other.
Migrate(n, m) == [sapling |-> FALSE, orchard |-> <<act(n, none)>>,
                  ironwood |-> <<act(none, m)>>]

blk(txs) == [txs |-> txs, meta |-> TRUE]
bare(txs) == [txs |-> txs, meta |-> FALSE]

EarlierBlocks == {blk(<<>>), blk(<<Receive("orchard", 1)>>)}
FirstBlocks ==
  {blk(<<>>), blk(<<Receive("orchard", 1)>>),
   blk(<<Other("ironwood"), Receive("ironwood", 1)>>),
   bare(<<Receive("orchard", 2)>>),
   blk(<<Receive("orchard", 2), Receive("ironwood", 2)>>)}
SecondBlocks ==
  {blk(<<SaplingOnly>>), blk(<<Spend("orchard", 1)>>),
   blk(<<Change("orchard", 1, 2), SaplingOnly>>),
   blk(<<Spend("ironwood", 1), Spend("orchard", 2)>>),
   bare(<<Other("orchard"), Migrate(1, 1)>>),
   blk(<<LostChange("ironwood", 1, 2)>>)}
ThirdBlocks ==
  {blk(<<Spend("orchard", 2)>>),
   blk(<<Spend("ironwood", 2), Spend("orchard", 1), Other("orchard")>>),
   blk(<<Other("orchard"), Receive("orchard", 1)>>)}

MCChains ==
  {<<a, b, c, d>> : a \in EarlierBlocks, b \in FirstBlocks,
                    c \in SecondBlocks, d \in ThirdBlocks}
=============================================================================
