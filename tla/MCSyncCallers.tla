--------------------------- MODULE MCSyncCallers ----------------------------
(***************************************************************************)
(* Instances of SyncCallers for TLC: a block of earlier scans, then eight   *)
(* blocks, four of which receive notes, spend them (with and without        *)
(* change) and spend notes of the earlier block, so that a note and its     *)
(* spend fall in the same or in different parts of a split range.           *)
(***************************************************************************)
EXTENDS SyncCallers

CONSTANT none

MCHeights == 1 .. 9
MCNullifiers == {1, 2, 3}

MCWallets == {[ufvk |-> DerivedUfvk(~only), orchardOnly |-> only] : only \in BOOLEAN}

act(nf, note) == [nf |-> nf, note |-> note, paid |-> FALSE, wellFormed |-> TRUE]
tx(p, acts) ==
  [sapling |-> FALSE,
   orchard |-> IF p = "orchard" THEN acts ELSE <<>>,
   ironwood |-> IF p = "ironwood" THEN acts ELSE <<>>]
Receive(p, n) == tx(p, <<act(none, n)>>)
Spend(p, n) == tx(p, <<act(n, none)>>)
Change(p, n, m) == tx(p, <<act(n, none), act(none, m)>>)
\* Change that trial decryption cannot see, so that nobody looks for its spend.
LostChange(p, n, m) == tx(p, <<act(n, none), [act(none, m) EXCEPT !.wellFormed = FALSE]>>)
blk(txs) == [txs |-> txs, meta |-> TRUE]
empty == blk(<<>>)

MCChains ==
  {<<blk(<<Receive("orchard", 1)>>), b, c, empty, d, empty, empty, e, empty>> :
     b \in {blk(<<>>), blk(<<Receive("ironwood", 2)>>)},
     c \in {blk(<<>>), blk(<<Spend("ironwood", 2)>>), blk(<<Change("orchard", 1, 3)>>),
            blk(<<LostChange("orchard", 1, 3)>>)},
     d \in {blk(<<>>), blk(<<Receive("orchard", 2), Spend("orchard", 1)>>)},
     e \in {blk(<<Spend("orchard", 3)>>),
            blk(<<Change("orchard", 2, 3), Spend("ironwood", 2)>>)}}

\* Those in which every note of ours can be decrypted.
MCPlainChains ==
  {c \in MCChains : c[3] # blk(<<LostChange("orchard", 1, 3)>>)}
=============================================================================
