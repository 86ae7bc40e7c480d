------------------------ MODULE MCTransactionDetails ------------------------
(***************************************************************************)
(* Instances of TransactionDetails for TLC: sends between all the pools,     *)
(* with change, a payment by others, a transaction of another branch.        *)
(***************************************************************************)
EXTENDS TransactionDetails

CONSTANT null

none == [sapling |-> <<>>, orchard |-> <<>>, ironwood |-> <<>>]
flat == [sapling |-> 0, orchard |-> 0, ironwood |-> 0]
out(by, to, address) == [by |-> by, to |-> to, address |-> address]
spend(o, v) == [outpoint |-> o, value |-> v]
tx(spends, pays, balance, outs) ==
  [parses |-> TRUE, spends |-> spends, pays |-> pays, balance |-> balance, outs |-> outs]

MCTxs ==
  [transparent |-> tx(<<spend("a", 9)>>, 7, flat, none),
   shielding |-> tx(<<spend("a", 9), spend("b", 4)>>, 2, [flat EXCEPT !.ironwood = -8],
                    [none EXCEPT !.ironwood = <<out("us", "others", "p1"), out("us", "internal", "me")>>]),
   unshielding |-> tx(<<>>, 6, [flat EXCEPT !.orchard = 5, !.ironwood = 5],
                      [none EXCEPT !.orchard = <<out("us", "others", "p2"), out("us", "external", "me")>>,
                                   !.sapling = <<out("us", "others", "p3")>>]),
   received |-> tx(<<>>, 0, [flat EXCEPT !.sapling = 3],
                   [none EXCEPT !.orchard = <<out("others", "external", "me"), out("others", "others", "p4")>>]),
   foreign |-> [tx(<<>>, 0, flat, none) EXCEPT !.parses = FALSE]]

ask(txid, prevouts) == [txid |-> txid, prevouts |-> prevouts]
Lists ==
  {<<ask("transparent", {spend("a", 9)}), ask("shielding", {spend("a", 9), spend("b", 4)}),
     ask("unshielding", {}), ask("foreign", {})>>,
   <<ask("shielding", {spend("a", 9)}), ask("shielding", {spend("a", 9), spend("b", 4)}),
     ask("nowhere", {}), ask("received", {})>>,
   <<ask("shielding", {spend("a", 50), spend("b", 4)}), ask("transparent", {spend("a", 1)}),
     ask("unshielding", {spend("z", 1)}), ask("transparent", {})>>,
   <<ask("unshielding", {}), ask("transparent", {spend("a", -1)})>>,
   <<>>}
MCCalls ==
  {[requests |-> list, network |-> network, ufvk |-> ufvk] :
     list \in Lists, network \in {"known", "unknown"}, ufvk \in Ufvks}
=============================================================================
