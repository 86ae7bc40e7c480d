----------------------------- MODULE MCPcztFlow -----------------------------
(***************************************************************************)
(* Instances of PcztFlow for TLC: the shapes of a send on each network and   *)
(* at each upgrade, and one request for each thing a build refuses.         *)
(***************************************************************************)
EXTENDS PcztFlow

at(nu5, nu6_3, nu7) ==
  [nu \in UpgradeNames |->
     CASE nu = "nu7" -> nu7 [] nu = "nu6_3" -> nu6_3
       [] nu \in {"nu5", "nu6", "nu6_1", "nu6_2"} -> nu5 [] OTHER -> 1]
MCNamedHeights == [main |-> at(10, 20, 30), test |-> at(8, 18, 0)]

tin(scope, index, v) ==
  [scope |-> scope, index |-> index, at |-> <<scope, index>>, value |-> v, script |-> "short"]
to(pool, v) == [to |-> pool, value |-> v, memo |-> "fits"]
ask(flow, name, target, spends, tins, outs, fee) ==
  [flow |-> flow, network |-> [name |-> name, overrides |-> {}], target |-> target,
   account |-> 1, anchor |-> "root",
   spends |-> spends, tins |-> tins, outs |-> outs, fee |-> fee, accountKey |-> TRUE]
over(r, heights) == [r EXCEPT !.network.overrides = {heights}]

\* Private and public to either, with change and without, Ironwood and Orchard.
Sends ==
  {ask("v6", "mainnet", 25, <<10>>, <<>>, <<to("transparent", 3)>>, 3),
   ask("v6", "mainnet", 21, <<5, 6>>, <<>>, <<to("shielded", 4)>>, 4),
   ask("v6", "testnet", 18, <<9>>, <<>>, <<to("shielded", 4)>>, 4),
   ask("v6", "mainnet", 25, <<>>, <<tin(0, 0, 8), tin(1, 1, 5)>>, <<to("shielded", 5)>>, 4),
   ask("v6", "regtest", 5, <<>>, <<tin(0, 2, 13)>>,
       <<to("shielded", 4), to("transparent", 2)>>, 4),
   over(ask("v6", "regtest", 5, <<6>>, <<>>, <<to("shielded", 4)>>, 2), [nu7 |-> 9]),
   ask("v5", "mainnet", 12, <<10>>, <<>>, <<to("shielded", 5)>>, 4),
   ask("v5", "none", 10, <<>>, <<tin(0, 1, 9)>>, <<to("shielded", 5)>>, 3),
   ask("v5", "mainnet", 25, <<10>>, <<>>, <<to("transparent", 3)>>, 3),
   ask("v5", "mainnet", 25, <<>>, <<tin(0, 0, 4), tin(0, 0, 4)>>, <<to("transparent", 5)>>, 2),
   over(ask("v5", "regtest", 5, <<>>, <<tin(1, 0, 9)>>, <<to("transparent", 5)>>, 2),
        [nu6_3 |-> 20])}

plain == ask("v6", "mainnet", 25, <<9>>, <<tin(0, 0, 3)>>, <<to("transparent", 4)>>, 3)
local == ask("v6", "regtest", 5, <<9>>, <<>>, <<to("transparent", 4)>>, 3)
Variants ==
  {[plain EXCEPT !.target = 27], [plain EXCEPT !.flow = "v5"],
   [plain EXCEPT !.tins[1].index = 1, !.tins[1].at = <<0, 1>>], local}
Faulty ==
  {[plain EXCEPT !.target = 28], [plain EXCEPT !.target = 12],
   [plain EXCEPT !.flow = "v5", !.target = 9],
   over(plain, [nu7 |-> 40]), [plain EXCEPT !.network.name = "unknown"],
   over(local, [nu7 |-> 0]), over(local, [canopy |-> 3]), over(local, [nu6_3 |-> 6]),
   over(local, [nu7 |-> 1]),
   [plain EXCEPT !.anchor = "zero"], [plain EXCEPT !.anchor = "malformed"],
   [plain EXCEPT !.account = 3], [plain EXCEPT !.accountKey = FALSE],
   [plain EXCEPT !.tins[1].at = <<0, 1>>], [plain EXCEPT !.tins[1].scope = 2],
   [plain EXCEPT !.tins[1].index = 3, !.tins[1].at = <<0, 3>>],
   [plain EXCEPT !.tins[1].script = "long"], [plain EXCEPT !.tins[1].value = 25],
   [plain EXCEPT !.tins[1].value = -1], [plain EXCEPT !.outs[1].value = 41],
   [plain EXCEPT !.outs[1].value = 20], [plain EXCEPT !.fee = 4],
   [plain EXCEPT !.target = 21],
   [plain EXCEPT !.outs = <<to("shielded", 4)>>, !.flow = "v5"],
   [plain EXCEPT !.outs = <<[to("shielded", 4) EXCEPT !.memo = "long"]>>],
   [plain EXCEPT !.outs = <<>>], [plain EXCEPT !.spends = <<>>, !.tins = <<>>],
   [plain EXCEPT !.spends = <<>>, !.tins[1].value = 9, !.fee = 2]}
MCRequests == Sends \cup Variants \cup Faulty
=============================================================================
