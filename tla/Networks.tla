------------------------------ MODULE Networks ------------------------------
(***************************************************************************)
(* The networks of crates/zcash-crypto/src/network.rs, and what the builder *)
(* asks of one: which upgrades are in force at a height, which comes next,  *)
(* and the fee per logical action that is usual there.                      *)
(***************************************************************************)
EXTENDS Integers, Sequences

CONSTANTS
  NamedHeights,    \* activation heights of "main" and of "test"; 0: not scheduled
  LegacyMarginal, Zip2009Marginal, \* the marginal fees before and from ZIP 2009
  Zip2009Height    \* ZIP2009_MAINNET_HEIGHT

\* next_upgrade: the upgrades, in order.
Upgrades == <<"overwinter", "sapling", "blossom", "heartwood", "canopy",
              "nu5", "nu6", "nu6_1", "nu6_2", "nu6_3", "nu7">>
UpgradeNames == {Upgrades[i] : i \in DOMAIN Upgrades}

ASSUME NetworksAssumption ==
  /\ NamedHeights \in [{"main", "test"} -> [UpgradeNames -> Nat]]
  /\ LegacyMarginal \in Nat /\ Zip2009Marginal \in Nat /\ Zip2009Height \in Nat

\* Callers on regtest derive their keys as on mainnet.
CoinType(type) == IF type = "main" THEN 133 ELSE 1
WalletCoin(type) == IF type = "test" THEN 1 ELSE 133

-----------------------------------------------------------------------------
(* A network is its type and its activation heights *)

ZcashRegtest ==
  [nu \in UpgradeNames |->
     CASE nu \in {"overwinter", "sapling", "blossom", "heartwood", "canopy"} -> 1
       [] nu = "nu7" -> 0
       [] OTHER -> 2]

\* to_local_network: the heights of the caller, over those of regtest. A caller can
\* move an upgrade, but not one before its predecessor, nor take one away.
Overridden(heights) ==
  [nu \in UpgradeNames |-> IF nu \in DOMAIN heights THEN heights[nu] ELSE ZcashRegtest[nu]]
Ordered(heights) ==
  \A i \in 1 .. Len(Upgrades) - 1 :
    LET before == heights[Upgrades[i]]
        after == heights[Upgrades[i + 1]]
    IN after # 0 => before # 0 /\ before <= after
ToLocalNetwork(heights) ==
  IF (\E nu \in DOMAIN heights : heights[nu] = 0) \/ ~Ordered(Overridden(heights)) THEN {}
  ELSE {[type |-> "regtest", heights |-> Overridden(heights)]}

\* resolve_any_network: the network of a name, "none" being None, and of the heights
\* given with it, if any; nothing if they are refused.
TypeOf(name) == CASE name = "mainnet" -> "main"
                  [] name \in {"testnet", "none"} -> "test"
                  [] name = "regtest" -> "regtest"
                  [] OTHER -> "unknown"
ResolveAnyNetwork(name, overrides) ==
  CASE TypeOf(name) = "regtest" ->
         IF overrides = {} THEN ToLocalNetwork(<<>>) ELSE UNION {ToLocalNetwork(o) : o \in overrides}
    [] TypeOf(name) \in {"main", "test"} /\ overrides = {} ->
         {[type |-> TypeOf(name), heights |-> NamedHeights[TypeOf(name)]]}
    [] OTHER -> {}

-----------------------------------------------------------------------------
(* Upgrades and fees *)

IsNuActive(network, nu, h) == network.heights[nu] # 0 /\ network.heights[nu] <= h

\* next_activation_height: the lowest above h, if there is one.
Ahead(network, h) == {a \in {network.heights[nu] : nu \in UpgradeNames} : a > h}
NextActivationHeight(network, h) ==
  CHOOSE a \in Ahead(network, h) : \A b \in Ahead(network, h) : a <= b

\* standard_marginal_fee; and those that caller_marginal_fee accepts.
StandardMarginalFee(network, h) ==
  IF network.type = "main" /\ h < Zip2009Height THEN LegacyMarginal ELSE Zip2009Marginal
AcceptedMarginalFees(network, h) == {StandardMarginalFee(network, h), LegacyMarginal}
=============================================================================
