------------------------------ MODULE PcztBuild ------------------------------
(***************************************************************************)
(* build_transaction and build_ironwood_transaction of crates/zcash-crypto/ *)
(* src/craft.rs: the unsigned, proven PCZT that is made of a request, with   *)
(* the metadata the device needs to sign it.                                *)
(***************************************************************************)
EXTENDS Pczt, Networks

CONSTANTS
  Hardened,          \* the first hardened index, 2^31
  MaxMoney, MaxU64,  \* the largest amount, the largest u64
  DefaultExpiry,     \* the blocks between target and the expiry proposed
  MinValidity        \* EXPIRING_SOON_THRESHOLD + SIGNING_MARGIN_BLOCKS

ASSUME BuildAssumption ==
  /\ Hardened \in Nat /\ Hardened > 1 /\ MaxMoney \in Nat /\ MaxU64 \in Nat /\ MaxMoney <= MaxU64
  /\ DefaultExpiry \in Nat /\ MinValidity \in 0 .. DefaultExpiry

\* The inputs of a build. An input says at which path its key is, and where that key
\* really is.
TransparentInput(Amount) ==
  [scope : Nat, index : Nat, at : Seq(Nat), value : Amount, script : {"short", "long"}]
OutputRequest(Amount) ==
  [to : {"shielded", "transparent"}, value : Amount, memo : {"fits", "long"}]
BuildInputs(Network, Amount) ==
  [flow : {"v5", "v6"}, target : Nat, network : Network,
   account : Nat, anchor : {"root", "zero", "malformed"}, spends : Seq(Amount),
   tins : Seq(TransparentInput(Amount)), outs : Seq(OutputRequest(Amount)), fee : Amount,
   accountKey : BOOLEAN]                        \* an internal address can be derived

\* The wallet's own keys: of its notes, of its shielded change, of an address.
SpendKey(r) == WalletKey(<<32, WalletCoin(r.network.type), r.account>>)
ChangeAddress(r) == WalletKey(<<32, WalletCoin(r.network.type), r.account, 1>>)
AddressKey(r, at) == WalletKey(<<44, WalletCoin(r.network.type), r.account>> \o at)

\* default_address: the first index of the internal chain.
TransparentChangeIndex == 0
TransparentChangeKey(r) == AddressKey(r, <<1, TransparentChangeIndex>>)

-----------------------------------------------------------------------------
(* What goes in and out *)

Payments(r, pool) ==
  LET mine == Ascending({i \in DOMAIN r.outs : r.outs[i].to = pool})
  IN [k \in DOMAIN mine |-> [to |-> PayeeKey(mine[k]), value |-> r.outs[mine[k]].value]]

HasBundle(r) == r.spends # <<>> \/ Payments(r, "shielded") # <<>>

In(r) == Total(r.spends) + Total([i \in DOMAIN r.tins |-> r.tins[i].value])
Out(r) == Total([i \in DOMAIN r.outs |-> r.outs[i].value])
ChangeNoFee(r) == In(r) - Out(r)                                   \* mutant
Change(r) == In(r) - (Out(r) + r.fee)

\* Surplus goes back to the pool that funds it: at most one of these has a row.
ShieldedChange(r) ==
  IF Change(r) > 0 /\ r.spends # <<>> THEN <<[to |-> ChangeAddress(r), value |-> Change(r)]>> ELSE <<>>
TransparentChange(r) ==
  IF Change(r) > 0 /\ r.spends = <<>> THEN <<[to |-> TransparentChangeKey(r), value |-> Change(r)]>> ELSE <<>>

\* Change comes after the payments, among the transparent outputs.
TransparentOuts(r) == Payments(r, "transparent") \o TransparentChange(r)
ChangeOutputOfAll(r) == IF TransparentChange(r) = <<>> THEN 0 ELSE Len(r.outs) + 1   \* mutant
ChangeOutput(r) == IF TransparentChange(r) = <<>> THEN 0 ELSE Len(TransparentOuts(r))

Spends(r) == [i \in DOMAIN r.spends |-> [key |-> SpendKey(r), value |-> r.spends[i]]]

-----------------------------------------------------------------------------
(* The fee: zip317_fee_at, zip317_fee_ironwood_at, and the builder's own rule *)

GraceActions == 2
MinActions == 2
Zip317Actions(spends, outputs) ==
  IF spends = 0 /\ outputs = 0 THEN 0 ELSE MaxOf(MinActions, MaxOf(spends, outputs))
Zip317Fee(marginal, spends, outputs, tins, touts) ==
  marginal * MaxOf(GraceActions, MaxOf(tins, touts) + Zip317Actions(spends, outputs))

\* The marginal fee the caller's fee was computed with, none if there is none.
CallerMarginalFee(r) ==
  {m \in AcceptedMarginalFees(r.network, r.target) :
     r.fee = Zip317Fee(m, Len(r.spends), Len(Payments(r, "shielded") \o ShieldedChange(r)),
                       Len(r.tins), Len(TransparentOuts(r)))}

-----------------------------------------------------------------------------
(* The builder *)

AddTransparentInput(t) == t.value <= MaxMoney /\ t.script = "short"

EncodeMemo(o) == o.memo = "fits"
AddOutput(r, o) ==
  /\ o.value <= MaxMoney
  /\ o.to = "shielded" => EncodeMemo(o) /\ ~IsNuActive(r.network, "nu6_3", r.target)
AddIronwoodOutput(o) == o.value <= MaxMoney /\ (o.to = "shielded" => EncodeMemo(o))

\* The bundles of the pool of the transaction that build_for_pczt may make.
Bundles(r, salt) ==
  LET payments == Payments(r, "shielded") IN
    IF ~HasBundle(r) THEN {<<>>}
    ELSE IF r.flow = "v5" /\ IsNuActive(r.network, "nu6_3", r.target)
         THEN PairedBundles(Spends(r), ShieldedChange(r), SpendKey(r), salt)
    ELSE MixedBundles(Spends(r), payments \o ShieldedChange(r), salt)

\* The builder prices the bundle that it will make.
BuilderFee(r, marginal) ==
  LET bundle == CHOOSE b \in Bundles(r, 0) : TRUE IN
    marginal * MaxOf(GraceActions, MaxOf(Len(r.tins), Len(TransparentOuts(r))) + Len(bundle))

\* An account, a scope or an index may not be hardened already.
Bip44Path(coin, account, at) ==
  IF account >= Hardened \/ \E i \in DOMAIN at : at[i] >= Hardened THEN NoPath
  ELSE <<44, coin, account>> \o at

\* cap_expiry_below_next_activation.
CapExpiry(r) ==
  LET expiry == r.target + DefaultExpiry
      next == NextActivationHeight(r.network, r.target)
  IN IF Ahead(r.network, r.target) # {} /\ next - 1 < expiry THEN next - 1 ELSE expiry

\* What both formats refuse: the amounts, the fee, the expiry and the paths.
Payable(r) ==
  /\ r.spends # <<>> \/ r.tins # <<>>
  /\ r.outs # <<>>
  /\ In(r) <= MaxU64 /\ Out(r) + r.fee <= MaxU64
  /\ Change(r) >= 0 /\ Change(r) <= MaxMoney
  /\ Change(r) > 0 /\ r.spends = <<>> => r.accountKey
  /\ \E m \in CallerMarginalFee(r) : BuilderFee(r, m) = r.fee
  /\ CapExpiry(r) >= r.target + MinValidity
  /\ \A i \in DOMAIN r.tins :
       /\ AddTransparentInput(r.tins[i])
       /\ Bip44Path(0, r.account, <<r.tins[i].scope, r.tins[i].index>>) # NoPath

Buildable5(r) ==
  /\ IsNuActive(r.network, "nu5", r.target)
  /\ HasBundle(r) => r.anchor = "root" /\ r.account < Hardened
  /\ \A i \in DOMAIN r.outs : AddOutput(r, r.outs[i])
  /\ Payable(r)

Buildable6(r) ==
  /\ IsNuActive(r.network, "nu6_3", r.target)
  /\ HasBundle(r) /\ r.anchor = "root" /\ r.account < Hardened
  /\ \A i \in DOMAIN r.outs : AddIronwoodOutput(r.outs[i])
  /\ Payable(r)

\* The parts of the PCZT, by bundle that build_for_pczt may make.
Parts(r, salt) ==
  {[tx_version |-> IF r.flow = "v5" THEN 5 ELSE 6, version |-> 0, expiry |-> r.target + DefaultExpiry,
    coin_type |-> CoinType(r.network.type),
    tins |-> [i \in DOMAIN r.tins |->
                [key |-> AddressKey(r, r.tins[i].at), value |-> r.tins[i].value,
                 derivs |-> {}, preimages |-> {}, sigs |-> {}, scriptSig |-> FALSE]],
    touts |-> [i \in DOMAIN TransparentOuts(r) |->
                 [to |-> TransparentOuts(r)[i].to, value |-> TransparentOuts(r)[i].value, derivs |-> {}]],
    orchard |-> IF r.flow = "v5" THEN b ELSE <<>>,
    ironwood |-> IF r.flow = "v6" THEN b ELSE <<>>,
    proofs |-> {}] : b \in Bundles(r, salt)}

-----------------------------------------------------------------------------
(* Metadata for the device *)

StampedCoinType(network) ==
  IF network.type = "regtest" THEN CoinType("main") ELSE CoinType(network.type)

StampAction(r, a) ==
  [a EXCEPT !.zip32 = <<32, StampedCoinType(r.network), r.account>>, !.has = @ \cup {"zip32"}]
StampRealSpends(p, r) ==                                           \* mutant
  MapActions(p, "ironwood", LAMBDA a : IF IsDummy(a) THEN a ELSE StampAction(r, a))
StampSpendDerivations(p, r) == MapActions(p, "orchard", LAMBDA a : StampAction(r, a))
StampIronwoodSpendDerivations(p, r) == MapActions(p, "ironwood", LAMBDA a : StampAction(r, a))

\* Every input is given the path of its key, the change that of its own.
StampTransparentDerivations(p, r) ==
  LET path(at) == Bip44Path(StampedCoinType(r.network), r.account, at) IN
    [p EXCEPT
       !.tins = [i \in DOMAIN @ |->
                   [@[i] EXCEPT !.derivs =
                      {[pubkey |-> p.tins[i].key, path |-> path(<<r.tins[i].scope, r.tins[i].index>>)]}]],
       !.touts = [i \in DOMAIN @ |->
                    IF i # ChangeOutput(r) THEN @[i]
                    ELSE [@[i] EXCEPT !.derivs =
                            {[pubkey |-> TransparentChangeKey(r),
                              path |-> path(<<1, TransparentChangeIndex>>)]}]]]

-----------------------------------------------------------------------------
(* The roles, in order *)

\* PCZT v1 cannot encode a V6 transaction, nor an Ironwood bundle.
EncodeV1(p) == [p EXCEPT !.version = 1]
EncodeV2(p) == [p EXCEPT !.version = 2]

Assemble5(parts, r) ==
  LET stamped == StampSpendDerivations([parts EXCEPT !.expiry = CapExpiry(r)], r)
      proven == CreateProof(IoFinalize(stamped), "orchard")
  IN EncodeV1(StampTransparentDerivations(proven, r))

\* The full viewing key of an Ironwood spend stays: the Signer role needs it.
ApplyV6Redaction(p) ==
  MapActions(MapActions(p, "orchard", LAMBDA a : [a EXCEPT !.has = @ \ {"cv_net", "cmx", "fvk"}]),
             "ironwood", LAMBDA a : [a EXCEPT !.has = @ \ {"cv_net"}])

Assemble6CapLate(parts, r) ==                                      \* mutant
  LET proven == CreateProof(IoFinalize(StampIronwoodSpendDerivations(parts, r)), "ironwood")
  IN EncodeV2(ApplyV6Redaction(StampTransparentDerivations([proven EXCEPT !.expiry = CapExpiry(r)], r)))
Assemble6(parts, r) ==
  LET stamped == StampIronwoodSpendDerivations([parts EXCEPT !.expiry = CapExpiry(r)], r)
      proven == CreateProof(IoFinalize(stamped), "ironwood")
  IN EncodeV2(ApplyV6Redaction(StampTransparentDerivations(proven, r)))

\* BuildOutput: what the caller is told, with the PCZT.
BuildOutput(p, r) ==
  [pczt |-> p, fee |-> r.fee,
   n_actions_orchard |-> Len(p.orchard), n_actions_ironwood |-> Len(p.ironwood),
   n_transparent_inputs |-> Len(r.tins), n_transparent_outputs |-> Len(TransparentOuts(r))]

\* What a build may give; nothing if it fails.
BuildTransaction(r, salt) ==
  IF Buildable5(r) THEN {BuildOutput(Assemble5(p, r), r) : p \in Parts(r, salt)} ELSE {}
BuildIronwoodTransaction(r, salt) ==
  IF Buildable6(r) THEN {BuildOutput(Assemble6(p, r), r) : p \in Parts(r, salt)} ELSE {}
=============================================================================
