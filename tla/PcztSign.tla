------------------------------- MODULE PcztSign -------------------------------
(***************************************************************************)
(* What happens to a PCZT once it is built: parse_pczt, which breaks it out *)
(* for the device (crates/zcash-crypto/src/parse.rs), the software signer   *)
(* that stands in for one (testing.rs), and finalize_transaction            *)
(* (finalize.rs), which puts the signatures in and extracts the transaction. *)
(***************************************************************************)
EXTENDS Pczt

V6TxVersion == 6
Pubkeys(derivs) == {d.pubkey : d \in derivs}

-----------------------------------------------------------------------------
(* parse_pczt *)

\* convert_orchard_action: nothing the device signs or displays may be missing.
ConvertibleAction(a) ==
  {"recipient", "value", "rho", "rseed", "alpha", "zip32",
   "out_recipient", "out_value", "out_rseed", "rcv"} \subseteq a.has

\* single_derivation, required of an input.
SingleDerivation(derivs) == Cardinality(derivs) <= 1
Parses(p) ==
  /\ \A i \in DOMAIN p.tins : Cardinality(p.tins[i].derivs) = 1
  /\ \A i \in DOMAIN p.touts : SingleDerivation(p.touts[i].derivs)
  /\ \A i \in DOMAIN p.orchard : ConvertibleAction(p.orchard[i])
  /\ p.tx_version >= V6TxVersion => \A i \in DOMAIN p.ironwood : ConvertibleAction(p.ironwood[i])

ConvertAction(a) ==
  [path |-> a.zip32, rk |-> a.rk, value |-> a.value, to |-> a.to, outValue |-> a.outValue]

\* None: a bundle without actions, and the Ironwood pool of a V5 transaction.
ConvertBundle(actions) ==
  IF actions = <<>> THEN <<>> ELSE <<[i \in DOMAIN actions |-> ConvertAction(actions[i])]>>
ConvertIronwoodBundle(p) ==
  IF p.tx_version >= V6TxVersion THEN ConvertBundle(p.ironwood) ELSE <<>>

ConvertInput(t) == [value |-> t.value, derivation |-> CHOOSE d \in t.derivs : TRUE]
ConvertOutput(t) == [value |-> t.value, to |-> t.to, derivation |-> t.derivs]

ParsedPczt(p) ==
  [tx_version |-> p.tx_version, expiry |-> p.expiry, coin_type |-> p.coin_type,
   transparent_inputs |-> [i \in DOMAIN p.tins |-> ConvertInput(p.tins[i])],
   transparent_outputs |-> [i \in DOMAIN p.touts |-> ConvertOutput(p.touts[i])],
   orchard_bundle |-> ConvertBundle(p.orchard),
   ironwood_bundle |-> ConvertIronwoodBundle(p)]

-----------------------------------------------------------------------------
(* Signatures as they travel *)

\* A RedPallas signature of so many bytes; a DER one with the byte of its header,
\* the form of its length, and the bytes after what the length declares.
RedPallas(sig) == [bytes |-> 64, sig |-> sig]
Der(sig, head, trailing) == [head |-> head, short |-> TRUE, trailing |-> trailing, sig |-> sig]
EvenY == 48
OddY == 49

\* parse_spend_auth_sig_hex.
ParseSpendAuthSig(s) == s.bytes = 64

\* parse_transparent_der: the parity of y and one trailing byte, the type of the
\* sighash, are taken off; the rest has to be DER.
Normalized(d) ==
  [d EXCEPT !.head = IF @ = OddY THEN EvenY ELSE @,
            !.trailing = IF d.short /\ @ = 1 THEN 0 ELSE @]
ParseTransparentDer(d) == Normalized(d).head = EvenY /\ d.short /\ Normalized(d).trailing = 0

-----------------------------------------------------------------------------
(* The unsigned actions, in order *)

UnsignedActions(p, pool) == Ascending({i \in DOMAIN p[pool] : p[pool][i].sig = <<>>})

\* Hazard: dummies are shuffled among the spends, so the k-th signature is rarely
\* that of the k-th action.
SignActions(p, pool, ask) ==
  LET unsigned == UnsignedActions(p, pool) IN
    [k \in DOMAIN unsigned |-> RedPallas(Signature(ask, p[pool][unsigned[k]].rk, p))]

-----------------------------------------------------------------------------
(* The software signer: keys of a seed, on mainnet or on testnet *)

DeriveOrchardAsk(coin, account) == WalletKey(<<32, coin, account>>)

\* sign_pczt_orchard_actions, sign_pczt_ironwood_actions: an action of another key
\* is refused.
CanSignActions(p, pool, ask) ==
  \A i \in DOMAIN p[pool] : p[pool][i].sig = <<>> =>
    ActionAccepts(p, pool, i, Signature(ask, p[pool][i].rk, p))

\* transparent_input_bip32_path: the key is that of the path, whatever the input is.
InputPath(t) == (CHOOSE d \in t.derivs : TRUE).path
CanSignInputs(p) == \A i \in DOMAIN p.tins : Cardinality(p.tins[i].derivs) = 1
SignInputs(p) ==
  [i \in DOMAIN p.tins |-> Der(Signature(WalletKey(InputPath(p.tins[i])), <<i>>, p), EvenY, 0)]

CanTestSign(p, coin, account) ==
  /\ \A pool \in Pools : CanSignActions(p, pool, DeriveOrchardAsk(coin, account))
  /\ CanSignInputs(p)
TestSign(p, coin, account) ==
  [orchard |-> SignActions(p, "orchard", DeriveOrchardAsk(coin, account)),
   ironwood |-> SignActions(p, "ironwood", DeriveOrchardAsk(coin, account)),
   transparent |-> SignInputs(p)]

-----------------------------------------------------------------------------
(* finalize_transaction *)

CountsAtLeast(p, lists) ==                                         \* mutant
  /\ \A pool \in Pools : Len(lists[pool]) >= Len(UnsignedActions(p, pool))
  /\ Len(lists.transparent) = Len(p.tins)
CountsAgree(p, lists) ==
  /\ \A pool \in Pools : Len(lists[pool]) = Len(UnsignedActions(p, pool))
  /\ Len(lists.transparent) = Len(p.tins)

\* stamp_transparent_hash160_preimages: the pubkeys of the derivations.
CanStampPreimages(p) == \A i \in DOMAIN p.tins : p.tins[i].derivs # {}
StampPreimage(t) == [t EXCEPT !.preimages = @ \cup Pubkeys(t.derivs)]
StampPreimages(p) == [p EXCEPT !.tins = [i \in DOMAIN @ |-> StampPreimage(@[i])]]

\* Each signature is verified when it is applied: zip of the unsigned actions with
\* the signatures.
Applies(p, pool, list) ==
  \A k \in DOMAIN UnsignedActions(p, pool) :
    ActionAccepts(p, pool, UnsignedActions(p, pool)[k], list[k].sig)
ApplySignatures(p, pool, list) ==
  LET unsigned == UnsignedActions(p, pool) IN
    [p EXCEPT ![pool] =
       [i \in DOMAIN @ |->
          IF @[i].sig # <<>> THEN @[i]
          ELSE [@[i] EXCEPT !.sig = <<list[CHOOSE k \in DOMAIN unsigned : unsigned[k] = i].sig>>]]]

AppliesTransparent(p, list) ==
  \A i \in DOMAIN list : ParseTransparentDer(list[i]) /\ InputAccepts(p, i, list[i].sig)

\* SpendFinalizer.
FinalizeSpends(p, list) ==
  [p EXCEPT !.tins = [i \in DOMAIN @ |-> [@[i] EXCEPT !.sigs = {list[i].sig}, !.scriptSig = TRUE]]]

Signed(p, lists) ==
  FinalizeSpends(
    ApplySignatures(
      ApplySignatures(StampPreimages(p), "orchard", lists.orchard), "ironwood", lists.ironwood),
    lists.transparent)

\* What the extractor is given; it verifies the proofs and the signatures again.
FinalizeTransaction(p, lists) ==
  /\ CountsAgree(p, lists)
  /\ CanStampPreimages(p)
  /\ \A pool \in Pools : Applies(StampPreimages(p), pool, lists[pool])
  /\ AppliesTransparent(StampPreimages(p), lists.transparent)
  /\ Extractable(Signed(p, lists))
=============================================================================
