------------------------------- MODULE PcztFlow -------------------------------
(***************************************************************************)
(* A PCZT between the host, who crafts it, and the device, who signs it.    *)
(* The JavaScript host calls the exports of crates/zcash-ffi-node:          *)
(* buildTransaction or buildIronwoodTransaction, as often as it retries,     *)
(* parsePczt for the device, testSignPczt in place of one, and               *)
(* finalizeTransaction with lists of signatures that it has to keep apart:  *)
(* of several PCZTs, of several pools, in an order that the builder drew.   *)
(***************************************************************************)
EXTENDS PcztBuild, PcztSign

CONSTANTS
  Requests,   \* the sends to consider
  MaxCrafts   \* bound: how often the host crafts the same send

ASSUME FlowAssumption ==
  /\ MaxCrafts \in Nat
  /\ \A r \in Requests : r \in BuildInputs({r.network}, Int)

VARIABLES
  req,      \* the parameters of buildTransaction or buildIronwoodTransaction
  crafted,  \* what the builds gave, in order
  refused,  \* whether a build has failed
  answers,  \* the signatures given so far: which PCZT they are for, and the lists
  last      \* the last finalizeTransaction: the PCZT, the lists, and whether it succeeded

vars == <<req, crafted, refused, answers, last>>
NoCall == [pczt |-> 0, lists |-> <<>>, ok |-> FALSE]

Init ==
  /\ req \in Requests
  /\ crafted = <<>> /\ refused = FALSE
  /\ answers = {}
  /\ last = NoCall

-----------------------------------------------------------------------------
(* buildTransaction, buildIronwoodTransaction *)

\* Amounts come as decimal strings.
ParseU64(amount) == amount \in 0 .. MaxU64
ParamsParse(r) ==
  /\ \A i \in DOMAIN r.spends : ParseU64(r.spends[i])
  /\ \A i \in DOMAIN r.tins : ParseU64(r.tins[i].value)
  /\ \A i \in DOMAIN r.outs : ParseU64(r.outs[i].value)
  /\ ParseU64(r.fee)

\* decode_transparent_inputs: the device signs with the path it is given, and does
\* not check it against the key; this does.
DecodesInput(r, t) ==
  /\ r.accountKey /\ t.scope \in {0, 1} /\ t.index < Hardened
  /\ AddressKey(r, <<t.scope, t.index>>) = AddressKey(r, t.at)

\* What is built for the parameters p, on network n.
InputsOf(p, n) == [p EXCEPT !.network = n]

CraftTransaction(r, salt) ==
  IF \A i \in DOMAIN r.tins : DecodesInput(r, r.tins[i]) THEN BuildTransaction(r, salt) ELSE {}
CraftIronwoodTransaction(r, salt) ==
  IF HasBundle(r) /\ \A i \in DOMAIN r.tins : DecodesInput(r, r.tins[i])
  THEN BuildIronwoodTransaction(r, salt) ELSE {}

FFIBuildTransaction(p, salt) ==
  UNION {CraftTransaction(InputsOf(p, n), salt) :
           n \in IF p.flow = "v5" /\ ParamsParse(p)
                 THEN ResolveAnyNetwork(p.network.name, p.network.overrides) ELSE {}}
FFIBuildIronwoodTransaction(p, salt) ==
  UNION {CraftIronwoodTransaction(InputsOf(p, n), salt) :
           n \in IF p.flow = "v6" /\ ParamsParse(p)
                 THEN ResolveAnyNetwork(p.network.name, p.network.overrides) ELSE {}}

\* Every build draws its own randomness, also for a request that was built before.
Craft ==
  /\ Len(crafted) < MaxCrafts /\ ~refused
  /\ LET salt == Len(crafted) + 1
         results == FFIBuildTransaction(req, salt) \cup FFIBuildIronwoodTransaction(req, salt)
     IN IF results = {} THEN refused' = TRUE /\ UNCHANGED crafted
        ELSE \E result \in results : crafted' = Append(crafted, result) /\ UNCHANGED refused
  /\ UNCHANGED <<req, answers, last>>

-----------------------------------------------------------------------------
(* parsePczt *)

\* Amounts leave as decimal strings, which keep every digit of a u64.
Decimal(amount) == [digits |-> amount]
ActionToNapi(a) == [a EXCEPT !.value = Decimal(@), !.outValue = Decimal(@)]
BundleToNapi(bundle) ==
  [b \in DOMAIN bundle |-> [i \in DOMAIN bundle[b] |-> ActionToNapi(bundle[b][i])]]
RowToNapi(t) == [t EXCEPT !.value = Decimal(@)]
PcztTransaction(view) ==
  [view EXCEPT
     !.transparent_inputs = [i \in DOMAIN @ |-> RowToNapi(@[i])],
     !.transparent_outputs = [i \in DOMAIN @ |-> RowToNapi(@[i])],
     !.orchard_bundle = BundleToNapi(@), !.ironwood_bundle = BundleToNapi(@)]
FFIParsePczt(p) == IF Parses(p) THEN {PcztTransaction(ParsedPczt(p))} ELSE {}

-----------------------------------------------------------------------------
(* The device *)

NetType == TypeOf(req.network.name)

\* It follows the paths it is given, for its own coin type, and takes an output for
\* change only if it is one of its internal addresses.
CompliantPath(type, purpose, path) ==
  Len(path) >= 3 /\ path[1] = purpose /\ path[2] = CoinType(type)
DeviceAccepts(type, view) ==
  /\ \A bundle \in {view.orchard_bundle, view.ironwood_bundle} : \A b \in Range(bundle) :
       \A i \in DOMAIN b : CompliantPath(type, 32, b[i].path)
  /\ \A i \in DOMAIN view.transparent_inputs :
       CompliantPath(type, 44, view.transparent_inputs[i].derivation.path)
  /\ \A i \in DOMAIN view.transparent_outputs : \A d \in view.transparent_outputs[i].derivation :
       /\ CompliantPath(type, 44, d.path) /\ d.path[4] = 1
       /\ WalletKey(d.path) = view.transparent_outputs[i].to

DeviceLists(p, head) ==
  LET signed(pool) == LET unsigned == UnsignedActions(p, pool) IN
        [k \in DOMAIN unsigned |->
           LET a == p[pool][unsigned[k]] IN RedPallas(Signature(WalletKey(a.zip32), a.rk, p))]
  IN [orchard |-> signed("orchard"), ironwood |-> signed("ironwood"),
      transparent |-> [i \in DOMAIN p.tins |->
                         Der(Signature(WalletKey(InputPath(p.tins[i])), <<i>>, p), head[i], 1)]]

Unanswered(i) == \A a \in answers : a.of # i

\* The user reviews what parsePczt shows, and signs.
DeviceSigns ==
  \E i \in DOMAIN crafted : LET p == crafted[i].pczt IN
    /\ Unanswered(i) /\ NetType # "regtest"
    /\ \E view \in FFIParsePczt(p) : DeviceAccepts(NetType, view)
    /\ \E head \in [DOMAIN p.tins -> {EvenY, OddY}] :
         answers' = answers \cup {[of |-> i, lists |-> DeviceLists(p, head)]}
    /\ UNCHANGED <<req, crafted, refused, last>>

\* testSignPczt: knows the main network and the test network only.
TestNetworks == {"main", "test"}
TestSigns ==
  \E i \in DOMAIN crafted, net \in TestNetworks : LET p == crafted[i].pczt IN
    /\ Unanswered(i) /\ NetType = "regtest"
    /\ CanTestSign(p, CoinType(net), req.account)
    /\ answers' = answers \cup {[of |-> i, lists |-> TestSign(p, CoinType(net), req.account)]}
    /\ UNCHANGED <<req, crafted, refused, last>>

-----------------------------------------------------------------------------
(* finalizeTransaction *)

\* What a host may make of the lists: the right ones, some missing, repeated or in
\* another order, the lists of the two pools exchanged, bytes lost or added.
Lists == {"orchard", "ironwood", "transparent"}
Handled(lists) ==
  LET with(which, list) == [lists EXCEPT ![which] = list]
      nonempty == {w \in Lists : lists[w] # <<>>}
      damage(w, s) == IF w = "transparent" THEN {[s EXCEPT !.trailing = 2], [s EXCEPT !.short = FALSE]}
                      ELSE {[s EXCEPT !.bytes = 63]}
  IN {lists, [lists EXCEPT !.orchard = lists.ironwood, !.ironwood = lists.orchard]}
     \cup {with(w, Tail(lists[w])) : w \in nonempty}
     \cup {with(w, Append(lists[w], Head(lists[w]))) : w \in nonempty}
     \cup {with(w, Reverse(lists[w])) : w \in nonempty}
     \cup UNION {{with(w, <<s>> \o Tail(lists[w])) : s \in damage(w, Head(lists[w]))} : w \in nonempty}

FFIFinalizeTransaction(p, lists) ==
  /\ \A pool \in Pools : \A k \in DOMAIN lists[pool] : ParseSpendAuthSig(lists[pool][k])
  /\ FinalizeTransaction(p, lists)

Finalize ==
  \E i \in DOMAIN crafted, a \in answers : \E lists \in Handled(a.lists) :
    /\ last' = [pczt |-> i, lists |-> lists, ok |-> FFIFinalizeTransaction(crafted[i].pczt, lists)]
    /\ UNCHANGED <<req, crafted, refused, answers>>

Next == Craft \/ DeviceSigns \/ TestSigns \/ Finalize
Spec == Init /\ [][Next]_vars

-----------------------------------------------------------------------------
(* Properties *)

CraftedPczts == {crafted[i].pczt : i \in DOMAIN crafted}

\* Every PCZT that is crafted can be signed: it is parsed, the device follows its
\* paths, and a software signer of the same seed holds the keys of its spends.
Signable ==
  \A p \in CraftedPczts :
    /\ FFIParsePczt(p) # {}
    /\ NetType # "regtest" => \A view \in FFIParsePczt(p) : DeviceAccepts(NetType, view)
    /\ CanTestSign(p, WalletCoin(NetType), req.account)

\* The device hides the outputs that go back to the wallet, and only those: an
\* output has a derivation if and only if it pays a key of the wallet, at that path.
ChangeRecognised ==
  \A p \in CraftedPczts : \A i \in DOMAIN p.touts :
    p.touts[i].derivs =
      IF p.touts[i].to.owner = "wallet"
      THEN {[pubkey |-> p.touts[i].to, path |-> p.touts[i].to.at]} ELSE {}

\* What a transaction takes from its pools and inputs and does not pay out is the
\* fee, and the counts the host is told are those of the PCZT.
Moved(p, field) == Total([i \in DOMAIN p.orchard |-> p.orchard[i][field]])
                   + Total([i \in DOMAIN p.ironwood |-> p.ironwood[i][field]])
BalancedAndCounted ==
  \A i \in DOMAIN crafted : LET p == crafted[i].pczt IN
    /\ Moved(p, "value") + Total([k \in DOMAIN p.tins |-> p.tins[k].value])
       = Moved(p, "outValue") + Total([k \in DOMAIN p.touts |-> p.touts[k].value]) + crafted[i].fee
    /\ crafted[i].n_transparent_outputs = Len(p.touts)
    /\ crafted[i].fee \in
         {m * MaxOf(GraceActions, MaxOf(Len(p.tins), Len(p.touts))
                                  + Len(p.orchard) + Len(p.ironwood)) : m \in {LegacyMarginal, Zip2009Marginal}}

\* The signatures that were given for a PCZT, passed on in order, always make a
\* transaction of it: wherever the dummies are, whatever was stamped or redacted.
HonestAnswersFinalize ==
  (\E a \in answers : a.of = last.pczt /\ a.lists = last.lists) => last.ok

\* A transaction is made only of the signatures given for its own effects, one for
\* each spend, in order: never those of another build of the same send, unless that
\* build has nothing random in it and is the same transaction.
SigsOf(lists) == [w \in Lists |-> [k \in DOMAIN lists[w] |-> lists[w][k].sig]]
ExtractedAsApproved ==
  last.ok => \E a \in answers :
    /\ Effects(crafted[a.of].pczt) = Effects(crafted[last.pczt].pczt)
    /\ SigsOf(a.lists) = SigsOf(last.lists)
=============================================================================
