------------------------------ MODULE SendFlow ------------------------------
(***************************************************************************)
(* The life of a send, from the request of the wallet to the answer of the  *)
(* network: craft_transaction and craft_ironwood_transaction of crates/     *)
(* zcash-sync/src/craft.rs, build_transaction and build_ironwood_transaction *)
(* of crates/zcash-crypto/src/craft.rs, finalize_transaction and            *)
(* broadcast_transaction.  Blocks are mined at every step of it, while the  *)
(* server is asked, while the proof is made and while the user signs.       *)
(*                                                                          *)
(* Values are small numbers; keys, addresses, notes, proofs and signatures  *)
(* are what the checks tell apart.  The node and the device are external.   *)
(***************************************************************************)
EXTENDS Integers, Sequences, FiniteSets, SequencesExt

CONSTANTS
  Schedules,       \* activation heights by upgrade; 0: not scheduled
  StartTips,       \* the tips at which the wallet asks for a send
  MaxMined,        \* bound: the blocks mined during a send
  AnchorDepth,     \* DEFAULT_ANCHOR_DEPTH_BLOCKS
  ExpiryDelta,     \* default_tx_expiry_delta, before and from NU7 on
  ExpiringSoon,    \* EXPIRING_SOON_THRESHOLD, also the rule of the node
  SigningMargin,   \* SIGNING_MARGIN_BLOCKS
  Zip2009Height,   \* ZIP2009_MAINNET_HEIGHT
  LegacyMarginal, Zip2009Marginal,  \* the marginal fees
  MaxMoney, MaxU64,                 \* the largest amount, the largest u64
  Requests         \* the sends to consider

Upgrades == {"Nu5", "Nu6_3", "Nu7"}
Eras == {"beforeNu7", "fromNu7"}
Keys == {"none", "malformed", "sapling", "p2pkh", "orchard", "both"}
Request ==
  [flow : {"v5", "v6"},
   spends : Seq(Nat),                                \* note values
   tins : Seq([value : Nat, path : BOOLEAN]),        \* path: leads to its pubkey
   outs : Seq([to : {"shielded", "transparent", "unsupported"}, value : Nat]),
   fee : Nat,
   ufvk : Keys,                                      \* the components it has
   tkey : {"none", "same", "other"},                 \* transparent_account_pubkey
   anchor : Nat]                                     \* 0: None

MinValidity == ExpiringSoon + SigningMargin

ASSUME SendAssumption ==
  /\ Schedules \subseteq [Upgrades -> Nat]
  /\ StartTips \subseteq Nat /\ MaxMined \in Nat
  /\ AnchorDepth \in Nat
  /\ ExpiringSoon \in Nat /\ SigningMargin \in Nat
  /\ ExpiryDelta \in [Eras -> Nat]
  /\ \A e \in Eras : ExpiryDelta[e] >= MinValidity
  /\ Zip2009Height \in Nat
  /\ Zip2009Marginal \in Nat /\ LegacyMarginal \in Nat
  /\ Zip2009Marginal < LegacyMarginal
  /\ MaxMoney \in Nat /\ MaxU64 \in Nat /\ MaxMoney <= MaxU64
  /\ Requests \subseteq Request
  /\ \A r \in Requests : r.flow = "v6" => r.ufvk # "none" /\ r.tkey = "none"

VARIABLES
  schedule,  \* the upgrades of the network
  tip,       \* the tip of the chain
  mined,     \* the blocks mined since the request
  req,       \* the request
  quoted,    \* the height the wallet chose the fee for: the next block then
  pc,        \* "check", "tip", "witness", "build", "sign", "finalize",
             \* "broadcast", "sent" or "err"
  why,       \* what made it fail
  target, anchor,  \* target_height, anchor_height
  tx         \* the transaction crafted

vars == <<schedule, tip, mined, req, quoted, pc, why, target, anchor, tx>>
request == <<schedule, req, quoted>>
NoTx == [branch |-> {}, expiry |-> 0, circuit |-> "none", fee |-> 0,
         outs |-> <<>>, change |-> 0]

-----------------------------------------------------------------------------
(* Upgrades *)

IsActive(nu, h) == schedule[nu] # 0 /\ h >= schedule[nu]

\* BranchId::for_height. Upgrades activate in order, so the latest one in force
\* stands for all of those in force.
Branch(h) == {nu \in Upgrades : IsActive(nu, h)}

AheadOrAt(h) ==                                                    \* mutant
  {schedule[nu] : nu \in {n \in Upgrades : schedule[n] # 0 /\ schedule[n] >= h}}
Ahead(h) == {schedule[nu] : nu \in {n \in Upgrades : schedule[n] > h}}

\* next_activation_height.
NextActivation(h) == CHOOSE a \in Ahead(h) : \A b \in Ahead(h) : a <= b

\* The expiry the builder proposes for a target.
DefaultExpiry(h) ==
  h + ExpiryDelta[IF IsActive("Nu7", h) THEN "fromNu7" ELSE "beforeNu7"]

\* cap_expiry_below_next_activation, for an expiry that is not zero.
CapAtActivation(h, expiry) ==                                      \* mutant
  IF Ahead(h) # {} /\ NextActivation(h) < expiry THEN NextActivation(h) ELSE expiry
CapExpiry(h, expiry) ==
  IF Ahead(h) # {} /\ NextActivation(h) - 1 < expiry THEN NextActivation(h) - 1 ELSE expiry
ExpiringSoonOnly(h, expiry) ==                                     \* mutant
  Ahead(h) # {} /\ CapExpiry(h, expiry) < h + ExpiringSoon
TooClose(h, expiry) == Ahead(h) # {} /\ CapExpiry(h, expiry) < h + MinValidity

\* orchard_circuit_version_for.
Circuit(branch) == IF "Nu6_3" \in branch THEN "PostNu6_3" ELSE "FixedPostNu6_2"

\* The key the proof is made with: orchard_proving_key_for, ironwood_proving_key.
ProvingCircuitByFormat(r) ==                                       \* mutant
  IF r.flow = "v6" THEN "PostNu6_3" ELSE "FixedPostNu6_2"
ProvingCircuit(r) == IF r.flow = "v6" THEN "PostNu6_3" ELSE Circuit(Branch(target))

-----------------------------------------------------------------------------
(* Amounts *)

Total(values) == FoldSeq(LAMBDA v, sum : v + sum, 0, values)
Values(rows) == [i \in DOMAIN rows |-> rows[i].value]
In(r) == Total(r.spends) + Total(Values(r.tins))
Out(r) == Total(Values(r.outs))

\* A sum of u64 values; what is left of the inputs.
U64(n) == n % (MaxU64 + 1)
Change(r) == U64(In(r)) - U64(Out(r) + r.fee)

MaxOf(a, b) == IF a > b THEN a ELSE b
CountTo(r, to) == Cardinality({i \in DOMAIN r.outs : r.outs[i].to = to})

\* Surplus goes back to the pool that funds it.
ChangeTo(r) == IF r.spends # <<>> THEN "shielded" ELSE "transparent"

\* The logical actions of ZIP-317 for the final layout, change included: the
\* shielded bundle, if there is one, is padded to two actions.
Outputs(r, to) ==
  CountTo(r, to) + (IF Change(r) > 0 /\ ChangeTo(r) = to THEN 1 ELSE 0)
ShieldedActions(r) ==
  LET n == MaxOf(Len(r.spends), Outputs(r, "shielded")) IN IF n = 0 THEN 0 ELSE MaxOf(2, n)
TransparentActions(r) == MaxOf(Len(r.tins), Outputs(r, "transparent"))

\* zip317_fee_at, zip317_fee_ironwood_at.
FeeAt(marginal, r) == marginal * MaxOf(2, ShieldedActions(r) + TransparentActions(r))

\* standard_marginal_fee, on mainnet.
Standard(h) == IF h < Zip2009Height THEN LegacyMarginal ELSE Zip2009Marginal

\* caller_marginal_fee: the marginal fee the caller's fee was computed with, if it
\* is one that is accepted for the target.
StandardOnly(h) == {Standard(h)}                                   \* mutant
EitherMargin(h) == {LegacyMarginal, Zip2009Marginal}               \* mutant
AcceptedMargins(h) == {Standard(h), LegacyMarginal}
CallerMarginalFee(r) == {m \in AcceptedMargins(target) : r.fee = FeeAt(m, r)}

\* Builder::get_fee, the builder's own price. From NU6.3 on, Orchard change has an
\* action of its own, with a spend of no value that the builder fabricates.
ChangeApart(r) == r.flow = "v5" /\ IsActive("Nu6_3", target) /\ r.spends # <<>>
BuilderShieldedActions(r) ==
  IF ChangeApart(r) THEN MaxOf(2, Len(r.spends) + Outputs(r, "shielded"))
  ELSE ShieldedActions(r)
BuilderFee(marginal, r) ==
  marginal * MaxOf(2, BuilderShieldedActions(r) + TransparentActions(r))

-----------------------------------------------------------------------------
(* The steps *)

Init ==
  /\ schedule \in Schedules
  /\ tip \in StartTips /\ mined = 0
  /\ req \in Requests
  /\ quoted = tip + 1
  /\ pc = "check" /\ why = "none"
  /\ target = 0 /\ anchor = 0
  /\ tx = NoTx

Refuse(reason) == pc' = "err" /\ why' = reason
Go(step) == pc' = step /\ UNCHANGED why

HasShielded(r) == r.spends # <<>> \/ CountTo(r, "shielded") > 0
HasP2pkh(r) == r.ufvk \in {"p2pkh", "both"}
HasAccountKey(r) == HasP2pkh(r) \/ r.tkey # "none"

\* What is refused whatever the chain is.
WellFormed(r) ==
  /\ r.spends # <<>> \/ r.tins # <<>>
  /\ r.outs # <<>>
  /\ r.ufvk # "none" \/ r.tkey # "none"
  /\ r.ufvk # "malformed"
  /\ CountTo(r, "unsupported") = 0
  /\ r.flow = "v6" => HasShielded(r)
  /\ HasShielded(r) \/ r.flow = "v6" => r.ufvk \in {"orchard", "both"}
  /\ HasP2pkh(r) => r.tkey # "other"

\* Transparent change for which no address can be derived.
ChangeUnderivable(r) ==
  /\ r.spends = <<>> /\ ~HasAccountKey(r)
  /\ In(r) > MaxU64 \/ Out(r) + r.fee > MaxU64 \/ Change(r) > 0

\* craft_transaction, craft_ironwood_transaction up to the first request.
CheckRequest ==
  /\ pc = "check"
  /\ IF ~WellFormed(req) THEN Refuse("request")
     ELSE IF ChangeUnderivable(req) THEN Refuse("changekey")
     ELSE Go("tip")
  /\ UNCHANGED <<request, tip, mined, target, anchor, tx>>

\* chain_tip, resolve_anchor_from_tip, next_block_height: the chain is asked once.
QueryTip ==
  /\ pc = "tip"
  /\ IF req.anchor > tip THEN Refuse("anchor") /\ UNCHANGED <<target, anchor>>
     ELSE /\ target' = tip + 1
          /\ anchor' = IF req.anchor # 0 THEN req.anchor ELSE MaxOf(tip - AnchorDepth, 1)
          /\ Go("witness")
  /\ UNCHANGED <<request, tip, mined, tx>>

\* decode_transparent_inputs: the path of each input has to lead to its pubkey.
InputsVerified(r) ==
  r.tins # <<>> => HasAccountKey(r) /\ \A i \in DOMAIN r.tins : r.tins[i].path

\* The witnesses of the notes, or the anchor alone; without a shielded bundle the
\* server is not asked. Then the transparent inputs.
FetchWitnesses ==
  /\ pc = "witness"
  /\ IF InputsVerified(req) THEN Go("build") ELSE Refuse("inputs")
  /\ UNCHANGED <<request, tip, mined, target, anchor, tx>>

\* The upgrade the format needs is in force, and Orchard outputs still allowed.
Supported(r) ==
  IF r.flow = "v6" THEN IsActive("Nu6_3", target)
  ELSE /\ IsActive("Nu5", target)
       /\ IsActive("Nu6_3", target) => CountTo(r, "shielded") = 0

\* Every amount is one, and no u64 sum wraps.
InRangeUnchecked(r) == TRUE                                        \* mutant
InRange(r) ==
  /\ \A i \in DOMAIN r.tins : r.tins[i].value <= MaxMoney
  /\ \A i \in DOMAIN r.outs : r.outs[i].value <= MaxMoney
  /\ In(r) <= MaxU64 /\ Out(r) + r.fee <= MaxU64

\* The first check that build_transaction or build_ironwood_transaction fails.
BuildRefusal(r) ==
  IF ~Supported(r) THEN "upgrade"
  ELSE IF ~InRange(r) THEN "range"
  ELSE IF Change(r) < 0 THEN "funds"
  ELSE IF Change(r) > MaxMoney THEN "range"
  ELSE IF Change(r) > 0 /\ r.spends = <<>> /\ ~HasAccountKey(r) THEN "changekey"
  ELSE IF CallerMarginalFee(r) = {} THEN "fee"
  ELSE IF \A m \in CallerMarginalFee(r) : BuilderFee(m, r) # r.fee THEN "mismatch"
  ELSE IF TooClose(target, DefaultExpiry(target)) THEN "expiry"
  ELSE "none"

\* build_transaction, build_ironwood_transaction.
Build ==
  /\ pc = "build"
  /\ IF BuildRefusal(req) # "none" THEN Refuse(BuildRefusal(req)) /\ UNCHANGED tx
     ELSE /\ tx' = [branch |-> Branch(target),
                    expiry |-> CapExpiry(target, DefaultExpiry(target)),
                    circuit |-> IF HasShielded(req) THEN ProvingCircuit(req) ELSE "none",
                    fee |-> req.fee,
                    outs |-> Values(req.outs),
                    change |-> Change(req)]
          /\ Go("sign")
  /\ UNCHANGED <<request, tip, mined, target, anchor>>

\* The user reviews the transaction on the device, and signs it or not.
Sign ==
  /\ pc = "sign"
  /\ Go("finalize") \/ Refuse("declined")
  /\ UNCHANGED <<request, tip, mined, target, anchor, tx>>

\* finalize_transaction: signatures are counted and verified, then the proof is,
\* with the key of the branch that the transaction was crafted for.
Finalize ==
  /\ pc = "finalize"
  /\ IF tx.circuit \notin {"none", Circuit(tx.branch)} THEN Refuse("proof")
     ELSE Go("broadcast") \/ Refuse("signatures")
  /\ UNCHANGED <<request, tip, mined, target, anchor, tx>>

\* The node takes the transaction into its pool for the next block.
NodeAccepts ==
  /\ tip + 1 + ExpiringSoon <= tx.expiry
  /\ Branch(tip + 1) = tx.branch

\* broadcast_transaction.
Broadcast ==
  /\ pc = "broadcast"
  /\ IF NodeAccepts THEN Go("sent") ELSE Refuse("rejected")
  /\ UNCHANGED <<request, tip, mined, target, anchor, tx>>

Done == pc \in {"sent", "err"}

\* A request to the server fails.
RpcFails ==
  /\ pc \in {"tip", "witness", "broadcast"}
  /\ pc = "witness" => HasShielded(req)
  /\ Refuse("rpc")
  /\ UNCHANGED <<request, tip, mined, target, anchor, tx>>

\* A block is mined.
Mine ==
  /\ ~Done /\ mined < MaxMined
  /\ tip' = tip + 1 /\ mined' = mined + 1
  /\ UNCHANGED <<request, pc, why, target, anchor, tx>>

Next ==
  \/ CheckRequest \/ QueryTip \/ FetchWitnesses \/ Build
  \/ Sign \/ Finalize \/ Broadcast
  \/ RpcFails \/ Mine

Spec == Init /\ [][Next]_vars

-----------------------------------------------------------------------------
(* Properties *)

Crafted == pc \in {"sign", "finalize", "broadcast", "sent"}

\* Every variable has the type of its counterpart; the anchor is a block of the
\* chain (or block 1), and the target is a block that was the next one.
TypeOK ==
  /\ schedule \in Schedules
  /\ tip \in Nat /\ mined \in 0 .. MaxMined
  /\ req \in Requests /\ quoted \in Nat
  /\ pc \in {"check", "tip", "witness", "build", "sign", "finalize", "broadcast",
             "sent", "err"}
  /\ target \in Nat /\ target <= tip + 1
  /\ anchor \in Nat /\ anchor <= MaxOf(tip, 1)
  /\ tx.branch \subseteq Upgrades /\ tx.expiry \in Nat

\* While a transaction has not expired, the rules it was built for are in force:
\* its validity window never reaches into the next upgrade.
WindowWithinBranch ==
  Crafted => \A h \in target .. tx.expiry : Branch(h) = tx.branch

\* The user has SigningMargin blocks: a transaction broadcast by then is never
\* refused for its expiry or its branch, even at the edge of an upgrade.
AcceptedAfterSigning ==
  why = "rejected" => tip + 1 > target + SigningMargin

\* A send is refused for its expiry only when an upgrade is that close: it can be
\* retried as soon as the upgrade is in force.
RefusedOnlyNearActivation ==
  why = "expiry" =>
    \E nu \in Upgrades :
      target < schedule[nu] /\ schedule[nu] <= target + MinValidity

\* The proof made when crafting is always checked with the key of the circuit it
\* was made for, whatever the chain does between the two.
ProofVerifies == why # "proof"

\* A fee that was the standard one when the wallet chose it is not refused by
\* caller_marginal_fee, even if the standard fee changes before the transaction is
\* built. The cross-check with the builder's own price refuses one only where the
\* two counts of actions differ: change next to several Orchard spends past NU6.3.
FeeQuoteHonoured ==
  /\ why = "fee" => req.fee # FeeAt(Standard(quoted), req)
  /\ why = "mismatch" => /\ req.flow = "v5" /\ IsActive("Nu6_3", target)
                         /\ Len(req.spends) > 1 /\ Change(req) > 0

\* ... and no transaction pays less than the standard fee of the block it is for and
\* of the actions it really has.
FeeNotBelowStandard ==
  Crafted => tx.fee >= BuilderFee(Standard(target), req)

\* No amount is lost or made: outputs, change and fee add up to the inputs.
ValueConserved ==
  Crafted => /\ In(req) = Total(tx.outs) + tx.change + tx.fee
             /\ tx.change <= MaxMoney

-----------------------------------------------------------------------------
(* What the documentation says and the code does not do *)

\* craft.rs, craft_transaction: "otherwise accept None (exact-balance transactions
\* need no change address)", for inputs whose path is right.
DocExactBalance ==
  why = "inputs" /\ Change(req) = 0 => \E i \in DOMAIN req.tins : ~req.tins[i].path
=============================================================================
