--------------------------- MODULE SendFlowProofs ---------------------------
(***************************************************************************)
(* Proofs about SendFlow, for every schedule of upgrades, every margin and  *)
(* every request: what a transaction was built for stays in force while it  *)
(* is valid, it survives the signing margin, it is refused only close to an *)
(* upgrade, its proof is checked with the circuit it was made for, the fee  *)
(* that was right for the wallet is taken, and no value is lost or made.    *)
(***************************************************************************)
EXTENDS SendFlow, SequenceTheorems, FoldLemmas

USE SendAssumption DEF MinValidity

\* The schedule gives a height to each of the three upgrades.
LEMMA Heights ==
  ASSUME schedule \in Schedules, NEW h \in Nat
  PROVE  /\ \A nu \in Upgrades : schedule[nu] \in Nat
         /\ Ahead(h) \subseteq Nat
         /\ \A a \in Ahead(h) : a > h
         /\ \A nu \in Upgrades : schedule[nu] > h => schedule[nu] \in Ahead(h)
BY DEF Ahead

\* When an upgrade is ahead, NextActivation is the nearest one.
LEMMA NextActivationIsLeast ==
  ASSUME schedule \in Schedules, NEW h \in Nat, Ahead(h) # {}
  PROVE  /\ NextActivation(h) \in Ahead(h)
         /\ \A a \in Ahead(h) : NextActivation(h) <= a
<1> DEFINE x == schedule["Nu5"]  y == schedule["Nu6_3"]  z == schedule["Nu7"]
<1>1. x \in Nat /\ y \in Nat /\ z \in Nat
  BY Heights DEF Upgrades
<1>2. \A a : a \in Ahead(h) <=> \/ a = x /\ x > h
                                \/ a = y /\ y > h
                                \/ a = z /\ z > h
  BY DEF Ahead, Upgrades
<1>3. \E a \in Ahead(h) : \A b \in Ahead(h) : a <= b
  <2> HIDE DEF x, y, z
  <2>1. (x > h \/ y > h \/ z > h)
    BY <1>2
  <2> DEFINE Least(a) == a > h /\ (x > h => a <= x) /\ (y > h => a <= y) /\ (z > h => a <= z)
  <2>2. Least(x) \/ Least(y) \/ Least(z)
    BY <1>1, <2>1
  <2>3. QED
    BY <1>1, <1>2, <2>2
<1>4. QED
  BY <1>3 DEF NextActivation

\* The capped expiry lies below every upgrade ahead, and keeps the expiry when
\* there is none.
LEMMA CapBelowActivations ==
  ASSUME schedule \in Schedules, NEW h \in Nat, NEW expiry \in Nat
  PROVE  /\ CapExpiry(h, expiry) \in Nat
         /\ CapExpiry(h, expiry) <= expiry
         /\ \A a \in Ahead(h) : CapExpiry(h, expiry) < a
<1>1. CASE Ahead(h) = {}
  BY <1>1 DEF CapExpiry
<1>2. CASE Ahead(h) # {}
  <2>1. NextActivation(h) \in Nat /\ NextActivation(h) > h
    BY <1>2, Heights, NextActivationIsLeast
  <2>2. /\ CapExpiry(h, expiry) \in Nat
        /\ CapExpiry(h, expiry) <= expiry
        /\ CapExpiry(h, expiry) < NextActivation(h)
    BY <2>1, <1>2 DEF CapExpiry
  <2>3. QED
    BY <1>2, <2>1, <2>2, Heights, NextActivationIsLeast
<1>3. QED
  BY <1>1, <1>2

\* The branch does not change between two heights with no activation after the
\* first and up to the second.
LEMMA BranchStable ==
  ASSUME schedule \in Schedules, NEW h \in Nat, NEW g \in Nat, h <= g,
         \A a \in Ahead(h) : g < a
  PROVE  Branch(g) = Branch(h)
<1>1. ASSUME NEW nu \in Upgrades PROVE IsActive(nu, g) <=> IsActive(nu, h)
  <2>1. schedule[nu] \in Nat
    BY Heights
  <2>2. schedule[nu] > h => g < schedule[nu]
    BY Heights
  <2>3. QED
    BY <2>1, <2>2 DEF IsActive
<1>2. QED
  BY <1>1 DEF Branch

\* The default expiry leaves the minimum validity.
LEMMA DefaultExpiryLate ==
  ASSUME NEW h \in Nat
  PROVE  DefaultExpiry(h) \in Nat /\ DefaultExpiry(h) >= h + MinValidity
<1> DEFINE e == IF IsActive("Nu7", h) THEN "fromNu7" ELSE "beforeNu7"
<1>1. e \in Eras
  BY DEF Eras
<1>2. ExpiryDelta[e] \in Nat /\ ExpiryDelta[e] >= MinValidity
  BY <1>1
<1>3. QED
  BY <1>2 DEF DefaultExpiry

-----------------------------------------------------------------------------
\* The types that the proofs need.
Types ==
  /\ schedule \in Schedules
  /\ tip \in Nat
  /\ target \in Nat /\ target <= tip + 1

\* The transaction is the one that Build makes for the target.
Built ==
  Crafted =>
    /\ tx.branch = Branch(target)
    /\ tx.expiry = CapExpiry(target, DefaultExpiry(target))
    /\ ~TooClose(target, DefaultExpiry(target))
    /\ tx.circuit \in {"none", Circuit(Branch(target))}

\* A send that has not failed has no reason to.
Failure == pc # "err" => why = "none"

\* The inductive invariant.
IInv ==
  /\ Types /\ Built /\ Failure
  /\ AcceptedAfterSigning /\ RefusedOnlyNearActivation /\ ProofVerifies

\* A transaction keeps the minimum validity, and the branch of its target as
\* long as it is valid.
LEMMA BuiltIsValid ==
  ASSUME Types, Built, Crafted
  PROVE  /\ tx.expiry \in Nat
         /\ tx.expiry >= target + MinValidity
         /\ \A h \in target .. tx.expiry : Branch(h) = tx.branch
<1> DEFINE e == DefaultExpiry(target)
<1>1. e \in Nat /\ e >= target + MinValidity
  BY DefaultExpiryLate DEF Types
<1>2. /\ tx.expiry = CapExpiry(target, e) /\ tx.branch = Branch(target)
      /\ ~TooClose(target, e)
  BY DEF Built
<1> HIDE DEF e
<1>3. /\ CapExpiry(target, e) \in Nat
      /\ \A a \in Ahead(target) : CapExpiry(target, e) < a
  BY <1>1, CapBelowActivations DEF Types
<1>4. CapExpiry(target, e) >= target + MinValidity
  <2>1. CASE Ahead(target) = {}
    BY <1>1, <2>1 DEF CapExpiry
  <2>2. CASE Ahead(target) # {}
    BY <1>2, <1>3, <2>2 DEF TooClose, Types
  <2>3. QED
    BY <2>1, <2>2
<1>5. ASSUME NEW h \in target .. tx.expiry PROVE Branch(h) = Branch(target)
  <2>1. h \in Nat /\ target <= h /\ target \in Nat /\ \A a \in Ahead(target) : h < a
    <3>1. h \in Nat /\ target <= h /\ h <= CapExpiry(target, e)
      BY <1>2, <1>3, <1>5 DEF Types
    <3>2. \A a \in Ahead(target) : a \in Nat
      BY Heights DEF Types
    <3>3. QED
      BY <1>3, <3>1, <3>2 DEF Types
  <2>2. QED
    BY <2>1, BranchStable DEF Types
<1>6. QED
  BY <1>2, <1>3, <1>4, <1>5

\* Whatever the chain has become, the node accepts a transaction as long as the
\* signing margin lasts.
LEMMA AcceptedWithinMargin ==
  ASSUME Types, Built, Crafted, tip + 1 <= target + SigningMargin
  PROVE  NodeAccepts
<1>1. tx.expiry \in Nat /\ tx.expiry >= target + (ExpiringSoon + SigningMargin)
  BY BuiltIsValid
<1>2. tip + 1 + ExpiringSoon <= tx.expiry /\ tip + 1 \in target .. tx.expiry
  BY <1>1 DEF Types
<1>3. Branch(tip + 1) = tx.branch
  BY <1>2, BuiltIsValid
<1>4. QED
  BY <1>2, <1>3 DEF NodeAccepts

\* A send refused for its expiry has an upgrade within the minimum validity.
LEMMA TooCloseIsNear ==
  ASSUME schedule \in Schedules, NEW h \in Nat, TooClose(h, DefaultExpiry(h))
  PROVE  \E nu \in Upgrades : h < schedule[nu] /\ schedule[nu] <= h + MinValidity
<1> DEFINE e == DefaultExpiry(h)
<1>1. e \in Nat /\ e >= h + MinValidity
  BY DefaultExpiryLate
<1>2. Ahead(h) # {} /\ CapExpiry(h, e) < h + MinValidity
  BY DEF TooClose
<1> HIDE DEF e
<1>3. NextActivation(h) \in Ahead(h) /\ NextActivation(h) \in Nat /\ NextActivation(h) > h
  BY <1>2, Heights, NextActivationIsLeast
<1>4. NextActivation(h) - 1 < h + MinValidity
  BY <1>1, <1>2, <1>3 DEF CapExpiry
<1>5. PICK nu \in Upgrades : schedule[nu] = NextActivation(h)
  BY <1>3 DEF Ahead
<1>6. QED
  BY <1>3, <1>4, <1>5

-----------------------------------------------------------------------------
\* The invariant holds when the wallet asks.
LEMMA InitIInv == Init => IInv
BY DEF Init, IInv, Types, Built, Failure, Crafted, AcceptedAfterSigning,
       RefusedOnlyNearActivation, ProofVerifies

\* Steps that only move on, or fail for a reason that no property is about.
LEMMA PlainStep ==
  ASSUME IInv, UNCHANGED <<schedule, tip, target, tx>>, ~Done,
         \/ pc' = "err" /\ why' \notin {"rejected", "expiry", "proof"}
         \/ UNCHANGED why /\ pc' # "err" /\ (Crafted' => Crafted)
  PROVE  IInv'
<1>1. Types'
  BY DEF IInv, Types
<1>2. Crafted' => Crafted
  BY DEF Crafted
<1>3. Built'
  BY <1>2 DEF IInv, Built, Branch, IsActive, CapExpiry, DefaultExpiry, TooClose,
              Circuit, Ahead, NextActivation
<1>4. QED
  BY <1>1, <1>3 DEF IInv, Failure, Done, AcceptedAfterSigning,
                    RefusedOnlyNearActivation, ProofVerifies

\* Every step keeps the invariant.
LEMMA NextIInv == IInv /\ [Next]_vars => IInv'
<1> SUFFICES ASSUME IInv, [Next]_vars PROVE IInv'
  OBVIOUS
<1> USE DEF Done, Crafted, Refuse, Go, request
<1>1. CASE CheckRequest
  BY <1>1, PlainStep DEF CheckRequest
<1>2. CASE QueryTip
  <2>1. Types'
    BY <1>2 DEF QueryTip, IInv, Types
  <2>2. QED
    BY <1>2, <2>1 DEF QueryTip, IInv, Built, Failure, AcceptedAfterSigning,
                      RefusedOnlyNearActivation, ProofVerifies
<1>3. CASE FetchWitnesses
  BY <1>3, PlainStep DEF FetchWitnesses
<1>4. CASE Build
  <2>1. target \in Nat /\ schedule \in Schedules
    BY DEF IInv, Types
  <2>2. CASE BuildRefusal(req) # "none"
    <3>1. why' = BuildRefusal(req) /\ pc' = "err" /\ UNCHANGED <<schedule, tip, target, tx>>
      BY <1>4, <2>2 DEF Build
    <3>2. why' \notin {"rejected", "proof"}
      BY <3>1 DEF BuildRefusal
    <3>3. CASE why' = "expiry"
      <4>1. TooClose(target, DefaultExpiry(target))
        BY <3>1, <3>3 DEF BuildRefusal
      <4>2. RefusedOnlyNearActivation'
        BY <2>1, <3>1, <4>1, TooCloseIsNear DEF RefusedOnlyNearActivation
      <4>3. QED
        BY <3>1, <3>2, <4>2 DEF IInv, Types, Built, Failure, AcceptedAfterSigning,
                                ProofVerifies
    <3>4. CASE why' # "expiry"
      BY <1>4, <3>1, <3>2, <3>4, PlainStep DEF Build
    <3>5. QED
      BY <3>3, <3>4
  <2>3. CASE BuildRefusal(req) = "none"
    <3>1. Supported(req) /\ ~TooClose(target, DefaultExpiry(target))
      BY <2>3 DEF BuildRefusal
    <3>2. /\ tx'.branch = Branch(target)
          /\ tx'.expiry = CapExpiry(target, DefaultExpiry(target))
          /\ tx'.circuit \in {"none", ProvingCircuit(req)}
          /\ pc' = "sign" /\ UNCHANGED <<schedule, tip, target, why>>
      BY <1>4, <2>3 DEF Build
    <3>3. ProvingCircuit(req) = Circuit(Branch(target))
      BY <3>1 DEF ProvingCircuit, Supported, Circuit, Branch, Upgrades
    <3>4. Built'
      BY <3>1, <3>2, <3>3 DEF Built, Branch, IsActive, CapExpiry, DefaultExpiry,
                              TooClose, Circuit, Ahead, NextActivation
    <3>5. QED
      BY <1>4, <3>2, <3>4 DEF Build, IInv, Types, Failure, AcceptedAfterSigning,
                              RefusedOnlyNearActivation, ProofVerifies
  <2>4. QED
    BY <2>2, <2>3
<1>5. CASE Sign
  BY <1>5, PlainStep DEF Sign
<1>6. CASE Finalize
  <2>1. tx.circuit \in {"none", Circuit(tx.branch)}
    BY <1>6 DEF Finalize, IInv, Built
  <2>2. QED
    BY <1>6, <2>1, PlainStep DEF Finalize
<1>7. CASE Broadcast
  <2>1. CASE NodeAccepts
    BY <1>7, <2>1, PlainStep DEF Broadcast
  <2>2. CASE ~NodeAccepts
    <3>1. tip + 1 > target + SigningMargin
      BY <1>7, <2>2, AcceptedWithinMargin DEF Broadcast, IInv, Types
    <3>2. QED
      BY <1>7, <2>2, <3>1 DEF Broadcast, IInv, Types, Built, Failure,
                    AcceptedAfterSigning, RefusedOnlyNearActivation, ProofVerifies
  <2>3. QED
    BY <2>1, <2>2
<1>8. CASE RpcFails
  BY <1>8, PlainStep DEF RpcFails
<1>9. CASE Mine
  <2>1. Types'
    BY <1>9 DEF Mine, IInv, Types
  <2>2. Built'
    BY <1>9 DEF Mine, IInv, Built, Branch, IsActive, CapExpiry, DefaultExpiry,
                TooClose, Circuit, Ahead, NextActivation
  <2>3. QED
    BY <1>9, <2>1, <2>2 DEF Mine, IInv, Failure, AcceptedAfterSigning,
                            RefusedOnlyNearActivation, ProofVerifies
<1>10. CASE UNCHANGED vars
  BY <1>10 DEF vars, IInv, Types, Built, Failure, Branch, IsActive, CapExpiry,
               DefaultExpiry, TooClose, Circuit, Ahead, NextActivation,
               AcceptedAfterSigning, RefusedOnlyNearActivation, ProofVerifies
<1>11. QED
  BY <1>1, <1>2, <1>3, <1>4, <1>5, <1>6, <1>7, <1>8, <1>9, <1>10 DEF Next

\* The invariant holds in every reachable state.
LEMMA Invariant == Spec => []IInv
BY InitIInv, NextIInv, PTL DEF Spec

-----------------------------------------------------------------------------
\* Whatever upgrades are scheduled, the validity window of a transaction never
\* reaches into the next one.
THEOREM WindowCorrect == Spec => []WindowWithinBranch
<1>1. IInv => WindowWithinBranch
  BY BuiltIsValid DEF IInv, WindowWithinBranch
<1>2. QED
  BY <1>1, Invariant, PTL

\* However the blocks fall, no transaction broadcast within the signing margin is
\* refused for its expiry or its branch.
THEOREM AcceptanceCorrect == Spec => []AcceptedAfterSigning
BY Invariant, PTL DEF IInv

\* No send is refused for its expiry unless an upgrade is that close.
THEOREM RefusalCorrect == Spec => []RefusedOnlyNearActivation
BY Invariant, PTL DEF IInv

\* Finalizing always verifies the proof with the circuit it was made for.
THEOREM ProofCircuitCorrect == Spec => []ProofVerifies
BY Invariant, PTL DEF IInv

\* Every variable keeps its type, and the heights a send works with are heights
\* of the chain.
THEOREM SendTypeCorrect == Spec => []TypeOK
<1>1. Init => TypeOK
  BY DEF Init, TypeOK, NoTx, MaxOf
<1>2. TypeOK /\ [Next]_vars => TypeOK'
  <2> SUFFICES ASSUME TypeOK, [Next]_vars PROVE TypeOK'
    OBVIOUS
  <2> USE DEF TypeOK, Refuse, Go, request, MaxOf
  <2>1. CASE CheckRequest
    BY <2>1 DEF CheckRequest
  <2>2. CASE QueryTip
    <3>1. req.anchor \in Nat
      BY DEF Request
    <3>2. QED
      BY <2>2, <3>1 DEF QueryTip
  <2>3. CASE FetchWitnesses
    BY <2>3 DEF FetchWitnesses
  <2>4. CASE Build
    <3>1. CapExpiry(target, DefaultExpiry(target)) \in Nat
      BY CapBelowActivations, DefaultExpiryLate
    <3>2. Branch(target) \subseteq Upgrades
      BY DEF Branch
    <3>3. QED
      BY <2>4, <3>1, <3>2 DEF Build
  <2>5. CASE Sign
    BY <2>5 DEF Sign
  <2>6. CASE Finalize
    BY <2>6 DEF Finalize
  <2>7. CASE Broadcast
    BY <2>7 DEF Broadcast
  <2>8. CASE RpcFails
    BY <2>8 DEF RpcFails
  <2>9. CASE Mine
    BY <2>9 DEF Mine
  <2>10. CASE UNCHANGED vars
    BY <2>10 DEF vars
  <2>11. QED
    BY <2>1, <2>2, <2>3, <2>4, <2>5, <2>6, <2>7, <2>8, <2>9, <2>10 DEF Next
<1>3. QED
  BY <1>1, <1>2, PTL DEF Spec

-----------------------------------------------------------------------------
(* Amounts *)

\* The values of rows are numbers that can be added up.
LEMMA ValuesInSeq ==
  ASSUME NEW rows, NEW T, rows \in Seq(T), \A t \in T : t.value \in Nat
  PROVE  Values(rows) \in Seq(Nat)
<1>1. Len(rows) \in Nat /\ DOMAIN rows = 1 .. Len(rows) /\ \A i \in DOMAIN rows : rows[i] \in T
  OBVIOUS
<1>2. Values(rows) \in [1 .. Len(rows) -> Nat]
  BY <1>1 DEF Values
<1>3. QED
  BY <1>1, <1>2, SeqDef

\* Totals are natural numbers.
LEMMA Totals ==
  ASSUME NEW r \in Requests
  PROVE  /\ In(r) \in Nat /\ Out(r) \in Nat /\ r.fee \in Nat
         /\ Out(r) = Total(Values(r.outs))
<1>1. r \in Request
  OBVIOUS
<1>2. /\ r.spends \in Seq(Nat) /\ r.fee \in Nat
      /\ r.tins \in Seq([value : Nat, path : BOOLEAN])
      /\ r.outs \in Seq([to : {"shielded", "transparent", "unsupported"}, value : Nat])
  BY <1>1 DEF Request
<1>3. Values(r.tins) \in Seq(Nat) /\ Values(r.outs) \in Seq(Nat)
  <2> DEFINE I == [value : Nat, path : BOOLEAN]
             O == [to : {"shielded", "transparent", "unsupported"}, value : Nat]
  <2>1. (\A t \in I : t.value \in Nat) /\ (\A t \in O : t.value \in Nat)
    OBVIOUS
  <2>2. r.tins \in Seq(I) /\ r.outs \in Seq(O)
    BY <1>2
  <2> HIDE DEF I, O
  <2>3. QED
    BY <2>1, <2>2, ValuesInSeq
<1>4. \A s : Total(s) = TotalOf(s)
  BY DEF Total, TotalOf
<1>5. Total(r.spends) \in Nat /\ Total(Values(r.tins)) \in Nat /\ Total(Values(r.outs)) \in Nat
  BY <1>2, <1>3, <1>4, TotalInNat
<1>6. QED
  BY <1>2, <1>5 DEF In, Out

\* In range, the sums do not wrap: change is what the inputs leave.
LEMMA ChangeExact ==
  ASSUME NEW r \in Requests, InRange(r)
  PROVE  Change(r) = In(r) - (Out(r) + r.fee)
<1>1. \A n \in Nat : n <= MaxU64 => U64(n) = n
  BY DEF U64
<1>2. U64(In(r)) = In(r) /\ U64(Out(r) + r.fee) = Out(r) + r.fee
  BY <1>1, Totals DEF InRange
<1>3. QED
  BY <1>2 DEF Change

\* A transaction has numbers of outputs and of actions, the caller's count and the
\* builder's.
LEMMA ActionsInNat ==
  ASSUME NEW r \in Requests
  PROVE  /\ Len(r.spends) \in Nat /\ \A to : Outputs(r, to) \in Nat
         /\ TransparentActions(r) \in Nat
         /\ ShieldedActions(r) \in Nat /\ BuilderShieldedActions(r) \in Nat
<1>1. r \in Request
  OBVIOUS
<1>2. Len(r.spends) \in Nat /\ Len(r.tins) \in Nat /\ DOMAIN r.outs = 1 .. Len(r.outs)
      /\ Len(r.outs) \in Nat
  BY <1>1 DEF Request
<1>3. ASSUME NEW to PROVE Outputs(r, to) \in Nat
  <2>1. IsFiniteSet(1 .. Len(r.outs))
    BY <1>2, FS_Interval
  <2>2. CountTo(r, to) \in Nat
    BY <1>2, <2>1, FS_Subset, FS_CardinalityType DEF CountTo
  <2>3. QED
    BY <2>2 DEF Outputs
<1>4. ShieldedActions(r) \in Nat /\ TransparentActions(r) \in Nat
  BY <1>2, <1>3 DEF ShieldedActions, TransparentActions, MaxOf
<1>5. BuilderShieldedActions(r) \in Nat
  BY <1>2, <1>3, <1>4 DEF BuilderShieldedActions, MaxOf
<1>6. QED
  BY <1>2, <1>3, <1>4, <1>5

\* The two prices differ only where change takes an action that the caller's count
\* puts together with one of several spends.
LEMMA PricesAgree ==
  ASSUME NEW r \in Requests, Supported(r), Change(r) \in Nat, NEW m,
         BuilderFee(m, r) # FeeAt(m, r)
  PROVE  /\ r.flow = "v5" /\ IsActive("Nu6_3", target)
         /\ Len(r.spends) > 1 /\ Change(r) > 0
<1>1. BuilderShieldedActions(r) # ShieldedActions(r)
  BY DEF BuilderFee, FeeAt
<1>2. ChangeApart(r)
  BY <1>1 DEF BuilderShieldedActions
<1>3. r.flow = "v5" /\ IsActive("Nu6_3", target) /\ r.spends # <<>>
  BY <1>2 DEF ChangeApart
<1>4. Outputs(r, "shielded") = IF Change(r) > 0 THEN 1 ELSE 0
  BY <1>3 DEF Supported, Outputs, ChangeTo
<1>5. Len(r.spends) \in Nat /\ Len(r.spends) > 0
  <2>1. r.spends \in Seq(Nat)
    BY DEF Request
  <2>2. QED
    BY <1>3, <2>1, EmptySeq, LenProperties
<1>6. ~(Len(r.spends) > 1 /\ Change(r) > 0) =>
        BuilderShieldedActions(r) = ShieldedActions(r)
  BY <1>2, <1>4, <1>5 DEF BuilderShieldedActions, ShieldedActions, MaxOf
<1>7. QED
  BY <1>1, <1>3, <1>6

\* The accepted marginal fees are not below the standard one, and a higher one never
\* gives a lower fee.
LEMMA AcceptedCoversStandard ==
  ASSUME NEW r \in Requests, NEW h \in Nat, NEW m \in AcceptedMargins(h)
  PROVE  BuilderFee(m, r) >= BuilderFee(Standard(h), r)
<1> DEFINE n == MaxOf(2, BuilderShieldedActions(r) + TransparentActions(r))
<1>1. n \in Nat
  BY ActionsInNat DEF MaxOf
<1>2. Standard(h) \in Nat /\ m \in Nat /\ Standard(h) <= m
  BY DEF Standard, AcceptedMargins
<1>3. BuilderFee(m, r) = m * n /\ BuilderFee(Standard(h), r) = Standard(h) * n
  BY DEF BuilderFee
<1> HIDE DEF n
<1>4. Standard(h) * n <= m * n /\ Standard(h) * n \in Nat /\ m * n \in Nat
  BY <1>1, <1>2, MulMonotone
<1>5. QED
  BY <1>3, <1>4

\* The price the builder found to be the caller's.
PriceAgreed(r) == \E m \in CallerMarginalFee(r) : BuilderFee(m, r) = r.fee

\* The target is not below the height the fee was chosen for, a fee that is refused
\* is none of those accepted for that target, one that the cross-check refuses is for
\* a layout that the two prices count differently, and what was crafted passed the
\* checks of its amounts.
AmountInv ==
  /\ req \in Requests /\ target \in Nat
  /\ quoted \in Nat /\ quoted <= tip + 1 /\ tip \in Nat
  /\ pc \in {"witness", "build"} => quoted <= target
  /\ why = "fee" => pc = "err" /\ quoted <= target /\ CallerMarginalFee(req) = {}
  /\ why = "mismatch" => /\ pc = "err" /\ req.flow = "v5" /\ IsActive("Nu6_3", target)
                         /\ Len(req.spends) > 1 /\ Change(req) > 0
  /\ Crafted => /\ InRange(req) /\ Change(req) \in 0 .. MaxMoney /\ PriceAgreed(req)
                /\ tx.fee = req.fee /\ tx.outs = Values(req.outs) /\ tx.change = Change(req)

\* What the amounts are worked out from stays, unless the step is QueryTip.
LEMMA AmountsFrozen ==
  ASSUME UNCHANGED <<schedule, target, req>>
  PROVE  /\ CallerMarginalFee(req)' = CallerMarginalFee(req)
         /\ PriceAgreed(req)' <=> PriceAgreed(req)
         /\ IsActive("Nu6_3", target)' <=> IsActive("Nu6_3", target)
<1>1. CallerMarginalFee(req)' = CallerMarginalFee(req)
  BY DEF CallerMarginalFee
<1>2. IsActive("Nu6_3", target)' <=> IsActive("Nu6_3", target)
  BY DEF IsActive
<1>3. ChangeApart(req)' <=> ChangeApart(req)
  BY <1>2 DEF ChangeApart
<1>4. BuilderShieldedActions(req)' = BuilderShieldedActions(req)
  BY <1>3 DEF BuilderShieldedActions
<1>5. \A m : BuilderFee(m, req)' = BuilderFee(m, req)
  BY <1>4 DEF BuilderFee
<1>6. QED
  BY <1>1, <1>2, <1>5 DEF PriceAgreed

\* The invariant holds when the wallet asks, and after every step.
LEMMA InitAmounts == Init => AmountInv
BY DEF Init, AmountInv, Crafted

\* A step either computes the amounts, or leaves them alone.
LEMMA NextAmounts ==
  ASSUME AmountInv, [Next]_vars
  PROVE  AmountInv'
<1> USE DEF AmountInv, Crafted, Refuse, Go, request
<1>1. CASE CheckRequest
  BY <1>1 DEF CheckRequest
<1>2. CASE QueryTip
  BY <1>2 DEF QueryTip
<1>3. CASE FetchWitnesses
  BY <1>3, AmountsFrozen DEF FetchWitnesses
<1>4. CASE Build
  <2>1. UNCHANGED <<req, quoted, tip, target, schedule>> /\ quoted <= target /\ pc = "build"
    BY <1>4 DEF Build
  <2>2. CASE BuildRefusal(req) = "none"
    <3>1. InRange(req) /\ Change(req) <= MaxMoney /\ ~(Change(req) < 0) /\ PriceAgreed(req)
      BY <2>2, Totals, ChangeExact DEF BuildRefusal, PriceAgreed
    <3>2. Change(req) \in 0 .. MaxMoney
      BY <3>1, Totals, ChangeExact
    <3>3. /\ tx'.fee = req.fee /\ tx'.outs = Values(req.outs) /\ tx'.change = Change(req)
          /\ pc' = "sign" /\ why' = why
      BY <1>4, <2>2 DEF Build
    <3>4. QED
      BY <2>1, <3>1, <3>2, <3>3, AmountsFrozen
  <2>3. CASE BuildRefusal(req) # "none"
    <3>1. pc' = "err" /\ why' = BuildRefusal(req)
      BY <1>4, <2>3 DEF Build
    <3>2. why' = "fee" => CallerMarginalFee(req) = {}
      BY <3>1 DEF BuildRefusal
    <3>3. ASSUME why' = "mismatch"
          PROVE  /\ req.flow = "v5" /\ IsActive("Nu6_3", target)
                 /\ Len(req.spends) > 1 /\ Change(req) > 0
      <4>1. /\ Supported(req) /\ InRange(req) /\ ~(Change(req) < 0)
            /\ CallerMarginalFee(req) # {}
            /\ \A m \in CallerMarginalFee(req) : BuilderFee(m, req) # req.fee
        BY <3>1, <3>3 DEF BuildRefusal
      <4>2. PICK m \in CallerMarginalFee(req) : BuilderFee(m, req) # req.fee
        BY <4>1
      <4>3. req.fee = FeeAt(m, req)
        BY <4>2 DEF CallerMarginalFee
      <4>4. Change(req) \in Nat
        BY <4>1, Totals, ChangeExact
      <4>5. QED
        BY <4>1, <4>2, <4>3, <4>4, PricesAgree
    <3>4. QED
      BY <2>1, <3>1, <3>2, <3>3, AmountsFrozen
  <2>4. QED
    BY <2>2, <2>3
<1>5. CASE Sign
  BY <1>5, AmountsFrozen DEF Sign
<1>6. CASE Finalize
  BY <1>6, AmountsFrozen DEF Finalize
<1>7. CASE Broadcast
  BY <1>7, AmountsFrozen DEF Broadcast
<1>8. CASE RpcFails
  BY <1>8, AmountsFrozen DEF RpcFails
<1>9. CASE Mine
  BY <1>9, AmountsFrozen DEF Mine
<1>10. CASE UNCHANGED vars
  BY <1>10, AmountsFrozen DEF vars
<1>11. QED
  BY <1>1, <1>2, <1>3, <1>4, <1>5, <1>6, <1>7, <1>8, <1>9, <1>10 DEF Next

\* The amounts are right in every reachable state.
LEMMA AmountInvariant == Spec => []AmountInv
BY InitAmounts, NextAmounts, PTL DEF Spec

\* caller_marginal_fee takes the fee that was standard when the wallet chose it,
\* whatever the height of the change of the standard fee and however long the build
\* takes; the cross-check refuses it only for change next to several Orchard spends
\* past NU6.3.
THEOREM FeeQuoteCorrect == Spec => []FeeQuoteHonoured
<1>1. AmountInv => FeeQuoteHonoured
  BY DEF AmountInv, FeeQuoteHonoured, CallerMarginalFee, AcceptedMargins, Standard
<1>2. QED
  BY <1>1, AmountInvariant, PTL

\* No transaction pays less than the standard fee of the block it is for and of the
\* actions it really has.
THEOREM FeeFloorCorrect == Spec => []FeeNotBelowStandard
<1>1. AmountInv => FeeNotBelowStandard
  <2> SUFFICES ASSUME AmountInv, Crafted
               PROVE  tx.fee >= BuilderFee(Standard(target), req)
    BY DEF FeeNotBelowStandard
  <2>1. req \in Requests /\ target \in Nat /\ tx.fee = req.fee /\ PriceAgreed(req)
    BY DEF AmountInv
  <2>2. PICK m \in CallerMarginalFee(req) : BuilderFee(m, req) = req.fee
    BY <2>1 DEF PriceAgreed
  <2>3. m \in AcceptedMargins(target)
    BY <2>2 DEF CallerMarginalFee
  <2>4. QED
    BY <2>1, <2>2, <2>3, AcceptedCoversStandard
<1>2. QED
  BY <1>1, AmountInvariant, PTL

\* Inputs equal outputs, change and fee in every transaction that is crafted, for
\* amounts of any size: the sums that would wrap are refused.
THEOREM ValueCorrect == Spec => []ValueConserved
<1>1. AmountInv => ValueConserved
  <2> SUFFICES ASSUME AmountInv, Crafted
               PROVE  In(req) = Total(tx.outs) + tx.change + tx.fee /\ tx.change <= MaxMoney
    BY DEF ValueConserved
  <2>1. /\ req \in Requests /\ InRange(req) /\ Change(req) \in 0 .. MaxMoney
        /\ tx.fee = req.fee /\ tx.outs = Values(req.outs) /\ tx.change = Change(req)
    BY DEF AmountInv
  <2>2. In(req) \in Nat /\ Out(req) \in Nat /\ req.fee \in Nat /\ Total(tx.outs) = Out(req)
    BY <2>1, Totals
  <2>3. QED
    BY <2>1, <2>2, ChangeExact
<1>2. QED
  BY <1>1, AmountInvariant, PTL
=============================================================================
