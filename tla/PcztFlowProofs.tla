--------------------------- MODULE PcztFlowProofs ---------------------------
(***************************************************************************)
(* For any requests, networks and number of builds: what is built can be    *)
(* signed, balances and shows its change, the signatures given for it make   *)
(* a transaction, and no others do.                                         *)
(***************************************************************************)
EXTENDS PcztFlow, FoldLemmas, SequenceTheorems

(***************************************************************************)
(* What goes in and out: the payments of the pools are those of the send.   *)
(***************************************************************************)
\* Ascending lists a set of positions in their order.
LEMMA AscendingLists ==
  ASSUME NEW n \in Nat, NEW S \in SUBSET (1 .. n)
  PROVE  ListsInOrder(Ascending(S), S)
<1>1. PICK s : ListsInOrder(s, S)
  BY ListExists
<1>2. /\ s \in [1 .. Cardinality(S) -> S]
      /\ \A i, j \in DOMAIN s : i < j => s[i] < s[j]
  BY <1>1 DEF ListsInOrder
<1>3. /\ Ascending(S) \in [1 .. Cardinality(S) -> S]
      /\ \A i, j \in DOMAIN Ascending(S) : i < j => Ascending(S)[i] < Ascending(S)[j]
  BY <1>2 DEF Ascending
<1>4. QED
  BY <1>3 DEF ListsInOrder

\* The values of what goes in or out.
ValuesOf(s) == [k \in DOMAIN s |-> s[k].value]

\* ... are added up by Total as by TotalOf.
LEMMA TotalSame == \A s : Total(s) = TotalOf(s)
  BY DEF Total, TotalOf

\* The positions of the outputs for a pool.
For(r, pool) == {i \in DOMAIN r.outs : r.outs[i].to = pool}

\* A row that is paid out.
Rows == [to : {PayeeKey(i) : i \in Nat}, value : Nat]

\* The payments of a pool are rows, of the values that go there.
LEMMA PaymentsAre ==
  ASSUME NEW r, r.outs \in Seq(OutputRequest(Nat)), NEW pool
  PROVE  /\ Payments(r, pool) \in Seq(Rows)
         /\ Total(ValuesOf(Payments(r, pool))) = SumFunctionOnSet(ValuesOf(r.outs), For(r, pool))
<1> DEFINE S == For(r, pool)  l == Ascending(S)  n == Len(r.outs)  v == ValuesOf(r.outs)
           P == Payments(r, pool)
<1>1. n \in Nat /\ DOMAIN r.outs = 1 .. n /\ \A i \in 1 .. n : r.outs[i].value \in Nat
  <2>1. n \in Nat /\ DOMAIN r.outs = 1 .. n /\ \A i \in 1 .. n : r.outs[i] \in OutputRequest(Nat)
    OBVIOUS
  <2>2. QED
    BY <2>1 DEF OutputRequest
<1>2. S \in SUBSET (1 .. n)
  BY <1>1 DEF For
<1>3. ListsInOrder(l, S)
  BY <1>1, <1>2, AscendingLists
<1>4. v \in Seq(Nat) /\ DOMAIN v = 1 .. n
  BY <1>1 DEF ValuesOf
<1>5. Cardinality(S) \in Nat /\ l \in [1 .. Cardinality(S) -> S]
  BY <1>1, <1>2, <1>3, ListIsComplete DEF ListsInOrder, ListsAll
<1>6. P = [k \in DOMAIN l |-> [to |-> PayeeKey(l[k]), value |-> r.outs[l[k]].value]]
  BY DEF Payments, For
<1> HIDE DEF S, l, P, n
<1>7. P \in Seq(Rows)
  <2>1. \A k \in 1 .. Cardinality(S) : l[k] \in Nat /\ r.outs[l[k]].value \in Nat
    <3> SUFFICES ASSUME NEW k \in 1 .. Cardinality(S) PROVE l[k] \in Nat /\ r.outs[l[k]].value \in Nat
      OBVIOUS
    <3>1. l[k] \in S
      BY <1>5
    <3>2. l[k] \in 1 .. n
      BY <1>2, <3>1
    <3>3. QED
      BY <1>1, <3>2
  <2>2. \A k \in 1 .. Cardinality(S) : P[k] \in Rows
    BY <1>5, <1>6, <2>1 DEF Rows
  <2>3. P \in [1 .. Cardinality(S) -> Rows]
    BY <1>5, <1>6, <2>2
  <2>4. QED
    BY <1>5, <2>3
<1>8. ValuesOf(P) = [k \in DOMAIN l |-> v[l[k]]]
  BY <1>1, <1>2, <1>5, <1>6 DEF ValuesOf
<1>9. TotalOf([k \in DOMAIN l |-> v[l[k]]]) = SumFunctionOnSet(v, S)
  <2> HIDE DEF v
  <2>1. S \in SUBSET DOMAIN v
    BY <1>2, <1>4
  <2>2. QED
    BY <1>3, <1>4, <2>1, TotalOfListed
<1>10. QED
  BY <1>7, <1>8, <1>9, TotalSame DEF P, S

\* What is paid out is paid to one pool or the other.
LEMMA OutIsPayments ==
  ASSUME NEW r, r.outs \in Seq(OutputRequest(Nat))
  PROVE  Out(r) = Total(ValuesOf(Payments(r, "shielded")))
                  + Total(ValuesOf(Payments(r, "transparent")))
<1> DEFINE v == ValuesOf(r.outs)  n == Len(r.outs)
           A == For(r, "shielded")  B == For(r, "transparent")  D == 1 .. n
<1>1. /\ n \in Nat /\ DOMAIN r.outs = D
      /\ \A i \in D : r.outs[i].value \in Nat /\ r.outs[i].to \in {"shielded", "transparent"}
  <2>1. n \in Nat /\ DOMAIN r.outs = 1 .. n /\ \A i \in 1 .. n : r.outs[i] \in OutputRequest(Nat)
    OBVIOUS
  <2>2. QED
    BY <2>1 DEF OutputRequest
<1>2. v \in Seq(Nat) /\ v \in [D -> Nat] /\ DOMAIN v = D
  BY <1>1 DEF ValuesOf
<1>3. A \subseteq D /\ B \subseteq D /\ A \cap B = {} /\ A \cup B = D
  BY <1>1 DEF For
<1>4. IsFiniteSet(A) /\ IsFiniteSet(B)
  <2>1. IsFiniteSet(D)
    BY <1>1, FS_Interval
  <2>2. QED
    BY <1>3, <2>1, FS_Subset
<1>5. Out(r) = TotalOf(v)
  BY TotalSame DEF Out, ValuesOf
<1>6. /\ Total(ValuesOf(Payments(r, "shielded"))) = SumFunctionOnSet(v, A)
      /\ Total(ValuesOf(Payments(r, "transparent"))) = SumFunctionOnSet(v, B)
  BY PaymentsAre
<1> HIDE DEF v, A, B, D
<1>7. TotalOf(v) = SumFunctionOnSet(v, A \cup B)
  BY <1>2, <1>3, TotalIsSum
<1>8. AddsUp(v, A, B)
  BY ONLY <1>2, <1>3, <1>4, SumOfUnion
<1>9. QED
  BY <1>5, <1>6, <1>7, <1>8 DEF AddsUp

(***************************************************************************)
(* The bundles the builder may make: whatever the order, they hold the       *)
(* spends and the outputs of the request and their values.                  *)
(***************************************************************************)
\* What an action may spend, and what it may pay.
SpendsOf(r) == [key : {SpendKey(r)} \cup {DummyKey(i) : i \in Nat}, value : Nat]
PaysOf(r) ==
  [to : {ChangeAddress(r), SpendKey(r)} \cup {PayeeKey(i) : i \in Nat} \cup {DummyKey(i) : i \in Nat},
   value : Nat]

\* The values of s and of t are those of the one after the other.
ValuesAdd(s, t) ==
  /\ ValuesOf(s) \in Seq(Nat) /\ ValuesOf(t) \in Seq(Nat)
  /\ Total(ValuesOf(s \o t)) = Total(ValuesOf(s)) + Total(ValuesOf(t))

\* ... for any sequences of rows.
LEMMA ValuesOfConcat ==
  ASSUME NEW A, \A a \in A : a.value \in Nat, NEW s \in Seq(A), NEW t \in Seq(A)
  PROVE  ValuesAdd(s, t)
<1>1. ASSUME NEW u \in Seq(A)
      PROVE  /\ ValuesOf(u) \in Seq(Nat) /\ Len(ValuesOf(u)) = Len(u) /\ Len(u) \in Nat
             /\ DOMAIN u = 1 .. Len(u) /\ DOMAIN ValuesOf(u) = 1 .. Len(u)
             /\ \A i \in 1 .. Len(u) : ValuesOf(u)[i] = u[i].value
  <2>1. \A i \in 1 .. Len(u) : u[i] \in A /\ u[i].value \in Nat
    OBVIOUS
  <2>2. ValuesOf(u) = [i \in 1 .. Len(u) |-> u[i].value]
    BY DEF ValuesOf
  <2>3. QED
    BY <2>1, <2>2
<1> DEFINE u == s \o t  v == ValuesOf(s)  w == ValuesOf(t)
<1>2. u \in Seq(A) /\ Len(u) = Len(s) + Len(t)
  OBVIOUS
<1>3. \A i \in 1 .. Len(u) : u[i] = IF i <= Len(s) THEN s[i] ELSE t[i - Len(s)]
  OBVIOUS
<1>4. v \in Seq(Nat) /\ w \in Seq(Nat)
  BY <1>1
<1>5. /\ v \o w \in Seq(Nat) /\ Len(v \o w) = Len(s) + Len(t)
      /\ \A i \in 1 .. Len(u) : (v \o w)[i] = IF i <= Len(s) THEN v[i] ELSE w[i - Len(s)]
  <2> HIDE DEF v, w, u
  <2>1. Len(v) = Len(s) /\ Len(w) = Len(t)
    BY <1>1 DEF v, w
  <2>2. QED
    BY <1>2, <1>4, <2>1
<1>6. ASSUME NEW i \in 1 .. Len(u) PROVE ValuesOf(u)[i] = (v \o w)[i]
  <2>1. ValuesOf(u)[i] = u[i].value
    BY <1>1, <1>2
  <2>2. CASE i <= Len(s)
    <3>1. i \in 1 .. Len(s)
      BY <2>2, <1>2
    <3>2. v[i] = s[i].value
      BY <3>1, <1>1
    <3>3. QED
      BY <1>3, <1>5, <2>1, <2>2, <3>2
  <2>3. CASE ~(i <= Len(s))
    <3>1. i - Len(s) \in 1 .. Len(t)
      <4> HIDE DEF u
      <4>1. Len(s) \in Nat /\ Len(t) \in Nat
        OBVIOUS
      <4>2. QED
        BY <4>1, <2>3, <1>2
    <3>2. w[i - Len(s)] = t[i - Len(s)].value
      BY <3>1, <1>1
    <3>3. QED
      BY <1>3, <1>5, <2>1, <2>3, <3>2
  <2>4. QED
    BY <2>2, <2>3
<1>7. ValuesOf(u) = v \o w
  <2> DEFINE x == ValuesOf(u)  y == v \o w
  <2>1. x \in Seq(Nat) /\ y \in Seq(Nat) /\ Len(x) = Len(y) /\ \A i \in 1 .. Len(y) : x[i] = y[i]
    BY <1>1, <1>2, <1>5, <1>6
  <2> HIDE DEF x, y
  <2>2. x = y
    BY <2>1, SeqEqual
  <2>3. QED
    BY <2>2 DEF x, y
<1> HIDE DEF v, w
<1>8. TotalOf(v \o w) = TotalOf(v) + TotalOf(w)
  BY <1>4, TotalOfConcat
<1>9. QED
  BY <1>4, <1>7, <1>8, TotalSame DEF u, v, w, ValuesAdd

\* u is s and what it takes to reach n, which has no value.
Pads(u, s, n, A) ==
  /\ u \in [1 .. n -> A]
  /\ \A i \in DOMAIN s : i \in 1 .. n /\ u[i] = s[i]
  /\ Total(ValuesOf(u)) = Total(ValuesOf(s))

\* ... as the builder pads it.
LEMMA PaddedWith ==
  ASSUME NEW A, \A a \in A : a.value \in Nat, NEW s \in Seq(A), NEW n \in Nat, Len(s) <= n,
         NEW pad \in [1 .. n - Len(s) -> A], \A i \in 1 .. n - Len(s) : pad[i].value = 0
  PROVE  Pads(s \o pad, s, n, A)
<1>1. pad \in Seq(A) /\ Len(pad) = n - Len(s) /\ DOMAIN pad = 1 .. n - Len(s)
  <2> DEFINE m == n - Len(s)
  <2>1. m \in Nat
    <3>1. Len(s) \in Nat
      OBVIOUS
    <3>2. QED
      BY <3>1
  <2> HIDE DEF m
  <2>2. pad \in Seq(A) /\ Len(pad) = m /\ DOMAIN pad = 1 .. m
    <3>1. pad \in [1 .. m -> A]
      BY DEF m
    <3>2. pad \in Seq(A)
      BY ONLY <2>1, <3>1
    <3>3. Len(pad) = m
      BY ONLY <2>1, <3>1
    <3>4. QED
      BY <3>1, <3>2, <3>3
  <2>3. QED
    BY <2>2 DEF m
<1>2. s \o pad \in Seq(A) /\ Len(s \o pad) = n
  BY <1>1
<1>3. \A i \in 1 .. Len(s) : (s \o pad)[i] = s[i]
  BY <1>1
<1>4. /\ Total(ValuesOf(s \o pad)) = Total(ValuesOf(s)) + Total(ValuesOf(pad))
      /\ ValuesOf(pad) \in Seq(Nat) /\ ValuesOf(s) \in Seq(Nat)
  <2>1. ValuesAdd(s, pad)
    BY <1>1, ValuesOfConcat
  <2>2. QED
    BY <2>1 DEF ValuesAdd
<1>5. Total(ValuesOf(pad)) = 0
  <2>1. \A i \in DOMAIN ValuesOf(pad) : ValuesOf(pad)[i] = 0
    BY <1>1 DEF ValuesOf
  <2>2. QED
    BY <1>4, <2>1, TotalOfZeros, TotalSame
<1>6. Total(ValuesOf(s)) \in Nat
  BY <1>4, TotalInNat, TotalSame
<1>7. QED
  <2>1. s \o pad \in [1 .. n -> A]
    <3> DEFINE u == s \o pad
    <3>1. u \in Seq(A) /\ Len(u) = n
      BY <1>2
    <3> HIDE DEF u
    <3>2. u \in [1 .. n -> A]
      BY <3>1
    <3>3. QED
      BY <3>2 DEF u
  <2>2. \A i \in DOMAIN s : i \in 1 .. n
    OBVIOUS
  <2>3. QED
    BY <1>3, <1>4, <1>5, <1>6, <2>1, <2>2 DEF Pads

\* What the builder makes of n spends and n outputs, in the orders f and g.
Shuffled(ss, os, n, f, g, salt) == [i \in 1 .. n |-> NewAction(ss[f[i]], os[g[i]], <<salt, i>>)]

\* An action of the builder: nothing is signed yet.
Fresh(a, r) ==
  /\ DOMAIN a = {"key", "value", "rk", "to", "outValue", "zip32", "sig", "has"}
  /\ a.key = SpendKey(r) \/ IsDummy(a)
  /\ a.sig = <<>> /\ a.has = ActionFields \ {"zip32"}

\* b spends ss and pays os, action by action.
Acts(b, r, n, ss, os) ==
  /\ DOMAIN b = 1 .. n /\ Len(b) = n
  /\ \A i \in 1 .. n : Fresh(b[i], r)
  /\ \A j \in 1 .. n : \E i \in 1 .. n : b[i].key = ss[j].key
  /\ [i \in DOMAIN b |-> b[i].value] \in Seq(Nat)
  /\ Total([i \in DOMAIN b |-> b[i].value]) = Total(ValuesOf(ss))
  /\ [i \in DOMAIN b |-> b[i].outValue] \in Seq(Nat)
  /\ Total([i \in DOMAIN b |-> b[i].outValue]) = Total(ValuesOf(os))

\* ... whatever the order.
LEMMA ShuffledActions ==
  ASSUME NEW r, NEW n \in Nat, NEW ss \in [1 .. n -> SpendsOf(r)], NEW os \in [1 .. n -> PaysOf(r)],
         NEW f \in Bijection(1 .. n, 1 .. n), NEW g \in Bijection(1 .. n, 1 .. n), NEW salt,
         NEW b, b = Shuffled(ss, os, n, f, g, salt)
  PROVE  Acts(b, r, n, ss, os)
<1> DEFINE D == 1 .. n  v == ValuesOf(ss)  w == ValuesOf(os)
<1>1. /\ f \in [D -> D] /\ (\A y \in D : \E x \in D : f[x] = y) /\ g \in [D -> D]
  BY DEF Bijection, Injection, Surjection
<1>2. DOMAIN b = D /\ Len(b) = n
  BY DEF Shuffled
<1>3. ASSUME NEW i \in D
      PROVE  /\ b[i] = NewAction(ss[f[i]], os[g[i]], <<salt, i>>)
             /\ b[i].key = ss[f[i]].key /\ b[i].value = v[f[i]] /\ b[i].outValue = w[g[i]]
             /\ DOMAIN b[i] = {"key", "value", "rk", "to", "outValue", "zip32", "sig", "has"}
             /\ b[i].sig = <<>> /\ b[i].has = ActionFields \ {"zip32"}
  <2>1. b[i] = NewAction(ss[f[i]], os[g[i]], <<salt, i>>)
    BY DEF Shuffled
  <2>2. f[i] \in D /\ g[i] \in D /\ DOMAIN ss = D /\ DOMAIN os = D
    BY <1>1
  <2>3. v[f[i]] = ss[f[i]].value /\ w[g[i]] = os[g[i]].value
    BY <2>2 DEF ValuesOf
  <2>4. QED
    BY <2>1, <2>3 DEF NewAction
<1>4. /\ \A j \in D : ss[j].key \in {SpendKey(r)} \cup {DummyKey(i) : i \in Nat} /\ ss[j].value \in Nat
      /\ \A j \in D : os[j].value \in Nat
  <2>1. \A j \in D : ss[j] \in SpendsOf(r) /\ os[j] \in PaysOf(r)
    OBVIOUS
  <2>2. QED
    BY <2>1 DEF SpendsOf, PaysOf
<1>5. ASSUME NEW i \in D PROVE Fresh(b[i], r)
  <2>1. f[i] \in D /\ b[i].key = ss[f[i]].key
    BY <1>1, <1>3
  <2>2. ss[f[i]].key = SpendKey(r) \/ \E k \in Nat : ss[f[i]].key = DummyKey(k)
    BY <1>4, <2>1
  <2>3. b[i].key = SpendKey(r) \/ IsDummy(b[i])
    <3>1. \A k : DummyKey(k).owner = "dummy"
      BY DEF DummyKey
    <3>2. QED
      BY <2>1, <2>2, <3>1 DEF IsDummy
  <2>4. QED
    BY <1>3, <2>3 DEF Fresh
<1>6. ASSUME NEW j \in D PROVE \E i \in D : b[i].key = ss[j].key
  <2>1. PICK i \in D : f[i] = j
    BY <1>1
  <2>2. QED
    BY <1>3, <2>1
<1>7. v \in Seq(Nat) /\ Len(v) = n /\ w \in Seq(Nat) /\ Len(w) = n
  <2>1. v \in [D -> Nat] /\ w \in [D -> Nat]
    BY <1>4 DEF ValuesOf
  <2>2. QED
    BY <2>1
<1>8. /\ [i \in DOMAIN b |-> b[i].value] = [i \in D |-> v[f[i]]]
      /\ [i \in DOMAIN b |-> b[i].outValue] = [i \in D |-> w[g[i]]]
  BY <1>2, <1>3
<1>9. \A i \in D : v[f[i]] \in Nat /\ w[g[i]] \in Nat
  <2>1. \A j \in D : v[j] \in Nat /\ w[j] \in Nat
    <3> HIDE DEF v, w
    <3>1. QED
      BY <1>7
  <2>2. QED
    BY <1>1, <2>1
<1>10. [i \in D |-> v[f[i]]] \in Seq(Nat) /\ [i \in D |-> w[g[i]]] \in Seq(Nat)
  <2> HIDE DEF v, w
  <2>1. QED
    BY <1>9
<1>11. /\ TotalOf([i \in D |-> v[f[i]]]) = TotalOf(v)
       /\ TotalOf([i \in D |-> w[g[i]]]) = TotalOf(w)
  <2> HIDE DEF v, w
  <2>1. QED
    BY <1>7, TotalOfShuffled
<1>12. QED
  BY <1>2, <1>5, <1>6, <1>8, <1>10, <1>11, TotalSame DEF Acts

\* The inputs of a build: the amounts were parsed.
Valid(r) == r \in BuildInputs({r.network}, 0 .. MaxU64)

\* ... so that they can be added up.
LEMMA ValidInputs ==
  ASSUME NEW r, Valid(r)
  PROVE  /\ r.spends \in Seq(Nat) /\ r.tins \in Seq(TransparentInput(Nat))
         /\ r.outs \in Seq(OutputRequest(Nat)) /\ r.fee \in Nat /\ r.account \in Nat
         /\ r.flow \in {"v5", "v6"}
         /\ ValuesOf(r.tins) \in Seq(Nat)
         /\ In(r) \in Nat /\ Out(r) \in Nat /\ Change(r) \in Int
<1> DEFINE A == 0 .. MaxU64
<1>1. A \subseteq Nat
  BY BuildAssumption
<1>2. /\ r.spends \in Seq(A) /\ r.tins \in Seq(TransparentInput(A)) /\ r.outs \in Seq(OutputRequest(A))
      /\ r.fee \in A /\ r.account \in Nat /\ r.flow \in {"v5", "v6"}
  BY DEF Valid, BuildInputs
<1> HIDE DEF A
<1>3. TransparentInput(A) \subseteq TransparentInput(Nat) /\ OutputRequest(A) \subseteq OutputRequest(Nat)
  BY <1>1 DEF TransparentInput, OutputRequest
<1>4. /\ r.spends \in Seq(Nat) /\ r.tins \in Seq(TransparentInput(Nat))
      /\ r.outs \in Seq(OutputRequest(Nat))
  BY <1>1, <1>2, <1>3, SeqMonotonic
<1>5. ASSUME NEW t, t \in Seq(TransparentInput(Nat)) \/ t \in Seq(OutputRequest(Nat))
      PROVE  ValuesOf(t) \in Seq(Nat)
  <2>1. \A x : x \in TransparentInput(Nat) \/ x \in OutputRequest(Nat) => x.value \in Nat
    BY DEF TransparentInput, OutputRequest
  <2>2. DOMAIN t = 1 .. Len(t) /\ Len(t) \in Nat /\ \A i \in 1 .. Len(t) : t[i].value \in Nat
    BY <1>5, <2>1
  <2>3. QED
    BY <2>2 DEF ValuesOf
<1>6. In(r) \in Nat
  <2>1. ValuesOf(r.tins) \in Seq(Nat)
    BY <1>4, <1>5
  <2>2. TotalOf(r.spends) \in Nat /\ TotalOf(ValuesOf(r.tins)) \in Nat
    BY <1>4, <2>1, TotalInNat
  <2>3. In(r) = TotalOf(r.spends) + TotalOf(ValuesOf(r.tins))
    BY TotalSame DEF In, ValuesOf
  <2>4. QED
    BY <2>2, <2>3
<1>7. Out(r) \in Nat
  <2>1. ValuesOf(r.outs) \in Seq(Nat)
    BY <1>4, <1>5
  <2>2. Out(r) = TotalOf(ValuesOf(r.outs))
    BY TotalSame DEF Out, ValuesOf
  <2>3. QED
    BY <2>1, <2>2, TotalInNat
<1>8. r.fee \in Nat /\ Change(r) \in Int
  <2>1. r.fee \in Nat
    BY <1>1, <1>2
  <2>2. Change(r) = In(r) - (Out(r) + r.fee)
    BY DEF Change
  <2>3. QED
    BY <1>6, <1>7, <2>1, <2>2
<1>9. QED
  BY <1>2, <1>4, <1>5, <1>6, <1>7, <1>8

\* What goes into a bundle, and the values of it.
LEMMA BundleInputs ==
  ASSUME NEW r, Valid(r)
  PROVE  /\ Spends(r) \in Seq(SpendsOf(r)) /\ Len(Spends(r)) = Len(r.spends)
         /\ \A i \in DOMAIN Spends(r) : Spends(r)[i].key = SpendKey(r)
         /\ ValuesOf(Spends(r)) = r.spends
         /\ Payments(r, "shielded") \in Seq(PaysOf(r)) /\ ShieldedChange(r) \in Seq(PaysOf(r))
<1>1. r.spends \in Seq(Nat) /\ r.outs \in Seq(OutputRequest(Nat)) /\ Change(r) \in Int
  BY ValidInputs
<1>2. /\ Len(r.spends) \in Nat /\ DOMAIN r.spends = 1 .. Len(r.spends)
      /\ \A i \in 1 .. Len(r.spends) : r.spends[i] \in Nat
  BY <1>1
<1>3. Spends(r) = [i \in 1 .. Len(r.spends) |-> [key |-> SpendKey(r), value |-> r.spends[i]]]
  BY <1>2 DEF Spends
<1>4. \A i \in 1 .. Len(r.spends) : [key |-> SpendKey(r), value |-> r.spends[i]] \in SpendsOf(r)
  BY <1>2 DEF SpendsOf
<1>5. /\ Spends(r) \in Seq(SpendsOf(r)) /\ Len(Spends(r)) = Len(r.spends)
      /\ DOMAIN Spends(r) = DOMAIN r.spends
  BY <1>2, <1>3, <1>4
<1>6. /\ \A i \in DOMAIN Spends(r) : Spends(r)[i].key = SpendKey(r) /\ Spends(r)[i].value = r.spends[i]
  BY <1>2, <1>3
<1>7. ValuesOf(Spends(r)) = r.spends
  <2>1. ValuesOf(Spends(r)) = [i \in 1 .. Len(r.spends) |-> r.spends[i]]
    BY <1>2, <1>5, <1>6 DEF ValuesOf
  <2>2. r.spends = [i \in 1 .. Len(r.spends) |-> r.spends[i]]
    BY ONLY <1>1, <1>2
  <2>3. QED
    BY ONLY <2>1, <2>2
<1>8. Payments(r, "shielded") \in Seq(PaysOf(r))
  <2>1. Payments(r, "shielded") \in Seq(Rows)
    BY <1>1, PaymentsAre
  <2>2. Rows \subseteq PaysOf(r)
    BY DEF Rows, PaysOf
  <2>3. QED
    BY <2>1, <2>2, SeqMonotonic
<1>9. ShieldedChange(r) \in Seq(PaysOf(r))
  <2>1. Change(r) > 0 => [to |-> ChangeAddress(r), value |-> Change(r)] \in PaysOf(r)
    BY <1>1 DEF PaysOf
  <2>2. QED
    BY <2>1 DEF ShieldedChange
<1>10. QED
  BY <1>5, <1>6, <1>7, <1>8, <1>9

\* The size of the bundle of a request.
Size(r) ==
  IF ~HasBundle(r) THEN 0
  ELSE IF r.flow = "v5" /\ IsNuActive(r.network, "nu6_3", r.target)
       THEN MaxOf(2, Len(r.spends) + Len(ShieldedChange(r)))
  ELSE MaxOf(2, MaxOf(Len(r.spends), Len(Payments(r, "shielded") \o ShieldedChange(r))))

\* b is a bundle of r of size n: all that r spends, pays and keeps of that pool.
Holds(b, r, n) ==
  /\ n \in Nat /\ Len(b) = n /\ DOMAIN b = 1 .. n
  /\ \A i \in 1 .. n : Fresh(b[i], r)
  /\ r.spends # <<>> => \E i \in 1 .. n : b[i].key = SpendKey(r)
  /\ [i \in DOMAIN b |-> b[i].value] \in Seq(Nat)
  /\ [i \in DOMAIN b |-> b[i].outValue] \in Seq(Nat)
  /\ Total([i \in DOMAIN b |-> b[i].value]) = Total(r.spends)
  /\ Total([i \in DOMAIN b |-> b[i].outValue]) =
       Total(ValuesOf(Payments(r, "shielded"))) + Total(ValuesOf(ShieldedChange(r)))

\* A dummy has no value.
LEMMA Dummies ==
  ASSUME NEW r, NEW k \in Nat
  PROVE  /\ DummySpend(k) \in SpendsOf(r) /\ DummySpend(k).value = 0
         /\ DummyOutput(k) \in PaysOf(r) /\ DummyOutput(k).value = 0
  BY DEF DummySpend, DummyOutput, SpendsOf, PaysOf

\* MaxOf is the larger of two numbers.
LEMMA MaxOfTwo ==
  ASSUME NEW a \in Nat, NEW b \in Nat
  PROVE  MaxOf(a, b) \in Nat /\ a <= MaxOf(a, b) /\ b <= MaxOf(a, b)
  BY DEF MaxOf

\* Spends and outputs shuffled apart.
LEMMA MixedHolds ==
  ASSUME NEW r, Valid(r), NEW salt,
         NEW b \in MixedBundles(Spends(r), Payments(r, "shielded") \o ShieldedChange(r), salt)
  PROVE  Holds(b, r, MaxOf(2, MaxOf(Len(r.spends), Len(Payments(r, "shielded") \o ShieldedChange(r)))))
<1> DEFINE P == Payments(r, "shielded")  C == ShieldedChange(r)  outs == P \o C  spends == Spends(r)
           n == MaxOf(2, MaxOf(Len(spends), Len(outs)))
           ps == [i \in 1 .. n - Len(spends) |-> DummySpend(i)]
           po == [i \in 1 .. n - Len(outs) |-> DummyOutput(i)]
           ss == spends \o ps  os == outs \o po
<1>1. /\ spends \in Seq(SpendsOf(r)) /\ Len(spends) = Len(r.spends) /\ ValuesOf(spends) = r.spends
      /\ (\A i \in DOMAIN spends : spends[i].key = SpendKey(r))
      /\ P \in Seq(PaysOf(r)) /\ C \in Seq(PaysOf(r)) /\ r.spends \in Seq(Nat)
  BY BundleInputs, ValidInputs
<1>2. (\A s \in SpendsOf(r) : s.value \in Nat) /\ (\A o \in PaysOf(r) : o.value \in Nat)
  BY DEF SpendsOf, PaysOf
<1>3. b \in {[i \in 1 .. n |-> NewAction(ss[f[i]], os[g[i]], <<salt, i>>)] :
               f \in Bijection(1 .. n, 1 .. n), g \in Bijection(1 .. n, 1 .. n)}
  <2>1. ss = Padded(spends, n, DummySpend) /\ os = Padded(outs, n, DummyOutput)
    BY DEF Padded
  <2> HIDE DEF ss, os
  <2>2. QED
    BY <2>1 DEF MixedBundles
<1> HIDE DEF P, C, spends
<1>4. /\ outs \in Seq(PaysOf(r)) /\ Len(outs) \in Nat /\ Len(spends) \in Nat
      /\ Total(ValuesOf(outs)) = Total(ValuesOf(P)) + Total(ValuesOf(C))
  <2>1. outs \in Seq(PaysOf(r)) /\ Len(outs) \in Nat
    BY ONLY <1>1
  <2>2. Len(spends) \in Nat
    BY ONLY <1>1
  <2>3. ValuesAdd(P, C)
    BY ONLY <1>1, <1>2, ValuesOfConcat
  <2>4. QED
    BY <2>1, <2>2, <2>3 DEF ValuesAdd
<1> HIDE DEF outs
<1>5. n \in Nat /\ Len(spends) <= n /\ Len(outs) <= n
  <2>1. MaxOf(Len(spends), Len(outs)) \in Nat
    BY <1>4, MaxOfTwo
  <2>2. n \in Nat /\ MaxOf(Len(spends), Len(outs)) <= n
    BY <2>1, MaxOfTwo
  <2>3. Len(spends) <= MaxOf(Len(spends), Len(outs)) /\ Len(outs) <= MaxOf(Len(spends), Len(outs))
    BY <1>4, MaxOfTwo
  <2> HIDE DEF n
  <2>4. QED
    BY <1>4, <2>1, <2>2, <2>3
<1>6. PICK f \in Bijection(1 .. n, 1 .. n), g \in Bijection(1 .. n, 1 .. n) :
        b = Shuffled(ss, os, n, f, g, salt)
  <2> HIDE DEF n, ss, os
  <2>1. QED
    BY <1>3 DEF Shuffled
<1> HIDE DEF n
<1>7. /\ ps \in [1 .. n - Len(spends) -> SpendsOf(r)] /\ (\A i \in 1 .. n - Len(spends) : ps[i].value = 0)
      /\ po \in [1 .. n - Len(outs) -> PaysOf(r)] /\ (\A i \in 1 .. n - Len(outs) : po[i].value = 0)
  <2>1. /\ \A i \in 1 .. n - Len(spends) : i \in Nat
        /\ \A i \in 1 .. n - Len(outs) : i \in Nat
    BY <1>4, <1>5
  <2>2. QED
    BY <2>1, Dummies
<1> HIDE DEF ps, po
<1>8. Pads(ss, spends, n, SpendsOf(r))
  BY ONLY <1>1, <1>2, <1>5, <1>7, PaddedWith
<1>9. Pads(os, outs, n, PaysOf(r))
  BY ONLY <1>2, <1>4, <1>5, <1>7, PaddedWith
<1> HIDE DEF ss, os
<1>10. Acts(b, r, n, ss, os)
  <2>1. ss \in [1 .. n -> SpendsOf(r)] /\ os \in [1 .. n -> PaysOf(r)]
    BY <1>8, <1>9 DEF Pads
  <2>2. QED
    BY ONLY <1>5, <1>6, <2>1, ShuffledActions
<1>11. r.spends # <<>> => \E i \in 1 .. n : b[i].key = SpendKey(r)
  <2> SUFFICES ASSUME r.spends # <<>> PROVE \E i \in 1 .. n : b[i].key = SpendKey(r)
    OBVIOUS
  <2>1. 1 \in DOMAIN spends
    BY <1>1
  <2>2. 1 \in 1 .. n /\ ss[1].key = SpendKey(r)
    BY <1>1, <1>8, <2>1 DEF Pads
  <2>3. QED
    <3>1. \A j \in 1 .. n : \E i \in 1 .. n : b[i].key = ss[j].key
      BY ONLY <1>10 DEF Acts
    <3>2. PICK i \in 1 .. n : b[i].key = ss[1].key
      BY ONLY <2>2, <3>1
    <3>3. QED
      BY ONLY <2>2, <3>2
<1>12. Holds(b, r, n)
  BY <1>1, <1>4, <1>5, <1>8, <1>9, <1>10, <1>11 DEF Holds, P, C, Pads, Acts
<1>13. QED
  BY <1>1, <1>12 DEF n, outs, P, C

\* A sequence of zeros adds up to zero.
LEMMA TotalOfNothing == ASSUME NEW k \in Nat PROVE Total([i \in 1 .. k |-> 0]) = 0
<1> DEFINE z == [i \in 1 .. k |-> 0]
<1>1. z \in Seq(Nat) /\ \A i \in DOMAIN z : z[i] = 0
  OBVIOUS
<1> HIDE DEF z
<1>2. TotalOf(z) = 0
  BY <1>1, TotalOfZeros
<1>3. QED
  BY <1>2, TotalSame DEF z

\* The pairs of s and o, position by position.
Pairs(s, o) == [i \in DOMAIN s |-> <<s[i], o[i]>>]

\* Pairs may be put together before or after they are made.
PairUp(s, o, t, p) == Pairs(s, o) \o Pairs(t, p) = Pairs(s \o t, o \o p)

\* ... whatever the sequences.
LEMMA PairsOfConcat ==
  ASSUME NEW A, NEW B, NEW s \in Seq(A), NEW o \in Seq(B), Len(s) = Len(o),
         NEW t \in Seq(A), NEW p \in Seq(B), Len(t) = Len(p)
  PROVE  PairUp(s, o, t, p)
<1> DEFINE m == Len(s)  k == Len(t)
<1>1. m \in Nat /\ k \in Nat /\ DOMAIN s = 1 .. m /\ DOMAIN t = 1 .. k
  OBVIOUS
<1>2. /\ \A i \in 1 .. m : s[i] \in A /\ o[i] \in B
      /\ \A i \in 1 .. k : t[i] \in A /\ p[i] \in B
  OBVIOUS
<1>3. /\ Pairs(s, o) \in Seq(A \X B) /\ Len(Pairs(s, o)) = m
      /\ Pairs(t, p) \in Seq(A \X B) /\ Len(Pairs(t, p)) = k
      /\ (\A i \in 1 .. m : Pairs(s, o)[i] = <<s[i], o[i]>>)
      /\ (\A i \in 1 .. k : Pairs(t, p)[i] = <<t[i], p[i]>>)
  <2> HIDE DEF m, k
  <2>1. QED
    BY <1>1, <1>2 DEF Pairs
<1>4. /\ s \o t \in Seq(A) /\ Len(s \o t) = m + k /\ DOMAIN (s \o t) = 1 .. m + k
      /\ \A i \in 1 .. m + k : /\ (s \o t)[i] = IF i <= m THEN s[i] ELSE t[i - m]
                              /\ (o \o p)[i] = IF i <= m THEN o[i] ELSE p[i - m]
  OBVIOUS
<1> DEFINE x == Pairs(s, o) \o Pairs(t, p)  y == Pairs(s \o t, o \o p)
<1>5. x \in Seq(A \X B) /\ Len(x) = m + k
  <2>1. Pairs(s, o) \in Seq(A \X B) /\ Pairs(t, p) \in Seq(A \X B)
    BY <1>3
  <2>2. x \in Seq(A \X B) /\ Len(x) = Len(Pairs(s, o)) + Len(Pairs(t, p))
    BY ONLY <2>1, ConcatProperties
  <2>3. QED
    BY <1>3, <2>2
<1>6. \A i \in 1 .. m + k : x[i] = IF i <= m THEN <<s[i], o[i]>> ELSE <<t[i - m], p[i - m]>>
  <2> SUFFICES ASSUME NEW i \in 1 .. m + k
               PROVE  x[i] = IF i <= m THEN <<s[i], o[i]>> ELSE <<t[i - m], p[i - m]>>
    OBVIOUS
  <2>1. x[i] = IF i <= m THEN Pairs(s, o)[i] ELSE Pairs(t, p)[i - m]
    BY <1>3
  <2>2. (i <= m => i \in 1 .. m) /\ (~(i <= m) => i - m \in 1 .. k)
    BY <1>1
  <2>3. QED
    BY <1>3, <2>1, <2>2
<1> HIDE DEF m, k
<1>7. y = [i \in 1 .. m + k |-> (IF i <= m THEN <<s[i], o[i]>> ELSE <<t[i - m], p[i - m]>>)]
  BY <1>4 DEF Pairs
<1>8. x = [i \in 1 .. m + k |-> x[i]]
  <2> HIDE DEF x
  <2>1. QED
    BY <1>1, <1>5
<1>9. QED
  BY <1>6, <1>7, <1>8 DEF PairUp

\* Spends and change paired: a spend pays nothing, and change spends nothing.
LEMMA PairedHolds ==
  ASSUME NEW r, Valid(r), NEW salt, Payments(r, "shielded") = <<>>,
         NEW b \in PairedBundles(Spends(r), ShieldedChange(r), SpendKey(r), salt)
  PROVE  Holds(b, r, MaxOf(2, Len(r.spends) + Len(ShieldedChange(r))))
<1> DEFINE C == ShieldedChange(r)  spends == Spends(r)  A == SpendsOf(r)  B == PaysOf(r)
           zs == [i \in DOMAIN C |-> [key |-> SpendKey(r), value |-> 0]]
           ds == [i \in DOMAIN spends |-> DummyOutput(i)]
           s1 == spends \o zs  o1 == ds \o C
           n == MaxOf(2, Len(s1))
           ps == [i \in 1 .. n - Len(s1) |-> DummySpend(i)]
           po == [i \in 1 .. n - Len(s1) |-> DummyOutput(i)]
           ss == s1 \o ps  os == o1 \o po
           all == Pairs(ss, os)
<1>1. /\ spends \in Seq(A) /\ Len(spends) = Len(r.spends) /\ ValuesOf(spends) = r.spends
      /\ (\A i \in DOMAIN spends : spends[i].key = SpendKey(r))
      /\ C \in Seq(B) /\ r.spends \in Seq(Nat)
  BY BundleInputs, ValidInputs
<1>2. (\A s \in A : s.value \in Nat) /\ (\A o \in B : o.value \in Nat)
  BY DEF SpendsOf, PaysOf
<1>3. /\ b \in PairedBundles(spends, C, SpendKey(r), salt) /\ ValuesOf(Payments(r, "shielded")) = <<>>
      /\ [key |-> SpendKey(r), value |-> 0] \in A /\ \A k \in Nat : DummyOutput(k) \in B
  BY Dummies DEF SpendsOf, ValuesOf
<1> HIDE DEF C, spends, A, B
<1>4. /\ zs \in Seq(A) /\ Len(zs) = Len(C) /\ ds \in Seq(B) /\ Len(ds) = Len(spends)
      /\ Len(C) \in Nat /\ Len(spends) \in Nat
      /\ DOMAIN C = 1 .. Len(C) /\ DOMAIN spends = 1 .. Len(spends)
  <2>1. /\ Len(C) \in Nat /\ Len(spends) \in Nat
        /\ DOMAIN C = 1 .. Len(C) /\ DOMAIN spends = 1 .. Len(spends)
    BY ONLY <1>1
  <2>2. zs = [i \in 1 .. Len(C) |-> [key |-> SpendKey(r), value |-> 0]]
        /\ ds = [i \in 1 .. Len(spends) |-> DummyOutput(i)]
    BY <2>1
  <2>3. \A i \in 1 .. Len(spends) : DummyOutput(i) \in B
    BY <1>3, <2>1
  <2>4. QED
    BY <1>3, <2>1, <2>2, <2>3
<1>5. Total(ValuesOf(zs)) = 0 /\ Total(ValuesOf(ds)) = 0
  <2>1. ValuesOf(zs) = [i \in 1 .. Len(C) |-> 0]
    BY <1>4 DEF ValuesOf
  <2>2. ValuesOf(ds) = [i \in 1 .. Len(spends) |-> 0]
    <3>1. \A k \in Nat : DummyOutput(k).value = 0
      BY Dummies
    <3>2. ds = [i \in 1 .. Len(spends) |-> DummyOutput(i)]
      BY ONLY <1>4
    <3> HIDE DEF ds
    <3>3. QED
      BY ONLY <3>1, <3>2 DEF ValuesOf
  <2>3. QED
    BY <1>4, <2>1, <2>2, TotalOfNothing
<1> HIDE DEF zs, ds
<1>6. /\ s1 \in Seq(A) /\ Len(s1) = Len(spends) + Len(C) /\ ValuesAdd(spends, zs)
      /\ \A i \in 1 .. Len(spends) : s1[i] = spends[i]
  <2>1. /\ s1 \in Seq(A) /\ Len(s1) = Len(spends) + Len(C)
        /\ \A i \in 1 .. Len(spends) : s1[i] = spends[i]
    <3>1. spends \in Seq(A) /\ zs \in Seq(A)
      BY <1>1, <1>4
    <3>2. /\ s1 \in Seq(A) /\ Len(s1) = Len(spends) + Len(zs)
          /\ \A i \in 1 .. Len(spends) + Len(zs) :
               s1[i] = IF i <= Len(spends) THEN spends[i] ELSE zs[i - Len(spends)]
      BY ONLY <3>1, ConcatProperties
    <3>3. QED
      BY <1>4, <3>2
  <2>2. ValuesAdd(spends, zs)
    BY ONLY <1>1, <1>2, <1>4, ValuesOfConcat
  <2>3. QED
    BY <2>1, <2>2
<1>7. o1 \in Seq(B) /\ Len(o1) = Len(spends) + Len(C) /\ ValuesAdd(ds, C)
  <2>1. o1 \in Seq(B) /\ Len(o1) = Len(spends) + Len(C)
    <3>1. ds \in Seq(B) /\ C \in Seq(B)
      BY <1>1, <1>4
    <3>2. o1 \in Seq(B) /\ Len(o1) = Len(ds) + Len(C)
      BY ONLY <3>1, ConcatProperties
    <3>3. QED
      BY <1>4, <3>2
  <2>2. ValuesAdd(ds, C)
    BY ONLY <1>1, <1>2, <1>4, ValuesOfConcat
  <2>3. QED
    BY <2>1, <2>2
<1>8. Pairs(spends, ds) \o Pairs(zs, C) = Pairs(s1, o1)
  <2>1. /\ spends \in Seq(A) /\ ds \in Seq(B) /\ Len(spends) = Len(ds)
        /\ zs \in Seq(A) /\ C \in Seq(B) /\ Len(zs) = Len(C)
    BY <1>1, <1>4
  <2>2. PairUp(spends, ds, zs, C)
    BY ONLY <2>1, PairsOfConcat
  <2>3. QED
    BY <2>2 DEF PairUp
<1> HIDE DEF s1, o1
<1>9. n \in Nat /\ Len(s1) \in Nat /\ Len(s1) <= n /\ Len(o1) = Len(s1)
  <2>1. Len(s1) \in Nat /\ Len(o1) = Len(s1)
    BY <1>4, <1>6, <1>7
  <2>2. QED
    BY <2>1, MaxOfTwo
<1>10. /\ ps \in [1 .. n - Len(s1) -> A] /\ (\A i \in 1 .. n - Len(s1) : ps[i].value = 0)
       /\ po \in [1 .. n - Len(s1) -> B] /\ (\A i \in 1 .. n - Len(s1) : po[i].value = 0)
  <2> HIDE DEF n
  <2>1. \A i \in 1 .. n - Len(s1) : i \in Nat
    BY <1>9
  <2>2. \A i \in 1 .. n - Len(s1) :
          DummySpend(i) \in A /\ DummySpend(i).value = 0 /\ DummyOutput(i) \in B /\ DummyOutput(i).value = 0
    BY <2>1, Dummies DEF A, B
  <2>3. QED
    BY <2>2
<1>11. Pairs(s1, o1) \o Pairs(ps, po) = all
  <2>1. ps \in Seq(A) /\ po \in Seq(B) /\ Len(ps) = Len(po)
    <3> DEFINE k == n - Len(s1)
    <3>1. k \in Nat
      <4> HIDE DEF n
      <4>1. QED
        BY <1>9
    <3>2. ps \in [1 .. k -> A] /\ po \in [1 .. k -> B]
      BY <1>10
    <3> HIDE DEF k, ps, po
    <3>3. QED
      BY <3>1, <3>2
  <2> HIDE DEF ps, po
  <2>2. PairUp(s1, o1, ps, po)
    BY ONLY <1>6, <1>7, <1>9, <2>1, PairsOfConcat
  <2>3. QED
    BY <2>2 DEF PairUp
<1>12. b \in {[i \in 1 .. n |-> NewAction(all[f[i]][1], all[f[i]][2], <<salt, i>>)] :
               f \in Bijection(1 .. n, 1 .. n)}
  <2> DEFINE pairs == [i \in DOMAIN spends |-> <<spends[i], DummyOutput(i)>>] \o
                      [i \in DOMAIN C |-> <<[key |-> SpendKey(r), value |-> 0], C[i]>>]
             m == MaxOf(2, Len(pairs))
             rest == [i \in 1 .. m - Len(pairs) |-> <<DummySpend(i), DummyOutput(i)>>]
             padded == pairs \o rest
  <2>1. pairs = Pairs(s1, o1)
    <3>1. /\ [i \in DOMAIN spends |-> <<spends[i], DummyOutput(i)>>] = Pairs(spends, ds)
          /\ [i \in DOMAIN C |-> <<[key |-> SpendKey(r), value |-> 0], C[i]>>] = Pairs(zs, C)
      BY <1>4 DEF Pairs, ds, zs
    <3>2. QED
      BY <3>1, <1>8
  <2>2. Len(Pairs(s1, o1)) = Len(s1)
    BY <1>6 DEF Pairs
  <2>3. m = n
    BY <2>1, <2>2
  <2>4. rest = Pairs(ps, po)
    BY <2>1, <2>2, <2>3 DEF Pairs
  <2>5. padded = all
    BY <2>1, <2>4, <1>11
  <2>6. PairedBundles(spends, C, SpendKey(r), salt) =
          {[i \in 1 .. m |-> NewAction(padded[f[i]][1], padded[f[i]][2], <<salt, i>>)] :
             f \in Bijection(1 .. m, 1 .. m)}
    BY DEF PairedBundles, Padded
  <2> HIDE DEF padded, all, m, n
  <2>7. QED
    BY <1>3, <2>3, <2>5, <2>6
<1>13. ss \in [1 .. n -> A] /\ os \in [1 .. n -> B] /\ Pads(ss, s1, n, A) /\ Pads(os, o1, n, B)
  <2>1. Pads(ss, s1, n, A)
    <3> HIDE DEF n, ps
    <3>1. QED
      BY ONLY <1>2, <1>6, <1>9, <1>10, PaddedWith
  <2>2. Pads(os, o1, n, B)
    <3> HIDE DEF n, po
    <3>1. po \in [1 .. n - Len(o1) -> B] /\ (\A i \in 1 .. n - Len(o1) : po[i].value = 0)
      BY <1>9, <1>10
    <3>2. QED
      BY ONLY <1>2, <1>7, <1>9, <3>1, PaddedWith
  <2>3. QED
    BY <2>1, <2>2 DEF Pads
<1> HIDE DEF ss, os
<1>14. PICK f \in Bijection(1 .. n, 1 .. n) : b = Shuffled(ss, os, n, f, f, salt)
  <2>1. PICK f \in Bijection(1 .. n, 1 .. n) :
          b = [i \in 1 .. n |-> NewAction(all[f[i]][1], all[f[i]][2], <<salt, i>>)]
    <3> HIDE DEF n, all
    <3>1. QED
      BY <1>12
  <2>2. \A i \in 1 .. n : all[i] = <<ss[i], os[i]>>
    BY <1>13 DEF Pairs
  <2>3. \A i \in 1 .. n : f[i] \in 1 .. n
    BY DEF Bijection, Injection
  <2> HIDE DEF n, all
  <2>4. QED
    BY <2>1, <2>2, <2>3 DEF Shuffled
<1> HIDE DEF n
<1>15. Acts(b, r, n, ss, os)
  <2>1. ss \in [1 .. n -> SpendsOf(r)] /\ os \in [1 .. n -> PaysOf(r)]
    BY <1>13 DEF A, B
  <2>2. QED
    BY ONLY <1>9, <1>14, <2>1, ShuffledActions
<1>16. r.spends # <<>> => \E i \in 1 .. n : b[i].key = SpendKey(r)
  <2> SUFFICES ASSUME r.spends # <<>> PROVE \E i \in 1 .. n : b[i].key = SpendKey(r)
    OBVIOUS
  <2>1. 1 \in 1 .. Len(spends) /\ 1 \in DOMAIN spends /\ 1 \in DOMAIN s1
    BY <1>1, <1>4, <1>6
  <2>2. 1 \in 1 .. n /\ ss[1].key = SpendKey(r)
    BY <1>1, <1>6, <1>13, <2>1 DEF Pads
  <2>3. \A j \in 1 .. n : \E i \in 1 .. n : b[i].key = ss[j].key
    BY ONLY <1>15 DEF Acts
  <2>4. QED
    BY ONLY <2>2, <2>3
<1>17. /\ Total(ValuesOf(ss)) = Total(r.spends)
       /\ Total(ValuesOf(os)) = Total(ValuesOf(Payments(r, "shielded"))) + Total(ValuesOf(C))
  <2>1. Total(ValuesOf(s1)) = Total(ValuesOf(spends)) + Total(ValuesOf(zs))
    BY <1>6 DEF ValuesAdd, s1
  <2>2. Total(ValuesOf(o1)) = Total(ValuesOf(ds)) + Total(ValuesOf(C))
    BY <1>7 DEF ValuesAdd, o1
  <2>3. Total(ValuesOf(spends)) \in Nat /\ Total(ValuesOf(C)) \in Nat
    BY <1>6, <1>7, TotalSame, TotalInNat DEF ValuesAdd
  <2>4. Total(ValuesOf(Payments(r, "shielded"))) = 0
    <3>1. <<>> \in Seq(Nat) /\ \A i \in DOMAIN <<>> : <<>>[i] = 0
      OBVIOUS
    <3>2. QED
      BY <1>3, <3>1, TotalSame, TotalOfZeros
  <2>5. QED
    BY <1>1, <1>5, <1>13, <2>1, <2>2, <2>3, <2>4 DEF Pads
<1>18. Holds(b, r, n)
  BY <1>9, <1>15, <1>16, <1>17 DEF Holds, C, Acts
<1>19. QED
  BY <1>1, <1>6, <1>18 DEF n, C

\* No bundle, or one with all that goes in and out of the pool.
LEMMA BundleHolds ==
  ASSUME NEW r, Valid(r), NEW salt, NEW b \in Bundles(r, salt),
         r.flow = "v5" => \A i \in DOMAIN r.outs : AddOutput(r, r.outs[i])
  PROVE  Holds(b, r, Size(r))
<1>1. CASE ~HasBundle(r)
  <2>1. /\ b = <<>> /\ r.spends = <<>> /\ Payments(r, "shielded") = <<>> /\ ShieldedChange(r) = <<>>
        /\ Size(r) = 0
    BY <1>1 DEF Bundles, HasBundle, ShieldedChange, Size
  <2>2. /\ <<>> \in Seq(Nat) /\ Total(<<>>) = 0
        /\ ValuesOf(<<>>) = <<>> /\ [i \in DOMAIN <<>> |-> <<>>[i].value] = <<>>
        /\ [i \in DOMAIN <<>> |-> <<>>[i].outValue] = <<>>
    <3>1. <<>> \in Seq(Nat) /\ \A i \in DOMAIN <<>> : <<>>[i] = 0
      OBVIOUS
    <3>2. Total(<<>>) = 0
      BY <3>1, TotalSame, TotalOfZeros
    <3>3. QED
      BY <3>1, <3>2 DEF ValuesOf
  <2>3. QED
    BY <2>1, <2>2 DEF Holds
<1>2. CASE HasBundle(r) /\ r.flow = "v5" /\ IsNuActive(r.network, "nu6_3", r.target)
  <2>1. b \in PairedBundles(Spends(r), ShieldedChange(r), SpendKey(r), salt)
    BY <1>2 DEF Bundles
  <2>2. Payments(r, "shielded") = <<>>
    <3>1. For(r, "shielded") = {}
      BY <1>2 DEF AddOutput, For
    <3>2. Payments(r, "shielded") \in Seq(Rows)
      BY ValidInputs, PaymentsAre
    <3>3. DOMAIN Payments(r, "shielded") = {}
      <4>1. ListsInOrder(Ascending({}), {})
        <5>1. 0 \in Nat /\ {} \in SUBSET (1 .. 0)
          OBVIOUS
        <5>2. QED
          BY <5>1, AscendingLists
      <4>2. DOMAIN Ascending({}) = {}
        BY <4>1, FS_EmptySet DEF ListsInOrder
      <4>3. QED
        BY <3>1, <4>2 DEF Payments, For
    <3>4. QED
      BY <3>2, <3>3
  <2>3. Holds(b, r, MaxOf(2, Len(r.spends) + Len(ShieldedChange(r))))
    BY <2>1, <2>2, PairedHolds
  <2>4. QED
    BY <1>2, <2>3 DEF Size
<1>3. CASE HasBundle(r) /\ ~(r.flow = "v5" /\ IsNuActive(r.network, "nu6_3", r.target))
  <2>1. b \in MixedBundles(Spends(r), Payments(r, "shielded") \o ShieldedChange(r), salt)
    BY <1>3 DEF Bundles
  <2>2. Holds(b, r, MaxOf(2, MaxOf(Len(r.spends), Len(Payments(r, "shielded") \o ShieldedChange(r)))))
    BY <2>1, MixedHolds
  <2>3. QED
    BY <1>3, <2>2 DEF Size
<1>4. QED
  BY <1>1, <1>2, <1>3

\* The builder prices the bundle by its size, whichever it makes.
LEMMA Priced ==
  ASSUME NEW r, Valid(r), NEW m,
         r.flow = "v5" => \A i \in DOMAIN r.outs : AddOutput(r, r.outs[i])
  PROVE  BuilderFee(r, m) =
           m * MaxOf(GraceActions, MaxOf(Len(r.tins), Len(TransparentOuts(r))) + Size(r))
<1>1. \A n : Bijection(1 .. n, 1 .. n) # {}
  <2> SUFFICES ASSUME NEW n PROVE Bijection(1 .. n, 1 .. n) # {}
    OBVIOUS
  <2> DEFINE S == 1 .. n  id == [x \in S |-> x]
  <2>1. id \in [S -> S] /\ IsInjective(id) /\ \A t \in S : \E x \in S : id[x] = t
    BY DEF IsInjective
  <2>2. id \in Bijection(S, S)
    <3> HIDE DEF S, id
    <3>1. QED
      BY <2>1 DEF Bijection, Injection, Surjection
  <2>3. QED
    BY <2>2
<1>2. MixedBundles(Spends(r), Payments(r, "shielded") \o ShieldedChange(r), 0) # {}
  <2> DEFINE outs == Payments(r, "shielded") \o ShieldedChange(r)
             n == MaxOf(2, MaxOf(Len(Spends(r)), Len(outs)))
             ss == Spends(r) \o [i \in 1 .. n - Len(Spends(r)) |-> DummySpend(i)]
             os == outs \o [i \in 1 .. n - Len(outs) |-> DummyOutput(i)]
  <2>1. PICK f \in Bijection(1 .. n, 1 .. n) : TRUE
    BY <1>1
  <2>2. ss = Padded(Spends(r), n, DummySpend) /\ os = Padded(outs, n, DummyOutput)
    BY DEF Padded
  <2> HIDE DEF ss, os
  <2>3. MixedBundles(Spends(r), outs, 0) =
          {[i \in 1 .. n |-> NewAction(ss[p[i]], os[q[i]], <<0, i>>)] :
             p \in Bijection(1 .. n, 1 .. n), q \in Bijection(1 .. n, 1 .. n)}
    BY <2>2 DEF MixedBundles
  <2> HIDE DEF n, outs
  <2>4. [i \in 1 .. n |-> NewAction(ss[f[i]], os[f[i]], <<0, i>>)] \in MixedBundles(Spends(r), outs, 0)
    BY <2>1, <2>3
  <2>5. QED
    BY <2>4 DEF outs
<1>3. PairedBundles(Spends(r), ShieldedChange(r), SpendKey(r), 0) # {}
  <2> DEFINE pairs == [i \in DOMAIN Spends(r) |-> <<Spends(r)[i], DummyOutput(i)>>] \o
               [i \in DOMAIN ShieldedChange(r) |-> <<[key |-> SpendKey(r), value |-> 0], ShieldedChange(r)[i]>>]
             n == MaxOf(2, Len(pairs))
  <2>1. PICK f \in Bijection(1 .. n, 1 .. n) : TRUE
    BY <1>1
  <2> HIDE DEF n
  <2>2. QED
    BY <2>1 DEF PairedBundles, n
<1>4. Bundles(r, 0) # {}
  BY <1>2, <1>3 DEF Bundles
<1>5. \A b \in Bundles(r, 0) : Len(b) = Size(r)
  BY BundleHolds DEF Holds
<1>6. Len(CHOOSE b \in Bundles(r, 0) : TRUE) = Size(r)
  BY <1>4, <1>5
<1>7. QED
  BY <1>6 DEF BuilderFee

(***************************************************************************)
(* What a build makes of a bundle: each role changes only what it should.   *)
(***************************************************************************)
PcztFields ==
  {"tx_version", "version", "expiry", "coin_type", "tins", "touts", "orchard", "ironwood", "proofs"}

\* q is p, up to some fields.
SameBut(p, q, F) == DOMAIN q = PcztFields /\ \A f \in PcztFields \ F : q[f] = p[f]

\* The actions of a pool of q are those of p, stamped.
StampedPool(p, q, r, pool) ==
  /\ SameBut(p, q, {pool})
  /\ q[pool] = [i \in DOMAIN p[pool] |-> StampAction(r, p[pool][i])]

\* ... by either format.
LEMMA Stamps ==
  ASSUME NEW p, DOMAIN p = PcztFields, NEW r
  PROVE  /\ StampedPool(p, StampSpendDerivations(p, r), r, "orchard")
         /\ StampedPool(p, StampIronwoodSpendDerivations(p, r), r, "ironwood")
<1>1. StampSpendDerivations(p, r) =
        [p EXCEPT !["orchard"] = [i \in DOMAIN p.orchard |-> StampAction(r, p.orchard[i])]]
  BY DEF StampSpendDerivations, MapActions
<1>2. StampIronwoodSpendDerivations(p, r) =
        [p EXCEPT !["ironwood"] = [i \in DOMAIN p.ironwood |-> StampAction(r, p.ironwood[i])]]
  BY DEF StampIronwoodSpendDerivations, MapActions
<1>3. QED
  BY <1>1, <1>2 DEF StampedPool, SameBut, PcztFields

\* What the IoFinalizer makes of an action of p.
Finalized(p, a) == IF IsDummy(a) THEN [a EXCEPT !.sig = <<Signature(a.key, a.rk, p)>>] ELSE a

\* The actions of q are those of p, finalized.
FinalizedPools(p, q) ==
  /\ SameBut(p, q, Pools)
  /\ \A pool \in Pools : q[pool] = [i \in DOMAIN p[pool] |-> Finalized(p, p[pool][i])]

\* ... by IoFinalize.
LEMMA IoFinalizes ==
  ASSUME NEW p, DOMAIN p = PcztFields
  PROVE  FinalizedPools(p, IoFinalize(p))
<1> DEFINE s == [i \in DOMAIN p.orchard |-> Finalized(p, p.orchard[i])]
           t == [i \in DOMAIN p.ironwood |-> Finalized(p, p.ironwood[i])]
           q == [[p EXCEPT !["orchard"] = s] EXCEPT !["ironwood"] = t]
<1>1. IoFinalize(p) = q
  <2>1. [p EXCEPT !["orchard"] = s].ironwood = p.ironwood
    OBVIOUS
  <2>2. QED
    BY <2>1 DEF IoFinalize, MapActions, Finalized
<1>2. FinalizedPools(p, q)
  BY DEF FinalizedPools, SameBut, PcztFields, Pools
<1>3. QED
  BY <1>1, <1>2

\* The proof of a pool that has actions.
LEMMA Proves ==
  ASSUME NEW p, DOMAIN p = PcztFields, NEW pool \in Pools
  PROVE  /\ SameBut(p, CreateProof(p, pool), {"proofs"})
         /\ p[pool] # <<>> => pool \in CreateProof(p, pool).proofs
  BY DEF SameBut, CreateProof, RequiresProof, PcztFields

\* An input and an output of r, with where their keys are.
TinFields == {"key", "value", "derivs", "preimages", "sigs", "scriptSig"}
TinPath(r, i) ==
  Bip44Path(StampedCoinType(r.network), r.account, <<r.tins[i].scope, r.tins[i].index>>)
IsTin(t, r, i) ==
  /\ DOMAIN t = TinFields
  /\ t.key = AddressKey(r, r.tins[i].at) /\ t.value = r.tins[i].value
  /\ t.derivs = {[pubkey |-> AddressKey(r, r.tins[i].at), path |-> TinPath(r, i)]}
  /\ t.preimages = {}
ToutOf(r, i) ==
  [to |-> TransparentOuts(r)[i].to, value |-> TransparentOuts(r)[i].value,
   derivs |-> IF i # ChangeOutput(r) THEN {}
              ELSE {[pubkey |-> TransparentChangeKey(r),
                     path |-> Bip44Path(StampedCoinType(r.network), r.account,
                                        <<1, TransparentChangeIndex>>)]}]

\* Inputs and outputs before they have one.
BareTins(r) ==
  [i \in DOMAIN r.tins |->
     [key |-> AddressKey(r, r.tins[i].at), value |-> r.tins[i].value,
      derivs |-> {}, preimages |-> {}, sigs |-> {}, scriptSig |-> FALSE]]
BareTouts(r) ==
  [i \in DOMAIN TransparentOuts(r) |->
     [to |-> TransparentOuts(r)[i].to, value |-> TransparentOuts(r)[i].value, derivs |-> {}]]

\* q is p with the derivations of the request.
Derived(p, q, r) ==
  /\ SameBut(p, q, {"tins", "touts"})
  /\ DOMAIN q.tins = DOMAIN r.tins /\ Len(q.tins) = Len(r.tins)
  /\ \A i \in DOMAIN r.tins : IsTin(q.tins[i], r, i)
  /\ q.touts = [i \in DOMAIN TransparentOuts(r) |-> ToutOf(r, i)]

\* ... by StampTransparentDerivations.
LEMMA Derives ==
  ASSUME NEW p, DOMAIN p = PcztFields, NEW r, r.tins \in Seq(TransparentInput(Nat)),
         p.tins = BareTins(r), p.touts = BareTouts(r)
  PROVE  Derived(p, StampTransparentDerivations(p, r), r)
<1> DEFINE q == StampTransparentDerivations(p, r)
<1>1. SameBut(p, q, {"tins", "touts"})
  BY DEF SameBut, StampTransparentDerivations, PcztFields
<1>2. /\ DOMAIN q.tins = DOMAIN r.tins /\ Len(q.tins) = Len(r.tins)
      /\ \A i \in DOMAIN r.tins : IsTin(q.tins[i], r, i)
  <2>1. q.tins = [i \in DOMAIN p.tins |->
                   [p.tins[i] EXCEPT !.derivs =
                      {[pubkey |-> p.tins[i].key, path |-> TinPath(r, i)]}]]
    BY DEF StampTransparentDerivations, PcztFields, TinPath
  <2> HIDE DEF q
  <2>2. DOMAIN p.tins = DOMAIN r.tins
    BY DEF BareTins
  <2>3. \A i \in DOMAIN r.tins :
          p.tins[i] = [key |-> AddressKey(r, r.tins[i].at), value |-> r.tins[i].value,
                       derivs |-> {}, preimages |-> {}, sigs |-> {}, scriptSig |-> FALSE]
    BY DEF BareTins
  <2>4. ASSUME NEW i \in DOMAIN r.tins PROVE IsTin(q.tins[i], r, i)
    <3> DEFINE t == p.tins[i]
    <3>1. /\ DOMAIN t = TinFields /\ t.preimages = {}
          /\ t.key = AddressKey(r, r.tins[i].at) /\ t.value = r.tins[i].value
      <4>1. t = [key |-> AddressKey(r, r.tins[i].at), value |-> r.tins[i].value,
                 derivs |-> {}, preimages |-> {}, sigs |-> {}, scriptSig |-> FALSE]
        BY ONLY <2>3
      <4>2. QED
        BY ONLY <4>1 DEF TinFields
    <3>2. q.tins[i] = [t EXCEPT !.derivs = {[pubkey |-> t.key, path |-> TinPath(r, i)]}]
      BY <2>1, <2>2
    <3> HIDE DEF t
    <3>3. QED
      BY <3>1, <3>2 DEF IsTin, TinFields
  <2>5. Len(q.tins) = Len(r.tins)
    BY <2>1, <2>2
  <2>6. QED
    BY <2>1, <2>2, <2>4, <2>5
<1>3. q.touts = [i \in DOMAIN TransparentOuts(r) |-> ToutOf(r, i)]
  <2>1. q.touts = [i \in DOMAIN p.touts |->
                    IF i # ChangeOutput(r) THEN p.touts[i]
                    ELSE [p.touts[i] EXCEPT !.derivs =
                            {[pubkey |-> TransparentChangeKey(r),
                              path |-> Bip44Path(StampedCoinType(r.network), r.account,
                                                 <<1, TransparentChangeIndex>>)]}]]
    BY DEF StampTransparentDerivations, PcztFields
  <2> HIDE DEF q
  <2>2. DOMAIN p.touts = DOMAIN TransparentOuts(r)
    BY DEF BareTouts
  <2>3. \A i \in DOMAIN TransparentOuts(r) :
          p.touts[i] = [to |-> TransparentOuts(r)[i].to, value |-> TransparentOuts(r)[i].value,
                        derivs |-> {}]
    BY DEF BareTouts
  <2>4. ASSUME NEW i \in DOMAIN TransparentOuts(r) PROVE q.touts[i] = ToutOf(r, i)
    <3> DEFINE d == {[pubkey |-> TransparentChangeKey(r),
                      path |-> Bip44Path(StampedCoinType(r.network), r.account,
                                         <<1, TransparentChangeIndex>>)]}
    <3>1. q.touts[i] = IF i # ChangeOutput(r) THEN p.touts[i] ELSE [p.touts[i] EXCEPT !.derivs = d]
      BY <2>1, <2>2
    <3>2. QED
      <4> HIDE DEF d
      <4>0. p.touts[i] = [to |-> TransparentOuts(r)[i].to, value |-> TransparentOuts(r)[i].value,
                          derivs |-> {}]
        BY ONLY <2>3
      <4>1. [p.touts[i] EXCEPT !.derivs = d] =
              [to |-> TransparentOuts(r)[i].to, value |-> TransparentOuts(r)[i].value, derivs |-> d]
        BY ONLY <4>0
      <4>2. CASE i # ChangeOutput(r)
        BY <2>3, <3>1, <4>2 DEF ToutOf
      <4>3. CASE i = ChangeOutput(r)
        BY <3>1, <4>1, <4>3 DEF ToutOf, d
      <4>4. QED
        BY <4>2, <4>3
  <2>5. q.touts = [i \in DOMAIN TransparentOuts(r) |-> q.touts[i]]
    BY <2>1, <2>2
  <2>6. QED
    BY <2>4, <2>5
<1>4. QED
  BY <1>1, <1>2, <1>3 DEF Derived

(***************************************************************************)
(* What a signature is over does not change from one role to the next.      *)
(***************************************************************************)
\* p and q do the same.
SameDeeds(p, q) ==
  /\ p.tx_version = q.tx_version /\ p.expiry = q.expiry
  /\ DOMAIN p.tins = DOMAIN q.tins
  /\ \A i \in DOMAIN p.tins : p.tins[i].key = q.tins[i].key /\ p.tins[i].value = q.tins[i].value
  /\ DOMAIN p.touts = DOMAIN q.touts
  /\ \A i \in DOMAIN p.touts : p.touts[i].to = q.touts[i].to /\ p.touts[i].value = q.touts[i].value
  /\ \A pool \in Pools :
       /\ DOMAIN p[pool] = DOMAIN q[pool]
       /\ \A i \in DOMAIN p[pool] :
            /\ p[pool][i].key = q[pool][i].key /\ p[pool][i].value = q[pool][i].value
            /\ p[pool][i].rk = q[pool][i].rk
            /\ p[pool][i].to = q[pool][i].to /\ p[pool][i].outValue = q[pool][i].outValue

\* Effects tells apart what does not do the same, and nothing else.
LEMMA EffectsAreDeeds ==
  ASSUME NEW p, NEW q
  PROVE  Effects(p) = Effects(q) <=> SameDeeds(p, q)
<1> DEFINE T(x) == [i \in DOMAIN x.tins |-> <<x.tins[i].key, x.tins[i].value>>]
           O(x) == [i \in DOMAIN x.touts |-> <<x.touts[i].to, x.touts[i].value>>]
           B(x, pool) == [i \in DOMAIN x[pool] |->
                            <<x[pool][i].key, x[pool][i].value, x[pool][i].rk, x[pool][i].to,
                              x[pool][i].outValue>>]
           A(x) == [pool \in Pools |-> B(x, pool)]
<1>1. \A x : Effects(x) = [tx_version |-> x.tx_version, expiry |-> x.expiry, tins |-> T(x),
                           touts |-> O(x), actions |-> A(x)]
  BY DEF Effects
<1>2. T(p) = T(q) <=>
        /\ DOMAIN p.tins = DOMAIN q.tins
        /\ \A i \in DOMAIN p.tins : p.tins[i].key = q.tins[i].key /\ p.tins[i].value = q.tins[i].value
  OBVIOUS
<1>3. O(p) = O(q) <=>
        /\ DOMAIN p.touts = DOMAIN q.touts
        /\ \A i \in DOMAIN p.touts : p.touts[i].to = q.touts[i].to /\ p.touts[i].value = q.touts[i].value
  OBVIOUS
<1>4. ASSUME NEW pool \in Pools
      PROVE  B(p, pool) = B(q, pool) <=>
               /\ DOMAIN p[pool] = DOMAIN q[pool]
               /\ \A i \in DOMAIN p[pool] :
                    /\ p[pool][i].key = q[pool][i].key /\ p[pool][i].value = q[pool][i].value
                    /\ p[pool][i].rk = q[pool][i].rk
                    /\ p[pool][i].to = q[pool][i].to /\ p[pool][i].outValue = q[pool][i].outValue
  OBVIOUS
<1> HIDE DEF T, O, B
<1>5. A(p) = A(q) <=> \A pool \in Pools : B(p, pool) = B(q, pool)
  OBVIOUS
<1> HIDE DEF A
<1>6. Effects(p) = Effects(q) <=>
        /\ p.tx_version = q.tx_version /\ p.expiry = q.expiry
        /\ T(p) = T(q) /\ O(p) = O(q) /\ A(p) = A(q)
  BY <1>1
<1>7. QED
  BY <1>2, <1>3, <1>4, <1>5, <1>6 DEF SameDeeds

\* a is the action x of the builder, with the path of its key, and signed over e if
\* it is a dummy; what the device and the extractor need is there.
IsAction(a, x, r, e) ==
  /\ DOMAIN a = {"key", "value", "rk", "to", "outValue", "zip32", "sig", "has"}
  /\ a.key = x.key /\ a.value = x.value /\ a.rk = x.rk /\ a.to = x.to /\ a.outValue = x.outValue
  /\ a.zip32 = <<32, StampedCoinType(r.network), r.account>>
  /\ ActionFields \ {"cv_net"} \subseteq a.has
  /\ a.sig = IF IsDummy(x) THEN <<[by |-> x.key, rk |-> x.rk, over |-> e]>> ELSE <<>>

\* ... once it is stamped and finalized.
LEMMA ActionIsMade ==
  ASSUME NEW r, NEW x, Fresh(x, r), NEW p
  PROVE  IsAction(Finalized(p, StampAction(r, x)), x, r, Effects(p))
<1> DEFINE s == StampAction(r, x)  y == Finalized(p, s)
<1>1. /\ DOMAIN s = {"key", "value", "rk", "to", "outValue", "zip32", "sig", "has"}
      /\ s.key = x.key /\ s.value = x.value /\ s.rk = x.rk /\ s.to = x.to /\ s.outValue = x.outValue
      /\ s.zip32 = <<32, StampedCoinType(r.network), r.account>>
      /\ s.sig = <<>> /\ s.has = (ActionFields \ {"zip32"}) \cup {"zip32"}
  BY DEF StampAction, Fresh
<1>2. ActionFields \ {"cv_net"} \subseteq s.has
  BY <1>1
<1>3. IsDummy(s) <=> IsDummy(x)
  BY <1>1 DEF IsDummy
<1>4. y = IF IsDummy(x) THEN [s EXCEPT !.sig = <<Signature(s.key, s.rk, p)>>] ELSE s
  <2> HIDE DEF s
  <2>1. QED
    BY <1>3 DEF Finalized
<1>5. Signature(s.key, s.rk, p) = [by |-> x.key, rk |-> x.rk, over |-> Effects(p)]
  <2> HIDE DEF s
  <2>1. QED
    BY <1>1 DEF Signature
<1> HIDE DEF s, y
<1>6. /\ DOMAIN y = DOMAIN s /\ y.key = s.key /\ y.value = s.value /\ y.rk = s.rk /\ y.to = s.to
      /\ y.outValue = s.outValue /\ y.zip32 = s.zip32 /\ y.has = s.has
      /\ y.sig = IF IsDummy(x) THEN <<[by |-> x.key, rk |-> x.rk, over |-> Effects(p)]>> ELSE <<>>
  BY <1>1, <1>4, <1>5
<1>7. IsAction(y, x, r, Effects(p))
  BY <1>1, <1>2, <1>6 DEF IsAction
<1>8. QED
  BY <1>7 DEF s, y

\* ... and still, once it is redacted.
LEMMA ActionRedacted ==
  ASSUME NEW a, NEW x, NEW r, NEW e, IsAction(a, x, r, e)
  PROVE  IsAction([a EXCEPT !.has = @ \ {"cv_net"}], x, r, e)
  BY DEF IsAction

(***************************************************************************)
(* What the assembly of a PCZT makes of the request r and its bundle b.     *)
(***************************************************************************)
PoolOf(r) == IF r.flow = "v5" THEN "orchard" ELSE "ironwood"
OtherPool(r) == IF r.flow = "v5" THEN "ironwood" ELSE "orchard"

\* Of the actions: those of b, and no others.
HasActions(p, r, b, e) ==
  /\ DOMAIN p[PoolOf(r)] = DOMAIN b /\ Len(p[PoolOf(r)]) = Len(b)
  /\ \A i \in DOMAIN b : IsAction(p[PoolOf(r)][i], b[i], r, e)
  /\ p[OtherPool(r)] = <<>>

\* Of the rest.
HasRows(p, r) ==
  /\ DOMAIN p.tins = DOMAIN r.tins /\ Len(p.tins) = Len(r.tins)
  /\ \A i \in DOMAIN r.tins : IsTin(p.tins[i], r, i)
  /\ p.touts = [i \in DOMAIN TransparentOuts(r) |-> ToutOf(r, i)]

\* All of it: the dummies have signed what it does.
Assembled(p, r, b) ==
  /\ DOMAIN p = PcztFields
  /\ HasActions(p, r, b, Effects(p)) /\ HasRows(p, r)
  /\ p[PoolOf(r)] # <<>> => PoolOf(r) \in p.proofs

\* The parts are put together, not yet stamped.
BareParts(p, r, b) ==
  /\ DOMAIN p = PcztFields
  /\ p.tins = BareTins(r) /\ p.touts = BareTouts(r)
  /\ p[PoolOf(r)] = b /\ p[OtherPool(r)] = <<>>

\* ... of one of the bundles of the builder.
Begun(p, r, salt) == \E b \in Bundles(r, salt) : BareParts(p, r, b)

\* ... with its expiry capped.
LEMMA PartsAreBare ==
  ASSUME NEW r, NEW salt, r.flow \in {"v5", "v6"}, NEW p \in Parts(r, salt),
         NEW q, SameBut(p, q, {"expiry"})
  PROVE  Begun(q, r, salt)
<1>1. PICK b \in Bundles(r, salt) :
        p = [tx_version |-> IF r.flow = "v5" THEN 5 ELSE 6, version |-> 0,
             expiry |-> r.target + DefaultExpiry, coin_type |-> CoinType(r.network.type),
             tins |-> BareTins(r), touts |-> BareTouts(r),
             orchard |-> IF r.flow = "v5" THEN b ELSE <<>>,
             ironwood |-> IF r.flow = "v6" THEN b ELSE <<>>, proofs |-> {}]
  BY DEF Parts, BareTins, BareTouts
<1>2. /\ DOMAIN q = PcztFields /\ q.tins = BareTins(r) /\ q.touts = BareTouts(r)
      /\ q.orchard = IF r.flow = "v5" THEN b ELSE <<>>
      /\ q.ironwood = IF r.flow = "v6" THEN b ELSE <<>>
  BY <1>1 DEF PcztFields, SameBut
<1>3. BareParts(q, r, b)
  BY <1>2 DEF BareParts, PoolOf, OtherPool
<1>4. QED
  BY <1>3 DEF Begun

\* A function of nothing is the empty sequence.
LEMMA NothingLeft == \A s : s = [i \in {} |-> s[i]] => s = <<>>
  OBVIOUS

\* Stamped, finalized, proved and derived: the signatures of dummies stay good.
LEMMA RolesAssemble ==
  ASSUME NEW r, r.flow \in {"v5", "v6"}, r.tins \in Seq(TransparentInput(Nat)),
         NEW b, NEW n \in Nat, DOMAIN b = 1 .. n, Len(b) = n, \A i \in 1 .. n : Fresh(b[i], r),
         NEW p1, BareParts(p1, r, b),
         NEW p2, StampedPool(p1, p2, r, PoolOf(r)),
         NEW p3, FinalizedPools(p2, p3),
         NEW p4, p4 = CreateProof(p3, PoolOf(r)),
         NEW p5, p5 = StampTransparentDerivations(p4, r)
  PROVE  Assembled(p5, r, b)
<1> DEFINE pool == PoolOf(r)  other == OtherPool(r)
<1>1. pool \in Pools /\ other \in Pools /\ pool # other /\ Pools = {pool, other}
      /\ Pools \subseteq PcztFields /\ {"tx_version", "expiry", "tins", "touts", "proofs"} \subseteq PcztFields
      /\ Pools \cap {"tx_version", "expiry", "tins", "touts", "proofs"} = {}
  BY DEF PoolOf, OtherPool, Pools, PcztFields
<1> HIDE DEF pool, other
<1>2. /\ DOMAIN p1 = PcztFields /\ p1.tins = BareTins(r) /\ p1.touts = BareTouts(r)
      /\ p1[pool] = b /\ p1[other] = <<>>
  BY DEF BareParts, pool, other
<1>3. /\ DOMAIN p2 = PcztFields /\ p2.tins = BareTins(r) /\ p2.touts = BareTouts(r)
      /\ p2[pool] = [i \in 1 .. n |-> StampAction(r, b[i])] /\ p2[other] = <<>>
  BY <1>1, <1>2 DEF StampedPool, SameBut, pool
<1>4. /\ DOMAIN p3 = PcztFields /\ p3.tins = BareTins(r) /\ p3.touts = BareTouts(r)
      /\ p3.tx_version = p2.tx_version /\ p3.expiry = p2.expiry
      /\ p3[pool] = [i \in 1 .. n |-> Finalized(p2, StampAction(r, b[i]))] /\ p3[other] = <<>>
  <2>1. /\ DOMAIN p3 = PcztFields /\ p3.tins = BareTins(r) /\ p3.touts = BareTouts(r)
        /\ p3.tx_version = p2.tx_version /\ p3.expiry = p2.expiry
    BY <1>1, <1>3 DEF FinalizedPools, SameBut
  <2>2. p3[pool] = [i \in 1 .. n |-> Finalized(p2, StampAction(r, b[i]))]
    BY <1>1, <1>3, SMTT(20) DEF FinalizedPools
  <2>3. p3[other] = <<>>
    <3>1. p3[other] = [i \in DOMAIN p2[other] |-> Finalized(p2, p2[other][i])]
      BY <1>1 DEF FinalizedPools
    <3>2. DOMAIN p2[other] = {}
      BY <1>3
    <3>3. p3[other] = [i \in {} |-> p3[other][i]]
      BY <3>1, <3>2
    <3>4. QED
      BY <3>3, NothingLeft
  <2>4. QED
    BY <2>1, <2>2, <2>3
<1>5. /\ DOMAIN p4 = PcztFields /\ p4.tins = BareTins(r) /\ p4.touts = BareTouts(r)
      /\ p4.tx_version = p2.tx_version /\ p4.expiry = p2.expiry
      /\ p4[pool] = p3[pool] /\ p4[other] = <<>>
      /\ p4[pool] # <<>> => pool \in p4.proofs
  <2>1. SameBut(p3, p4, {"proofs"}) /\ (p3[pool] # <<>> => pool \in p4.proofs)
    BY <1>1, <1>4, Proves DEF pool
  <2>2. QED
    BY <1>1, <1>4, <2>1 DEF SameBut
<1>6. Derived(p4, p5, r)
  BY <1>5, Derives
<1>7. /\ DOMAIN p5 = PcztFields /\ p5.tx_version = p2.tx_version /\ p5.expiry = p2.expiry
      /\ p5[pool] = p3[pool] /\ p5[other] = <<>>
      /\ p5[pool] # <<>> => pool \in p5.proofs
  BY <1>1, <1>5, <1>6 DEF Derived, SameBut
<1>8. ASSUME NEW i \in 1 .. n PROVE IsAction(p5[pool][i], b[i], r, Effects(p2))
  <2>1. p5[pool][i] = Finalized(p2, StampAction(r, b[i]))
    BY <1>4, <1>7
  <2>2. QED
    BY <2>1, ActionIsMade
<1>9. DOMAIN p5[pool] = 1 .. n /\ Len(p5[pool]) = n
  BY <1>4, <1>7
<1>10. SameDeeds(p2, p5)
  <2>1. /\ DOMAIN p2.tins = DOMAIN r.tins
        /\ \A i \in DOMAIN r.tins : p2.tins[i].key = AddressKey(r, r.tins[i].at) /\ p2.tins[i].value = r.tins[i].value
    BY <1>3 DEF BareTins
  <2>2. /\ DOMAIN p5.tins = DOMAIN r.tins
        /\ \A i \in DOMAIN r.tins : p5.tins[i].key = AddressKey(r, r.tins[i].at) /\ p5.tins[i].value = r.tins[i].value
    BY <1>6 DEF Derived, IsTin
  <2>3. /\ DOMAIN p2.touts = DOMAIN TransparentOuts(r)
        /\ \A i \in DOMAIN TransparentOuts(r) :
             /\ p2.touts[i].to = TransparentOuts(r)[i].to
             /\ p2.touts[i].value = TransparentOuts(r)[i].value
    BY <1>3 DEF BareTouts
  <2>4. /\ DOMAIN p5.touts = DOMAIN TransparentOuts(r)
        /\ \A i \in DOMAIN TransparentOuts(r) :
             /\ p5.touts[i].to = TransparentOuts(r)[i].to
             /\ p5.touts[i].value = TransparentOuts(r)[i].value
    BY <1>6 DEF Derived, ToutOf
  <2>5. /\ DOMAIN p2[pool] = 1 .. n /\ DOMAIN p5[pool] = 1 .. n
        /\ \A i \in 1 .. n :
             /\ p2[pool][i].key = p5[pool][i].key /\ p2[pool][i].value = p5[pool][i].value
             /\ p2[pool][i].rk = p5[pool][i].rk
             /\ p2[pool][i].to = p5[pool][i].to /\ p2[pool][i].outValue = p5[pool][i].outValue
    <3>1. \A i \in 1 .. n : p2[pool][i] = StampAction(r, b[i])
      BY <1>3
    <3>2. ASSUME NEW i \in 1 .. n
          PROVE  /\ p2[pool][i].key = b[i].key /\ p2[pool][i].value = b[i].value
                 /\ p2[pool][i].rk = b[i].rk
                 /\ p2[pool][i].to = b[i].to /\ p2[pool][i].outValue = b[i].outValue
      <4>1. p2[pool][i] = StampAction(r, b[i]) /\ Fresh(b[i], r)
        BY <3>1
      <4>2. QED
        BY ONLY <4>1 DEF StampAction, Fresh
    <3>3. \A i \in 1 .. n :
             /\ p5[pool][i].key = b[i].key /\ p5[pool][i].value = b[i].value
             /\ p5[pool][i].rk = b[i].rk
             /\ p5[pool][i].to = b[i].to /\ p5[pool][i].outValue = b[i].outValue
      BY ONLY <1>8 DEF IsAction
    <3>4. DOMAIN p2[pool] = 1 .. n
      BY <1>3
    <3>5. QED
      BY ONLY <1>9, <3>2, <3>3, <3>4
  <2>6. p2[other] = p5[other]
    BY <1>3, <1>7
  <2>7. DOMAIN <<>> = {}
    OBVIOUS
  <2>8. QED
    BY <1>1, <1>3, <1>7, <2>1, <2>2, <2>3, <2>4, <2>5, <2>6, <2>7 DEF SameDeeds
<1>11. Effects(p2) = Effects(p5)
  BY <1>10, EffectsAreDeeds
<1>12. HasActions(p5, r, b, Effects(p5))
  BY <1>7, <1>8, <1>9, <1>11 DEF HasActions, pool, other
<1>13. HasRows(p5, r)
  BY <1>6 DEF HasRows, Derived
<1>14. QED
  BY <1>7, <1>12, <1>13 DEF Assembled, pool

\* The version of the format changes nothing.
LEMMA Encodes ==
  ASSUME NEW p, NEW r, r.flow \in {"v5", "v6"}, NEW b, Assembled(p, r, b),
         NEW q, SameBut(p, q, {"version"})
  PROVE  Assembled(q, r, b)
<1>2. /\ q.tx_version = p.tx_version /\ q.expiry = p.expiry /\ q.tins = p.tins /\ q.touts = p.touts
      /\ q.orchard = p.orchard /\ q.ironwood = p.ironwood /\ q.proofs = p.proofs
      /\ DOMAIN q = PcztFields
  BY DEF SameBut, PcztFields
<1>3. \A pool \in Pools : q[pool] = p[pool]
  BY <1>2 DEF Pools
<1>4. Effects(q) = Effects(p)
  <2>1. SameDeeds(q, p)
    BY <1>2, <1>3 DEF SameDeeds
  <2>2. QED
    BY <2>1, EffectsAreDeeds
<1>5. PoolOf(r) \in Pools /\ OtherPool(r) \in Pools
  BY DEF PoolOf, OtherPool, Pools
<1>6. QED
  BY <1>2, <1>3, <1>4, <1>5 DEF Assembled, HasActions, HasRows

\* The redaction of a V6 transaction takes nothing away that is needed.
LEMMA Redacts ==
  ASSUME NEW p, NEW r, r.flow = "v6", NEW b, NEW n \in Nat, DOMAIN b = 1 .. n, Len(b) = n,
         Assembled(p, r, b)
  PROVE  Assembled(ApplyV6Redaction(p), r, b)
<1> DEFINE R(a) == [a EXCEPT !.has = @ \ {"cv_net"}]
           R2(a) == [a EXCEPT !.has = @ \ {"cv_net", "cmx", "fvk"}]
           q == ApplyV6Redaction(p)
<1>1. /\ DOMAIN p = PcztFields /\ p.orchard = <<>>
      /\ DOMAIN p.ironwood = 1 .. n /\ \A i \in 1 .. n : IsAction(p.ironwood[i], b[i], r, Effects(p))
      /\ p.ironwood # <<>> => "ironwood" \in p.proofs
  BY DEF Assembled, HasActions, PoolOf, OtherPool
<1>2. q = [[p EXCEPT !["orchard"] = [i \in DOMAIN p.orchard |-> R2(p.orchard[i])]]
             EXCEPT !["ironwood"] = [i \in DOMAIN p.ironwood |-> R(p.ironwood[i])]]
  <2>1. \A s : [p EXCEPT !["orchard"] = s].ironwood = p.ironwood
    BY <1>1 DEF PcztFields
  <2>2. QED
    BY <2>1 DEF ApplyV6Redaction, MapActions
<1>3. /\ DOMAIN q = PcztFields
      /\ q.orchard = [i \in DOMAIN p.orchard |-> R2(p.orchard[i])]
      /\ q.ironwood = [i \in 1 .. n |-> R(p.ironwood[i])]
      /\ q.tx_version = p.tx_version /\ q.expiry = p.expiry /\ q.tins = p.tins /\ q.touts = p.touts
      /\ q.proofs = p.proofs
  BY <1>1, <1>2 DEF PcztFields
<1> HIDE DEF q
<1>4. q.orchard = <<>>
  <2>1. DOMAIN p.orchard = {}
    BY <1>1
  <2>2. q.orchard = [i \in {} |-> q.orchard[i]]
    BY <1>3, <2>1
  <2>3. QED
    BY <2>2, NothingLeft
<1>5. /\ DOMAIN q.ironwood = 1 .. n /\ Len(q.ironwood) = n
      /\ \A i \in 1 .. n : q.ironwood[i] = R(p.ironwood[i])
  BY <1>3
<1>6. ASSUME NEW i \in 1 .. n PROVE IsAction(q.ironwood[i], b[i], r, Effects(p))
  <2>1. IsAction(p.ironwood[i], b[i], r, Effects(p))
    BY <1>1
  <2>2. IsAction(R(p.ironwood[i]), b[i], r, Effects(p))
    BY ONLY <2>1, ActionRedacted
  <2>3. q.ironwood[i] = R(p.ironwood[i])
    BY <1>5
  <2> HIDE DEF R
  <2>4. QED
    BY <2>2, <2>3
<1>7. Effects(q) = Effects(p)
  <2>1. SameDeeds(q, p)
    <3>1. ASSUME NEW i \in 1 .. n
          PROVE  /\ q.ironwood[i].key = p.ironwood[i].key /\ q.ironwood[i].value = p.ironwood[i].value
                 /\ q.ironwood[i].rk = p.ironwood[i].rk
                 /\ q.ironwood[i].to = p.ironwood[i].to
                 /\ q.ironwood[i].outValue = p.ironwood[i].outValue
      <4>1. IsAction(p.ironwood[i], b[i], r, Effects(p)) /\ IsAction(q.ironwood[i], b[i], r, Effects(p))
        BY <1>1, <1>6
      <4>2. QED
        BY ONLY <4>1 DEF IsAction
    <3>2. DOMAIN <<>> = {}
      OBVIOUS
    <3>3. /\ DOMAIN q.orchard = DOMAIN p.orchard /\ DOMAIN p.orchard = {}
          /\ DOMAIN q.ironwood = DOMAIN p.ironwood /\ DOMAIN p.ironwood = 1 .. n
      BY <1>1, <1>4, <1>5, <3>2
    <3>4. ASSUME NEW pool \in Pools
          PROVE  /\ DOMAIN q[pool] = DOMAIN p[pool]
                 /\ \A i \in DOMAIN q[pool] :
                      /\ q[pool][i].key = p[pool][i].key /\ q[pool][i].value = p[pool][i].value
                      /\ q[pool][i].rk = p[pool][i].rk
                      /\ q[pool][i].to = p[pool][i].to /\ q[pool][i].outValue = p[pool][i].outValue
      <4>1. CASE pool = "orchard"
        BY <3>3, <4>1
      <4>2. CASE pool = "ironwood"
        BY <3>1, <3>3, <4>2
      <4>3. QED
        BY <4>1, <4>2 DEF Pools
    <3>5. QED
      BY ONLY <1>3, <3>4 DEF SameDeeds
  <2>2. QED
    BY <2>1, EffectsAreDeeds
<1>8. q.ironwood # <<>> => "ironwood" \in q.proofs
  <2>1. p.ironwood = <<>> => n = 0
    BY <1>1
  <2>2. n = 0 => q.ironwood = <<>>
    <3>1. q.ironwood = [i \in 1 .. n |-> q.ironwood[i]]
      BY <1>3
    <3>2. n = 0 => 1 .. n = {}
      OBVIOUS
    <3>3. QED
      BY <3>1, <3>2, NothingLeft
  <2>3. QED
    BY <1>1, <1>3, <2>1, <2>2
<1>9. HasActions(q, r, b, Effects(q))
  BY <1>4, <1>5, <1>6, <1>7 DEF HasActions, PoolOf, OtherPool
<1>10. HasRows(q, r)
  BY <1>3 DEF Assembled, HasRows
<1>11. Assembled(q, r, b)
  BY <1>3, <1>8, <1>9, <1>10 DEF Assembled, PoolOf
<1>12. QED
  BY <1>11 DEF q

\* So every build gives a PCZT that is assembled from one of its bundles.
LEMMA BuildsAssemble ==
  ASSUME NEW r, Valid(r), NEW salt,
         NEW result \in (IF r.flow = "v5" THEN BuildTransaction(r, salt)
                         ELSE BuildIronwoodTransaction(r, salt))
  PROVE  \E b \in Bundles(r, salt) :
           /\ Assembled(result.pczt, r, b) /\ Holds(b, r, Size(r))
           /\ result = BuildOutput(result.pczt, r)
<1>1. r.flow \in {"v5", "v6"} /\ r.tins \in Seq(TransparentInput(Nat))
  BY ValidInputs
<1>2. r.flow = "v5" => \A i \in DOMAIN r.outs : AddOutput(r, r.outs[i])
  BY DEF BuildTransaction, Buildable5
<1>3. PICK parts \in Parts(r, salt) :
        result = BuildOutput(IF r.flow = "v5" THEN Assemble5(parts, r) ELSE Assemble6(parts, r), r)
  BY DEF BuildTransaction, BuildIronwoodTransaction
<1> DEFINE p1 == [parts EXCEPT !.expiry = CapExpiry(r)]
           p2 == IF r.flow = "v5" THEN StampSpendDerivations(p1, r)
                 ELSE StampIronwoodSpendDerivations(p1, r)
           p3 == IoFinalize(p2)
           p4 == CreateProof(p3, PoolOf(r))
           p5 == StampTransparentDerivations(p4, r)
<1>4. PICK b \in Bundles(r, salt) : BareParts(p1, r, b)
  <2>1. SameBut(parts, p1, {"expiry"})
    BY DEF Parts, SameBut, PcztFields
  <2> HIDE DEF p1
  <2>2. parts \in Parts(r, salt)
    OBVIOUS
  <2>3. Begun(p1, r, salt)
    BY ONLY <1>1, <2>1, <2>2, PartsAreBare
  <2>4. QED
    BY <2>3 DEF Begun
<1>5. Holds(b, r, Size(r))
  BY <1>2, BundleHolds
<1> DEFINE n == Size(r)
<1>6. n \in Nat /\ DOMAIN b = 1 .. n /\ Len(b) = n /\ \A i \in 1 .. n : Fresh(b[i], r)
  BY <1>5 DEF Holds
<1>7. DOMAIN p1 = PcztFields
  BY <1>4 DEF BareParts
<1>8. result.pczt = IF r.flow = "v5" THEN EncodeV1(p5) ELSE EncodeV2(ApplyV6Redaction(p5))
  BY <1>3 DEF BuildOutput, Assemble5, Assemble6, PoolOf
<1> HIDE DEF p1, n
<1>9. StampedPool(p1, p2, r, PoolOf(r))
  BY <1>1, <1>7, Stamps DEF PoolOf
<1> HIDE DEF p2
<1>10. FinalizedPools(p2, p3)
  <2>1. DOMAIN p2 = PcztFields
    BY <1>9 DEF StampedPool, SameBut
  <2>2. QED
    BY <2>1, IoFinalizes
<1>11. Assembled(p5, r, b)
  <2> HIDE DEF p3
  <2>1. p4 = CreateProof(p3, PoolOf(r)) /\ p5 = StampTransparentDerivations(p4, r)
    OBVIOUS
  <2> HIDE DEF p4, p5
  <2>2. QED
    BY ONLY <1>1, <1>4, <1>6, <1>9, <1>10, <2>1, RolesAssemble
<1> HIDE DEF p3, p4, p5
<1>12. Assembled(result.pczt, r, b)
  <2>1. CASE r.flow = "v5"
    <3>1. SameBut(p5, result.pczt, {"version"})
      BY <1>8, <1>11, <2>1 DEF EncodeV1, SameBut, Assembled, PcztFields
    <3>2. QED
      BY ONLY <1>1, <1>11, <3>1, Encodes
  <2>2. CASE r.flow = "v6"
    <3>1. Assembled(ApplyV6Redaction(p5), r, b)
      BY <1>6, <1>11, <2>2, Redacts
    <3> DEFINE p6 == ApplyV6Redaction(p5)
    <3>2. result.pczt = [p6 EXCEPT !.version = 2]
      BY <1>8, <2>2 DEF EncodeV2
    <3>3. Assembled(p6, r, b)
      BY <3>1
    <3> HIDE DEF p6
    <3>4. SameBut(p6, result.pczt, {"version"})
      BY <3>2, <3>3 DEF SameBut, Assembled, PcztFields
    <3>5. QED
      BY ONLY <1>1, <3>3, <3>4, Encodes
  <2>3. QED
    BY <1>1, <2>1, <2>2
<1>13. result = BuildOutput(result.pczt, r)
  BY <1>3 DEF BuildOutput
<1>14. QED
  BY <1>5, <1>12, <1>13

(***************************************************************************)
(* From the parameters of the caller to what is built.                      *)
(***************************************************************************)
NetTypes == {"main", "test", "regtest"}

\* A network that was resolved is of the type of its name.
LEMMA ResolvedType ==
  ASSUME NEW name, NEW overrides, NEW n \in ResolveAnyNetwork(name, overrides)
  PROVE  n.type = TypeOf(name) /\ n.type \in NetTypes
<1>1. \A h : \A x \in ToLocalNetwork(h) : x.type = "regtest"
  BY DEF ToLocalNetwork
<1>2. CASE TypeOf(name) = "regtest"
  BY <1>1, <1>2 DEF ResolveAnyNetwork, NetTypes
<1>3. CASE TypeOf(name) # "regtest"
  BY <1>3 DEF ResolveAnyNetwork, NetTypes
<1>4. QED
  BY <1>2, <1>3

\* What is built for parameters that parse is built for valid inputs.
LEMMA InputsAreValid ==
  ASSUME NEW p, p \in BuildInputs({p.network}, Int), ParamsParse(p), NEW n,
         NEW r, r = InputsOf(p, n)
  PROVE  /\ Valid(r) /\ r.network = n /\ r.account = p.account /\ r.flow = p.flow
<1> DEFINE A == 0 .. MaxU64
<1>1. /\ DOMAIN p = {"flow", "target", "network", "account", "anchor", "spends", "tins", "outs", "fee",
                     "accountKey"}
      /\ p.flow \in {"v5", "v6"} /\ p.target \in Nat /\ p.account \in Nat
      /\ p.anchor \in {"root", "zero", "malformed"} /\ p.spends \in Seq(Int)
      /\ p.tins \in Seq(TransparentInput(Int)) /\ p.outs \in Seq(OutputRequest(Int))
      /\ p.fee \in Int /\ p.accountKey \in BOOLEAN
  BY DEF BuildInputs
<1>2. p.spends \in Seq(A)
  <2>1. \A i \in DOMAIN p.spends : p.spends[i] \in A
    BY DEF ParamsParse, ParseU64
  <2> HIDE DEF A
  <2>2. QED
    BY <1>1, <2>1
<1>3. p.tins \in Seq(TransparentInput(A))
  <2>1. ASSUME NEW i \in DOMAIN p.tins PROVE p.tins[i] \in TransparentInput(A)
    <3>1. p.tins[i] \in TransparentInput(Int) /\ p.tins[i].value \in A
      BY <1>1 DEF ParamsParse, ParseU64
    <3> HIDE DEF A
    <3>2. QED
      BY <3>1 DEF TransparentInput
  <2>2. QED
    BY <1>1, <2>1
<1>4. p.outs \in Seq(OutputRequest(A))
  <2>1. ASSUME NEW i \in DOMAIN p.outs PROVE p.outs[i] \in OutputRequest(A)
    <3>1. p.outs[i] \in OutputRequest(Int) /\ p.outs[i].value \in A
      BY <1>1 DEF ParamsParse, ParseU64
    <3> HIDE DEF A
    <3>2. QED
      BY <3>1 DEF OutputRequest
  <2>2. QED
    BY <1>1, <2>1
<1>5. p.fee \in A
  BY DEF ParamsParse, ParseU64
<1>6. r \in BuildInputs({n}, A) /\ r.network = n /\ r.account = p.account /\ r.flow = p.flow
  <2> HIDE DEF A
  <2>1. QED
    BY <1>1, <1>2, <1>3, <1>4, <1>5 DEF BuildInputs, InputsOf
<1>7. QED
  BY <1>6 DEF Valid

\* o was built for r.
BuiltFor(o, r) ==
  /\ Valid(r) /\ Payable(r) /\ r.network.type \in NetTypes
  /\ \A i \in DOMAIN r.tins : DecodesInput(r, r.tins[i])
  /\ r.flow = "v5" => \A i \in DOMAIN r.outs : AddOutput(r, r.outs[i])
  /\ o = BuildOutput(o.pczt, r)
  /\ \E b : Assembled(o.pczt, r, b) /\ Holds(b, r, Size(r))

\* ... on behalf of the caller's parameters p.
BuiltOnBehalf(o, p) ==
  \E r : BuiltFor(o, r) /\ r.network.type = TypeOf(p.network.name) /\ r.account = p.account

\* What the exports give for the parameters p.
Given(p, salt) == FFIBuildTransaction(p, salt) \cup FFIBuildIronwoodTransaction(p, salt)

\* ... is built on their behalf.
LEMMA GivenIsBuilt ==
  ASSUME NEW p, p \in BuildInputs({p.network}, Int), NEW salt, NEW o \in Given(p, salt)
  PROVE  BuiltOnBehalf(o, p)
<1>1. PICK n \in ResolveAnyNetwork(p.network.name, p.network.overrides) :
        /\ ParamsParse(p)
        /\ \/ p.flow = "v5" /\ o \in CraftTransaction(InputsOf(p, n), salt)
           \/ p.flow = "v6" /\ o \in CraftIronwoodTransaction(InputsOf(p, n), salt)
  BY DEF Given, FFIBuildTransaction, FFIBuildIronwoodTransaction
<1> DEFINE r == InputsOf(p, n)
<1>2. Valid(r) /\ r.network = n /\ r.account = p.account /\ r.flow = p.flow
  <2>1. r = InputsOf(p, n)
    OBVIOUS
  <2> HIDE DEF r
  <2>2. QED
    BY <1>1, <2>1, InputsAreValid
<1>3. r.network.type = TypeOf(p.network.name) /\ r.network.type \in NetTypes
  <2>1. n.type = TypeOf(p.network.name) /\ n.type \in NetTypes
    BY <1>1, ResolvedType
  <2>2. QED
    BY <1>2, <2>1
<1>4. /\ \A i \in DOMAIN r.tins : DecodesInput(r, r.tins[i])
      /\ o \in IF r.flow = "v5" THEN BuildTransaction(r, salt) ELSE BuildIronwoodTransaction(r, salt)
  <2> HIDE DEF r
  <2>1. \/ r.flow = "v5" /\ o \in CraftTransaction(r, salt)
        \/ r.flow = "v6" /\ o \in CraftIronwoodTransaction(r, salt)
    BY <1>1, <1>2 DEF r
  <2>2. QED
    BY <2>1 DEF CraftTransaction, CraftIronwoodTransaction
<1> HIDE DEF r
<1>5. /\ Payable(r)
      /\ r.flow = "v5" => \A i \in DOMAIN r.outs : AddOutput(r, r.outs[i])
  BY <1>4 DEF BuildTransaction, BuildIronwoodTransaction, Buildable5, Buildable6
<1>6. \E b \in Bundles(r, salt) :
           /\ Assembled(o.pczt, r, b) /\ Holds(b, r, Size(r))
           /\ o = BuildOutput(o.pczt, r)
  BY <1>2, <1>4, BuildsAssemble
<1>7. BuiltFor(o, r)
  BY <1>2, <1>3, <1>4, <1>5, <1>6 DEF BuiltFor
<1>8. QED
  BY <1>2, <1>3, <1>7 DEF BuiltOnBehalf

(***************************************************************************)
(* The paths that are stamped are those of the keys.                        *)
(***************************************************************************)
\* The coin type that is stamped is that of the wallet, on every network.
LEMMA CoinIsWallets ==
  ASSUME NEW r, r.network.type \in NetTypes
  PROVE  /\ StampedCoinType(r.network) = WalletCoin(r.network.type)
         /\ r.network.type # "regtest" => CoinType(r.network.type) = WalletCoin(r.network.type)
  BY DEF StampedCoinType, WalletCoin, CoinType, NetTypes

\* The path of an input is that of its key.
LEMMA TinPaths ==
  ASSUME NEW o, NEW r, BuiltFor(o, r), NEW i \in DOMAIN r.tins
  PROVE  /\ TinPath(r, i) = <<44, WalletCoin(r.network.type), r.account>>
                            \o <<r.tins[i].scope, r.tins[i].index>>
         /\ WalletKey(TinPath(r, i)) = AddressKey(r, r.tins[i].at)
         /\ r.account < Hardened
<1>1. /\ DecodesInput(r, r.tins[i]) /\ r.network.type \in NetTypes /\ r.account \in Nat
      /\ Bip44Path(0, r.account, <<r.tins[i].scope, r.tins[i].index>>) # NoPath
  BY ValidInputs DEF BuiltFor, Payable
<1>2. AddressKey(r, <<r.tins[i].scope, r.tins[i].index>>) = AddressKey(r, r.tins[i].at)
  BY <1>1 DEF DecodesInput
<1> DEFINE at == <<r.tins[i].scope, r.tins[i].index>>
<1>3. ~(r.account >= Hardened \/ \E k \in DOMAIN at : at[k] >= Hardened)
  <2> HIDE DEF at
  <2>1. QED
    BY <1>1 DEF Bip44Path, at
<1> HIDE DEF at
<1>4. TinPath(r, i) = <<44, WalletCoin(r.network.type), r.account>> \o at
  <2>1. TinPath(r, i) = Bip44Path(StampedCoinType(r.network), r.account, at)
    BY DEF TinPath, at
  <2>2. StampedCoinType(r.network) = WalletCoin(r.network.type)
    BY <1>1, CoinIsWallets
  <2>3. QED
    BY <1>3, <2>1, <2>2 DEF Bip44Path
<1>5. r.account < Hardened
  BY <1>1, <1>3, BuildAssumption
<1>6. WalletKey(TinPath(r, i)) = AddressKey(r, r.tins[i].at)
  BY <1>2, <1>4 DEF AddressKey, at
<1>7. QED
  BY <1>4, <1>5, <1>6 DEF at

\* The change of a send that spends no notes is the last transparent output, at its
\* path; the others pay somebody else.
LEMMA ToutsAre ==
  ASSUME NEW o, NEW r, BuiltFor(o, r)
  PROVE  /\ TransparentOuts(r) \in Seq([to : {TransparentChangeKey(r)} \cup {PayeeKey(i) : i \in Nat},
                                        value : Nat])
         /\ \A i \in DOMAIN TransparentOuts(r) :
              IF i = ChangeOutput(r)
              THEN /\ TransparentOuts(r)[i].to = TransparentChangeKey(r)
                   /\ Bip44Path(StampedCoinType(r.network), r.account, <<1, TransparentChangeIndex>>) =
                        <<44, WalletCoin(r.network.type), r.account>> \o <<1, 0>>
              ELSE \E k \in Nat : TransparentOuts(r)[i].to = PayeeKey(k)
<1> DEFINE P == Payments(r, "transparent")  C == TransparentChange(r)  T == TransparentOuts(r)
           R == [to : {TransparentChangeKey(r)} \cup {PayeeKey(i) : i \in Nat}, value : Nat]
<1>1. /\ P \in Seq(Rows) /\ Change(r) \in Int /\ Payable(r) /\ r.network.type \in NetTypes
      /\ r.account \in Nat /\ r.tins \in Seq(TransparentInput(Nat))
  BY ValidInputs, PaymentsAre DEF BuiltFor
<1>2. \/ C = <<>>
      \/ /\ Change(r) > 0 /\ r.spends = <<>>
         /\ C = <<[to |-> TransparentChangeKey(r), value |-> Change(r)]>>
  BY DEF TransparentChange
<1>3. Rows \subseteq R
  BY DEF Rows
<1>4. C \in Seq(R)
  <2>1. Change(r) > 0 => [to |-> TransparentChangeKey(r), value |-> Change(r)] \in R
    BY <1>1
  <2> HIDE DEF R, C
  <2>2. CASE C = <<>>
    BY <2>2
  <2>3. CASE C # <<>>
    <3> DEFINE row == [to |-> TransparentChangeKey(r), value |-> Change(r)]
    <3>1. row \in R /\ C = <<row>>
      BY <1>2, <2>1, <2>3
    <3> HIDE DEF row
    <3>2. QED
      BY <3>1
  <2>4. QED
    BY <2>2, <2>3
<1>5. P \in Seq(R)
  BY <1>1, <1>3, SeqMonotonic
<1>6. T = P \o C
  BY DEF TransparentOuts
<1>7. /\ \A i \in 1 .. Len(P) : \E k \in Nat : P[i].to = PayeeKey(k)
      /\ Len(P) \in Nat
  <2>1. \A i \in 1 .. Len(P) : P[i] \in Rows
    BY <1>1
  <2>2. QED
    BY <1>1, <2>1, SMTT(20) DEF Rows
<1>8. ChangeOutput(r) = IF C = <<>> THEN 0 ELSE Len(T)
  BY DEF ChangeOutput
<1> HIDE DEF P, C, T, R
<1>9. /\ T \in Seq(R) /\ Len(T) = Len(P) + Len(C)
      /\ \A i \in 1 .. Len(P) + Len(C) : T[i] = IF i <= Len(P) THEN P[i] ELSE C[i - Len(P)]
  BY ONLY <1>4, <1>5, <1>6, ConcatProperties
<1>10. ASSUME C # <<>>
       PROVE  Bip44Path(StampedCoinType(r.network), r.account, <<1, TransparentChangeIndex>>) =
                <<44, WalletCoin(r.network.type), r.account>> \o <<1, 0>>
  <2>1. r.tins # <<>>
    BY <1>1, <1>2, <1>10 DEF Payable
  <2>2. 1 \in DOMAIN r.tins
    BY <1>1, <2>1
  <2>3. r.account < Hardened
    BY <2>2, TinPaths
  <2>4. StampedCoinType(r.network) = WalletCoin(r.network.type)
    BY <1>1, CoinIsWallets
  <2> DEFINE at == <<1, 0>>
  <2>5. ~(r.account >= Hardened \/ \E k \in DOMAIN at : at[k] >= Hardened)
    BY <1>1, <2>3, BuildAssumption
  <2> HIDE DEF at
  <2>6. Bip44Path(WalletCoin(r.network.type), r.account, at) =
          <<44, WalletCoin(r.network.type), r.account>> \o at
    BY <2>5 DEF Bip44Path
  <2>7. QED
    BY <2>4, <2>6 DEF at, TransparentChangeIndex
<1>11. ASSUME NEW i \in DOMAIN T
       PROVE  IF i = ChangeOutput(r)
              THEN /\ T[i].to = TransparentChangeKey(r)
                   /\ Bip44Path(StampedCoinType(r.network), r.account, <<1, TransparentChangeIndex>>) =
                        <<44, WalletCoin(r.network.type), r.account>> \o <<1, 0>>
              ELSE \E k \in Nat : T[i].to = PayeeKey(k)
  <2>1. DOMAIN T = 1 .. Len(T)
    BY <1>9
  <2>2. CASE C = <<>>
    <3>1. Len(T) = Len(P) /\ ChangeOutput(r) = 0
      BY <1>7, <1>8, <1>9, <2>2
    <3>2. i \in 1 .. Len(P) /\ i # ChangeOutput(r) /\ T[i] = P[i]
      BY <1>7, <1>9, <2>1, <2>2, <3>1
    <3>3. QED
      BY <1>7, <3>2
  <2>3. CASE C # <<>>
    <3>1. C = <<[to |-> TransparentChangeKey(r), value |-> Change(r)]>>
      BY <1>2, <2>3
    <3>2. Len(C) = 1 /\ C[1].to = TransparentChangeKey(r)
      BY <3>1
    <3>3. ChangeOutput(r) = Len(P) + 1 /\ Len(T) = Len(P) + 1
      BY <1>8, <1>9, <2>3, <3>2
    <3>4. CASE i = Len(P) + 1
      <4>1. T[i] = C[1]
        BY <1>7, <1>9, <3>2, <3>4
      <4>2. QED
        BY <1>10, <2>3, <3>2, <3>3, <3>4, <4>1
    <3>5. CASE i # Len(P) + 1
      <4>1. i \in 1 .. Len(P) /\ T[i] = P[i]
        BY <1>7, <1>9, <2>1, <3>2, <3>3, <3>5
      <4>2. QED
        BY <1>7, <3>3, <3>5, <4>1
    <3>6. QED
      BY <3>4, <3>5
  <2>4. QED
    BY <2>2, <2>3
<1>12. QED
  BY <1>9, <1>11 DEF T, R

\* An output shows a derivation if and only if it goes back to the wallet.
Recognises(p) ==
  \A i \in DOMAIN p.touts :
    p.touts[i].derivs =
      IF p.touts[i].to.owner = "wallet"
      THEN {[pubkey |-> p.touts[i].to, path |-> p.touts[i].to.at]} ELSE {}

\* ... as it is built.
LEMMA BuiltRecognises ==
  ASSUME NEW o, NEW r, BuiltFor(o, r)
  PROVE  Recognises(o.pczt)
<1> DEFINE p == o.pczt  T == TransparentOuts(r)
<1>1. p.touts = [i \in DOMAIN T |-> ToutOf(r, i)]
  BY DEF BuiltFor, Assembled, HasRows
<1> SUFFICES ASSUME NEW i \in DOMAIN T
             PROVE  p.touts[i].derivs =
                      IF p.touts[i].to.owner = "wallet"
                      THEN {[pubkey |-> p.touts[i].to, path |-> p.touts[i].to.at]} ELSE {}
  BY <1>1 DEF Recognises
<1>2. p.touts[i].to = T[i].to /\ p.touts[i].derivs = ToutOf(r, i).derivs
  <2>1. p.touts[i] = ToutOf(r, i)
    <3> HIDE DEF T, p
    <3>1. QED
      BY <1>1
  <2>2. ToutOf(r, i).to = T[i].to
    BY DEF ToutOf
  <2>3. QED
    BY <2>1, <2>2
<1>3. CASE i = ChangeOutput(r)
  <2>1. /\ T[i].to = TransparentChangeKey(r)
        /\ Bip44Path(StampedCoinType(r.network), r.account, <<1, TransparentChangeIndex>>) =
             <<44, WalletCoin(r.network.type), r.account>> \o <<1, 0>>
    BY <1>3, ToutsAre
  <2> DEFINE path == <<44, WalletCoin(r.network.type), r.account>> \o <<1, 0>>
  <2>2. TransparentChangeKey(r) = [owner |-> "wallet", at |-> path]
    BY DEF TransparentChangeKey, AddressKey, WalletKey, TransparentChangeIndex
  <2>3. ToutOf(r, i).derivs = {[pubkey |-> TransparentChangeKey(r), path |-> path]}
    BY <1>3, <2>1 DEF ToutOf
  <2> HIDE DEF path, T
  <2>4. QED
    BY <1>2, <2>1, <2>2, <2>3
<1>4. CASE i # ChangeOutput(r)
  <2>1. PICK k \in Nat : T[i].to = PayeeKey(k)
    BY <1>4, ToutsAre
  <2>2. T[i].to.owner = "payee"
    BY <2>1 DEF PayeeKey
  <2>3. ToutOf(r, i).derivs = {}
    BY <1>4 DEF ToutOf
  <2> HIDE DEF T
  <2>4. QED
    BY <1>2, <2>2, <2>3
<1>5. QED
  BY <1>3, <1>4

(***************************************************************************)
(* The values balance.                                                      *)
(***************************************************************************)
\* A single value is its own total.
LEMMA TotalOfOne == ASSUME NEW x \in Nat PROVE Total(<<x>>) = x
<1> DEFINE s == <<x>>
<1>1. s \in Seq(Nat) /\ Len(s) = 1 /\ s[1] = x
  OBVIOUS
<1> HIDE DEF s
<1>2. PICK p \in [0 .. Len(s) -> Nat] :
        /\ p[0] = 0 /\ p[Len(s)] = TotalOf(s)
        /\ \A k \in 1 .. Len(s) : p[k] = p[k - 1] + s[k]
  BY <1>1, TotalPrefixSums
<1>3. p[1] = p[0] + s[1] /\ p[1] = TotalOf(s)
  BY <1>1, <1>2
<1>4. TotalOf(s) = x
  BY <1>1, <1>2, <1>3
<1>5. QED
  BY <1>4, TotalSame DEF s

\* Nothing adds up to zero.
LEMMA TotalOfNone ==
  /\ <<>> \in Seq(Nat) /\ Total(<<>>) = 0 /\ ValuesOf(<<>>) = <<>>
  /\ [i \in DOMAIN <<>> |-> <<>>[i].value] = <<>> /\ [i \in DOMAIN <<>> |-> <<>>[i].outValue] = <<>>
<1>1. <<>> \in Seq(Nat) /\ \A i \in DOMAIN <<>> : <<>>[i] = 0
  OBVIOUS
<1>2. Total(<<>>) = 0
  BY <1>1, TotalSame, TotalOfZeros
<1>3. QED
  BY <1>1, <1>2 DEF ValuesOf

\* The change that is paid, whichever pool it goes to.
LEMMA ChangeIsPaid ==
  ASSUME NEW r, Valid(r), Change(r) >= 0
  PROVE  /\ ValuesOf(ShieldedChange(r)) \in Seq(Nat) /\ ValuesOf(TransparentChange(r)) \in Seq(Nat)
         /\ Total(ValuesOf(ShieldedChange(r))) + Total(ValuesOf(TransparentChange(r))) = Change(r)
<1>1. Change(r) \in Nat
  BY ValidInputs
<1>2. Total(<<>>) = 0 /\ <<>> \in Seq(Nat) /\ ValuesOf(<<>>) = <<>>
  BY TotalOfNone
<1>3. \A to : ValuesOf(<<[to |-> to, value |-> Change(r)]>>) = <<Change(r)>>
  BY DEF ValuesOf
<1>4. <<Change(r)>> \in Seq(Nat) /\ Total(<<Change(r)>>) = Change(r)
  BY <1>1, TotalOfOne
<1>5. CASE Change(r) = 0
  <2>1. ShieldedChange(r) = <<>> /\ TransparentChange(r) = <<>>
    BY <1>5 DEF ShieldedChange, TransparentChange
  <2>2. ValuesOf(ShieldedChange(r)) = <<>> /\ ValuesOf(TransparentChange(r)) = <<>>
    BY <1>2, <2>1
  <2>3. QED
    BY <1>2, <1>5, <2>2
<1>6. CASE Change(r) > 0 /\ r.spends # <<>>
  <2>1. /\ ShieldedChange(r) = <<[to |-> ChangeAddress(r), value |-> Change(r)]>>
        /\ TransparentChange(r) = <<>>
    BY <1>6 DEF ShieldedChange, TransparentChange
  <2>2. ValuesOf(ShieldedChange(r)) = <<Change(r)>> /\ ValuesOf(TransparentChange(r)) = <<>>
    BY <1>2, <1>3, <2>1
  <2>3. QED
    BY <1>1, <1>2, <1>4, <2>2
<1>7. CASE Change(r) > 0 /\ r.spends = <<>>
  <2>1. /\ TransparentChange(r) = <<[to |-> TransparentChangeKey(r), value |-> Change(r)]>>
        /\ ShieldedChange(r) = <<>>
    BY <1>7 DEF ShieldedChange, TransparentChange
  <2>2. ValuesOf(TransparentChange(r)) = <<Change(r)>> /\ ValuesOf(ShieldedChange(r)) = <<>>
    BY <1>2, <1>3, <2>1
  <2>3. QED
    BY <1>1, <1>2, <1>4, <2>2
<1>8. QED
  BY <1>1, <1>5, <1>6, <1>7

\* What o moves balances, and it is counted and priced right.
Balances(o) ==
  LET p == o.pczt IN
    /\ Moved(p, "value") + Total([k \in DOMAIN p.tins |-> p.tins[k].value])
       = Moved(p, "outValue") + Total([k \in DOMAIN p.touts |-> p.touts[k].value]) + o.fee
    /\ o.n_transparent_outputs = Len(p.touts)
    /\ o.fee \in
         {m * MaxOf(GraceActions, MaxOf(Len(p.tins), Len(p.touts))
                                  + Len(p.orchard) + Len(p.ironwood)) : m \in {LegacyMarginal, Zip2009Marginal}}

\* ... as it is built.
LEMMA BuiltBalances ==
  ASSUME NEW o, NEW r, BuiltFor(o, r)
  PROVE  Balances(o)
<1> DEFINE p == o.pczt  n == Size(r)  T == TransparentOuts(r)  S == Payments(r, "shielded")
           Q == Payments(r, "transparent")  CS == ShieldedChange(r)  CT == TransparentChange(r)
<1>1. PICK b : Assembled(p, r, b) /\ Holds(b, r, n)
  BY DEF BuiltFor
<1>2. /\ Valid(r) /\ Payable(r) /\ o = BuildOutput(p, r)
      /\ r.flow = "v5" => \A i \in DOMAIN r.outs : AddOutput(r, r.outs[i])
  BY DEF BuiltFor
<1>3. /\ o.fee = r.fee /\ o.n_transparent_outputs = Len(T)
  <2> HIDE DEF p
  <2>1. QED
    BY <1>2 DEF BuildOutput
<1> HIDE DEF p, n
<1>4. /\ n \in Nat /\ Len(b) = n /\ DOMAIN b = 1 .. n
      /\ Total([i \in DOMAIN b |-> b[i].value]) = Total(r.spends)
      /\ Total([i \in DOMAIN b |-> b[i].outValue]) = Total(ValuesOf(S)) + Total(ValuesOf(CS))
  BY <1>1 DEF Holds
<1>5. /\ DOMAIN p[PoolOf(r)] = 1 .. n /\ Len(p[PoolOf(r)]) = n
      /\ \A i \in 1 .. n : p[PoolOf(r)][i].value = b[i].value /\ p[PoolOf(r)][i].outValue = b[i].outValue
      /\ p[OtherPool(r)] = <<>>
  <2>1. HasActions(p, r, b, Effects(p))
    BY <1>1 DEF Assembled
  <2>2. \A i \in 1 .. n : IsAction(p[PoolOf(r)][i], b[i], r, Effects(p))
    BY <1>4, <2>1 DEF HasActions
  <2>3. QED
    BY <1>4, <2>1, <2>2 DEF HasActions, IsAction
<1>6. /\ r.spends \in Seq(Nat) /\ r.tins \in Seq(TransparentInput(Nat)) /\ r.outs \in Seq(OutputRequest(Nat))
      /\ r.fee \in Nat /\ ValuesOf(r.tins) \in Seq(Nat) /\ r.flow \in {"v5", "v6"}
  BY <1>2, ValidInputs
<1>7. /\ DOMAIN p.tins = DOMAIN r.tins /\ Len(p.tins) = Len(r.tins)
      /\ \A i \in DOMAIN r.tins : p.tins[i].value = r.tins[i].value
      /\ DOMAIN p.touts = DOMAIN T
      /\ \A i \in DOMAIN T : p.touts[i].value = T[i].value
      /\ p.touts = [i \in DOMAIN T |-> ToutOf(r, i)]
  BY <1>1 DEF Assembled, HasRows, IsTin, ToutOf
<1>8. /\ T \in Seq([to : {TransparentChangeKey(r)} \cup {PayeeKey(i) : i \in Nat}, value : Nat])
      /\ Len(p.touts) = Len(T) /\ Len(T) \in Nat /\ Len(r.tins) \in Nat
  <2> DEFINE A == [to : {TransparentChangeKey(r)} \cup {PayeeKey(i) : i \in Nat}, value : Nat]
  <2>1. T \in Seq(A)
    BY ToutsAre
  <2> HIDE DEF A, T
  <2>2. Len(T) \in Nat /\ DOMAIN T = 1 .. Len(T)
    BY <2>1
  <2>3. Len(p.touts) = Len(T)
    BY <1>7, <2>2
  <2>4. Len(r.tins) \in Nat
    BY <1>6
  <2>5. QED
    BY <2>1, <2>2, <2>3, <2>4 DEF A
<1>9. /\ Total([k \in DOMAIN p.tins |-> p.tins[k].value]) = Total(ValuesOf(r.tins))
      /\ Total([k \in DOMAIN p.touts |-> p.touts[k].value]) = Total(ValuesOf(T))
  <2>1. /\ [k \in DOMAIN p.tins |-> p.tins[k].value] = ValuesOf(r.tins)
        /\ [k \in DOMAIN p.touts |-> p.touts[k].value] = ValuesOf(T)
    BY <1>7 DEF ValuesOf
  <2>2. QED
    BY <2>1
<1>10. Total([i \in DOMAIN <<>> |-> <<>>[i].value]) = 0 /\ Total([i \in DOMAIN <<>> |-> <<>>[i].outValue]) = 0
  BY TotalOfNone
<1>11. /\ Total(r.spends) \in Nat /\ Total(ValuesOf(r.tins)) \in Nat
       /\ Total(ValuesOf(S)) \in Nat /\ Total(ValuesOf(CS)) \in Nat
       /\ Total(ValuesOf(Q)) \in Nat /\ Total(ValuesOf(CT)) \in Nat
       /\ Total(ValuesOf(CS)) + Total(ValuesOf(CT)) = Change(r)
  <2>1. Change(r) >= 0
    BY <1>2 DEF Payable
  <2>2. \A s \in Seq(Nat) : Total(s) \in Nat
    BY TotalInNat, TotalSame
  <2>3. ASSUME NEW s \in Seq(Rows) PROVE ValuesOf(s) \in Seq(Nat)
    <3>1. \A i \in 1 .. Len(s) : s[i] \in Rows
      OBVIOUS
    <3>2. \A i \in 1 .. Len(s) : s[i].value \in Nat
      BY <3>1 DEF Rows
    <3>3. ValuesOf(s) = [i \in 1 .. Len(s) |-> s[i].value]
      BY DEF ValuesOf
    <3>4. Len(s) \in Nat
      OBVIOUS
    <3>5. QED
      BY <3>2, <3>3, <3>4
  <2>4. ValuesOf(S) \in Seq(Nat) /\ ValuesOf(Q) \in Seq(Nat)
    BY <1>6, <2>3, PaymentsAre
  <2>5. QED
    BY <1>2, <1>6, <2>1, <2>2, <2>4, ChangeIsPaid
<1>12. Total(ValuesOf(T)) = Total(ValuesOf(Q)) + Total(ValuesOf(CT))
  <2> DEFINE A == [to : {TransparentChangeKey(r)} \cup {PayeeKey(i) : i \in Nat}, value : Nat]
  <2>1. \A a \in A : a.value \in Nat
    OBVIOUS
  <2>2. Q \in Seq(A)
    <3>1. Q \in Seq(Rows)
      BY <1>6, PaymentsAre
    <3>2. Rows \subseteq A
      BY DEF Rows
    <3> HIDE DEF A, Q
    <3>3. QED
      BY <3>1, <3>2, SeqMonotonic
  <2>3. CT \in Seq(A)
    <3> DEFINE row == [to |-> TransparentChangeKey(r), value |-> Change(r)]
    <3>1. Change(r) \in Nat
      BY <1>11
    <3>2. row \in A
      BY <3>1
    <3>3. CT = <<row>> \/ CT = <<>>
      BY DEF TransparentChange
    <3> HIDE DEF A, row, CT
    <3>4. <<row>> \in Seq(A) /\ <<>> \in Seq(A)
      BY <3>2
    <3>5. QED
      BY <3>3, <3>4
  <2> HIDE DEF A, Q, CT
  <2>4. ValuesAdd(Q, CT)
    BY ONLY <2>1, <2>2, <2>3, ValuesOfConcat
  <2>5. T = Q \o CT
    BY DEF TransparentOuts, Q, CT
  <2>6. QED
    BY <2>4, <2>5 DEF ValuesAdd
<1> DEFINE a == Total(r.spends)  t == Total(ValuesOf(r.tins))  u == Total(ValuesOf(T))
           x == Total(ValuesOf(S))  y == Total(ValuesOf(Q))
           c == Total(ValuesOf(CS))  d == Total(ValuesOf(CT))
<1>13. Change(r) = (a + t) - ((x + y) + r.fee)
  <2>1. In(r) = a + t
    BY DEF In, ValuesOf
  <2>2. Out(r) = x + y
    BY <1>6, OutIsPayments
  <2> HIDE DEF a, t, x, y
  <2>3. QED
    BY <2>1, <2>2 DEF Change
<1> DEFINE V(pool) == Total([i \in DOMAIN p[pool] |-> p[pool][i].value])
           W(pool) == Total([i \in DOMAIN p[pool] |-> p[pool][i].outValue])
<1>14. V(PoolOf(r)) = a /\ V(OtherPool(r)) = 0 /\ W(PoolOf(r)) = x + c /\ W(OtherPool(r)) = 0
  <2>1. /\ [i \in DOMAIN p[PoolOf(r)] |-> p[PoolOf(r)][i].value] = [i \in DOMAIN b |-> b[i].value]
        /\ [i \in DOMAIN p[PoolOf(r)] |-> p[PoolOf(r)][i].outValue] = [i \in DOMAIN b |-> b[i].outValue]
    BY <1>4, <1>5
  <2>2. V(OtherPool(r)) = 0 /\ W(OtherPool(r)) = 0
    BY <1>5, <1>10
  <2>3. QED
    BY <1>4, <2>1, <2>2
<1>15. Moved(p, "value") = V("orchard") + V("ironwood") /\ Moved(p, "outValue") = W("orchard") + W("ironwood")
  BY DEF Moved
<1> HIDE DEF S, Q, CS, CT, T, V, W
<1>16. Moved(p, "value") + Total([k \in DOMAIN p.tins |-> p.tins[k].value])
       = Moved(p, "outValue") + Total([k \in DOMAIN p.touts |-> p.touts[k].value]) + o.fee
  <2>1. /\ a \in Nat /\ t \in Nat /\ x \in Nat /\ y \in Nat /\ c \in Nat /\ d \in Nat
        /\ c + d = Change(r) /\ u = y + d
    BY <1>11, <1>12
  <2>2. /\ Total([k \in DOMAIN p.tins |-> p.tins[k].value]) = t
        /\ Total([k \in DOMAIN p.touts |-> p.touts[k].value]) = u
    BY <1>9
  <2> HIDE DEF a, t, x, y, c, d, u
  <2>3. Moved(p, "value") = a /\ Moved(p, "outValue") = x + c
    <3>1. CASE r.flow = "v5"
      <4>1. PoolOf(r) = "orchard" /\ OtherPool(r) = "ironwood"
        BY <3>1 DEF PoolOf, OtherPool
      <4>2. QED
        BY <1>14, <1>15, <2>1, <4>1
    <3>2. CASE r.flow = "v6"
      <4>1. PoolOf(r) = "ironwood" /\ OtherPool(r) = "orchard"
        BY <3>2 DEF PoolOf, OtherPool
      <4>2. QED
        BY <1>14, <1>15, <2>1, <4>1
    <3>3. QED
      BY <1>6, <3>1, <3>2
  <2>4. a + t = (x + c) + (y + d) + r.fee
    <3>1. r.fee \in Nat
      BY <1>6
    <3>2. QED
      BY ONLY <1>13, <2>1, <3>1
  <2>5. QED
    BY <1>3, <2>1, <2>2, <2>3, <2>4
<1>17. Len(p.orchard) + Len(p.ironwood) = n /\ Len(p.orchard) \in Nat /\ Len(p.ironwood) \in Nat
  <2>1. Len(<<>>) = 0
    OBVIOUS
  <2>2. \/ Len(p.orchard) = n /\ Len(p.ironwood) = 0
        \/ Len(p.orchard) = 0 /\ Len(p.ironwood) = n
    BY <1>5, <2>1 DEF PoolOf, OtherPool
  <2>3. n \in Nat
    BY <1>4
  <2> DEFINE k == Len(p.orchard)  l == Len(p.ironwood)
  <2>4. (k = n /\ l = 0) \/ (k = 0 /\ l = n)
    BY <2>2
  <2> HIDE DEF k, l
  <2>5. k + l = n /\ k \in Nat /\ l \in Nat
    BY ONLY <2>3, <2>4
  <2>6. QED
    BY <2>5 DEF k, l
<1>18. o.fee \in
         {m * MaxOf(GraceActions, MaxOf(Len(p.tins), Len(p.touts))
                                  + Len(p.orchard) + Len(p.ironwood)) : m \in {LegacyMarginal, Zip2009Marginal}}
  <2>1. PICK m \in CallerMarginalFee(r) : BuilderFee(r, m) = r.fee
    BY <1>2 DEF Payable
  <2>2. m \in {LegacyMarginal, Zip2009Marginal}
    BY <2>1 DEF CallerMarginalFee, AcceptedMarginalFees, StandardMarginalFee
  <2>3. BuilderFee(r, m) = m * MaxOf(GraceActions, MaxOf(Len(r.tins), Len(T)) + n)
    BY <1>2, Priced DEF T, n
  <2>4. MaxOf(Len(r.tins), Len(T)) \in Nat
    BY <1>8, MaxOfTwo
  <2> DEFINE z == MaxOf(Len(r.tins), Len(T))  k == Len(p.orchard)  l == Len(p.ironwood)
  <2>5. z \in Nat /\ k \in Nat /\ l \in Nat /\ k + l = n
    BY <1>17, <2>4
  <2>6. MaxOf(Len(p.tins), Len(p.touts)) = z
    BY <1>7, <1>8
  <2>7. BuilderFee(r, m) = m * MaxOf(GraceActions, z + n)
    BY <2>3
  <2>8. z + n = z + k + l
    <3> HIDE DEF z, k, l
    <3>1. QED
      BY <2>5
  <2> HIDE DEF z
  <2>9. QED
    BY <1>3, <2>1, <2>2, <2>6, <2>7, <2>8
<1>19. QED
  BY <1>3, <1>8, <1>16, <1>18 DEF Balances, p, T

(***************************************************************************)
(* What is built can be parsed, reviewed and signed.                        *)
(***************************************************************************)
\* Every action is one of the builder's, whatever its pool.
HasBuilt(p, r) ==
  /\ DOMAIN p = PcztFields
  /\ \A pool \in Pools :
       /\ \E n \in Nat : DOMAIN p[pool] = 1 .. n /\ Len(p[pool]) = n
       /\ p[pool] # <<>> => pool \in p.proofs
       /\ \A i \in DOMAIN p[pool] : \E x : Fresh(x, r) /\ IsAction(p[pool][i], x, r, Effects(p))

\* ... as it is built.
LEMMA BuiltHas ==
  ASSUME NEW o, NEW r, BuiltFor(o, r)
  PROVE  HasBuilt(o.pczt, r) /\ HasRows(o.pczt, r)
<1> DEFINE p == o.pczt
<1>1. PICK b : Assembled(p, r, b) /\ Holds(b, r, Size(r))
  BY DEF BuiltFor
<1> HIDE DEF p
<1>2. r.flow \in {"v5", "v6"}
  BY ValidInputs DEF BuiltFor
<1>3. /\ DOMAIN p[PoolOf(r)] = 1 .. Size(r) /\ Len(p[PoolOf(r)]) = Size(r) /\ Size(r) \in Nat
      /\ \A i \in 1 .. Size(r) : Fresh(b[i], r) /\ IsAction(p[PoolOf(r)][i], b[i], r, Effects(p))
      /\ p[OtherPool(r)] = <<>>
      /\ p[PoolOf(r)] # <<>> => PoolOf(r) \in p.proofs
      /\ DOMAIN p = PcztFields /\ HasRows(p, r)
  BY <1>1 DEF Assembled, HasActions, Holds
<1>4. DOMAIN <<>> = 1 .. 0 /\ Len(<<>>) = 0 /\ 0 \in Nat /\ 1 .. 0 = {}
  OBVIOUS
<1>5. ASSUME NEW pool \in Pools
      PROVE  /\ \E n \in Nat : DOMAIN p[pool] = 1 .. n /\ Len(p[pool]) = n
             /\ p[pool] # <<>> => pool \in p.proofs
             /\ \A i \in DOMAIN p[pool] : \E x : Fresh(x, r) /\ IsAction(p[pool][i], x, r, Effects(p))
  <2>1. CASE pool = PoolOf(r)
    BY <1>3, <2>1
  <2>2. CASE pool = OtherPool(r)
    <3>1. p[pool] = <<>>
      BY <1>3, <2>2
    <3>2. QED
      BY <1>4, <3>1
  <2>3. QED
    BY <1>2, <2>1, <2>2 DEF PoolOf, OtherPool, Pools
<1>6. QED
  BY <1>3, <1>5 DEF HasBuilt, p

\* A PCZT with all that a signer needs is parsed.
LEMMA BuiltParses ==
  ASSUME NEW p, NEW r, HasBuilt(p, r), HasRows(p, r)
  PROVE  /\ Parses(p)
         /\ \A i \in DOMAIN p.tins : p.tins[i].derivs # {} /\ Cardinality(p.tins[i].derivs) = 1
<1>1. \A x : Cardinality({x}) = 1
  BY FS_Singleton
<1>2. Cardinality({}) = 0
  BY FS_EmptySet
<1>3. ASSUME NEW i \in DOMAIN p.tins
      PROVE  p.tins[i].derivs # {} /\ Cardinality(p.tins[i].derivs) = 1
  <2>1. IsTin(p.tins[i], r, i)
    BY DEF HasRows
  <2>2. PICK x : p.tins[i].derivs = {x}
    BY <2>1 DEF IsTin
  <2>3. QED
    BY <1>1, <2>2
<1>4. ASSUME NEW i \in DOMAIN p.touts PROVE SingleDerivation(p.touts[i].derivs)
  <2>1. p.touts[i] = ToutOf(r, i)
    BY DEF HasRows
  <2>2. p.touts[i].derivs = {} \/ \E x : p.touts[i].derivs = {x}
    BY <2>1 DEF ToutOf
  <2>3. QED
    BY <1>1, <1>2, <2>2 DEF SingleDerivation
<1>5. ASSUME NEW pool \in Pools, NEW i \in DOMAIN p[pool] PROVE ConvertibleAction(p[pool][i])
  <2>1. PICK x : IsAction(p[pool][i], x, r, Effects(p))
    BY DEF HasBuilt
  <2>2. ActionFields \ {"cv_net"} \subseteq p[pool][i].has
    BY <2>1 DEF IsAction
  <2>3. {"recipient", "value", "rho", "rseed", "alpha", "zip32",
         "out_recipient", "out_value", "out_rseed", "rcv"} \subseteq ActionFields \ {"cv_net"}
    BY DEF ActionFields, SpendFields, OutputFields
  <2>4. QED
    BY <2>2, <2>3 DEF ConvertibleAction
<1>6. QED
  BY <1>3, <1>4, <1>5 DEF Parses, Pools

\* What the device is shown of a pool of p.
LEMMA ShownBundle ==
  ASSUME NEW actions, NEW b \in Range(BundleToNapi(ConvertBundle(actions)))
  PROVE  DOMAIN b = DOMAIN actions /\ \A i \in DOMAIN b : b[i].path = actions[i].zip32
<1> DEFINE s == [i \in DOMAIN actions |-> ConvertAction(actions[i])]
           t == [i \in DOMAIN actions |-> ActionToNapi(ConvertAction(actions[i]))]
<1>1. ConvertBundle(actions) = <<>> \/ ConvertBundle(actions) = <<s>>
  BY DEF ConvertBundle
<1>2. b \in Range(BundleToNapi(<<s>>))
  <2>1. Range(BundleToNapi(<<>>)) = {}
    BY DEF Range, BundleToNapi
  <2>2. QED
    BY <1>1, <2>1
<1>3. b = [i \in DOMAIN s |-> ActionToNapi(s[i])]
  BY <1>2 DEF Range, BundleToNapi
<1>4. \A i \in DOMAIN actions : ActionToNapi(s[i]).path = actions[i].zip32
  BY DEF ActionToNapi, ConvertAction
<1>5. QED
  BY <1>3, <1>4

\* What the device is shown of the rest.
LEMMA ShownRows ==
  ASSUME NEW p, NEW r, HasRows(p, r), NEW v, v = PcztTransaction(ParsedPczt(p))
  PROVE  /\ DOMAIN v.transparent_inputs = DOMAIN r.tins
         /\ \A i \in DOMAIN r.tins : v.transparent_inputs[i].derivation.path = TinPath(r, i)
         /\ DOMAIN v.transparent_outputs = DOMAIN TransparentOuts(r)
         /\ \A i \in DOMAIN TransparentOuts(r) :
              /\ v.transparent_outputs[i].derivation = ToutOf(r, i).derivs
              /\ v.transparent_outputs[i].to = TransparentOuts(r)[i].to
         /\ v.orchard_bundle = BundleToNapi(ConvertBundle(p.orchard))
         /\ v.ironwood_bundle = BundleToNapi(ConvertIronwoodBundle(p))
<1> DEFINE w == ParsedPczt(p)
<1>1. /\ w.transparent_inputs = [i \in DOMAIN p.tins |-> ConvertInput(p.tins[i])]
      /\ w.transparent_outputs = [i \in DOMAIN p.touts |-> ConvertOutput(p.touts[i])]
      /\ w.orchard_bundle = ConvertBundle(p.orchard)
      /\ w.ironwood_bundle = ConvertIronwoodBundle(p)
      /\ DOMAIN w = {"tx_version", "expiry", "coin_type", "transparent_inputs", "transparent_outputs",
                     "orchard_bundle", "ironwood_bundle"}
  BY DEF ParsedPczt
<1>2. v = PcztTransaction(w)
  OBVIOUS
<1> HIDE DEF w
<1>3. /\ v.transparent_inputs =
           [i \in DOMAIN w.transparent_inputs |-> RowToNapi(w.transparent_inputs[i])]
      /\ v.transparent_outputs =
           [i \in DOMAIN w.transparent_outputs |-> RowToNapi(w.transparent_outputs[i])]
      /\ v.orchard_bundle = BundleToNapi(w.orchard_bundle)
      /\ v.ironwood_bundle = BundleToNapi(w.ironwood_bundle)
  <2> DEFINE ins == [i \in DOMAIN w.transparent_inputs |-> RowToNapi(w.transparent_inputs[i])]
             outs == [i \in DOMAIN w.transparent_outputs |-> RowToNapi(w.transparent_outputs[i])]
             b1 == BundleToNapi(w.orchard_bundle)
             b2 == BundleToNapi(w.ironwood_bundle)
  <2>1. v = [w EXCEPT !.transparent_inputs = ins, !.transparent_outputs = outs,
                      !.orchard_bundle = b1, !.ironwood_bundle = b2]
    BY ONLY <1>2 DEF PcztTransaction
  <2> HIDE DEF ins, outs, b1, b2
  <2>2. v.transparent_inputs = ins /\ v.transparent_outputs = outs /\ v.orchard_bundle = b1 /\ v.ironwood_bundle = b2
    BY <1>1, <2>1
  <2>3. QED
    BY <2>2 DEF ins, outs, b1, b2
<1>4. /\ DOMAIN p.tins = DOMAIN r.tins /\ (\A i \in DOMAIN r.tins : IsTin(p.tins[i], r, i))
      /\ p.touts = [i \in DOMAIN TransparentOuts(r) |-> ToutOf(r, i)]
  BY DEF HasRows
<1>5. ASSUME NEW i \in DOMAIN r.tins
      PROVE  v.transparent_inputs[i].derivation.path = TinPath(r, i)
  <2> DEFINE c == ConvertInput(p.tins[i])
  <2>1. v.transparent_inputs[i] = [c EXCEPT !.value = Decimal(c.value)]
    BY <1>1, <1>3, <1>4 DEF RowToNapi
  <2>2. p.tins[i].derivs = {[pubkey |-> AddressKey(r, r.tins[i].at), path |-> TinPath(r, i)]}
    BY <1>4 DEF IsTin
  <2>3. c.derivation.path = TinPath(r, i)
    <3> DEFINE d == [pubkey |-> AddressKey(r, r.tins[i].at), path |-> TinPath(r, i)]
    <3>1. c.derivation = CHOOSE e \in p.tins[i].derivs : TRUE
      BY DEF ConvertInput
    <3>2. p.tins[i].derivs = {d} /\ d.path = TinPath(r, i)
      BY <2>2
    <3> HIDE DEF c, d
    <3>3. QED
      BY <3>1, <3>2
  <2>4. DOMAIN c = {"value", "derivation"}
    BY DEF ConvertInput
  <2> HIDE DEF c
  <2>5. QED
    BY <2>1, <2>3, <2>4
<1>6. ASSUME NEW i \in DOMAIN TransparentOuts(r)
      PROVE  /\ v.transparent_outputs[i].derivation = ToutOf(r, i).derivs
             /\ v.transparent_outputs[i].to = TransparentOuts(r)[i].to
  <2> DEFINE c == ConvertOutput(p.touts[i])
  <2>1. v.transparent_outputs[i] = [c EXCEPT !.value = Decimal(c.value)]
    BY <1>1, <1>3, <1>4 DEF RowToNapi
  <2>2. p.touts[i] = ToutOf(r, i)
    BY <1>4
  <2>3. /\ c.derivation = p.touts[i].derivs /\ c.to = p.touts[i].to
        /\ DOMAIN c = {"value", "to", "derivation"}
    BY DEF ConvertOutput
  <2>4. ToutOf(r, i).to = TransparentOuts(r)[i].to
    BY DEF ToutOf
  <2> HIDE DEF c
  <2>5. QED
    BY <2>1, <2>2, <2>3, <2>4
<1>7. DOMAIN v.transparent_inputs = DOMAIN r.tins /\ DOMAIN v.transparent_outputs = DOMAIN TransparentOuts(r)
  BY <1>1, <1>3, <1>4
<1>8. QED
  BY <1>1, <1>3, <1>5, <1>6, <1>7

\* A path is compliant when it starts as it should.
LEMMA Compliant ==
  /\ \A type, x, c, a : c = CoinType(type) => CompliantPath(type, x, <<x, c, a>>)
  /\ \A type, x, c, a, s, i :
       c = CoinType(type) =>
         /\ CompliantPath(type, x, <<x, c, a>> \o <<s, i>>)
         /\ (<<x, c, a>> \o <<s, i>>)[4] = s
<1>1. ASSUME NEW x, NEW c, NEW a, NEW s, NEW i
      PROVE  LET u == <<x, c, a>> \o <<s, i>> IN Len(u) = 5 /\ u[1] = x /\ u[2] = c /\ u[4] = s
  <2> DEFINE t == <<x, c, a>>  w == <<s, i>>  S == {x, c, a, s, i}
  <2>1. t \in Seq(S) /\ w \in Seq(S) /\ Len(t) = 3 /\ Len(w) = 2
    OBVIOUS
  <2>2. t[1] = x /\ t[2] = c /\ w[1] = s
    OBVIOUS
  <2> HIDE DEF t, w, S
  <2>3. /\ Len(t \o w) = Len(t) + Len(w)
        /\ \A k \in 1 .. Len(t) + Len(w) : (t \o w)[k] = IF k <= Len(t) THEN t[k] ELSE w[k - Len(t)]
    BY ONLY <2>1, ConcatProperties
  <2>4. Len(t \o w) = 5 /\ (t \o w)[1] = x /\ (t \o w)[2] = c /\ (t \o w)[4] = s
    BY <2>1, <2>2, <2>3
  <2>5. QED
    BY <2>4 DEF t, w
<1>2. QED
  BY <1>1 DEF CompliantPath

\* The device follows its paths and finds its change.
LEMMA BuiltIsAccepted ==
  ASSUME NEW o, NEW r, BuiltFor(o, r), r.network.type # "regtest",
         NEW v \in FFIParsePczt(o.pczt)
  PROVE  DeviceAccepts(r.network.type, v)
<1> DEFINE p == o.pczt  type == r.network.type
<1>1. v = PcztTransaction(ParsedPczt(p)) /\ HasBuilt(p, r) /\ HasRows(p, r)
  BY BuiltHas DEF FFIParsePczt
<1>2. StampedCoinType(r.network) = CoinType(type) /\ WalletCoin(type) = CoinType(type)
  BY CoinIsWallets DEF BuiltFor
<1> HIDE DEF p
<1>3. ASSUME NEW pool \in Pools, NEW b \in Range(BundleToNapi(ConvertBundle(p[pool]))), NEW i \in DOMAIN b
      PROVE  CompliantPath(type, 32, b[i].path)
  <2>1. i \in DOMAIN p[pool] /\ b[i].path = p[pool][i].zip32
    BY ShownBundle
  <2>2. PICK x : IsAction(p[pool][i], x, r, Effects(p))
    BY <1>1, <2>1 DEF HasBuilt
  <2>3. p[pool][i].zip32 = <<32, CoinType(type), r.account>>
    BY <1>2, <2>2 DEF IsAction
  <2>4. QED
    BY <2>1, <2>3, Compliant
<1>4. /\ DOMAIN v.transparent_inputs = DOMAIN r.tins
      /\ \A i \in DOMAIN r.tins : v.transparent_inputs[i].derivation.path = TinPath(r, i)
      /\ DOMAIN v.transparent_outputs = DOMAIN TransparentOuts(r)
      /\ \A i \in DOMAIN TransparentOuts(r) :
           /\ v.transparent_outputs[i].derivation = ToutOf(r, i).derivs
           /\ v.transparent_outputs[i].to = TransparentOuts(r)[i].to
      /\ v.orchard_bundle = BundleToNapi(ConvertBundle(p.orchard))
      /\ v.ironwood_bundle = BundleToNapi(ConvertIronwoodBundle(p))
  BY <1>1, ShownRows
<1>5. ASSUME NEW bundle \in {v.orchard_bundle, v.ironwood_bundle}, NEW b \in Range(bundle), NEW i \in DOMAIN b
      PROVE  CompliantPath(type, 32, b[i].path)
  <2>1. CASE bundle = v.orchard_bundle
    <3>1. b \in Range(BundleToNapi(ConvertBundle(p["orchard"])))
      BY <1>4, <2>1
    <3>2. QED
      BY <1>3, <3>1 DEF Pools
  <2>2. CASE bundle = v.ironwood_bundle
    <3>1. BundleToNapi(ConvertIronwoodBundle(p)) \in {BundleToNapi(<<>>), BundleToNapi(ConvertBundle(p["ironwood"]))}
      BY DEF ConvertIronwoodBundle
    <3>2. Range(BundleToNapi(<<>>)) = {}
      BY DEF Range, BundleToNapi
    <3>3. b \in Range(BundleToNapi(ConvertBundle(p["ironwood"])))
      BY <1>4, <2>2, <3>1, <3>2
    <3>4. QED
      BY <1>3, <3>3 DEF Pools
  <2>3. QED
    BY <2>1, <2>2
<1>6. ASSUME NEW i \in DOMAIN v.transparent_inputs
      PROVE  CompliantPath(type, 44, v.transparent_inputs[i].derivation.path)
  <2>1. i \in DOMAIN r.tins /\ v.transparent_inputs[i].derivation.path = TinPath(r, i)
    BY <1>4
  <2>2. TinPath(r, i) = <<44, CoinType(type), r.account>> \o <<r.tins[i].scope, r.tins[i].index>>
    BY <1>2, <2>1, TinPaths
  <2>3. QED
    BY <2>1, <2>2, Compliant
<1>7. ASSUME NEW i \in DOMAIN v.transparent_outputs, NEW d \in v.transparent_outputs[i].derivation
      PROVE  /\ CompliantPath(type, 44, d.path) /\ d.path[4] = 1
             /\ WalletKey(d.path) = v.transparent_outputs[i].to
  <2> DEFINE path == <<44, CoinType(type), r.account>> \o <<1, 0>>
  <2>1. i \in DOMAIN TransparentOuts(r) /\ d \in ToutOf(r, i).derivs
    BY <1>4
  <2>2. i = ChangeOutput(r) /\ d.path = Bip44Path(StampedCoinType(r.network), r.account, <<1, TransparentChangeIndex>>)
    BY <2>1 DEF ToutOf
  <2>3. /\ TransparentOuts(r)[i].to = TransparentChangeKey(r) /\ d.path = path
    BY <1>2, <2>1, <2>2, ToutsAre
  <2>4. TransparentChangeKey(r) = WalletKey(path)
    BY <1>2 DEF TransparentChangeKey, AddressKey, TransparentChangeIndex
  <2>5. CompliantPath(type, 44, path) /\ path[4] = 1
    BY Compliant
  <2> HIDE DEF path
  <2>6. QED
    BY <1>4, <2>1, <2>3, <2>4, <2>5
<1>8. QED
  BY <1>5, <1>6, <1>7 DEF DeviceAccepts

\* The software signer of the wallet holds the keys of what is to sign.
LEMMA BuiltIsTestSigned ==
  ASSUME NEW o, NEW r, BuiltFor(o, r)
  PROVE  CanTestSign(o.pczt, WalletCoin(r.network.type), r.account)
<1> DEFINE p == o.pczt  ask == DeriveOrchardAsk(WalletCoin(r.network.type), r.account)
<1>1. HasBuilt(p, r) /\ HasRows(p, r)
  BY BuiltHas
<1> HIDE DEF p
<1>2. SpendKey(r) = ask
  BY DEF SpendKey, DeriveOrchardAsk
<1>3. ASSUME NEW pool \in Pools, NEW i \in DOMAIN p[pool], p[pool][i].sig = <<>>
      PROVE  ActionAccepts(p, pool, i, Signature(ask, p[pool][i].rk, p))
  <2>1. PICK x : Fresh(x, r) /\ IsAction(p[pool][i], x, r, Effects(p))
    BY <1>1 DEF HasBuilt
  <2>2. ~IsDummy(x)
    <3>1. \A y : <<y>> # <<>>
      OBVIOUS
    <3>2. IsDummy(x) => \E y : p[pool][i].sig = <<y>>
      BY <2>1 DEF IsAction
    <3>3. QED
      BY <1>3, <3>1, <3>2
  <2>3. p[pool][i].key = SpendKey(r)
    BY <2>1, <2>2 DEF Fresh, IsAction
  <2>4. "fvk" \in p[pool][i].has
    BY <2>1 DEF IsAction, ActionFields, SpendFields
  <2>5. QED
    BY <1>2, <2>3, <2>4 DEF ActionAccepts
<1>4. CanSignInputs(p)
  BY <1>1, BuiltParses DEF CanSignInputs
<1>5. QED
  BY <1>3, <1>4 DEF CanTestSign, CanSignActions, p

(***************************************************************************)
(* What finalizing does to a PCZT, and what it asks of the signatures.      *)
(***************************************************************************)
\* What is unsigned in a pool, in order.
Unsigned(p, pool) == {i \in DOMAIN p[pool] : p[pool][i].sig = <<>>}

\* ... is listed by UnsignedActions, all of it and each once.
Lists1(u, S) ==
  /\ u \in [1 .. Len(u) -> S] /\ Len(u) \in Nat /\ DOMAIN u = 1 .. Len(u)
  /\ \A i, j \in 1 .. Len(u) : u[i] = u[j] => i = j
  /\ \A x \in S : \E i \in 1 .. Len(u) : u[i] = x

\* ... for any PCZT that is built.
LEMMA UnsignedListed ==
  ASSUME NEW p, NEW r, HasBuilt(p, r), NEW pool \in Pools
  PROVE  Lists1(UnsignedActions(p, pool), Unsigned(p, pool))
<1> DEFINE S == Unsigned(p, pool)  u == UnsignedActions(p, pool)
<1>1. PICK n \in Nat : DOMAIN p[pool] = 1 .. n
  BY DEF HasBuilt
<1>2. S \in SUBSET (1 .. n)
  BY <1>1 DEF Unsigned
<1>3. u = Ascending(S)
  BY DEF UnsignedActions, Unsigned
<1> HIDE DEF S, u
<1>4. ListsInOrder(u, S)
  BY <1>2, <1>3, AscendingLists
<1>5. /\ Cardinality(S) \in Nat /\ u \in [1 .. Cardinality(S) -> S]
      /\ \A i, j \in 1 .. Cardinality(S) : i # j => u[i] # u[j]
      /\ \A x \in S : \E i \in 1 .. Cardinality(S) : u[i] = x
  <2>1. n \in Nat
    OBVIOUS
  <2>2. ListsAll(u, S)
    BY ONLY <2>1, <1>2, <1>4, ListIsComplete
  <2>3. u \in [1 .. Cardinality(S) -> S]
    BY <1>4 DEF ListsInOrder
  <2>4. QED
    BY <2>2, <2>3 DEF ListsAll
<1>6. Len(u) = Cardinality(S) /\ DOMAIN u = 1 .. Cardinality(S)
  BY <1>5
<1>7. QED
  BY <1>5, <1>6 DEF Lists1, S, u

\* The preimages change nothing of the deeds, and are the keys of the inputs.
Preimaged(p, q) ==
  /\ SameBut(p, q, {"tins"}) /\ DOMAIN q.tins = DOMAIN p.tins
  /\ \A i \in DOMAIN p.tins :
       /\ q.tins[i].key = p.tins[i].key /\ q.tins[i].value = p.tins[i].value
       /\ DOMAIN q.tins[i] = TinFields
       /\ q.tins[i].key \in q.tins[i].preimages

\* ... for any PCZT that is built.
LEMMA StampsPreimages ==
  ASSUME NEW p, NEW r, HasBuilt(p, r), HasRows(p, r)
  PROVE  Preimaged(p, StampPreimages(p))
<1> DEFINE q == StampPreimages(p)
<1>1. DOMAIN p = PcztFields
  BY DEF HasBuilt
<1>2. SameBut(p, q, {"tins"}) /\ q.tins = [i \in DOMAIN p.tins |-> StampPreimage(p.tins[i])]
  BY <1>1 DEF StampPreimages, SameBut, PcztFields
<1> HIDE DEF q
<1>3. ASSUME NEW i \in DOMAIN p.tins
      PROVE  /\ q.tins[i].key = p.tins[i].key /\ q.tins[i].value = p.tins[i].value
             /\ DOMAIN q.tins[i] = TinFields
             /\ q.tins[i].key \in q.tins[i].preimages
  <2> DEFINE t == p.tins[i]
  <2>1. IsTin(t, r, i)
    BY DEF HasRows
  <2>2. q.tins[i] = StampPreimage(t)
    BY <1>2
  <2> HIDE DEF t
  <2>3. Pubkeys(t.derivs) = {t.key}
    BY <2>1 DEF IsTin, Pubkeys
  <2>4. q.tins[i] = [t EXCEPT !.preimages = t.preimages \cup {t.key}]
    BY <2>2, <2>3 DEF StampPreimage
  <2>5. DOMAIN t = TinFields
    BY <2>1 DEF IsTin
  <2>6. QED
    BY <2>4, <2>5 DEF TinFields, t
<1>4. QED
  BY <1>2, <1>3 DEF Preimaged, q

\* An action with a signature put in if it has none.
Fill(a, list, u, i) ==
  IF a.sig # <<>> THEN a ELSE [a EXCEPT !.sig = <<list[CHOOSE k \in DOMAIN u : u[k] = i].sig>>]

\* s is p with the signatures of the lists.
Carries(p, s, lists) ==
  /\ SameBut(p, s, {"tins", "orchard", "ironwood"})
  /\ DOMAIN s.tins = DOMAIN p.tins
  /\ \A i \in DOMAIN p.tins :
       s.tins[i].key = p.tins[i].key /\ s.tins[i].value = p.tins[i].value /\ s.tins[i].scriptSig
  /\ \A pool \in Pools :
       s[pool] = [i \in DOMAIN p[pool] |-> Fill(p[pool][i], lists[pool], UnsignedActions(p, pool), i)]

\* ... once it is signed.
LEMMA SignedCarries ==
  ASSUME NEW p, NEW r, HasBuilt(p, r), HasRows(p, r), NEW lists
  PROVE  Carries(p, Signed(p, lists), lists)
<1> DEFINE q == StampPreimages(p)
           q1 == ApplySignatures(q, "orchard", lists.orchard)
           q2 == ApplySignatures(q1, "ironwood", lists.ironwood)
           s == FinalizeSpends(q2, lists.transparent)
           o == [i \in DOMAIN q.orchard |-> Fill(q.orchard[i], lists.orchard, UnsignedActions(q, "orchard"), i)]
           w == [i \in DOMAIN q1.ironwood |->
                   Fill(q1.ironwood[i], lists.ironwood, UnsignedActions(q1, "ironwood"), i)]
<1>1. Preimaged(p, q)
  BY StampsPreimages
<1>2. q1 = [q EXCEPT !["orchard"] = o]
  BY DEF ApplySignatures, Fill
<1>3. q2 = [q1 EXCEPT !["ironwood"] = w]
  BY DEF ApplySignatures, Fill
<1> HIDE DEF q
<1>4. \A x, y, pool : x[pool] = y[pool] => UnsignedActions(x, pool) = UnsignedActions(y, pool)
  BY DEF UnsignedActions
<1>5. DOMAIN q = PcztFields /\ (\A f \in PcztFields \ {"tins"} : q[f] = p[f])
  BY <1>1 DEF Preimaged, SameBut
<1> HIDE DEF o
<1>6. DOMAIN q1 = PcztFields /\ q1.orchard = o /\ \A f \in PcztFields \ {"orchard"} : q1[f] = q[f]
  <2> HIDE DEF q1
  <2>1. QED
    BY <1>2, <1>5 DEF PcztFields
<1> HIDE DEF q1, w
<1>7. DOMAIN q2 = PcztFields /\ q2.ironwood = w /\ \A f \in PcztFields \ {"ironwood"} : q2[f] = q1[f]
  <2> HIDE DEF q2
  <2>1. QED
    BY <1>3, <1>6 DEF PcztFields
<1> HIDE DEF q2
<1>8. /\ DOMAIN s = PcztFields /\ \A f \in PcztFields \ {"tins"} : s[f] = q2[f]
  BY <1>7 DEF FinalizeSpends, PcztFields
<1>9. /\ DOMAIN s.tins = DOMAIN q2.tins
      /\ \A i \in DOMAIN q2.tins :
           s.tins[i] = [q2.tins[i] EXCEPT !.sigs = {lists.transparent[i].sig}, !.scriptSig = TRUE]
  BY <1>7 DEF FinalizeSpends, PcztFields
<1> HIDE DEF s
<1>10. q2.tins = q.tins
  BY <1>6, <1>7 DEF PcztFields
<1>11. ASSUME NEW i \in DOMAIN p.tins
       PROVE  s.tins[i].key = p.tins[i].key /\ s.tins[i].value = p.tins[i].value /\ s.tins[i].scriptSig
  <2> DEFINE t == q.tins[i]
  <2>1. /\ t.key = p.tins[i].key /\ t.value = p.tins[i].value /\ DOMAIN t = TinFields
        /\ i \in DOMAIN q.tins
    BY <1>1 DEF Preimaged
  <2>2. s.tins[i] = [t EXCEPT !.sigs = {lists.transparent[i].sig}, !.scriptSig = TRUE]
    BY <1>9, <1>10, <2>1
  <2> HIDE DEF t
  <2>3. QED
    BY <2>1, <2>2 DEF TinFields
<1>12. q.orchard = p.orchard /\ q1.ironwood = p.ironwood
  BY <1>5, <1>6 DEF PcztFields
<1>13. s.orchard = o /\ s.ironwood = w
  BY <1>6, <1>7, <1>8 DEF PcztFields
<1>14. ASSUME NEW pool \in Pools
       PROVE  s[pool] = [i \in DOMAIN p[pool] |-> Fill(p[pool][i], lists[pool], UnsignedActions(p, pool), i)]
  <2>1. CASE pool = "orchard"
    BY <1>4, <1>12, <1>13, <2>1 DEF o
  <2>2. CASE pool = "ironwood"
    BY <1>4, <1>12, <1>13, <2>2 DEF w
  <2>3. QED
    BY <2>1, <2>2 DEF Pools
<1>15. DOMAIN s.tins = DOMAIN p.tins
  BY <1>1, <1>9, <1>10 DEF Preimaged
<1>16. SameBut(p, s, {"tins", "orchard", "ironwood"})
  BY <1>5, <1>6, <1>7, <1>8 DEF SameBut, PcztFields
<1>17. Carries(p, s, lists)
  BY <1>11, <1>14, <1>15, <1>16 DEF Carries
<1>18. s = Signed(p, lists)
  BY DEF Signed, s, q2, q1, q
<1>19. QED
  BY <1>17, <1>18

(***************************************************************************)
(* The signatures that are given for a PCZT are those of its own spends.    *)
(***************************************************************************)
\* The lists are for p: one signature for every unsigned action and every input, of
\* its own key and over what p does.
HonestPool(p, pool, list) ==
  list = [k \in DOMAIN UnsignedActions(p, pool) |->
            LET a == p[pool][UnsignedActions(p, pool)[k]] IN RedPallas(Signature(a.key, a.rk, p))]
HonestInputs(p, list) ==
  /\ list = [i \in DOMAIN p.tins |-> list[i]]
  /\ \A i \in DOMAIN p.tins : \E head \in {EvenY, OddY}, trailing \in {0, 1} :
       list[i] = Der(Signature(p.tins[i].key, <<i>>, p), head, trailing)
Honest(p, lists) ==
  /\ DOMAIN lists = Lists
  /\ \A pool \in Pools : HonestPool(p, pool, lists[pool])
  /\ HonestInputs(p, lists.transparent)

\* What is not signed yet is a spend of the wallet, at the path that is stamped.
LEMMA UnsignedIsWallets ==
  ASSUME NEW o, NEW r, BuiltFor(o, r), NEW pool \in Pools, NEW i \in Unsigned(o.pczt, pool)
  PROVE  /\ i \in DOMAIN o.pczt[pool]
         /\ o.pczt[pool][i].key = SpendKey(r) /\ WalletKey(o.pczt[pool][i].zip32) = SpendKey(r)
         /\ "fvk" \in o.pczt[pool][i].has
<1> DEFINE p == o.pczt
<1>1. HasBuilt(p, r)
  BY BuiltHas
<1> HIDE DEF p
<1>2. i \in DOMAIN p[pool] /\ p[pool][i].sig = <<>>
  BY DEF Unsigned, p
<1>3. PICK x : Fresh(x, r) /\ IsAction(p[pool][i], x, r, Effects(p))
  BY <1>1, <1>2 DEF HasBuilt
<1>4. ~IsDummy(x)
  <2>1. \A y : <<y>> # <<>>
    OBVIOUS
  <2>2. IsDummy(x) => \E y : p[pool][i].sig = <<y>>
    BY <1>3 DEF IsAction
  <2>3. QED
    BY <1>2, <2>1, <2>2
<1>5. p[pool][i].key = SpendKey(r)
  BY <1>3, <1>4 DEF Fresh, IsAction
<1>6. "fvk" \in p[pool][i].has
  BY <1>3 DEF IsAction, ActionFields, SpendFields
<1>7. WalletKey(p[pool][i].zip32) = SpendKey(r)
  <2>1. StampedCoinType(r.network) = WalletCoin(r.network.type)
    BY CoinIsWallets DEF BuiltFor
  <2>2. p[pool][i].zip32 = <<32, StampedCoinType(r.network), r.account>>
    BY <1>3 DEF IsAction
  <2>3. QED
    BY <2>1, <2>2 DEF SpendKey
<1>8. QED
  BY <1>2, <1>5, <1>6, <1>7 DEF p

\* The path that is stamped on an input is that of its key.
LEMMA InputKeys ==
  ASSUME NEW o, NEW r, BuiltFor(o, r), NEW i \in DOMAIN o.pczt.tins
  PROVE  WalletKey(InputPath(o.pczt.tins[i])) = o.pczt.tins[i].key
<1> DEFINE t == o.pczt.tins[i]
<1>1. IsTin(t, r, i) /\ i \in DOMAIN r.tins
  BY BuiltHas DEF HasRows
<1> HIDE DEF t
<1>2. WalletKey(TinPath(r, i)) = AddressKey(r, r.tins[i].at)
  BY <1>1, TinPaths
<1>3. InputPath(t) = TinPath(r, i) /\ t.key = AddressKey(r, r.tins[i].at)
  <2> DEFINE d == [pubkey |-> AddressKey(r, r.tins[i].at), path |-> TinPath(r, i)]
  <2>1. t.derivs = {d} /\ t.key = AddressKey(r, r.tins[i].at)
    BY <1>1 DEF IsTin
  <2>2. d.path = TinPath(r, i)
    OBVIOUS
  <2> HIDE DEF d
  <2>3. (CHOOSE x \in {d} : TRUE) = d
    OBVIOUS
  <2>4. QED
    BY <2>1, <2>2, <2>3 DEF InputPath
<1>4. QED
  BY <1>2, <1>3 DEF t

\* The device signs honestly.
LEMMA DeviceIsHonest ==
  ASSUME NEW o, NEW r, BuiltFor(o, r), NEW head \in [DOMAIN o.pczt.tins -> {EvenY, OddY}]
  PROVE  Honest(o.pczt, DeviceLists(o.pczt, head))
<1> DEFINE p == o.pczt  l == DeviceLists(p, head)
           own(pool) == [k \in DOMAIN UnsignedActions(p, pool) |->
             LET a == p[pool][UnsignedActions(p, pool)[k]]
             IN RedPallas(Signature(WalletKey(a.zip32), a.rk, p))]
           ins == [i \in DOMAIN p.tins |->
                     Der(Signature(WalletKey(InputPath(p.tins[i])), <<i>>, p), head[i], 1)]
<1>1. l = [orchard |-> own("orchard"), ironwood |-> own("ironwood"), transparent |-> ins]
  BY DEF DeviceLists
<1>2. ASSUME NEW pool \in Pools PROVE HonestPool(p, pool, own(pool))
  <2>1. Lists1(UnsignedActions(p, pool), Unsigned(p, pool))
    BY BuiltHas, UnsignedListed
  <2>2. ASSUME NEW k \in DOMAIN UnsignedActions(p, pool)
        PROVE  WalletKey(p[pool][UnsignedActions(p, pool)[k]].zip32)
                 = p[pool][UnsignedActions(p, pool)[k]].key
    <3>1. UnsignedActions(p, pool)[k] \in Unsigned(p, pool)
      BY <2>1 DEF Lists1
    <3>2. QED
      BY <3>1, UnsignedIsWallets
  <2>3. QED
    BY <2>2 DEF HonestPool
<1>3. HonestInputs(p, ins)
  <2>1. ASSUME NEW i \in DOMAIN p.tins
        PROVE  \E h \in {EvenY, OddY}, trailing \in {0, 1} :
                 ins[i] = Der(Signature(p.tins[i].key, <<i>>, p), h, trailing)
    <3>1. head[i] \in {EvenY, OddY} /\ WalletKey(InputPath(p.tins[i])) = p.tins[i].key
      BY InputKeys
    <3>2. ins[i] = Der(Signature(p.tins[i].key, <<i>>, p), head[i], 1)
      BY <3>1
    <3>3. QED
      BY <3>1, <3>2
  <2>2. QED
    BY <2>1 DEF HonestInputs
<1> HIDE DEF own, ins, p, l
<1>4. /\ DOMAIN l = Lists /\ l.orchard = own("orchard") /\ l.ironwood = own("ironwood")
      /\ l.transparent = ins
  BY <1>1 DEF Lists
<1>5. QED
  BY <1>2, <1>3, <1>4 DEF Honest, Pools, l, p

\* ... and so does the software signer, when it signs.
LEMMA TestIsHonest ==
  ASSUME NEW o, NEW r, BuiltFor(o, r), NEW coin, NEW account, CanTestSign(o.pczt, coin, account)
  PROVE  Honest(o.pczt, TestSign(o.pczt, coin, account))
<1> DEFINE p == o.pczt  l == TestSign(p, coin, account)  ask == DeriveOrchardAsk(coin, account)
<1>1. l = [orchard |-> SignActions(p, "orchard", ask), ironwood |-> SignActions(p, "ironwood", ask),
           transparent |-> SignInputs(p)]
  BY DEF TestSign
<1> HIDE DEF ask
<1>2. ASSUME NEW pool \in Pools PROVE HonestPool(p, pool, SignActions(p, pool, ask))
  <2>1. Lists1(UnsignedActions(p, pool), Unsigned(p, pool))
    BY BuiltHas, UnsignedListed
  <2>2. CanSignActions(p, pool, ask)
    BY DEF CanTestSign, ask
  <2>3. ASSUME NEW k \in DOMAIN UnsignedActions(p, pool)
        PROVE  Signature(ask, p[pool][UnsignedActions(p, pool)[k]].rk, p)
                 = Signature(p[pool][UnsignedActions(p, pool)[k]].key,
                             p[pool][UnsignedActions(p, pool)[k]].rk, p)
    <3>1. UnsignedActions(p, pool)[k] \in Unsigned(p, pool)
      BY <2>1 DEF Lists1
    <3>2. QED
      BY <2>2, <3>1 DEF CanSignActions, ActionAccepts, Unsigned
  <2>4. QED
    BY <2>3 DEF HonestPool, SignActions
<1>3. HonestInputs(p, SignInputs(p))
  <2>1. ASSUME NEW i \in DOMAIN p.tins
        PROVE  \E h \in {EvenY, OddY}, trailing \in {0, 1} :
                 SignInputs(p)[i] = Der(Signature(p.tins[i].key, <<i>>, p), h, trailing)
    <3>1. WalletKey(InputPath(p.tins[i])) = p.tins[i].key
      BY InputKeys
    <3>2. SignInputs(p)[i] = Der(Signature(p.tins[i].key, <<i>>, p), EvenY, 0)
      BY <3>1 DEF SignInputs
    <3>3. QED
      BY <3>2
  <2>2. SignInputs(p) = [i \in DOMAIN p.tins |-> SignInputs(p)[i]]
    BY DEF SignInputs
  <2>3. QED
    BY <2>1, <2>2 DEF HonestInputs
<1> HIDE DEF p, l
<1>4. /\ DOMAIN l = Lists /\ l.orchard = SignActions(p, "orchard", ask)
      /\ l.ironwood = SignActions(p, "ironwood", ask) /\ l.transparent = SignInputs(p)
  BY <1>1 DEF Lists
<1>5. QED
  BY <1>2, <1>3, <1>4 DEF Honest, Pools, l, p

(***************************************************************************)
(* What finalizing asks of the signatures: these make a transaction, and     *)
(* whatever makes one holds these.                                          *)
(***************************************************************************)
\* A DER signature with the parity of its key, and the type of the sighash or not.
LEMMA DerParses ==
  ASSUME NEW sig, NEW head \in {EvenY, OddY}, NEW trailing \in {0, 1}
  PROVE  ParseTransparentDer(Der(sig, head, trailing)) /\ Der(sig, head, trailing).sig = sig
  BY DEF ParseTransparentDer, Normalized, Der, EvenY, OddY

\* The lists are sequences.
AreLists(l) == DOMAIN l = Lists /\ \A w \in Lists : l[w] \in Seq({l[w][k] : k \in DOMAIN l[w]})

\* A sequence is one of its own elements.
LEMMA OwnElements ==
  ASSUME NEW s, NEW n \in Nat, s = [k \in 1 .. n |-> s[k]]
  PROVE  s \in Seq({s[k] : k \in DOMAIN s}) /\ Len(s) = n
<1>1. DOMAIN s = 1 .. n /\ Len(s) = n
  OBVIOUS
<1>2. s \in [1 .. n -> {s[k] : k \in 1 .. n}]
  OBVIOUS
<1>3. s \in Seq({s[k] : k \in 1 .. n})
  BY <1>2
<1>4. QED
  BY <1>1, <1>3

\* The signatures of l are what p asks for, each in its place.
Required(p, l) ==
  /\ \A pool \in Pools :
       /\ Len(l[pool]) = Len(UnsignedActions(p, pool))
       /\ \A k \in DOMAIN UnsignedActions(p, pool) :
            LET a == p[pool][UnsignedActions(p, pool)[k]] IN l[pool][k].sig = Signature(a.key, a.rk, p)
  /\ Len(l.transparent) = Len(p.tins)
  /\ \A i \in DOMAIN l.transparent : l.transparent[i].sig = Signature(p.tins[i].key, <<i>>, p)

\* The preimages change neither what p does nor what is unsigned.
Kept(p, q) ==
  /\ Effects(q) = Effects(p) /\ q.orchard = p.orchard /\ q.ironwood = p.ironwood
  /\ \A pool \in Pools : q[pool] = p[pool] /\ UnsignedActions(q, pool) = UnsignedActions(p, pool)

\* ... for any PCZT that is built.
LEMMA PreimagesKeep ==
  ASSUME NEW p, NEW r, HasBuilt(p, r), HasRows(p, r)
  PROVE  Kept(p, StampPreimages(p))
<1> DEFINE q == StampPreimages(p)
<1>1. Preimaged(p, q)
  BY StampsPreimages
<1> HIDE DEF q
<1>2. \A f \in PcztFields \ {"tins"} : q[f] = p[f]
  BY <1>1 DEF Preimaged, SameBut
<1>3. q.orchard = p.orchard /\ q.ironwood = p.ironwood /\ q.touts = p.touts
      /\ q.tx_version = p.tx_version /\ q.expiry = p.expiry
  BY <1>2 DEF PcztFields
<1>4. \A pool \in Pools : q[pool] = p[pool]
  BY <1>3 DEF Pools
<1>5. \A pool \in Pools : UnsignedActions(q, pool) = UnsignedActions(p, pool)
  BY <1>4 DEF UnsignedActions
<1>6. SameDeeds(q, p)
  BY <1>1, <1>3, <1>4 DEF SameDeeds, Preimaged
<1>7. Effects(q) = Effects(p)
  BY <1>6, EffectsAreDeeds
<1>8. QED
  BY <1>3, <1>4, <1>5, <1>7 DEF Kept, q

\* A transaction is made of the signatures that are asked for, and of no others.
LEMMA FinalizedIsRequired ==
  ASSUME NEW o, NEW r, BuiltFor(o, r), NEW l, AreLists(l), FinalizeTransaction(o.pczt, l)
  PROVE  Required(o.pczt, l)
<1> DEFINE p == o.pczt  q == StampPreimages(p)
<1>1. Kept(p, q) /\ Preimaged(p, q)
  BY BuiltHas, PreimagesKeep, StampsPreimages
<1>2. CountsAgree(p, l) /\ (\A pool \in Pools : Applies(q, pool, l[pool])) /\ AppliesTransparent(q, l.transparent)
  BY DEF FinalizeTransaction
<1>3. DOMAIN l.transparent = 1 .. Len(l.transparent)
  BY DEF AreLists, Lists
<1>4. DOMAIN p.tins = 1 .. Len(p.tins) /\ Len(p.tins) \in Nat
  <2>1. r.tins \in Seq(TransparentInput(Nat))
    BY ValidInputs DEF BuiltFor
  <2>2. DOMAIN p.tins = DOMAIN r.tins /\ Len(p.tins) = Len(r.tins)
    BY BuiltHas DEF HasRows
  <2>3. QED
    BY <2>1, <2>2
<1> HIDE DEF q, p
<1>5. \A key, rk : Signature(key, rk, q) = Signature(key, rk, p)
  BY <1>1 DEF Signature, Kept
<1>6. ASSUME NEW pool \in Pools, NEW k \in DOMAIN UnsignedActions(p, pool)
      PROVE  l[pool][k].sig = Signature(p[pool][UnsignedActions(p, pool)[k]].key,
                                        p[pool][UnsignedActions(p, pool)[k]].rk, p)
  <2> DEFINE j == UnsignedActions(p, pool)[k]
  <2>1. q[pool] = p[pool] /\ UnsignedActions(q, pool) = UnsignedActions(p, pool)
    BY <1>1 DEF Kept
  <2>2. ActionAccepts(q, pool, j, l[pool][k].sig)
    BY <1>2, <2>1 DEF Applies
  <2> HIDE DEF j
  <2>3. l[pool][k].sig = Signature(p[pool][j].key, p[pool][j].rk, q)
    BY <2>1, <2>2 DEF ActionAccepts
  <2>4. QED
    BY <1>5, <2>3 DEF j
<1>7. ASSUME NEW i \in DOMAIN l.transparent, i \in DOMAIN p.tins
      PROVE  l.transparent[i].sig = Signature(p.tins[i].key, <<i>>, p)
  <2>1. l.transparent[i].sig = Signature(q.tins[i].key, <<i>>, q)
    BY <1>2 DEF AppliesTransparent, InputAccepts
  <2>2. q.tins[i].key = p.tins[i].key
    BY <1>1, <1>7 DEF Preimaged
  <2>3. QED
    BY <1>5, <2>1, <2>2
<1>8. /\ \A pool \in Pools : Len(l[pool]) = Len(UnsignedActions(p, pool))
      /\ Len(l.transparent) = Len(p.tins)
  BY <1>2 DEF CountsAgree
<1>9. QED
  BY <1>3, <1>4, <1>6, <1>7, <1>8 DEF Required, p

\* An action that is filled does the same, and is signed by its own key if the
\* signature put in is the one that is asked for.
SignedAction(a, s, e) ==
  /\ s.key = a.key /\ s.value = a.value /\ s.rk = a.rk /\ s.to = a.to /\ s.outValue = a.outValue
  /\ s.has = a.has /\ s.sig = <<[by |-> a.key, rk |-> a.rk, over |-> e]>>

\* ... for any action that is built.
LEMMA FilledAction ==
  ASSUME NEW a, NEW x, NEW r, NEW e, Fresh(x, r), IsAction(a, x, r, e), NEW s,
         a.sig # <<>> => s = a,
         a.sig = <<>> => s = [a EXCEPT !.sig = <<[by |-> a.key, rk |-> a.rk, over |-> e]>>]
  PROVE  SignedAction(a, s, e)
<1>1. DOMAIN a = {"key", "value", "rk", "to", "outValue", "zip32", "sig", "has"}
      /\ a.key = x.key /\ a.rk = x.rk
  BY DEF IsAction
<1>2. CASE a.sig = <<>>
  BY <1>1, <1>2 DEF SignedAction
<1>3. CASE a.sig # <<>>
  <2>1. a.sig = <<[by |-> x.key, rk |-> x.rk, over |-> e]>>
    BY <1>3 DEF IsAction
  <2>2. QED
    BY <1>1, <1>3, <2>1 DEF SignedAction
<1>4. QED
  BY <1>2, <1>3

\* Honest lists are sequences, of the signatures that are asked for.
LEMMA HonestIsRequired ==
  ASSUME NEW o, NEW r, BuiltFor(o, r), NEW l, Honest(o.pczt, l)
  PROVE  /\ AreLists(l) /\ Required(o.pczt, l)
         /\ \A w \in Lists : \A k \in DOMAIN l[w] : "sig" \in DOMAIN l[w][k]
<1> DEFINE p == o.pczt
<1>1. HasBuilt(p, r) /\ HasRows(p, r)
  BY BuiltHas
<1>2. Len(p.tins) \in Nat /\ DOMAIN p.tins = 1 .. Len(p.tins)
  <2>1. r.tins \in Seq(TransparentInput(Nat))
    BY ValidInputs DEF BuiltFor
  <2>2. QED
    BY <1>1, <2>1 DEF HasRows
<1> HIDE DEF p
<1>3. ASSUME NEW pool \in Pools
      PROVE  /\ Len(l[pool]) = Len(UnsignedActions(p, pool)) /\ Len(l[pool]) \in Nat
             /\ DOMAIN l[pool] = 1 .. Len(l[pool]) /\ DOMAIN l[pool] = DOMAIN UnsignedActions(p, pool)
             /\ \A k \in DOMAIN l[pool] :
                  l[pool][k] = RedPallas(Signature(p[pool][UnsignedActions(p, pool)[k]].key,
                                                   p[pool][UnsignedActions(p, pool)[k]].rk, p))
  <2> DEFINE u == UnsignedActions(p, pool)
  <2>1. Len(u) \in Nat /\ DOMAIN u = 1 .. Len(u)
    BY <1>1, UnsignedListed DEF Lists1
  <2>2. l[pool] = [k \in DOMAIN u |-> RedPallas(Signature(p[pool][u[k]].key, p[pool][u[k]].rk, p))]
    BY DEF Honest, HonestPool, p
  <2> HIDE DEF u
  <2>3. l[pool] = [k \in 1 .. Len(u) |-> RedPallas(Signature(p[pool][u[k]].key, p[pool][u[k]].rk, p))]
    BY <2>1, <2>2
  <2>4. Len(l[pool]) = Len(u) /\ DOMAIN l[pool] = 1 .. Len(u)
    BY <2>1, <2>3
  <2>5. QED
    BY <2>1, <2>2, <2>4 DEF u
<1>4. /\ Len(l.transparent) = Len(p.tins) /\ DOMAIN l.transparent = DOMAIN p.tins
      /\ \A i \in DOMAIN p.tins : \E head \in {EvenY, OddY}, trailing \in {0, 1} :
           l.transparent[i] = Der(Signature(p.tins[i].key, <<i>>, p), head, trailing)
  <2>1. HonestInputs(p, l.transparent)
    BY DEF Honest, p
  <2>2. l.transparent = [i \in 1 .. Len(p.tins) |-> l.transparent[i]]
    BY <1>2, <2>1 DEF HonestInputs
  <2>3. Len(l.transparent) = Len(p.tins) /\ DOMAIN l.transparent = 1 .. Len(p.tins)
    BY <1>2, <2>2
  <2>4. QED
    BY <1>2, <2>1, <2>3 DEF HonestInputs
<1>5. \A sig : RedPallas(sig).sig = sig /\ "sig" \in DOMAIN RedPallas(sig)
  BY DEF RedPallas
<1>6. \A sig, head, trailing : Der(sig, head, trailing).sig = sig /\ "sig" \in DOMAIN Der(sig, head, trailing)
  BY DEF Der
<1>7. ASSUME NEW i \in DOMAIN l.transparent
      PROVE  /\ l.transparent[i].sig = Signature(p.tins[i].key, <<i>>, p)
             /\ "sig" \in DOMAIN l.transparent[i]
  BY <1>4, <1>6
<1>8. ASSUME NEW pool \in Pools, NEW k \in DOMAIN l[pool]
      PROVE  /\ l[pool][k].sig = Signature(p[pool][UnsignedActions(p, pool)[k]].key,
                                           p[pool][UnsignedActions(p, pool)[k]].rk, p)
             /\ "sig" \in DOMAIN l[pool][k]
  BY <1>3, <1>5
<1>9. Required(p, l)
  BY <1>3, <1>4, <1>7, <1>8 DEF Required
<1>10. \A w \in Lists : w \in Pools \/ w = "transparent"
  BY DEF Lists, Pools
<1>11. AreLists(l)
  <2>1. DOMAIN l = Lists
    BY DEF Honest
  <2>2. ASSUME NEW w \in Lists PROVE l[w] \in Seq({l[w][k] : k \in DOMAIN l[w]})
    <3>1. \A pool \in Pools : HonestPool(p, pool, l[pool])
      BY DEF Honest, p
    <3>2. CASE w \in Pools
      <4>1. l[w] = [k \in 1 .. Len(l[w]) |-> l[w][k]] /\ Len(l[w]) \in Nat
        BY <1>3, <3>1, <3>2 DEF HonestPool
      <4>2. QED
        BY <4>1, OwnElements
    <3>3. CASE w = "transparent"
      <4>1. HonestInputs(p, l.transparent)
        BY DEF Honest, p
      <4>2. l.transparent = [k \in 1 .. Len(p.tins) |-> l.transparent[k]]
        BY <1>2, <4>1 DEF HonestInputs
      <4>3. QED
        BY ONLY <1>2, <3>3, <4>2, OwnElements
    <3>4. QED
      BY <1>10, <3>2, <3>3
  <2>3. QED
    BY <2>1, <2>2 DEF AreLists
<1>12. \A w \in Lists : \A k \in DOMAIN l[w] : "sig" \in DOMAIN l[w][k]
  BY <1>7, <1>8, <1>10
<1>13. QED
  BY <1>9, <1>11, <1>12 DEF p

\* Once p is signed with honest lists it can be extracted.
LEMMA SignedIsExtractable ==
  ASSUME NEW o, NEW r, BuiltFor(o, r), NEW l, Honest(o.pczt, l)
  PROVE  Extractable(Signed(o.pczt, l))
<1> DEFINE p == o.pczt  s == Signed(p, l)
<1>1. HasBuilt(p, r) /\ HasRows(p, r)
  BY BuiltHas
<1>2. Carries(p, s, l)
  BY <1>1, SignedCarries
<1>3. Required(p, l)
  BY HonestIsRequired
<1> HIDE DEF p, s
<1>4. ASSUME NEW pool \in Pools, NEW i \in DOMAIN p[pool]
      PROVE  /\ SignedAction(p[pool][i], s[pool][i], Effects(p))
             /\ ActionFields \ {"cv_net"} \subseteq p[pool][i].has
  <2> DEFINE u == UnsignedActions(p, pool)  a == p[pool][i]  k == CHOOSE k \in DOMAIN u : u[k] = i
  <2>1. s[pool][i] = Fill(a, l[pool], u, i)
    BY <1>2 DEF Carries
  <2>2. Lists1(u, Unsigned(p, pool))
    BY <1>1, UnsignedListed
  <2>3. PICK x : Fresh(x, r) /\ IsAction(a, x, r, Effects(p))
    BY <1>1 DEF HasBuilt
  <2>4. a.sig = <<>> => k \in DOMAIN u /\ u[k] = i
    <3>1. a.sig = <<>> => \E j \in DOMAIN u : u[j] = i
      BY <2>2 DEF Lists1, Unsigned
    <3> HIDE DEF u, a
    <3>2. QED
      BY <3>1
  <2>5. a.sig = <<>> => l[pool][k].sig = [by |-> a.key, rk |-> a.rk, over |-> Effects(p)]
    BY <1>3, <2>4 DEF Required, Signature
  <2> HIDE DEF u
  <2>6. /\ a.sig # <<>> => s[pool][i] = a
        /\ a.sig = <<>> => s[pool][i] = [a EXCEPT !.sig = <<l[pool][k].sig>>]
    BY <2>1 DEF Fill
  <2> HIDE DEF a, k
  <2>7. a.sig = <<>> =>
          s[pool][i] = [a EXCEPT !.sig = <<[by |-> a.key, rk |-> a.rk, over |-> Effects(p)]>>]
    BY <2>5, <2>6
  <2>8. SignedAction(a, s[pool][i], Effects(p))
    BY ONLY <2>3, <2>6, <2>7, FilledAction
  <2>9. ActionFields \ {"cv_net"} \subseteq a.has
    BY <2>3 DEF IsAction
  <2>10. QED
    BY <2>8, <2>9 DEF a
<1>5. \A f \in PcztFields \ {"tins", "orchard", "ironwood"} : s[f] = p[f]
  BY <1>2 DEF Carries, SameBut
<1>6. s.tx_version = p.tx_version /\ s.expiry = p.expiry /\ s.touts = p.touts /\ s.proofs = p.proofs
  BY <1>5 DEF PcztFields
<1>7. \A pool \in Pools : DOMAIN s[pool] = DOMAIN p[pool]
  BY <1>2 DEF Carries
<1>8. Effects(s) = Effects(p)
  <2>1. /\ DOMAIN s.tins = DOMAIN p.tins
        /\ \A i \in DOMAIN p.tins : s.tins[i].key = p.tins[i].key /\ s.tins[i].value = p.tins[i].value
    BY <1>2 DEF Carries
  <2>2. SameDeeds(s, p)
    <3>1. \A pool \in Pools : \A i \in DOMAIN p[pool] :
            /\ s[pool][i].key = p[pool][i].key /\ s[pool][i].value = p[pool][i].value
            /\ s[pool][i].rk = p[pool][i].rk
            /\ s[pool][i].to = p[pool][i].to /\ s[pool][i].outValue = p[pool][i].outValue
      BY ONLY <1>4 DEF SignedAction
    <3>2. QED
      BY ONLY <1>6, <1>7, <2>1, <3>1 DEF SameDeeds
  <2>3. QED
    BY <2>2, EffectsAreDeeds
<1>9. ASSUME NEW pool \in Pools, NEW i \in DOMAIN s[pool]
      PROVE  /\ s[pool][i].sig = <<Signature(s[pool][i].key, s[pool][i].rk, s)>>
             /\ {"rcv", "value", "out_value"} \subseteq s[pool][i].has
  <2>1. /\ SignedAction(p[pool][i], s[pool][i], Effects(p))
        /\ ActionFields \ {"cv_net"} \subseteq p[pool][i].has
    BY <1>4, <1>7
  <2>2. {"rcv", "value", "out_value"} \subseteq ActionFields \ {"cv_net"}
    BY DEF ActionFields, SpendFields, OutputFields
  <2>3. QED
    BY <1>8, <2>1, <2>2 DEF SignedAction, Signature
<1>10. ASSUME NEW pool \in Pools, s[pool] # <<>> PROVE pool \in s.proofs
  <2>1. CASE p[pool] = <<>>
    <3>1. s[pool] = [i \in DOMAIN p[pool] |-> Fill(p[pool][i], l[pool], UnsignedActions(p, pool), i)]
      BY <1>2 DEF Carries
    <3>2. DOMAIN p[pool] = {}
      BY <2>1
    <3>3. \A f : [i \in {} |-> f[i]] = <<>>
      OBVIOUS
    <3>4. s[pool] = <<>>
      BY <3>1, <3>2
    <3>5. QED
      BY <1>10, <3>4
  <2>2. CASE p[pool] # <<>>
    BY <1>1, <1>6, <2>2 DEF HasBuilt
  <2>3. QED
    BY <2>1, <2>2
<1>11. \A i \in DOMAIN s.tins : s.tins[i].scriptSig
  BY <1>2 DEF Carries
<1>12. Extractable(s)
  BY <1>9, <1>10, <1>11 DEF Extractable, RequiresProof
<1>13. QED
  BY <1>12 DEF s, p

\* Honest lists make a transaction.
LEMMA HonestFinalizes ==
  ASSUME NEW o, NEW r, BuiltFor(o, r), NEW l, Honest(o.pczt, l)
  PROVE  FFIFinalizeTransaction(o.pczt, l)
<1> DEFINE p == o.pczt  q == StampPreimages(p)
<1>1. HasBuilt(p, r) /\ HasRows(p, r)
  BY BuiltHas
<1>2. Kept(p, q) /\ Preimaged(p, q)
  BY <1>1, PreimagesKeep, StampsPreimages
<1>3. Required(p, l)
  BY HonestIsRequired
<1>4. Extractable(Signed(p, l))
  BY SignedIsExtractable
<1>5. CanStampPreimages(p)
  BY <1>1, BuiltParses DEF CanStampPreimages
<1>6. CountsAgree(p, l)
  BY <1>3 DEF Required, CountsAgree
<1> HIDE DEF q
<1>7. \A key, rk : Signature(key, rk, q) = Signature(key, rk, p)
  BY <1>2 DEF Signature, Kept
<1>8. ASSUME NEW pool \in Pools PROVE Applies(q, pool, l[pool])
  <2> DEFINE u == UnsignedActions(p, pool)
  <2>1. UnsignedActions(q, pool) = u /\ q[pool] = p[pool]
    BY <1>2 DEF Kept
  <2>2. ASSUME NEW k \in DOMAIN u PROVE ActionAccepts(q, pool, u[k], l[pool][k].sig)
    <3>1. u[k] \in Unsigned(p, pool)
      BY <1>1, UnsignedListed DEF Lists1
    <3>2. "fvk" \in p[pool][u[k]].has
      BY <3>1, UnsignedIsWallets
    <3>3. l[pool][k].sig = Signature(p[pool][u[k]].key, p[pool][u[k]].rk, p)
      BY <1>3 DEF Required
    <3> HIDE DEF u
    <3>4. QED
      BY <1>7, <2>1, <3>2, <3>3 DEF ActionAccepts
  <2>3. QED
    BY <2>1, <2>2 DEF Applies
<1>9. AppliesTransparent(q, l.transparent)
  <2>1. ASSUME NEW i \in DOMAIN l.transparent
        PROVE  ParseTransparentDer(l.transparent[i]) /\ InputAccepts(q, i, l.transparent[i].sig)
    <3>1. HonestInputs(p, l.transparent)
      BY DEF Honest
    <3>2. i \in DOMAIN p.tins
      <4>1. DOMAIN l.transparent = DOMAIN p.tins
        BY <3>1 DEF HonestInputs
      <4>2. QED
        BY <4>1
    <3>3. PICK head \in {EvenY, OddY}, trailing \in {0, 1} :
            l.transparent[i] = Der(Signature(p.tins[i].key, <<i>>, p), head, trailing)
      BY <3>1, <3>2 DEF HonestInputs
    <3>4. ParseTransparentDer(l.transparent[i]) /\ l.transparent[i].sig = Signature(p.tins[i].key, <<i>>, p)
      BY <3>3, DerParses
    <3>5. q.tins[i].key = p.tins[i].key /\ q.tins[i].key \in q.tins[i].preimages
      BY <1>2, <3>2 DEF Preimaged
    <3>6. QED
      BY <1>7, <3>4, <3>5 DEF InputAccepts
  <2>2. QED
    BY <2>1 DEF AppliesTransparent
<1>10. FinalizeTransaction(p, l)
  BY <1>4, <1>5, <1>6, <1>8, <1>9 DEF FinalizeTransaction, q
<1>11. ASSUME NEW pool \in Pools, NEW k \in DOMAIN l[pool] PROVE ParseSpendAuthSig(l[pool][k])
  <2> DEFINE u == UnsignedActions(p, pool)
  <2>1. l[pool] = [j \in DOMAIN u |-> RedPallas(Signature(p[pool][u[j]].key, p[pool][u[j]].rk, p))]
    BY DEF Honest, HonestPool
  <2> HIDE DEF u, p
  <2>2. l[pool][k] = RedPallas(Signature(p[pool][u[k]].key, p[pool][u[k]].rk, p))
    BY <2>1
  <2>3. QED
    BY <2>2 DEF ParseSpendAuthSig, RedPallas
<1>12. QED
  BY <1>10, <1>11 DEF FFIFinalizeTransaction

(***************************************************************************)
(* What the host makes of the lists holds no signatures but theirs.         *)
(***************************************************************************)
\* Every signature in l is one of those in h.
OnlyOf(l, h) ==
  \A w \in Lists : \A k \in DOMAIN l[w] :
    \E v \in Lists : \E j \in DOMAIN h[v] : l[w][k].sig = h[v][j].sig

\* ... and any sequence is a list of its elements.
LEMMA SequenceLists ==
  ASSUME NEW T, NEW s \in Seq(T)
  PROVE  s = [k \in 1 .. Len(s) |-> s[k]] /\ Len(s) \in Nat
<1>1. s \in [1 .. Len(s) -> T] /\ Len(s) \in Nat
  BY LenProperties
<1>2. QED
  BY <1>1

\* One list that is replaced by signatures of the old one.
LEMMA ReplacedOnlyOf ==
  ASSUME NEW h, AreLists(h), NEW w \in Lists, NEW n \in Nat, NEW s, s = [k \in 1 .. n |-> s[k]],
         \A k \in 1 .. n : \E j \in DOMAIN h[w] : s[k].sig = h[w][j].sig,
         NEW l, l = [h EXCEPT ![w] = s]
  PROVE  AreLists(l) /\ OnlyOf(l, h)
<1>1. /\ DOMAIN l = Lists /\ l[w] = s
      /\ \A v \in Lists \ {w} : l[v] = h[v]
  BY DEF AreLists
<1>2. s \in Seq({s[k] : k \in DOMAIN s})
  BY OwnElements
<1>3. AreLists(l)
  <2>1. ASSUME NEW v \in Lists PROVE l[v] \in Seq({l[v][k] : k \in DOMAIN l[v]})
    <3>1. CASE v = w
      BY <1>1, <1>2, <3>1
    <3>2. CASE v # w
      <4>1. l[v] = h[v]
        BY <1>1, <3>2
      <4>2. h[v] \in Seq({h[v][k] : k \in DOMAIN h[v]})
        BY DEF AreLists
      <4>3. QED
        BY ONLY <4>1, <4>2
    <3>3. QED
      BY <3>1, <3>2
  <2>2. QED
    BY <1>1, <2>1 DEF AreLists
<1>4. DOMAIN s = 1 .. n
  OBVIOUS
<1>5. OnlyOf(l, h)
  <2>1. ASSUME NEW v \in Lists, NEW k \in DOMAIN l[v]
        PROVE  \E x \in Lists : \E j \in DOMAIN h[x] : l[v][k].sig = h[x][j].sig
    <3>1. CASE v = w
      BY <1>1, <1>4, <3>1
    <3>2. CASE v # w
      BY <1>1, <3>2
    <3>3. QED
      BY <3>1, <3>2
  <2>2. QED
    BY <2>1 DEF OnlyOf
<1>6. QED
  BY <1>3, <1>5

\* l is a list with its first element gone, repeated at the end or damaged, or reversed.
LEMMA HandledList ==
  ASSUME NEW h, AreLists(h), NEW w \in Lists, h[w] # <<>>, NEW e, e.sig = Head(h[w]).sig,
         NEW s \in {Tail(h[w]), Append(h[w], Head(h[w])), Reverse(h[w]), <<e>> \o Tail(h[w])},
         NEW l, l = [h EXCEPT ![w] = s]
  PROVE  AreLists(l) /\ OnlyOf(l, h)
<1> DEFINE t == h[w]  n == Len(t)  T == {t[j] : j \in DOMAIN t}
<1>1. t \in Seq(T) /\ t # <<>>
  BY DEF AreLists
<1>2. n \in Nat /\ n >= 1 /\ DOMAIN t = 1 .. n
  BY <1>1
<1>3. /\ Head(t) = t[1] /\ Tail(t) \in Seq(T) /\ Len(Tail(t)) = n - 1
      /\ \A k \in 1 .. n - 1 : Tail(t)[k] = t[k + 1]
  BY <1>1, HeadTailProperties
<1> HIDE DEF t, n, T
<1>4. \E m \in Nat :
        /\ s = [k \in 1 .. m |-> s[k]]
        /\ \A k \in 1 .. m : \E j \in 1 .. n : s[k].sig = t[j].sig
  <2>1. CASE s = Tail(t)
    <3>1. s = [k \in 1 .. n - 1 |-> s[k]]
      BY <1>3, <2>1, SequenceLists
    <3>2. \A k \in 1 .. n - 1 : k + 1 \in 1 .. n /\ s[k] = t[k + 1]
      BY <1>2, <1>3, <2>1, SMTT(20)
    <3>3. n - 1 \in Nat
      BY <1>2
    <3>4. QED
      BY <3>1, <3>2, <3>3
  <2>2. CASE s = Append(t, Head(t))
    <3>1. /\ s = [k \in 1 .. n + 1 |-> s[k]]
          /\ \A k \in 1 .. n + 1 : s[k] = IF k = n + 1 THEN t[1] ELSE t[k]
      <4>1. Head(t) \in T
        BY <1>1, HeadTailProperties
      <4>2. /\ s \in Seq(T) /\ Len(s) = n + 1
            /\ \A k \in 1 .. n : s[k] = t[k]
            /\ s[n + 1] = Head(t)
        BY <1>1, <2>2, <4>1, AppendProperties DEF n
      <4>3. s = [k \in 1 .. n + 1 |-> s[k]]
        BY <4>2, SequenceLists
      <4>4. \A k \in 1 .. n + 1 : k # n + 1 => k \in 1 .. n
        BY <1>2
      <4>5. QED
        BY <1>3, <4>2, <4>3, <4>4
    <3>2. \A k \in 1 .. n + 1 : \E j \in 1 .. n : s[k].sig = t[j].sig
      <4> SUFFICES ASSUME NEW k \in 1 .. n + 1 PROVE \E j \in 1 .. n : s[k].sig = t[j].sig
        OBVIOUS
      <4>1. 1 \in 1 .. n /\ (k # n + 1 => k \in 1 .. n)
        BY <1>2
      <4>2. QED
        BY <3>1, <4>1
    <3>3. n + 1 \in Nat
      BY <1>2
    <3>4. QED
      BY <3>1, <3>2, <3>3
  <2>3. CASE s = Reverse(t)
    <3>1. s = [k \in 1 .. n |-> t[(n - k) + 1]]
      BY <2>3 DEF Reverse, n
    <3>2. \A k \in 1 .. n : (n - k) + 1 \in 1 .. n
      BY <1>2
    <3>3. QED
      BY <1>2, <3>1, <3>2
  <2>4. CASE s = <<e>> \o Tail(t)
    <3>1. /\ <<e>> \in Seq(T \cup {e}) /\ Tail(t) \in Seq(T \cup {e}) /\ Len(<<e>>) = 1 /\ <<e>>[1] = e
      BY <1>3
    <3>2. /\ Len(s) = n /\ s \in Seq(T \cup {e})
          /\ \A k \in 1 .. n : s[k] = IF k <= 1 THEN <<e>>[k] ELSE Tail(t)[k - 1]
      <4>1. /\ s \in Seq(T \cup {e}) /\ Len(s) = Len(<<e>>) + Len(Tail(t))
            /\ \A k \in 1 .. Len(<<e>>) + Len(Tail(t)) :
                 s[k] = IF k <= Len(<<e>>) THEN <<e>>[k] ELSE Tail(t)[k - Len(<<e>>)]
        BY ONLY <2>4, <3>1, ConcatProperties
      <4>2. Len(<<e>>) + Len(Tail(t)) = n
        BY <1>2, <1>3, <3>1
      <4>3. QED
        BY <3>1, <4>1, <4>2
    <3>3. s = [k \in 1 .. n |-> s[k]]
      BY <1>2, <3>2
    <3>4. ASSUME NEW k \in 1 .. n PROVE \E j \in 1 .. n : s[k].sig = t[j].sig
      <4>1. CASE k = 1
        <5>1. s[k].sig = t[1].sig /\ 1 \in 1 .. n
          BY <1>2, <1>3, <3>1, <3>2, <4>1 DEF t
        <5>2. QED
          BY <5>1
      <4>2. CASE k # 1
        <5>1. k - 1 \in 1 .. n - 1 /\ ~(k <= 1) /\ (k - 1) + 1 = k
          BY <1>2, <4>2
        <5>2. s[k] = t[k]
          BY <1>3, <3>2, <5>1
        <5>3. QED
          BY <5>2
      <4>3. QED
        BY <4>1, <4>2
    <3>5. QED
      BY <1>2, <3>3, <3>4
  <2>5. QED
    BY <2>1, <2>2, <2>3, <2>4 DEF t
<1>5. PICK m \in Nat :
        /\ s = [k \in 1 .. m |-> s[k]]
        /\ \A k \in 1 .. m : \E j \in 1 .. n : s[k].sig = t[j].sig
  BY <1>4
<1>6. \A k \in 1 .. m : \E j \in DOMAIN h[w] : s[k].sig = h[w][j].sig
  BY <1>2, <1>5 DEF t
<1>7. QED
  BY ONLY <1>5, <1>6, AreLists(h), w \in Lists, l = [h EXCEPT ![w] = s], ReplacedOnlyOf

\* What the host makes of lists holds their signatures and no others.
LEMMA HandledOnlyOf ==
  ASSUME NEW h, AreLists(h), \A w \in Lists : \A k \in DOMAIN h[w] : "sig" \in DOMAIN h[w][k],
         NEW l \in Handled(h)
  PROVE  AreLists(l) /\ OnlyOf(l, h)
<1> DEFINE with(w, s) == [h EXCEPT ![w] = s]
           nonempty == {w \in Lists : h[w] # <<>>}
           damage(w, s) == IF w = "transparent" THEN {[s EXCEPT !.trailing = 2], [s EXCEPT !.short = FALSE]}
                           ELSE {[s EXCEPT !.bytes = 63]}
           swapped == [h EXCEPT !.orchard = h.ironwood, !.ironwood = h.orchard]
<1>1. \/ l = h \/ l = swapped
      \/ \E w \in nonempty :
           \/ l = with(w, Tail(h[w]))
           \/ l = with(w, Append(h[w], Head(h[w])))
           \/ l = with(w, Reverse(h[w]))
           \/ \E e \in damage(w, Head(h[w])) : l = with(w, <<e>> \o Tail(h[w]))
  <2> DEFINE s1 == {with(w, Tail(h[w])) : w \in nonempty}
             s2 == {with(w, Append(h[w], Head(h[w]))) : w \in nonempty}
             s3 == {with(w, Reverse(h[w])) : w \in nonempty}
             some(w) == {with(w, <<e>> \o Tail(h[w])) : e \in damage(w, Head(h[w]))}
  <2>1. Handled(h) = {h, swapped} \cup s1 \cup s2 \cup s3 \cup UNION {some(w) : w \in nonempty}
    BY DEF Handled
  <2> HIDE DEF s1, s2, s3, swapped, some
  <2>2. \/ l = h \/ l = swapped \/ l \in s1 \/ l \in s2 \/ l \in s3 \/ \E w \in nonempty : l \in some(w)
    BY <2>1
  <2> HIDE DEF nonempty, with, damage
  <2>3. QED
    BY <2>2 DEF s1, s2, s3, some
<1>2. CASE l = h
  BY <1>2 DEF OnlyOf
<1>3. CASE l = swapped
  <2>1. DOMAIN h = Lists /\ {"orchard", "ironwood", "transparent"} = Lists
    BY DEF AreLists, Lists
  <2>2. DOMAIN l = Lists /\ l.orchard = h.ironwood /\ l.ironwood = h.orchard /\ l.transparent = h.transparent
    BY <1>3, <2>1
  <2>3. ASSUME NEW w \in Lists PROVE \E v \in Lists : l[w] = h[v]
    BY <2>1, <2>2
  <2>4. ASSUME NEW w \in Lists PROVE l[w] \in Seq({l[w][k] : k \in DOMAIN l[w]})
    <3>1. PICK v \in Lists : l[w] = h[v]
      BY <2>3
    <3>2. h[v] \in Seq({h[v][k] : k \in DOMAIN h[v]})
      BY DEF AreLists
    <3>3. QED
      BY ONLY <3>1, <3>2
  <2>5. OnlyOf(l, h)
    BY <2>3 DEF OnlyOf
  <2>6. QED
    BY <2>2, <2>4, <2>5 DEF AreLists
<1>4. ASSUME NEW w \in nonempty,
             \/ l = with(w, Tail(h[w]))
             \/ l = with(w, Append(h[w], Head(h[w])))
             \/ l = with(w, Reverse(h[w]))
             \/ \E e \in damage(w, Head(h[w])) : l = with(w, <<e>> \o Tail(h[w]))
      PROVE  AreLists(l) /\ OnlyOf(l, h)
  <2>1. w \in Lists /\ h[w] # <<>>
    OBVIOUS
  <2>2. "sig" \in DOMAIN Head(h[w])
    <3>1. h[w] \in Seq({h[w][k] : k \in DOMAIN h[w]})
      BY <2>1 DEF AreLists
    <3>2. Head(h[w]) \in {h[w][k] : k \in DOMAIN h[w]}
      BY <2>1, <3>1, HeadTailProperties
    <3>3. QED
      BY <2>1, <3>2
  <2> DEFINE x == Head(h[w])
  <2>3. \A e \in damage(w, x) : e.sig = x.sig
    <3>1. "sig" \in DOMAIN x
      BY <2>2
    <3> HIDE DEF x
    <3>2. QED
      BY <3>1
  <2> HIDE DEF damage, nonempty, swapped
  <2>4. \E e : /\ e.sig = Head(h[w]).sig
               /\ \E s \in {Tail(h[w]), Append(h[w], Head(h[w])), Reverse(h[w]), <<e>> \o Tail(h[w])} :
                    l = [h EXCEPT ![w] = s]
    <3>1. CASE \E e \in damage(w, Head(h[w])) : l = with(w, <<e>> \o Tail(h[w]))
      BY <2>3, <3>1
    <3>2. CASE ~ \E e \in damage(w, Head(h[w])) : l = with(w, <<e>> \o Tail(h[w]))
      <4>1. \E s \in {Tail(h[w]), Append(h[w], Head(h[w])), Reverse(h[w])} : l = [h EXCEPT ![w] = s]
        BY <1>4, <3>2
      <4>2. QED
        BY <4>1
    <3>3. QED
      BY <3>1, <3>2
  <2>5. PICK e : /\ e.sig = Head(h[w]).sig
                 /\ \E s \in {Tail(h[w]), Append(h[w], Head(h[w])), Reverse(h[w]), <<e>> \o Tail(h[w])} :
                      l = [h EXCEPT ![w] = s]
    BY <2>4
  <2>6. QED
    BY ONLY <2>1, <2>5, AreLists(h), HandledList
<1>5. QED
  BY <1>1, <1>2, <1>3, <1>4

\* Two PCZTs that do the same have the same unsigned actions.
LEMMA SameUnsigned ==
  ASSUME NEW p, NEW r, HasBuilt(p, r), NEW q, NEW t, HasBuilt(q, t), Effects(p) = Effects(q)
  PROVE  /\ DOMAIN p.tins = DOMAIN q.tins /\ \A i \in DOMAIN p.tins : p.tins[i].key = q.tins[i].key
         /\ \A pool \in Pools :
              /\ UnsignedActions(p, pool) = UnsignedActions(q, pool)
              /\ \A i \in DOMAIN p[pool] : p[pool][i].key = q[pool][i].key /\ p[pool][i].rk = q[pool][i].rk
<1>1. SameDeeds(p, q)
  BY EffectsAreDeeds
<1>2. ASSUME NEW x, NEW y, HasBuilt(x, y), NEW pool \in Pools, NEW i \in DOMAIN x[pool]
      PROVE  x[pool][i].sig = <<>> <=> x[pool][i].key.owner # "dummy"
  <2>1. PICK z : IsAction(x[pool][i], z, y, Effects(x))
    BY <1>2 DEF HasBuilt
  <2>2. \A v : <<v>> # <<>>
    OBVIOUS
  <2>3. IsDummy(z) <=> x[pool][i].key.owner = "dummy"
    BY <2>1 DEF IsAction, IsDummy
  <2>4. x[pool][i].sig = IF IsDummy(z) THEN <<[by |-> z.key, rk |-> z.rk, over |-> Effects(x)]>> ELSE <<>>
    BY <2>1 DEF IsAction
  <2>5. QED
    BY <2>2, <2>3, <2>4
<1>3. ASSUME NEW pool \in Pools
      PROVE  /\ UnsignedActions(p, pool) = UnsignedActions(q, pool)
             /\ \A i \in DOMAIN p[pool] : p[pool][i].key = q[pool][i].key /\ p[pool][i].rk = q[pool][i].rk
  <2>1. /\ DOMAIN p[pool] = DOMAIN q[pool]
        /\ \A i \in DOMAIN p[pool] : p[pool][i].key = q[pool][i].key /\ p[pool][i].rk = q[pool][i].rk
    BY <1>1 DEF SameDeeds
  <2>2. Unsigned(p, pool) = Unsigned(q, pool)
    BY <1>2, <2>1 DEF Unsigned
  <2>3. QED
    BY <2>1, <2>2 DEF UnsignedActions, Unsigned
<1>4. QED
  BY <1>1, <1>3 DEF SameDeeds

\* A send spends something, which somebody has to sign for.
LEMMA SomethingIsSigned ==
  ASSUME NEW o, NEW r, BuiltFor(o, r)
  PROVE  \/ DOMAIN o.pczt.tins # {}
         \/ \E pool \in Pools : DOMAIN UnsignedActions(o.pczt, pool) # {}
<1> DEFINE p == o.pczt
<1>1. HasBuilt(p, r) /\ HasRows(p, r)
  BY BuiltHas
<1>2. PICK b : Assembled(p, r, b) /\ Holds(b, r, Size(r))
  BY DEF BuiltFor
<1> HIDE DEF p
<1>3. r.spends # <<>> \/ r.tins # <<>>
  BY DEF BuiltFor, Payable
<1>4. CASE r.tins # <<>>
  <2>1. r.tins \in Seq(TransparentInput(Nat))
    BY ValidInputs DEF BuiltFor
  <2>2. DOMAIN r.tins # {}
    BY <1>4, <2>1, EmptySeq
  <2>3. QED
    BY <1>1, <2>2 DEF HasRows, p
<1>5. CASE r.spends # <<>>
  <2> DEFINE pool == PoolOf(r)
  <2>1. pool \in Pools
    BY DEF PoolOf, Pools
  <2>2. PICK i \in DOMAIN b : b[i].key = SpendKey(r)
    BY <1>2, <1>5 DEF Holds
  <2>3. i \in DOMAIN p[pool] /\ IsAction(p[pool][i], b[i], r, Effects(p))
    BY <1>2 DEF Assembled, HasActions
  <2>4. ~IsDummy(b[i])
    BY <2>2 DEF IsDummy, SpendKey, WalletKey
  <2>5. i \in Unsigned(p, pool)
    BY <2>3, <2>4 DEF IsAction, Unsigned
  <2>6. Lists1(UnsignedActions(p, pool), Unsigned(p, pool))
    BY <1>1, <2>1, UnsignedListed
  <2>7. DOMAIN UnsignedActions(p, pool) # {}
    BY <2>5, <2>6 DEF Lists1
  <2>8. QED
    BY <2>1, <2>7 DEF p
<1>6. QED
  BY <1>3, <1>4, <1>5

\* The lists have one signature for each unsigned action and each input.
InPlace(p, l) ==
  /\ \A pool \in Pools :
       /\ DOMAIN l[pool] = DOMAIN UnsignedActions(p, pool)
       /\ \A k \in DOMAIN l[pool] :
            l[pool][k].sig = Signature(p[pool][UnsignedActions(p, pool)[k]].key,
                                       p[pool][UnsignedActions(p, pool)[k]].rk, p)
  /\ DOMAIN l.transparent = DOMAIN p.tins
  /\ \A k \in DOMAIN l.transparent : l.transparent[k].sig = Signature(p.tins[k].key, <<k>>, p)

\* ... if they are what is asked for.
LEMMA RequiredInPlace ==
  ASSUME NEW o, NEW r, BuiltFor(o, r), NEW l, AreLists(l), Required(o.pczt, l)
  PROVE  InPlace(o.pczt, l)
<1> DEFINE p == o.pczt
<1>1. HasBuilt(p, r) /\ HasRows(p, r) /\ Required(p, l)
  BY BuiltHas
<1>2. DOMAIN p.tins = 1 .. Len(p.tins)
  <2>1. r.tins \in Seq(TransparentInput(Nat))
    BY ValidInputs DEF BuiltFor
  <2>2. QED
    BY <1>1, <2>1 DEF HasRows
<1> HIDE DEF p
<1>3. ASSUME NEW w \in Lists PROVE DOMAIN l[w] = 1 .. Len(l[w])
  <2>1. l[w] \in Seq({l[w][k] : k \in DOMAIN l[w]})
    BY DEF AreLists
  <2>2. QED
    BY <2>1, LenProperties
<1>4. DOMAIN l.transparent = DOMAIN p.tins
  BY <1>1, <1>2, <1>3 DEF Required, Lists
<1>5. ASSUME NEW pool \in Pools PROVE DOMAIN l[pool] = DOMAIN UnsignedActions(p, pool)
  <2>1. Lists1(UnsignedActions(p, pool), Unsigned(p, pool))
    BY <1>1, UnsignedListed
  <2>2. pool \in Lists
    BY DEF Lists, Pools
  <2>3. QED
    BY <1>1, <1>3, <2>1, <2>2 DEF Required, Lists1
<1>6. QED
  BY <1>1, <1>4, <1>5 DEF Required, InPlace, p

\* Whoever makes a transaction of a PCZT with what was given for another, or for it,
\* has the signatures of the other in order, and they do the same.
LEMMA OnlyTheApproved ==
  ASSUME NEW a, NEW r, BuiltFor(a, r), NEW h, Honest(a.pczt, h),
         NEW b, NEW t, BuiltFor(b, t), NEW l \in Handled(h), FinalizeTransaction(b.pczt, l)
  PROVE  Effects(a.pczt) = Effects(b.pczt) /\ SigsOf(h) = SigsOf(l)
<1> DEFINE p == a.pczt  q == b.pczt
<1>1. AreLists(h) /\ Required(p, h) /\ \A w \in Lists : \A k \in DOMAIN h[w] : "sig" \in DOMAIN h[w][k]
  BY HonestIsRequired
<1>2. AreLists(l) /\ OnlyOf(l, h)
  BY <1>1, HandledOnlyOf
<1>3. Required(q, l)
  BY <1>2, FinalizedIsRequired
<1>4. HasBuilt(p, r) /\ HasRows(p, r) /\ HasBuilt(q, t) /\ HasRows(q, t)
  BY BuiltHas
<1>6. \/ DOMAIN q.tins # {}
      \/ \E pool \in Pools : DOMAIN UnsignedActions(q, pool) # {}
  BY SomethingIsSigned
<1> HIDE DEF p, q
<1>7. \A w \in Lists : w \in Pools \/ w = "transparent"
  BY DEF Lists, Pools
<1>8. InPlace(p, h) /\ InPlace(q, l)
  BY <1>1, <1>2, <1>3, RequiredInPlace DEF p, q
<1>9. ASSUME NEW w \in Lists, NEW k \in DOMAIN h[w]
      PROVE  h[w][k].sig.over = Effects(p)
  <2>1. \A key, rk : Signature(key, rk, p).over = Effects(p)
    BY DEF Signature
  <2>2. \E key, rk : h[w][k].sig = Signature(key, rk, p)
    <3>1. CASE w \in Pools
      BY <1>8, <3>1 DEF InPlace
    <3>2. CASE w = "transparent"
      BY <1>8, <3>2 DEF InPlace
    <3>3. QED
      BY <1>7, <3>1, <3>2
  <2>3. QED
    BY <2>1, <2>2
<1>10. PICK w \in Lists : \E k \in DOMAIN l[w] : \E key, rk : l[w][k].sig = Signature(key, rk, q)
  <2>1. Pools \subseteq Lists /\ "transparent" \in Lists
    BY DEF Pools, Lists
  <2>2. CASE DOMAIN q.tins # {}
    <3>1. PICK k \in DOMAIN q.tins : TRUE
      BY <2>2
    <3>2. k \in DOMAIN l.transparent /\ l.transparent[k].sig = Signature(q.tins[k].key, <<k>>, q)
      BY <1>8, <3>1 DEF InPlace
    <3>3. QED
      BY <2>1, <3>2
  <2>3. CASE \E pool \in Pools : DOMAIN UnsignedActions(q, pool) # {}
    <3>1. PICK pool \in Pools : DOMAIN UnsignedActions(q, pool) # {}
      BY <2>3
    <3> DEFINE u == UnsignedActions(q, pool)
    <3>2. PICK k \in DOMAIN u : TRUE
      BY <3>1
    <3>3. k \in DOMAIN l[pool] /\ l[pool][k].sig = Signature(q[pool][u[k]].key, q[pool][u[k]].rk, q)
      BY <1>8, <3>1, <3>2 DEF InPlace
    <3> HIDE DEF u
    <3>4. QED
      BY <2>1, <3>1, <3>3
  <2>4. QED
    BY <1>6, <2>2, <2>3
<1>11. Effects(p) = Effects(q)
  <2>1. PICK k \in DOMAIN l[w] : \E key, rk : l[w][k].sig = Signature(key, rk, q)
    BY <1>10
  <2>2. PICK v \in Lists : \E j \in DOMAIN h[v] : l[w][k].sig = h[v][j].sig
    BY <1>2, <2>1 DEF OnlyOf
  <2>3. l[w][k].sig.over = Effects(p)
    BY <1>9, <2>2
  <2>4. QED
    BY <2>1, <2>3 DEF Signature
<1>12. /\ DOMAIN p.tins = DOMAIN q.tins /\ \A i \in DOMAIN p.tins : p.tins[i].key = q.tins[i].key
       /\ \A pool \in Pools :
            /\ UnsignedActions(p, pool) = UnsignedActions(q, pool)
            /\ \A i \in DOMAIN p[pool] : p[pool][i].key = q[pool][i].key /\ p[pool][i].rk = q[pool][i].rk
  BY ONLY <1>4, <1>11, SameUnsigned
<1>13. ASSUME NEW w0 \in Lists
       PROVE  DOMAIN h[w0] = DOMAIN l[w0] /\ \A k \in DOMAIN h[w0] : h[w0][k].sig = l[w0][k].sig
  <2>1. \A key, rk : Signature(key, rk, p) = Signature(key, rk, q)
    BY <1>11 DEF Signature
  <2>2. CASE w0 = "transparent"
    <3>1. /\ DOMAIN h.transparent = DOMAIN p.tins /\ DOMAIN l.transparent = DOMAIN q.tins
          /\ \A k \in DOMAIN h.transparent : h.transparent[k].sig = Signature(p.tins[k].key, <<k>>, p)
          /\ \A k \in DOMAIN l.transparent : l.transparent[k].sig = Signature(q.tins[k].key, <<k>>, q)
      BY <1>8 DEF InPlace
    <3>2. ASSUME NEW k \in DOMAIN p.tins
          PROVE  Signature(p.tins[k].key, <<k>>, p) = Signature(q.tins[k].key, <<k>>, q)
      <4>1. p.tins[k].key = q.tins[k].key
        BY <1>12
      <4>2. QED
        BY <2>1, <4>1
    <3>3. QED
      BY <1>12, <2>2, <3>1, <3>2
  <2>3. CASE w0 \in Pools
    <3> DEFINE u == UnsignedActions(p, w0)
    <3>1. \A k \in DOMAIN u : u[k] \in DOMAIN p[w0]
      BY <1>4, <2>3, UnsignedListed DEF Lists1, Unsigned
    <3>2. DOMAIN h[w0] = DOMAIN u /\ \A k \in DOMAIN u : h[w0][k].sig = Signature(p[w0][u[k]].key, p[w0][u[k]].rk, p)
      BY <1>8, <2>3 DEF InPlace
    <3>3. DOMAIN l[w0] = DOMAIN u /\ \A k \in DOMAIN u : l[w0][k].sig = Signature(q[w0][u[k]].key, q[w0][u[k]].rk, q)
      BY <1>8, <1>12, <2>3 DEF InPlace
    <3> HIDE DEF u
    <3>4. QED
      BY <1>12, <2>1, <2>3, <3>1, <3>2, <3>3
  <2>4. QED
    BY <1>7, <2>2, <2>3
<1>14. SigsOf(h) = SigsOf(l)
  <2>1. ASSUME NEW w0 \in Lists
        PROVE  [k \in DOMAIN h[w0] |-> h[w0][k].sig] = [k \in DOMAIN l[w0] |-> l[w0][k].sig]
    BY <1>13
  <2>2. QED
    BY <2>1 DEF SigsOf
<1>15. QED
  BY <1>11, <1>14 DEF p, q

(***************************************************************************)
(* The invariant of the host and the device, and what follows from it.      *)
(***************************************************************************)
\* What the exports may give for the send.
Results == UNION {Given(req, salt) : salt \in Nat}

\* What is kept is what was built for the send; every answer is honest for the build
\* it names; the last call was made of one of the answers.
FlowInv ==
  /\ req \in Requests
  /\ crafted \in Seq(Results)
  /\ \A a \in answers : a.of \in DOMAIN crafted /\ Honest(crafted[a.of].pczt, a.lists)
  /\ \/ last = NoCall
     \/ \E i \in DOMAIN crafted, a \in answers : \E lists \in Handled(a.lists) :
          last = [pczt |-> i, lists |-> lists, ok |-> FFIFinalizeTransaction(crafted[i].pczt, lists)]

\* The request a build was made for.
LEMMA CraftedIsBuilt ==
  ASSUME FlowInv, NEW i \in DOMAIN crafted
  PROVE  \E r : BuiltFor(crafted[i], r) /\ r.network.type = NetType /\ r.account = req.account
<1>1. crafted[i] \in Results /\ req \in BuildInputs({req.network}, Int)
  BY FlowAssumption DEF FlowInv
<1>2. PICK salt \in Nat : crafted[i] \in Given(req, salt)
  BY <1>1 DEF Results
<1>3. BuiltOnBehalf(crafted[i], req)
  BY <1>1, <1>2, GivenIsBuilt
<1>4. QED
  BY <1>3 DEF BuiltOnBehalf, NetType

\* A build that is added changes none of the others.
LEMMA CraftKeeps ==
  ASSUME FlowInv, NEW o \in Results, crafted' = Append(crafted, o), UNCHANGED <<req, answers, last>>
  PROVE  FlowInv'
<1>1. /\ crafted' \in Seq(Results) /\ DOMAIN crafted \subseteq DOMAIN crafted'
      /\ \A i \in DOMAIN crafted : crafted'[i] = crafted[i]
  <2>1. crafted \in Seq(Results)
    BY DEF FlowInv
  <2>2. /\ Append(crafted, o) \in Seq(Results) /\ Len(Append(crafted, o)) = Len(crafted) + 1
        /\ \A i \in 1 .. Len(crafted) : Append(crafted, o)[i] = crafted[i]
    BY ONLY <2>1, o \in Results, AppendProperties
  <2>3. /\ DOMAIN crafted = 1 .. Len(crafted) /\ Len(crafted) \in Nat
        /\ DOMAIN Append(crafted, o) = 1 .. Len(Append(crafted, o))
    BY ONLY <2>1, <2>2, LenProperties
  <2>4. QED
    BY <2>2, <2>3
<1>2. crafted' \in Seq(Results')
  BY <1>1 DEF Results, Given
<1>3. \A a \in answers' : a.of \in DOMAIN crafted' /\ Honest(crafted'[a.of].pczt, a.lists)
  <2>1. \A a \in answers : a.of \in DOMAIN crafted /\ Honest(crafted[a.of].pczt, a.lists)
    BY DEF FlowInv
  <2>2. QED
    BY <1>1, <2>1
<1>4. \/ last' = NoCall
      \/ \E i \in DOMAIN crafted', a \in answers' : \E lists \in Handled(a.lists) :
           last' = [pczt |-> i, lists |-> lists, ok |-> FFIFinalizeTransaction(crafted'[i].pczt, lists)]
  <2>1. CASE last = NoCall
    BY <2>1
  <2>2. CASE last # NoCall
    <3>1. PICK i \in DOMAIN crafted, a \in answers : \E lists \in Handled(a.lists) :
            last = [pczt |-> i, lists |-> lists, ok |-> FFIFinalizeTransaction(crafted[i].pczt, lists)]
      BY <2>2 DEF FlowInv
    <3>2. i \in DOMAIN crafted' /\ crafted'[i] = crafted[i] /\ last' = last /\ a \in answers'
      BY <1>1
    <3>3. QED
      BY <3>1, <3>2
  <2>3. QED
    BY <2>1, <2>2
<1>5. QED
  BY <1>2, <1>3, <1>4 DEF FlowInv

\* An honest answer that is added leaves the others.
LEMMA AnswerKeeps ==
  ASSUME FlowInv, NEW i \in DOMAIN crafted, NEW l, Honest(crafted[i].pczt, l),
         answers' = answers \cup {[of |-> i, lists |-> l]}, UNCHANGED <<req, crafted, refused, last>>
  PROVE  FlowInv'
<1>1. crafted' \in Seq(Results')
  BY DEF FlowInv, Results, Given
<1>2. ASSUME NEW a \in answers' PROVE a.of \in DOMAIN crafted' /\ Honest(crafted'[a.of].pczt, a.lists)
  <2>1. CASE a \in answers
    BY <2>1 DEF FlowInv
  <2>2. CASE a = [of |-> i, lists |-> l]
    <3>1. a.of = i /\ a.lists = l
      BY ONLY <2>2
    <3>2. QED
      BY <3>1
  <2>3. QED
    BY <2>1, <2>2
<1>3. \/ last' = NoCall
      \/ \E j \in DOMAIN crafted', a \in answers' : \E lists \in Handled(a.lists) :
           last' = [pczt |-> j, lists |-> lists, ok |-> FFIFinalizeTransaction(crafted'[j].pczt, lists)]
  <2>1. CASE last = NoCall
    BY <2>1
  <2>2. CASE last # NoCall
    <3>1. PICK j \in DOMAIN crafted, a \in answers : \E lists \in Handled(a.lists) :
            last = [pczt |-> j, lists |-> lists, ok |-> FFIFinalizeTransaction(crafted[j].pczt, lists)]
      BY <2>2 DEF FlowInv
    <3>2. crafted' = crafted /\ last' = last /\ a \in answers'
      OBVIOUS
    <3>3. QED
      BY <3>1, <3>2
  <2>3. QED
    BY <2>1, <2>2
<1>4. QED
  BY <1>1, <1>2, <1>3 DEF FlowInv

\* The invariant holds of every behaviour.
THEOREM FlowInvariant == Spec => []FlowInv
<1>1. Init => FlowInv
  <2> SUFFICES ASSUME Init PROVE FlowInv
    OBVIOUS
  <2>1. crafted \in Seq(Results)
    BY EmptySeq DEF Init
  <2>2. QED
    BY <2>1 DEF Init, FlowInv
<1>2. FlowInv /\ [Next]_vars => FlowInv'
  <2> SUFFICES ASSUME FlowInv, [Next]_vars PROVE FlowInv'
    OBVIOUS
  <2>1. CASE Craft
    <3>1. CASE crafted' = crafted
      <4>1. UNCHANGED <<req, crafted, answers, last>>
        BY <2>1, <3>1 DEF Craft
      <4>2. QED
        BY <4>1 DEF FlowInv, Results, Given
    <3>2. CASE crafted' # crafted
      <4> DEFINE salt == Len(crafted) + 1
      <4>1. PICK o \in Given(req, salt) : crafted' = Append(crafted, o)
        BY <2>1, <3>2 DEF Craft, Given
      <4>2. salt \in Nat
        BY DEF FlowInv
      <4>3. o \in Results
        BY <4>1, <4>2 DEF Results
      <4>4. UNCHANGED <<req, answers, last>>
        BY <2>1 DEF Craft
      <4>5. QED
        BY <4>1, <4>3, <4>4, CraftKeeps
    <3>3. QED
      BY <3>1, <3>2
  <2>2. CASE DeviceSigns
    <3>1. PICK i \in DOMAIN crafted : \E head \in [DOMAIN crafted[i].pczt.tins -> {EvenY, OddY}] :
            answers' = answers \cup {[of |-> i, lists |-> DeviceLists(crafted[i].pczt, head)]}
      BY <2>2 DEF DeviceSigns
    <3>2. PICK head \in [DOMAIN crafted[i].pczt.tins -> {EvenY, OddY}] :
            answers' = answers \cup {[of |-> i, lists |-> DeviceLists(crafted[i].pczt, head)]}
      BY <3>1
    <3>3. Honest(crafted[i].pczt, DeviceLists(crafted[i].pczt, head))
      BY CraftedIsBuilt, DeviceIsHonest
    <3>4. UNCHANGED <<req, crafted, refused, last>>
      BY <2>2 DEF DeviceSigns
    <3>5. QED
      BY <3>2, <3>3, <3>4, AnswerKeeps
  <2>3. CASE TestSigns
    <3>1. PICK i \in DOMAIN crafted, net \in TestNetworks :
            /\ CanTestSign(crafted[i].pczt, CoinType(net), req.account)
            /\ answers' = answers \cup
                 {[of |-> i, lists |-> TestSign(crafted[i].pczt, CoinType(net), req.account)]}
      BY <2>3 DEF TestSigns
    <3>2. Honest(crafted[i].pczt, TestSign(crafted[i].pczt, CoinType(net), req.account))
      BY <3>1, CraftedIsBuilt, TestIsHonest
    <3>3. UNCHANGED <<req, crafted, refused, last>>
      BY <2>3 DEF TestSigns
    <3>4. QED
      BY <3>1, <3>2, <3>3, AnswerKeeps
  <2>4. CASE Finalize
    <3>1. UNCHANGED <<req, crafted, refused, answers>>
      BY <2>4 DEF Finalize
    <3>2. \E i \in DOMAIN crafted, a \in answers : \E lists \in Handled(a.lists) :
            last' = [pczt |-> i, lists |-> lists, ok |-> FFIFinalizeTransaction(crafted[i].pczt, lists)]
      BY <2>4 DEF Finalize
    <3>3. \E i \in DOMAIN crafted', a \in answers' : \E lists \in Handled(a.lists) :
            last' = [pczt |-> i, lists |-> lists, ok |-> FFIFinalizeTransaction(crafted'[i].pczt, lists)]
      BY <3>1, <3>2
    <3>4. QED
      BY <3>1, <3>3 DEF FlowInv, Results, Given
  <2>5. CASE UNCHANGED vars
    BY <2>5 DEF FlowInv, Results, Given, vars
  <2>6. QED
    BY <2>1, <2>2, <2>3, <2>4, <2>5 DEF Next
<1>3. QED
  BY <1>1, <1>2, PTL DEF Spec

\* What is crafted can always be parsed, reviewed by the device and signed.
THEOREM SignableCorrect == Spec => []Signable
<1>1. FlowInv => Signable
  <2> SUFFICES ASSUME FlowInv, NEW i \in DOMAIN crafted
               PROVE  LET p == crafted[i].pczt IN
                        /\ FFIParsePczt(p) # {}
                        /\ NetType # "regtest" => \A view \in FFIParsePczt(p) : DeviceAccepts(NetType, view)
                        /\ CanTestSign(p, WalletCoin(NetType), req.account)
    BY DEF Signable, CraftedPczts
  <2>1. PICK r : BuiltFor(crafted[i], r) /\ r.network.type = NetType /\ r.account = req.account
    BY CraftedIsBuilt
  <2>2. Parses(crafted[i].pczt)
    BY <2>1, BuiltHas, BuiltParses
  <2>3. NetType # "regtest" => \A view \in FFIParsePczt(crafted[i].pczt) : DeviceAccepts(NetType, view)
    BY <2>1, BuiltIsAccepted
  <2>4. CanTestSign(crafted[i].pczt, WalletCoin(NetType), req.account)
    BY <2>1, BuiltIsTestSigned
  <2>5. QED
    BY <2>2, <2>3, <2>4 DEF FFIParsePczt
<1>2. QED
  BY <1>1, FlowInvariant, PTL

\* The device hides the change, and only that.
THEOREM ChangeCorrect == Spec => []ChangeRecognised
<1>1. FlowInv => ChangeRecognised
  <2> SUFFICES ASSUME FlowInv, NEW i \in DOMAIN crafted PROVE Recognises(crafted[i].pczt)
    BY DEF ChangeRecognised, CraftedPczts, Recognises
  <2>1. QED
    BY CraftedIsBuilt, BuiltRecognises
<1>2. QED
  BY <1>1, FlowInvariant, PTL

\* The fee is what is taken and not paid out, one that ZIP 317 gives for what is
\* built, and the counts are those of the PCZT.
THEOREM BalanceCorrect == Spec => []BalancedAndCounted
<1>1. FlowInv => BalancedAndCounted
  <2> SUFFICES ASSUME FlowInv, NEW i \in DOMAIN crafted PROVE Balances(crafted[i])
    BY DEF BalancedAndCounted, Balances
  <2>1. QED
    BY CraftedIsBuilt, BuiltBalances
<1>2. QED
  BY <1>1, FlowInvariant, PTL

\* What a call that was made says of the PCZT and the lists it was made with.
LEMMA LastCall ==
  ASSUME FlowInv, last # NoCall
  PROVE  /\ last.pczt \in DOMAIN crafted /\ \E a \in answers : last.lists \in Handled(a.lists)
         /\ last.ok <=> FFIFinalizeTransaction(crafted[last.pczt].pczt, last.lists)
<1>1. PICK i \in DOMAIN crafted, a \in answers : \E lists \in Handled(a.lists) :
        last = [pczt |-> i, lists |-> lists, ok |-> FFIFinalizeTransaction(crafted[i].pczt, lists)]
  BY DEF FlowInv
<1>2. PICK lists \in Handled(a.lists) :
        last = [pczt |-> i, lists |-> lists, ok |-> FFIFinalizeTransaction(crafted[i].pczt, lists)]
  BY <1>1
<1>3. \A x, y, z : /\ [pczt |-> x, lists |-> y, ok |-> z].pczt = x
                   /\ [pczt |-> x, lists |-> y, ok |-> z].lists = y
                   /\ [pczt |-> x, lists |-> y, ok |-> z].ok = z
  OBVIOUS
<1>4. last.pczt = i /\ last.lists = lists
  BY <1>2, <1>3
<1>5. last.ok = FFIFinalizeTransaction(crafted[i].pczt, lists)
  BY <1>2, <1>3, Zenon
<1>6. QED
  BY <1>4, <1>5

\* Signatures that were given for a PCZT, passed on as they are, make a transaction.
THEOREM HonestyCorrect == Spec => []HonestAnswersFinalize
<1>1. FlowInv => HonestAnswersFinalize
  <2> SUFFICES ASSUME FlowInv, NEW a \in answers, a.of = last.pczt, a.lists = last.lists
               PROVE  last.ok
    BY DEF HonestAnswersFinalize
  <2>1. a.of \in DOMAIN crafted /\ Honest(crafted[a.of].pczt, a.lists)
    BY DEF FlowInv
  <2>2. last # NoCall
    <3>1. 0 \notin DOMAIN crafted
      BY DEF FlowInv
    <3>2. NoCall.pczt = 0
      BY DEF NoCall
    <3>3. QED
      BY <2>1, <3>1, <3>2
  <2>3. FFIFinalizeTransaction(crafted[a.of].pczt, a.lists)
    BY <2>1, CraftedIsBuilt, HonestFinalizes
  <2>4. QED
    BY <2>2, <2>3, LastCall
<1>2. QED
  BY <1>1, FlowInvariant, PTL

\* A transaction is made only of all the signatures that were given for what it does,
\* in their order.
THEOREM ApprovalCorrect == Spec => []ExtractedAsApproved
<1>1. FlowInv => ExtractedAsApproved
  <2> SUFFICES ASSUME FlowInv, last.ok
               PROVE  \E a \in answers :
                        /\ Effects(crafted[a.of].pczt) = Effects(crafted[last.pczt].pczt)
                        /\ SigsOf(a.lists) = SigsOf(last.lists)
    BY DEF ExtractedAsApproved
  <2>1. last # NoCall
    <3>1. ~NoCall.ok
      BY DEF NoCall
    <3>2. QED
      BY <3>1
  <2>2. PICK a \in answers : last.lists \in Handled(a.lists)
    BY <2>1, LastCall
  <2>3. FFIFinalizeTransaction(crafted[last.pczt].pczt, last.lists) /\ last.pczt \in DOMAIN crafted
    BY <2>1, LastCall
  <2>4. FinalizeTransaction(crafted[last.pczt].pczt, last.lists)
    BY <2>3 DEF FFIFinalizeTransaction
  <2>5. a.of \in DOMAIN crafted /\ Honest(crafted[a.of].pczt, a.lists)
    BY DEF FlowInv
  <2>6. PICK r, t : BuiltFor(crafted[a.of], r) /\ BuiltFor(crafted[last.pczt], t)
    BY <2>3, <2>5, CraftedIsBuilt
  <2>7. /\ Effects(crafted[a.of].pczt) = Effects(crafted[last.pczt].pczt)
        /\ SigsOf(a.lists) = SigsOf(last.lists)
    BY <2>2, <2>4, <2>5, <2>6, OnlyTheApproved
  <2>8. QED
    BY <2>7
<1>2. QED
  BY <1>1, FlowInvariant, PTL
=============================================================================
