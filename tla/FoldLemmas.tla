----------------------------- MODULE FoldLemmas -----------------------------
(***************************************************************************)
(* Induction, the sums that the modules write as folds (the batches of a    *)
(* scan, the values of a transaction, the leaves of blocks), in any order,   *)
(* and the lists of the positions in a set.  The theorems of the library     *)
(* state induction for a predicate, which the provers cannot instantiate;    *)
(* well-foundedness they state for a set, and a set is enough.               *)
(***************************************************************************)
EXTENDS Integers, Sequences, FiniteSets, SequencesExt, FiniteSetTheorems, TLAPS

\* A set that contains 0, and n + 1 with every n, contains all natural numbers.
LEMMA SetInduction ==
  ASSUME NEW T, 0 \in T, \A n \in Nat : n \in T => n + 1 \in T
  PROVE  Nat \subseteq T
<1>1. SUFFICES ASSUME Nat \ T # {} PROVE FALSE
  OBVIOUS
<1>2. PICK m \in Nat \ T : \A k \in Nat \ T : <<k, m>> \notin OpToRel(<, Nat)
  BY <1>1, NatLessThanWellFounded, WFMin
<1>3. \A k \in Nat : k < m => k \in T
  BY <1>2 DEF OpToRel
<1>4. QED
  BY <1>3

\* More of them is not less: multiplication is monotone.
LEMMA MulMonotone ==
  ASSUME NEW a \in Nat, NEW b \in Nat, NEW n \in Nat, a <= b
  PROVE  a * n <= b * n /\ a * n \in Nat /\ b * n \in Nat
<1>1. PICK d \in Nat : b = a + d
  <2>1. b - a \in Nat /\ b = a + (b - a)
    OBVIOUS
  <2>2. QED
    BY <2>1
<1>2. d * n \in Nat /\ a * n \in Nat /\ b * n = a * n + d * n
  BY <1>1
<1>3. QED
  BY <1>2

\* The powers of two, by their recursive equation: such a function exists.
IsDoubling(f, n) == f[0] = 1 /\ \A k \in 1 .. n : f[k] = 2 * f[k - 1]

LEMMA DoublingExists == \E f : f = [n \in Nat |-> IF n = 0 THEN 1 ELSE 2 * f[n - 1]]
<1> DEFINE F(n) == CHOOSE f : f \in [0 .. n -> Nat] /\ IsDoubling(f, n)
           T == {n \in Nat : \E f : f \in [0 .. n -> Nat] /\ IsDoubling(f, n)}
<1>1. 0 \in T
  <2>1. [k \in 0 .. 0 |-> 1] \in [0 .. 0 -> Nat] /\ IsDoubling([k \in 0 .. 0 |-> 1], 0)
    BY DEF IsDoubling
  <2>2. QED
    BY <2>1
<1>2. ASSUME NEW n \in Nat, n \in T PROVE n + 1 \in T
  <2>1. PICK f : f \in [0 .. n -> Nat] /\ IsDoubling(f, n)
    BY <1>2
  <2> DEFINE g == [k \in 0 .. n + 1 |-> IF k = n + 1 THEN 2 * f[n] ELSE f[k]]
  <2>2. g \in [0 .. n + 1 -> Nat]
    BY <2>1
  <2>3. IsDoubling(g, n + 1)
    <3>1. g[0] = 1
      BY <2>1 DEF IsDoubling
    <3>2. ASSUME NEW k \in 1 .. n + 1 PROVE g[k] = 2 * g[k - 1]
      <4>1. CASE k = n + 1
        BY <4>1
      <4>2. CASE k # n + 1
        <5>1. k \in 1 .. n /\ k - 1 \in 0 .. n
          BY <4>2
        <5>2. f[k] = 2 * f[k - 1]
          BY <2>1, <5>1 DEF IsDoubling
        <5>3. QED
          BY <4>2, <5>1, <5>2
      <4>3. QED
        BY <4>1, <4>2
    <3> HIDE DEF g
    <3>3. QED
      BY <3>1, <3>2 DEF IsDoubling
  <2> HIDE DEF g
  <2>4. QED
    BY <2>2, <2>3
<1>3. \A n \in Nat : F(n) \in [0 .. n -> Nat] /\ IsDoubling(F(n), n)
  <2>1. Nat \subseteq T
    <3> HIDE DEF T
    <3>1. QED
      BY <1>1, <1>2, SetInduction
  <2>2. QED
    BY <2>1
<1> HIDE DEF F
<1>4. ASSUME NEW n \in Nat PROVE F(n + 1)[n] = F(n)[n]
  <2> DEFINE S == {k \in Nat : k <= n => F(n + 1)[k] = F(n)[k]}
  <2>1. 0 \in S
    <3>1. IsDoubling(F(n + 1), n + 1) /\ IsDoubling(F(n), n)
      BY <1>3
    <3>2. F(n + 1)[0] = 1 /\ F(n)[0] = 1
      BY <3>1 DEF IsDoubling
    <3>3. QED
      BY <3>2
  <2>2. ASSUME NEW k \in Nat, k \in S PROVE k + 1 \in S
    <3> SUFFICES ASSUME k + 1 <= n PROVE F(n + 1)[k + 1] = F(n)[k + 1]
      OBVIOUS
    <3>1. k + 1 \in 1 .. n /\ k + 1 \in 1 .. n + 1 /\ (k + 1) - 1 = k /\ n + 1 \in Nat
      OBVIOUS
    <3>2. F(n + 1)[k + 1] = 2 * F(n + 1)[(k + 1) - 1] /\ F(n)[k + 1] = 2 * F(n)[(k + 1) - 1]
      BY <1>3, <3>1 DEF IsDoubling
    <3>3. F(n + 1)[k] = F(n)[k]
      BY <2>2
    <3>4. QED
      BY <3>1, <3>2, <3>3
  <2>3. Nat \subseteq S
    <3> HIDE DEF S
    <3>1. QED
      BY <2>1, <2>2, SetInduction
  <2>4. QED
    BY <2>3
<1> DEFINE g == [n \in Nat |-> F(n)[n]]
<1>5. ASSUME NEW n \in Nat PROVE g[n] = IF n = 0 THEN 1 ELSE 2 * g[n - 1]
  <2>1. CASE n = 0
    BY <1>3, <2>1 DEF IsDoubling
  <2>2. CASE n # 0
    <3>1. n - 1 \in Nat /\ (n - 1) + 1 = n /\ n \in 1 .. n
      BY <2>2
    <3>2. F(n)[n] = 2 * F(n)[n - 1]
      BY <1>3, <3>1 DEF IsDoubling
    <3>3. F((n - 1) + 1)[n - 1] = F(n - 1)[n - 1]
      BY <1>4, <3>1
    <3>4. QED
      BY <2>2, <3>1, <3>2, <3>3
  <2>3. QED
    BY <2>1, <2>2
<1>6. g = [n \in Nat |-> g[n]]
  OBVIOUS
<1> HIDE DEF g
<1>7. g = [n \in Nat |-> IF n = 0 THEN 1 ELSE 2 * g[n - 1]]
  BY <1>5, <1>6
<1>8. QED
  BY <1>7

(***************************************************************************)
(* Sums over finite sets: f gives the sum of v over every set of D, taking  *)
(* the elements of a set in the order that ch chooses them in.              *)
(***************************************************************************)
SumsBy(f, v, ch, D) ==
  \A s \in D : f[s] = IF s = {} THEN 0 ELSE v[ch[s]] + f[s \ {ch[s]}]

\* Summing terminates: whatever the order, such a function exists, and its values
\* are natural numbers. The CHOOSE of a fold is therefore one.
LEMMA SumExists ==
  ASSUME NEW S, IsFiniteSet(S), NEW v \in [S -> Nat], NEW ch,
         \A s \in SUBSET S : s # {} => ch[s] \in s
  PROVE  \E f \in [SUBSET S -> Nat] : SumsBy(f, v, ch, SUBSET S)
<1> DEFINE Upto(n) == {s \in SUBSET S : Cardinality(s) <= n}
           T == {n \in Nat : \E f \in [Upto(n) -> Nat] : SumsBy(f, v, ch, Upto(n))}
<1>0. \A s \in SUBSET S : IsFiniteSet(s) /\ Cardinality(s) \in Nat
                          /\ (Cardinality(s) = 0 <=> s = {})
  BY FS_Subset, FS_CardinalityType, FS_EmptySet
<1>1. 0 \in T
  <2>1. \A s \in Upto(0) : s = {}
    BY <1>0
  <2>2. [s \in Upto(0) |-> 0] \in [Upto(0) -> Nat]
    OBVIOUS
  <2>3. SumsBy([s \in Upto(0) |-> 0], v, ch, Upto(0))
    BY <2>1 DEF SumsBy
  <2>4. QED
    BY <2>2, <2>3
<1>2. ASSUME NEW n \in Nat, n \in T PROVE n + 1 \in T
  <2>1. PICK f \in [Upto(n) -> Nat] : SumsBy(f, v, ch, Upto(n))
    BY <1>2
  <2> DEFINE g == [s \in Upto(n + 1) |-> IF s = {} THEN 0 ELSE v[ch[s]] + f[s \ {ch[s]}]]
  <2>2. ASSUME NEW s \in Upto(n + 1), s # {}
        PROVE  s \ {ch[s]} \in Upto(n) /\ ch[s] \in S
    <3>1. ch[s] \in s
      BY <2>2
    <3>2. Cardinality(s \ {ch[s]}) = Cardinality(s) - 1
      BY <1>0, <3>1, FS_RemoveElement
    <3>3. QED
      BY <1>0, <3>1, <3>2
  <2>3. g \in [Upto(n + 1) -> Nat]
    <3> SUFFICES ASSUME NEW s \in Upto(n + 1)
                 PROVE  (IF s = {} THEN 0 ELSE v[ch[s]] + f[s \ {ch[s]}]) \in Nat
      OBVIOUS
    <3> HIDE DEF Upto
    <3>1. QED
      BY <2>2
  <2>4. \A s \in Upto(n) : s \in Upto(n + 1) /\ g[s] = f[s]
    BY <2>1, <1>0 DEF SumsBy
  <2>5. SumsBy(g, v, ch, Upto(n + 1))
    <3> SUFFICES ASSUME NEW s \in Upto(n + 1), s # {}
                 PROVE  g[s] = v[ch[s]] + g[s \ {ch[s]}]
      BY <1>0 DEF SumsBy
    <3>1. g[s] = v[ch[s]] + f[s \ {ch[s]}]
      OBVIOUS
    <3> HIDE DEF Upto, g
    <3>2. QED
      BY <3>1, <2>2, <2>4
  <2>6. QED
    <3> HIDE DEF Upto, g
    <3>1. QED
      BY <2>3, <2>5
<1>3. Cardinality(S) \in T
  <2>1. \A n \in Nat : n \in T => n + 1 \in T
    BY <1>2
  <2> HIDE DEF T
  <2>2. QED
    BY <1>0, <1>1, <2>1, SetInduction
<1>4. Upto(Cardinality(S)) = SUBSET S
  BY <1>0, FS_Subset
<1>5. \E f \in [Upto(Cardinality(S)) -> Nat] : SumsBy(f, v, ch, Upto(Cardinality(S)))
  <2> HIDE DEF Upto
  <2>1. QED
    BY <1>3
<1>6. QED
  <2> HIDE DEF Upto, T
  <2>1. QED
    BY <1>4, <1>5

\* A non-empty set of positions has a largest one, which Max chooses.
LEMMA MaxOfSet ==
  ASSUME NEW n \in Nat, NEW s \in SUBSET (1 .. n), s # {}
  PROVE  Max(s) \in s /\ \A y \in s : Max(s) >= y
<1>1. \E x \in s : \A y \in s : x >= y
  <2> DEFINE T == {k \in Nat : \A r \in SUBSET (1 .. k) : r # {} => \E x \in r : \A y \in r : x >= y}
  <2>1. 0 \in T
    <3>1. 1 .. 0 = {}
      OBVIOUS
    <3>2. QED
      BY <3>1
  <2>2. ASSUME NEW k \in Nat, k \in T PROVE k + 1 \in T
    <3> SUFFICES ASSUME NEW r \in SUBSET (1 .. k + 1), r # {}
                 PROVE  \E x \in r : \A y \in r : x >= y
      OBVIOUS
    <3>1. CASE k + 1 \in r
      BY <3>1
    <3>2. CASE k + 1 \notin r
      <4>1. r \in SUBSET (1 .. k)
        BY <3>2
      <4>2. QED
        BY <4>1, <2>2
    <3>3. QED
      BY <3>1, <3>2
  <2>3. n \in T
    <3> HIDE DEF T
    <3>1. QED
      BY <2>1, <2>2, SetInduction
  <2>4. QED
    BY <2>3
<1>2. QED
  BY <1>1 DEF Max

\* The sum of a sequence, from left to right.
SumOf(s) == FoldLeft(LAMBDA x, y : x + y, 0, s)

\* ... is the last of its prefix sums, each of which adds one element to the one
\* before.
LEMMA PrefixSums ==
  ASSUME NEW s \in Seq(Nat)
  PROVE  \E p \in [0 .. Len(s) -> Nat] :
           /\ p[0] = 0 /\ p[Len(s)] = SumOf(s)
           /\ \A k \in 1 .. Len(s) : p[k] = p[k - 1] + s[k]
<1> DEFINE S == DOMAIN s
           Iter(f) == f = [r \in SUBSET S |-> IF r = {} THEN 0
                                              ELSE f[r \ {Max(r)}] + s[Max(r)]]
           iter == CHOOSE f : Iter(f)
           ch == [r \in SUBSET S |-> Max(r)]
<1>1. SumOf(s) = iter[S]
  BY DEF SumOf, FoldLeft, MapThenFoldSet
<1>2. Len(s) \in Nat /\ S = 1 .. Len(s) /\ s \in [S -> Nat] /\ IsFiniteSet(S)
  BY FS_Interval
<1>3. \A r \in SUBSET S : r # {} => Max(r) \in r /\ \A y \in r : Max(r) >= y
  BY <1>2, MaxOfSet
<1>4. \A r \in SUBSET S : r # {} => ch[r] = Max(r) /\ ch[r] \in r
  BY <1>3
<1>5. \E f \in [SUBSET S -> Nat] : SumsBy(f, s, ch, SUBSET S)
  <2> HIDE DEF S, ch
  <2>2. QED
    BY <1>2, <1>4, SumExists
<1>6. PICK f \in [SUBSET S -> Nat] : SumsBy(f, s, ch, SUBSET S)
  BY <1>5
<1>7. Iter(f)
  <2>1. ASSUME NEW r \in SUBSET S
        PROVE  f[r] = IF r = {} THEN 0 ELSE f[r \ {Max(r)}] + s[Max(r)]
    <3>1. CASE r = {}
      BY <1>6, <3>1 DEF SumsBy
    <3>2. CASE r # {}
      <4>1. f[r] = s[ch[r]] + f[r \ {ch[r]}]
        <5> HIDE DEF ch
        <5>1. QED
          BY <1>6, <3>2 DEF SumsBy
      <4>2. s[ch[r]] \in Nat /\ f[r \ {ch[r]}] \in Nat
        <5> HIDE DEF ch
        <5>1. QED
          BY <1>2, <1>4, <3>2
      <4>3. QED
        <5>1. ch[r] = Max(r)
          BY <1>4, <3>2
        <5> HIDE DEF ch, Iter, iter, S
        <5>2. QED
          BY <3>2, <4>1, <4>2, <5>1
    <3>3. QED
      BY <3>1, <3>2
  <2>2. QED
    <3> HIDE DEF ch
    <3>1. QED
      BY <2>1
<1>8. Iter(iter)
  <2> HIDE DEF Iter
  <2>1. QED
    BY <1>7
<1> DEFINE p == [k \in 0 .. Len(s) |-> iter[1 .. k]]
<1>9. p[0] = 0 /\ p[Len(s)] = SumOf(s)
  <2>1. 1 .. 0 = {} /\ {} \in SUBSET S /\ 0 \in 0 .. Len(s)
    BY <1>2
  <2>2. iter[{}] = 0
    <3> HIDE DEF iter, S
    <3>1. QED
      BY <1>8
  <2> HIDE DEF iter
  <2>3. p[0] = iter[1 .. 0]
    BY <2>1
  <2>4. p[Len(s)] = iter[S]
    BY <1>2
  <2>5. QED
    BY <1>1, <2>1, <2>2, <2>3, <2>4
<1>10. ASSUME NEW k \in 1 .. Len(s)
       PROVE  p[k] = p[k - 1] + s[k]
  <2> DEFINE r == 1 .. k
  <2>1. r \in SUBSET S /\ r # {} /\ k \in r /\ k \in Nat
    BY <1>2
  <2>2. Max(r) = k
    <3>1. Max(r) \in r /\ Max(r) >= k
      <4> HIDE DEF r
      <4>1. QED
        BY <1>3, <2>1
    <3>2. QED
      BY <3>1
  <2>3. r \ {k} = 1 .. k - 1
    OBVIOUS
  <2>4. iter[r] = iter[r \ {k}] + s[k]
    <3> HIDE DEF r, iter, S
    <3>1. QED
      BY <1>8, <2>1, <2>2
  <2>5. k - 1 \in 0 .. Len(s) /\ k \in 0 .. Len(s)
    BY <1>2
  <2> HIDE DEF iter
  <2>6. QED
    BY <2>3, <2>4, <2>5
<1> HIDE DEF p, iter, Iter, ch, S
<1>11. DOMAIN p = 0 .. Len(s) /\ p = [k \in 0 .. Len(s) |-> p[k]]
  BY DEF p
<1>12. \A k \in 0 .. Len(s) : p[k] \in Nat
  <2> DEFINE T == {k \in Nat : k <= Len(s) => p[k] \in Nat}
  <2>1. 0 \in T
    BY <1>9
  <2>2. ASSUME NEW k \in Nat, k \in T PROVE k + 1 \in T
    <3> SUFFICES ASSUME k + 1 <= Len(s) PROVE p[k + 1] \in Nat
      OBVIOUS
    <3>1. k + 1 \in 1 .. Len(s) /\ p[k] \in Nat /\ s[k + 1] \in Nat
      BY <1>2, <2>2
    <3>2. p[k + 1] = p[(k + 1) - 1] + s[k + 1]
      BY <1>10, <3>1
    <3>3. QED
      BY <3>1, <3>2
  <2>3. Nat \subseteq T
    <3> HIDE DEF T
    <3>1. QED
      BY <2>1, <2>2, SetInduction
  <2>4. QED
    BY <2>3, <1>2
<1>13. p \in [0 .. Len(s) -> Nat]
  BY <1>11, <1>12
<1>14. QED
  BY <1>9, <1>10, <1>13

(***************************************************************************)
(* The order does not matter.                                               *)
(***************************************************************************)
\* Two functions that sum in the same order agree.
LEMMA SumUnique ==
  ASSUME NEW S, IsFiniteSet(S), NEW v, NEW ch, NEW f, NEW g,
         \A s \in SUBSET S : s # {} => ch[s] \in s,
         SumsBy(f, v, ch, SUBSET S), SumsBy(g, v, ch, SUBSET S)
  PROVE  \A s \in SUBSET S : f[s] = g[s]
<1> DEFINE T == {n \in Nat : \A s \in SUBSET S : Cardinality(s) = n => f[s] = g[s]}
<1>0. \A s \in SUBSET S : IsFiniteSet(s) /\ Cardinality(s) \in Nat
                          /\ (Cardinality(s) = 0 <=> s = {})
  BY FS_Subset, FS_CardinalityType, FS_EmptySet
<1>1. 0 \in T
  BY <1>0 DEF SumsBy
<1>2. ASSUME NEW n \in Nat, n \in T PROVE n + 1 \in T
  <2> SUFFICES ASSUME NEW s \in SUBSET S, Cardinality(s) = n + 1 PROVE f[s] = g[s]
    OBVIOUS
  <2>1. s # {} /\ ch[s] \in s /\ s \ {ch[s]} \in SUBSET S
    BY <1>0
  <2>2. Cardinality(s \ {ch[s]}) = n
    <3>1. Cardinality(s \ {ch[s]}) = Cardinality(s) - 1
      BY <1>0, <2>1, FS_RemoveElement
    <3>2. QED
      BY <3>1
  <2>3. f[s \ {ch[s]}] = g[s \ {ch[s]}]
    BY <1>2, <2>1, <2>2
  <2>4. f[s] = v[ch[s]] + f[s \ {ch[s]}] /\ g[s] = v[ch[s]] + g[s \ {ch[s]}]
    BY <2>1 DEF SumsBy
  <2>5. QED
    BY <2>3, <2>4
<1>3. Nat \subseteq T
  <2> HIDE DEF T
  <2>1. QED
    BY <1>1, <1>2, SetInduction
<1>4. QED
  BY <1>0, <1>3

\* Any element of a set can be taken first.
InAnyOrder(f, v, D) == \A s \in D : \A x \in s : f[s] = v[x] + f[s \ {x}]

\* ... whatever the order that the function sums in.
LEMMA SumExchange ==
  ASSUME NEW S, IsFiniteSet(S), NEW v \in [S -> Nat], NEW ch, NEW f \in [SUBSET S -> Nat],
         \A s \in SUBSET S : s # {} => ch[s] \in s, SumsBy(f, v, ch, SUBSET S)
  PROVE  InAnyOrder(f, v, SUBSET S)
<1> DEFINE T == {n \in Nat : \A s \in SUBSET S : \A x \in s :
                                Cardinality(s) = n => f[s] = v[x] + f[s \ {x}]}
<1>0. \A s \in SUBSET S : IsFiniteSet(s) /\ Cardinality(s) \in Nat
                          /\ (Cardinality(s) = 0 <=> s = {})
  BY FS_Subset, FS_CardinalityType, FS_EmptySet
<1>1. 0 \in T
  BY <1>0
<1>2. ASSUME NEW n \in Nat, n \in T PROVE n + 1 \in T
  <2> SUFFICES ASSUME NEW s \in SUBSET S, NEW x \in s, Cardinality(s) = n + 1
               PROVE  f[s] = v[x] + f[s \ {x}]
    OBVIOUS
  <2>1. PICK c \in s : c = ch[s] /\ f[s] = v[c] + f[s \ {c}]
    BY DEF SumsBy
  <2>2. CASE c = x
    BY <2>1, <2>2
  <2>3. CASE c # x
    <3> DEFINE a == s \ {c}  b == s \ {x}  d == s \ {c, x}
    <3>1. a \in SUBSET S /\ b \in SUBSET S /\ d \in SUBSET S /\ x \in a /\ c \in b
          /\ a \ {x} = d /\ b \ {c} = d
      BY <2>3
    <3>2. Cardinality(a) = n /\ Cardinality(b) = n
      <4>1. IsFiniteSet(s) /\ Cardinality(s) = n + 1 /\ c \in s /\ x \in s /\ n \in Nat
        BY <1>0
      <4>2. Cardinality(a) = Cardinality(s) - 1 /\ Cardinality(b) = Cardinality(s) - 1
        BY ONLY <4>1, FS_RemoveElement DEF a, b
      <4>3. QED
        BY ONLY <4>1, <4>2
    <3> HIDE DEF a, b, d
    <3>3. f[a] = v[x] + f[d] /\ f[b] = v[c] + f[d]
      BY <1>2, <3>1, <3>2
    <3>4. v[x] \in Nat /\ v[c] \in Nat /\ f[d] \in Nat /\ f[s] = v[c] + f[a]
      BY <2>1, <3>1 DEF a
    <3>5. f[s] = v[x] + f[b]
      BY <3>3, <3>4
    <3>6. QED
      BY <3>5 DEF b
  <2>4. QED
    BY <2>2, <2>3
<1>3. Nat \subseteq T
  <2> HIDE DEF T
  <2>1. QED
    BY <1>1, <1>2, SetInduction
<1>4. QED
  BY <1>0, <1>3 DEF InAnyOrder

\* The sum of a sequence, its elements taken in any order.
TotalOf(s) == FoldSeq(LAMBDA v, sum : v + sum, 0, s)

\* ... has the same prefix sums as from left to right.
LEMMA TotalPrefixSums ==
  ASSUME NEW s \in Seq(Nat)
  PROVE  \E p \in [0 .. Len(s) -> Nat] :
           /\ p[0] = 0 /\ p[Len(s)] = TotalOf(s)
           /\ \A k \in 1 .. Len(s) : p[k] = p[k - 1] + s[k]
<1> DEFINE S == DOMAIN s
           Iter(f) == f = [r \in SUBSET S |-> IF r = {} THEN 0
                             ELSE s[CHOOSE x \in r : TRUE] + f[r \ {CHOOSE x \in r : TRUE}]]
           iter == CHOOSE f : Iter(f)
           ch == [r \in SUBSET S |-> CHOOSE x \in r : TRUE]
<1>1. TotalOf(s) = iter[S]
  BY DEF TotalOf, FoldSeq, FoldFunction, FoldFunctionOnSet, MapThenFoldSet
<1>2. Len(s) \in Nat /\ S = 1 .. Len(s)
  OBVIOUS
<1>2a. s \in [S -> Nat] /\ IsFiniteSet(S)
  <2>1. s \in [1 .. Len(s) -> Nat]
    OBVIOUS
  <2>2. IsFiniteSet(1 .. Len(s))
    BY FS_Interval
  <2>3. QED
    BY <1>2, <2>1, <2>2
<1>3. \A r \in SUBSET S : ch[r] = CHOOSE x \in r : TRUE
  OBVIOUS
<1>4. \A r \in SUBSET S : r # {} => ch[r] \in r
  BY <1>3
<1> HIDE DEF ch
<1>5. PICK f \in [SUBSET S -> Nat] : SumsBy(f, s, ch, SUBSET S)
  <2> HIDE DEF S
  <2>1. QED
    BY <1>2a, <1>4, SumExists
<1>6. Iter(f)
  <2> HIDE DEF S
  <2>1. f = [r \in SUBSET S |-> f[r]]
    OBVIOUS
  <2>2. ASSUME NEW r \in SUBSET S
        PROVE  f[r] = IF r = {} THEN 0
                      ELSE s[CHOOSE x \in r : TRUE] + f[r \ {CHOOSE x \in r : TRUE}]
    BY <1>3, <1>5 DEF SumsBy
  <2>3. QED
    BY <2>1, <2>2
<1>7. Iter(iter)
  <2> HIDE DEF Iter
  <2>1. QED
    BY <1>6
<1> HIDE DEF iter
<1>8. SumsBy(iter, s, ch, SUBSET S)
  <2> HIDE DEF S
  <2>1. QED
    BY <1>3, <1>7 DEF SumsBy
<1> HIDE DEF Iter
<1>9. f[S] = TotalOf(s)
  <2> HIDE DEF S
  <2>1. QED
    <3>1. f[S] = iter[S]
      BY <1>2a, <1>4, <1>5, <1>8, SumUnique, SMTT(20)
    <3>2. QED
      BY <1>1, <3>1
<1>10. InAnyOrder(f, s, SUBSET S)
  <2> HIDE DEF S
  <2>1. QED
    BY <1>2a, <1>4, <1>5, SumExchange
<1>11. f[{}] = 0
  BY <1>5 DEF SumsBy
<1> DEFINE p == [k \in 0 .. Len(s) |-> f[1 .. k]]
<1>12. ASSUME NEW k \in 0 .. Len(s) PROVE 1 .. k \in SUBSET S /\ f[1 .. k] \in Nat
  BY <1>2
<1>13. p \in [0 .. Len(s) -> Nat]
  BY <1>12
<1>14. p[0] = 0 /\ p[Len(s)] = TotalOf(s)
  <2>1. 1 .. 0 = {} /\ 0 \in 0 .. Len(s) /\ Len(s) \in 0 .. Len(s)
    BY <1>2
  <2>2. QED
    BY <1>2, <1>9, <1>11, <2>1
<1>15. ASSUME NEW k \in 1 .. Len(s) PROVE p[k] = p[k - 1] + s[k]
  <2>1. k \in 1 .. k /\ (1 .. k) \ {k} = 1 .. k - 1 /\ k - 1 \in 0 .. Len(s) /\ k \in 0 .. Len(s)
    BY <1>2
  <2>2. f[1 .. k] = s[k] + f[1 .. k - 1] /\ s[k] \in Nat
    BY <1>2, <1>2a, <1>10, <1>12, <2>1 DEF InAnyOrder
  <2>3. f[1 .. k - 1] \in Nat
    BY <1>12, <2>1
  <2>4. QED
    BY <2>1, <2>2, <2>3
<1>16. QED
  BY <1>13, <1>14, <1>15

\* ... and is a natural number.
LEMMA TotalInNat ==
  ASSUME NEW s \in Seq(Nat)
  PROVE  TotalOf(s) \in Nat
<1>1. PICK p \in [0 .. Len(s) -> Nat] : p[Len(s)] = TotalOf(s)
  BY TotalPrefixSums
<1>2. Len(s) \in 0 .. Len(s)
  OBVIOUS
<1>3. QED
  BY <1>1, <1>2

\* There are sums of v on the subsets of S, in the order of ch.
Summable(S, v, ch) == \E f \in [SUBSET S -> Nat] : SumsBy(f, v, ch, SUBSET S)

\* SumExists, as one formula.
LEMMA FiniteSummable ==
  ASSUME NEW S, IsFiniteSet(S), NEW v \in [S -> Nat], NEW ch,
         \A s \in SUBSET S : s # {} => ch[s] \in s
  PROVE  Summable(S, v, ch)
<1>1. \E f \in [SUBSET S -> Nat] : SumsBy(f, v, ch, SUBSET S)
  BY SumExists
<1>2. QED
  BY <1>1 DEF Summable

\* One function gives the sums of v on all the subsets of S, in whatever order.
SumsOnSubsets(S, v) ==
  \E f \in [SUBSET S -> Nat] :
    /\ f[{}] = 0 /\ InAnyOrder(f, v, SUBSET S)
    /\ \A T \in SUBSET S : f[T] = SumFunctionOnSet(v, T)

\* ... if S is finite.
LEMMA SumsOnSets ==
  ASSUME NEW D, NEW v, v \in [D -> Nat], NEW S, S \subseteq D, IsFiniteSet(S)
  PROVE  SumsOnSubsets(S, v)
<1> DEFINE w == [x \in S |-> v[x]]
           ch == [r \in SUBSET S |-> CHOOSE x \in r : TRUE]
<1>0. w \in [S -> Nat]
  OBVIOUS
<1>1. \A x \in S : w[x] = v[x]
  OBVIOUS
<1>2. \A r \in SUBSET S : ch[r] = CHOOSE x \in r : TRUE
  OBVIOUS
<1>3. \A r \in SUBSET S : r # {} => ch[r] \in r
  BY <1>2
<1> HIDE DEF ch, w
<1>4. PICK f \in [SUBSET S -> Nat] : SumsBy(f, w, ch, SUBSET S)
  <2>1. Summable(S, w, ch)
    BY <1>0, <1>3, FiniteSummable
  <2>2. QED
    BY <2>1 DEF Summable
<1>5. InAnyOrder(f, v, SUBSET S)
  <2>1. InAnyOrder(f, w, SUBSET S)
    BY <1>0, <1>3, <1>4, SumExchange
  <2>2. QED
    BY <1>1, <2>1 DEF InAnyOrder
<1>6. f[{}] = 0
  BY <1>4 DEF SumsBy
<1>7. ASSUME NEW T \in SUBSET S PROVE f[T] = SumFunctionOnSet(v, T)
  <2> DEFINE Iter(g) == g = [r \in SUBSET T |-> IF r = {} THEN 0
                               ELSE v[CHOOSE x \in r : TRUE] + g[r \ {CHOOSE x \in r : TRUE}]]
             iter == CHOOSE g : Iter(g)
             g0 == [r \in SUBSET T |-> f[r]]
  <2>1. SumFunctionOnSet(v, T) = iter[T]
    BY DEF SumFunctionOnSet, FoldFunctionOnSet, MapThenFoldSet
  <2>2. Iter(g0)
    <3>1. ASSUME NEW r \in SUBSET T
          PROVE  f[r] = IF r = {} THEN 0
                        ELSE v[CHOOSE x \in r : TRUE] + g0[r \ {CHOOSE x \in r : TRUE}]
      <4>1. r \in SUBSET S /\ r \ {CHOOSE x \in r : TRUE} \in SUBSET T
        OBVIOUS
      <4>2. g0[r \ {CHOOSE x \in r : TRUE}] = f[r \ {CHOOSE x \in r : TRUE}]
        BY <4>1
      <4>3. CASE r = {}
        BY <1>6, <4>3
      <4>4. CASE r # {}
        <5>1. f[r] = w[ch[r]] + f[r \ {ch[r]}] /\ ch[r] \in S
          BY <1>3, <1>4, <4>1, <4>4 DEF SumsBy
        <5>2. ch[r] = CHOOSE x \in r : TRUE
          BY <1>2, <4>1
        <5> HIDE DEF g0
        <5>3. QED
          BY <1>1, <4>2, <4>4, <5>1, <5>2
      <4>5. QED
        BY <4>3, <4>4
    <3> HIDE DEF g0
    <3>2. QED
      BY <3>1 DEF g0
  <2>3. Iter(iter)
    <3> HIDE DEF Iter
    <3>1. QED
      BY <2>2
  <2> HIDE DEF iter
  <2>4. SumsBy(iter, w, ch, SUBSET T)
    <3>1. ASSUME NEW r \in SUBSET T
          PROVE  iter[r] = IF r = {} THEN 0 ELSE w[ch[r]] + iter[r \ {ch[r]}]
      <4>1. ch[r] = CHOOSE x \in r : TRUE
        BY <1>2
      <4>2. r # {} => w[ch[r]] = v[ch[r]]
        BY <1>1, <1>3
      <4>3. iter[r] = IF r = {} THEN 0
                      ELSE v[CHOOSE x \in r : TRUE] + iter[r \ {CHOOSE x \in r : TRUE}]
        BY <2>3
      <4>4. QED
        BY <4>1, <4>2, <4>3
    <3>2. QED
      BY <3>1 DEF SumsBy
  <2>5. SumsBy(f, w, ch, SUBSET T)
    BY <1>4 DEF SumsBy
  <2>6. IsFiniteSet(T) /\ \A r \in SUBSET T : r # {} => ch[r] \in r
    BY <1>3, FS_Subset
  <2> HIDE DEF Iter
  <2>7. f[T] = iter[T]
    BY <2>4, <2>5, <2>6, SumUnique
  <2>8. QED
    BY <2>1, <2>7
<1>8. QED
  BY <1>5, <1>6, <1>7 DEF SumsOnSubsets

\* Any term of the sum of v on S can be split off.
Splits(v, S) ==
  /\ SumFunctionOnSet(v, S) \in Nat
  /\ S = {} => SumFunctionOnSet(v, S) = 0
  /\ \A x \in S : SumFunctionOnSet(v, S) = v[x] + SumFunctionOnSet(v, S \ {x})

\* ... when the terms are natural numbers, and then so is the sum.
LEMMA SumSplits ==
  ASSUME NEW D, NEW v, v \in [D -> Nat], NEW S, S \subseteq D, IsFiniteSet(S)
  PROVE  Splits(v, S)
<1>1. PICK f \in [SUBSET S -> Nat] :
           /\ f[{}] = 0 /\ InAnyOrder(f, v, SUBSET S)
           /\ \A T \in SUBSET S : f[T] = SumFunctionOnSet(v, T)
  <2>1. SumsOnSubsets(S, v)
    BY SumsOnSets
  <2>2. QED
    BY <2>1 DEF SumsOnSubsets
<1>2. S \in SUBSET S /\ f[S] = SumFunctionOnSet(v, S)
  BY <1>1
<1>3. ASSUME NEW x \in S
      PROVE  SumFunctionOnSet(v, S) = v[x] + SumFunctionOnSet(v, S \ {x})
  <2>1. S \ {x} \in SUBSET S
    OBVIOUS
  <2>2. f[S] = v[x] + f[S \ {x}]
    BY <1>1, <1>2 DEF InAnyOrder
  <2>3. QED
    BY <1>1, <1>2, <2>1, <2>2
<1>4. QED
  BY <1>1, <1>2, <1>3 DEF Splits

\* The sum of the first n elements of a sequence, taken from left to right.
LEMMA SumOfPrefix ==
  ASSUME NEW s \in Seq(Nat), NEW n \in 0 .. Len(s)
  PROVE  SumOf(SubSeq(s, 1, n)) = SumFunctionOnSet(s, 1 .. n)
<1> DEFINE r == SubSeq(s, 1, n)
<1>1. r \in Seq(Nat) /\ Len(r) = n /\ (\A i \in 1 .. n : r[i] = s[i])
  OBVIOUS
<1> HIDE DEF r
<1>2. Len(s) \in Nat /\ s \in [1 .. Len(s) -> Nat]
  OBVIOUS
<1>3. PICK p \in [0 .. n -> Nat] : /\ p[0] = 0 /\ p[n] = SumOf(r)
                                   /\ \A k \in 1 .. n : p[k] = p[k - 1] + r[k]
  BY <1>1, PrefixSums
<1>4. ASSUME NEW k \in 0 .. n PROVE 1 .. k \subseteq 1 .. Len(s) /\ IsFiniteSet(1 .. k)
  <2>1. k \in Int /\ k <= Len(s)
    BY <1>2
  <2>2. IsFiniteSet(1 .. k)
    BY <2>1, FS_Interval
  <2>3. QED
    BY <1>2, <2>1, <2>2
<1> DEFINE T == {k \in Nat : k <= n => p[k] = SumFunctionOnSet(s, 1 .. k)}
<1>5. 0 \in T
  <2>1. 1 .. 0 = {} /\ 0 \in 0 .. n
    OBVIOUS
  <2>2. SumFunctionOnSet(s, 1 .. 0) = 0
    <3> DEFINE D == 1 .. Len(s)  A == 1 .. 0
    <3>1. s \in [D -> Nat] /\ A \subseteq D /\ IsFiniteSet(A) /\ A = {}
      BY <1>2, <1>4, <2>1
    <3> HIDE DEF D, A, T
    <3>2. Splits(s, A)
      BY ONLY <3>1, SumSplits
    <3>3. QED
      BY <3>1, <3>2 DEF A, Splits
  <2>3. QED
    BY <1>3, <2>2
<1>6. ASSUME NEW k \in Nat, k \in T PROVE k + 1 \in T
  <2> SUFFICES ASSUME k + 1 <= n PROVE p[k + 1] = SumFunctionOnSet(s, 1 .. k + 1)
    OBVIOUS
  <2>1. k + 1 \in 1 .. k + 1 /\ (1 .. k + 1) \ {k + 1} = 1 .. k /\ k + 1 \in 0 .. n
        /\ k + 1 \in 1 .. n /\ (k + 1) - 1 = k
    BY SMTT(20)
  <2>2. SumFunctionOnSet(s, 1 .. k + 1) = s[k + 1] + SumFunctionOnSet(s, (1 .. k + 1) \ {k + 1})
    <3> DEFINE D == 1 .. Len(s)  A == 1 .. k + 1  x == k + 1
    <3>1. s \in [D -> Nat] /\ A \subseteq D /\ IsFiniteSet(A) /\ x \in A
      BY <1>2, <1>4, <2>1
    <3> HIDE DEF D, A, x, T
    <3>2. Splits(s, A)
      BY ONLY <3>1, SumSplits
    <3>3. QED
      BY <3>1, <3>2 DEF A, x, Splits
  <2>3. p[k + 1] = p[k] + s[k + 1] /\ p[k] = SumFunctionOnSet(s, 1 .. k)
    <3>1. k <= n
      BY <1>6, <2>1
    <3>2. p[k] = SumFunctionOnSet(s, 1 .. k)
      BY <1>6, <3>1
    <3>3. r[k + 1] = s[k + 1]
      BY <1>1, <2>1
    <3>4. p[k + 1] = p[(k + 1) - 1] + r[k + 1]
      BY <1>3, <2>1
    <3>5. QED
      BY <2>1, <3>2, <3>3, <3>4
  <2>4. s[k + 1] \in Nat /\ p[k] \in Nat
    BY <1>2, <1>3, <2>1
  <2>5. SumFunctionOnSet(s, 1 .. k + 1) = s[k + 1] + p[k]
    BY <2>1, <2>2, <2>3
  <2>6. QED
    BY <2>3, <2>4, <2>5
<1>7. Nat \subseteq T
  <2> HIDE DEF T
  <2>1. QED
    BY <1>5, <1>6, SetInduction
<1>8. QED
  BY <1>3, <1>7 DEF r

\* o is a permutation of 1..n.
Permutes(o, n) ==
  /\ o \in [1 .. n -> 1 .. n]
  /\ \A i, j \in 1 .. n : i # j => o[i] # o[j]
  /\ \A k \in 1 .. n : \E i \in 1 .. n : o[i] = k

\* The sequences that list 1..n without repetition are its permutations.
LEMMA SeqsArePermutations ==
  ASSUME NEW n \in Nat, NEW o \in SetToSeqs(1 .. n)
  PROVE  Permutes(o, n)
<1> DEFINE S == 1 .. n
<1>1. IsFiniteSet(S) /\ Cardinality(S) = n
  BY FS_Interval
<1>2. o \in [S -> S] /\ \A i, j \in S : i # j => o[i] # o[j]
  BY <1>1 DEF SetToSeqs
<1> HIDE DEF S
<1>3. o \in Injection(S, S)
  BY <1>2 DEF Injection, IsInjective
<1>4. o \in Surjection(S, S)
  BY <1>1, <1>3, FS_Injection
<1>5. \A k \in S : \E i \in S : o[i] = k
  BY <1>4 DEF Surjection
<1>6. QED
  BY <1>2, <1>5 DEF S, Permutes

\* A set that is listed without repetition has as many elements as the list.
LEMMA ListCounts ==
  ASSUME NEW n \in Nat, NEW S, NEW f \in [1 .. n -> S],
         \A i, j \in 1 .. n : i # j => f[i] # f[j],
         \A x \in S : \E i \in 1 .. n : f[i] = x
  PROVE  Cardinality(S) = n
<1>1. f \in Bijection(1 .. n, S)
  BY DEF Bijection, Injection, IsInjective, Surjection
<1>2. ExistsBijection(1 .. n, S)
  BY <1>1 DEF ExistsBijection
<1>3. QED
  BY <1>2, FS_CountingElements

(***************************************************************************)
(* Sums of sequences that are shuffled, padded, put together or sorted out.  *)
(***************************************************************************)
\* A family of sets that contains {}, and a subset of S as soon as it contains that
\* set without one of its elements, contains all subsets of S, if S is finite.
LEMMA SubsetInduction ==
  ASSUME NEW S, IsFiniteSet(S), NEW F, {} \in F,
         \A s \in SUBSET S : (\E x \in s : s \ {x} \in F) => s \in F
  PROVE  SUBSET S \subseteq F
<1> DEFINE T == {n \in Nat : \A s \in SUBSET S : Cardinality(s) = n => s \in F}
<1>1. ASSUME NEW s \in SUBSET S
      PROVE  IsFiniteSet(s) /\ Cardinality(s) \in Nat /\ (Cardinality(s) = 0 <=> s = {})
  <2>1. IsFiniteSet(s)
    BY FS_Subset
  <2>2. QED
    BY <2>1, FS_CardinalityType, FS_EmptySet
<1>2. 0 \in T
  BY <1>1
<1>3. ASSUME NEW n \in Nat, n \in T PROVE n + 1 \in T
  <2> SUFFICES ASSUME NEW s \in SUBSET S, Cardinality(s) = n + 1 PROVE s \in F
    OBVIOUS
  <2>1. PICK x \in s : TRUE
    BY <1>1
  <2>2. s \ {x} \in SUBSET S /\ Cardinality(s \ {x}) = n
    BY <1>1, FS_RemoveElement
  <2>3. s \ {x} \in F
    BY <1>3, <2>2
  <2>4. QED
    BY <2>3
<1>4. Nat \subseteq T
  <2> HIDE DEF T
  <2>1. QED
    BY <1>2, <1>3, SetInduction
<1>5. QED
  BY <1>1, <1>4

\* The set that f maps s to.
ImageOf(f, s) == {f[x] : x \in s}

\* f takes the terms of v on A to those of w on B, one to one.
Renames(f, v, A, w, B) ==
  /\ f \in [A -> B]
  /\ \A a, b \in A : a # b => f[a] # f[b]
  /\ \A b \in B : \E a \in A : f[a] = b
  /\ \A a \in A : v[a] = w[f[a]]

\* The terms of v on A and those of w on B have the same sum.
SameSum(v, A, w, B) == SumFunctionOnSet(v, A) = SumFunctionOnSet(w, B)

\* Terms may be added up under other names.
LEMMA SumRenamed ==
  ASSUME NEW D, NEW v \in [D -> Nat], NEW E, NEW w \in [E -> Nat],
         NEW A, A \subseteq D, IsFiniteSet(A), NEW B, B \subseteq E, NEW f, Renames(f, v, A, w, B)
  PROVE  SameSum(v, A, w, B)
<1> USE DEF Renames, SameSum
<1> DEFINE F == {s \in SUBSET A : SumFunctionOnSet(v, s) = SumFunctionOnSet(w, ImageOf(f, s))}
<1>1. ASSUME NEW s \in SUBSET A
      PROVE  Splits(v, s) /\ Splits(w, ImageOf(f, s))
  <2>1. s \subseteq D /\ IsFiniteSet(s)
    BY FS_Subset
  <2>2. ImageOf(f, s) \subseteq E /\ IsFiniteSet(ImageOf(f, s))
    <3>1. ImageOf(f, s) \subseteq E
      BY DEF ImageOf
    <3> DEFINE g == [x \in s |-> f[x]]  J == ImageOf(f, s)
    <3>2. g \in Surjection(s, J)
      BY DEF Surjection, ImageOf
    <3> HIDE DEF g, J
    <3>3. IsFiniteSet(J)
      BY ONLY <2>1, <3>2, FS_Surjection
    <3>4. QED
      BY <3>1, <3>3 DEF J
  <2>3. QED
    BY <2>1, <2>2, SumSplits
<1>2. {} \in F
  <2>1. ImageOf(f, {}) = {}
    BY DEF ImageOf
  <2>2. QED
    BY <1>1, <2>1 DEF Splits
<1>3. ASSUME NEW s \in SUBSET A, NEW x \in s, s \ {x} \in F PROVE s \in F
  <2>1. f[x] \in ImageOf(f, s) /\ ImageOf(f, s) \ {f[x]} = ImageOf(f, s \ {x})
    BY DEF ImageOf
  <2>2. SumFunctionOnSet(v, s) = v[x] + SumFunctionOnSet(v, s \ {x})
    BY <1>1 DEF Splits
  <2>3. SumFunctionOnSet(w, ImageOf(f, s)) = w[f[x]] + SumFunctionOnSet(w, ImageOf(f, s \ {x}))
    <3> DEFINE J == ImageOf(f, s)
    <3>1. f[x] \in J /\ J \ {f[x]} = ImageOf(f, s \ {x}) /\ Splits(w, J)
      BY <1>1, <2>1
    <3> HIDE DEF J
    <3>2. SumFunctionOnSet(w, J) = w[f[x]] + SumFunctionOnSet(w, J \ {f[x]})
      BY ONLY <3>1 DEF Splits
    <3>3. QED
      BY <3>1, <3>2 DEF J
  <2>4. QED
    BY <1>3, <2>2, <2>3
<1>4. A \in F
  <2> HIDE DEF F
  <2>1. SUBSET A \subseteq F
    BY <1>2, <1>3, SubsetInduction
  <2>2. QED
    BY <2>1
<1>5. ImageOf(f, A) = B
  BY DEF ImageOf
<1>6. QED
  BY <1>4, <1>5

\* The sum of v on A and B is that on A and that on B.
AddsUp(v, A, B) ==
  SumFunctionOnSet(v, A \cup B) = SumFunctionOnSet(v, A) + SumFunctionOnSet(v, B)

\* ... if the two have no element in common.
LEMMA SumOfUnion ==
  ASSUME NEW D, NEW v \in [D -> Nat], NEW A, A \subseteq D, IsFiniteSet(A),
         NEW B, B \subseteq D, IsFiniteSet(B), A \cap B = {}
  PROVE  AddsUp(v, A, B)
<1> USE DEF AddsUp
<1> DEFINE F == {s \in SUBSET B :
                   SumFunctionOnSet(v, A \cup s) = SumFunctionOnSet(v, A) + SumFunctionOnSet(v, s)}
<1>1. ASSUME NEW s \in SUBSET B
      PROVE  Splits(v, s) /\ Splits(v, A \cup s)
  <2>1. s \subseteq D /\ IsFiniteSet(s)
    BY FS_Subset
  <2>2. A \cup s \subseteq D /\ IsFiniteSet(A \cup s)
    BY <2>1, FS_Union
  <2>3. QED
    BY <2>1, <2>2, SumSplits
<1>2. {} \in F
  <2>1. A \cup {} = A
    OBVIOUS
  <2>2. SumFunctionOnSet(v, {}) = 0 /\ SumFunctionOnSet(v, A \cup {}) \in Nat
    BY <1>1 DEF Splits
  <2>3. QED
    BY <2>1, <2>2
<1>3. ASSUME NEW s \in SUBSET B, NEW x \in s, s \ {x} \in F PROVE s \in F
  <2>1. x \in A \cup s /\ (A \cup s) \ {x} = A \cup (s \ {x}) /\ s \ {x} \in SUBSET B /\ x \in D
    OBVIOUS
  <2>2. SumFunctionOnSet(v, s) = v[x] + SumFunctionOnSet(v, s \ {x})
    BY <1>1 DEF Splits
  <2>3. SumFunctionOnSet(v, A \cup s) = v[x] + SumFunctionOnSet(v, A \cup (s \ {x}))
    <3> DEFINE J == A \cup s
    <3>1. x \in J /\ J \ {x} = A \cup (s \ {x}) /\ Splits(v, J)
      BY <1>1, <2>1
    <3> HIDE DEF J
    <3>2. SumFunctionOnSet(v, J) = v[x] + SumFunctionOnSet(v, J \ {x})
      BY ONLY <3>1 DEF Splits
    <3>3. QED
      BY <3>1, <3>2 DEF J
  <2>4. /\ SumFunctionOnSet(v, s \ {x}) \in Nat /\ SumFunctionOnSet(v, A \cup (s \ {x})) \in Nat
        /\ v[x] \in Nat
    BY <1>1, <2>1 DEF Splits
  <2>5. SumFunctionOnSet(v, A) \in Nat
    <3>1. Splits(v, A)
      BY SumSplits
    <3>2. QED
      BY <3>1 DEF Splits
  <2>6. SumFunctionOnSet(v, A \cup (s \ {x})) = SumFunctionOnSet(v, A) + SumFunctionOnSet(v, s \ {x})
    BY <1>3
  <2>7. QED
    BY <2>2, <2>3, <2>4, <2>5, <2>6
<1>4. B \in F
  <2> HIDE DEF F
  <2>1. SUBSET B \subseteq F
    BY <1>2, <1>3, SubsetInduction
  <2>2. QED
    BY <2>1
<1>5. QED
  BY <1>4

\* The sum of terms that are all zero.
LEMMA SumOfZeros ==
  ASSUME NEW D, NEW v \in [D -> Nat], NEW A, A \subseteq D, IsFiniteSet(A), \A x \in A : v[x] = 0
  PROVE  SumFunctionOnSet(v, A) = 0
<1> DEFINE F == {s \in SUBSET A : SumFunctionOnSet(v, s) = 0}
<1>1. ASSUME NEW s \in SUBSET A PROVE Splits(v, s)
  <2>1. s \subseteq D /\ IsFiniteSet(s)
    BY FS_Subset
  <2>2. QED
    BY <2>1, SumSplits
<1>2. {} \in F
  BY <1>1 DEF Splits
<1>3. ASSUME NEW s \in SUBSET A, NEW x \in s, s \ {x} \in F PROVE s \in F
  BY <1>1, <1>3 DEF Splits
<1>4. A \in F
  <2> HIDE DEF F
  <2>1. SUBSET A \subseteq F
    BY <1>2, <1>3, SubsetInduction
  <2>2. QED
    BY <2>1
<1>5. QED
  BY <1>4

\* The total of a sequence is the sum of its elements.
LEMMA TotalIsSum ==
  ASSUME NEW s \in Seq(Nat)
  PROVE  TotalOf(s) = SumFunctionOnSet(s, DOMAIN s)
<1> DEFINE n == Len(s)
<1>1. n \in Nat /\ s \in [1 .. n -> Nat] /\ DOMAIN s = 1 .. n
  OBVIOUS
<1>2. PICK p \in [0 .. n -> Nat] : /\ p[0] = 0 /\ p[n] = TotalOf(s)
                                   /\ \A k \in 1 .. n : p[k] = p[k - 1] + s[k]
  BY TotalPrefixSums
<1> HIDE DEF n
<1>3. ASSUME NEW k \in 0 .. n PROVE Splits(s, 1 .. k)
  <2>1. 1 .. k \subseteq 1 .. n /\ k \in Int
    BY <1>1
  <2>2. IsFiniteSet(1 .. k)
    BY <2>1, FS_Interval
  <2> DEFINE D == 1 .. n  A == 1 .. k
  <2>3. s \in [D -> Nat] /\ A \subseteq D /\ IsFiniteSet(A)
    BY <1>1, <2>1, <2>2
  <2> HIDE DEF D, A
  <2>4. Splits(s, A)
    BY ONLY <2>3, SumSplits
  <2>5. QED
    BY <2>4 DEF A
<1> DEFINE T == {k \in Nat : k <= n => p[k] = SumFunctionOnSet(s, 1 .. k)}
<1>4. 0 \in T
  <2>1. 1 .. 0 = {} /\ 0 \in 0 .. n
    BY <1>1
  <2>2. QED
    BY <1>2, <1>3, <2>1 DEF Splits
<1>5. ASSUME NEW k \in Nat, k \in T PROVE k + 1 \in T
  <2> SUFFICES ASSUME k + 1 <= n PROVE p[k + 1] = SumFunctionOnSet(s, 1 .. k + 1)
    OBVIOUS
  <2>1. k + 1 \in 1 .. k + 1 /\ (1 .. k + 1) \ {k + 1} = 1 .. k /\ k + 1 \in 0 .. n
        /\ k + 1 \in 1 .. n /\ (k + 1) - 1 = k
    BY <1>1
  <2>2. SumFunctionOnSet(s, 1 .. k + 1) = s[k + 1] + SumFunctionOnSet(s, 1 .. k)
    BY <1>3, <2>1 DEF Splits
  <2>3. p[k + 1] = p[k] + s[k + 1] /\ p[k] = SumFunctionOnSet(s, 1 .. k)
    BY <1>1, <1>2, <1>5, <2>1
  <2>4. s[k + 1] \in Nat /\ p[k] \in Nat
    BY <1>1, <1>2, <2>1
  <2>5. QED
    BY <2>2, <2>3, <2>4
<1>6. Nat \subseteq T
  <2> HIDE DEF T
  <2>1. QED
    BY <1>4, <1>5, SetInduction
<1>7. QED
  BY <1>1, <1>2, <1>6

\* s lists the elements of S in their order.
ListsInOrder(s, S) ==
  /\ s \in [1 .. Cardinality(S) -> S]
  /\ \A i, j \in 1 .. Cardinality(S) : i < j => s[i] < s[j]

\* Every set of positions can be listed so.
LEMMA ListExists ==
  ASSUME NEW n \in Nat, NEW S \in SUBSET (1 .. n)
  PROVE  \E s : ListsInOrder(s, S)
<1> DEFINE F == {r \in SUBSET S : \E s : ListsInOrder(s, r)}
           T == {k \in Nat : \A r \in SUBSET S : Cardinality(r) = k => \E s : ListsInOrder(s, r)}
<1>1. IsFiniteSet(S)
  <2>1. IsFiniteSet(1 .. n)
    BY FS_Interval
  <2>2. QED
    BY <2>1, FS_Subset
<1>2. ASSUME NEW r \in SUBSET S
      PROVE  IsFiniteSet(r) /\ Cardinality(r) \in Nat /\ (Cardinality(r) = 0 <=> r = {})
  <2>1. IsFiniteSet(r)
    BY <1>1, FS_Subset
  <2>2. QED
    BY <2>1, FS_CardinalityType, FS_EmptySet
<1>3. 0 \in T
  <2> SUFFICES ASSUME NEW r \in SUBSET S, Cardinality(r) = 0 PROVE \E s : ListsInOrder(s, r)
    OBVIOUS
  <2>1. ListsInOrder([i \in 1 .. 0 |-> 0], r)
    BY DEF ListsInOrder
  <2>2. QED
    BY <2>1
<1>4. ASSUME NEW k \in Nat, k \in T PROVE k + 1 \in T
  <2> SUFFICES ASSUME NEW r \in SUBSET S, Cardinality(r) = k + 1 PROVE \E s : ListsInOrder(s, r)
    OBVIOUS
  <2> DEFINE m == Max(r)  q == r \ {m}
  <2>1. m \in r /\ \A y \in r : m >= y
    <3>1. r \in SUBSET (1 .. n) /\ r # {}
      BY <1>2
    <3>2. QED
      BY <3>1, MaxOfSet
  <2> HIDE DEF m
  <2>2. q \in SUBSET S /\ Cardinality(q) = k /\ r \subseteq Int
    BY <1>2, <2>1, FS_RemoveElement
  <2>3. PICK s : ListsInOrder(s, q)
    BY <1>4, <2>2
  <2>4. s \in [1 .. k -> q] /\ \A i, j \in 1 .. k : i < j => s[i] < s[j]
    BY <2>2, <2>3 DEF ListsInOrder
  <2>5. \A y \in q : y < m /\ y \in Int
    BY <2>1, <2>2
  <2> DEFINE t == [i \in 1 .. k + 1 |-> IF i = k + 1 THEN m ELSE s[i]]
  <2>6. t \in [1 .. k + 1 -> r]
    BY <2>1, <2>4
  <2>7. ASSUME NEW i \in 1 .. k + 1, NEW j \in 1 .. k + 1, i < j PROVE t[i] < t[j]
    <3>1. i \in 1 .. k /\ t[i] = s[i] /\ s[i] \in q
      BY <2>4, <2>7
    <3>2. CASE j = k + 1
      BY <2>5, <3>1, <3>2
    <3>3. CASE j # k + 1
      BY <2>4, <2>7, <3>1, <3>3
    <3>4. QED
      BY <3>2, <3>3
  <2> HIDE DEF t
  <2>8. ListsInOrder(t, r)
    BY <2>6, <2>7 DEF ListsInOrder
  <2>9. QED
    BY <2>8
<1>5. Nat \subseteq T
  <2> HIDE DEF T
  <2>1. QED
    BY <1>3, <1>4, SetInduction
<1>6. QED
  BY <1>2, <1>5

\* ... and a list of a set leaves no element out, and repeats none.
ListsAll(s, S) ==
  /\ Cardinality(S) \in Nat
  /\ \A i, j \in 1 .. Cardinality(S) : i # j => s[i] # s[j]
  /\ \A x \in S : \E i \in 1 .. Cardinality(S) : s[i] = x

\* ... for any set of positions.
LEMMA ListIsComplete ==
  ASSUME NEW n \in Nat, NEW S \in SUBSET (1 .. n), NEW s, ListsInOrder(s, S)
  PROVE  ListsAll(s, S)
<1> DEFINE I == 1 .. Cardinality(S)
<1>1. IsFiniteSet(S) /\ Cardinality(S) \in Nat /\ S \subseteq Int
  <2>1. IsFiniteSet(1 .. n)
    BY FS_Interval
  <2>2. IsFiniteSet(S)
    BY <2>1, FS_Subset
  <2>3. S \subseteq Int
    OBVIOUS
  <2>4. QED
    BY <2>2, <2>3, FS_CardinalityType
<1>2. IsFiniteSet(I) /\ Cardinality(I) = Cardinality(S) /\ I \subseteq Int
  BY <1>1, FS_Interval
<1>3. s \in [I -> S] /\ \A i, j \in I : i # j => s[i] # s[j]
  <2>1. s \in [I -> S] /\ \A i, j \in I : i < j => s[i] < s[j]
    BY DEF ListsInOrder
  <2> HIDE DEF I
  <2>2. ASSUME NEW i \in I, NEW j \in I, i # j PROVE s[i] # s[j]
    <3>1. s[i] \in Int /\ s[j] \in Int /\ i \in Int /\ j \in Int
      BY <1>1, <1>2, <2>1
    <3>2. i < j \/ j < i
      BY <2>2, <3>1
    <3>3. QED
      BY <2>1, <3>1, <3>2
  <2>3. QED
    BY <2>1, <2>2
<1> HIDE DEF I
<1>4. s \in Injection(I, S)
  BY <1>3 DEF Injection, IsInjective
<1>5. s \in Surjection(I, S)
  BY <1>1, <1>2, <1>4, FS_Injection
<1>6. \A x \in S : \E i \in I : s[i] = x
  BY <1>5 DEF Surjection
<1>7. QED
  BY <1>1, <1>3, <1>6 DEF I, ListsAll

\* Two sequences have the same total if one is the other shuffled.
LEMMA TotalOfShuffled ==
  ASSUME NEW n \in Nat, NEW s \in Seq(Nat), Len(s) = n, NEW f \in Bijection(1 .. n, 1 .. n)
  PROVE  TotalOf([i \in 1 .. n |-> s[f[i]]]) = TotalOf(s)
<1> DEFINE t == [i \in 1 .. n |-> s[f[i]]]  D == 1 .. n
<1>1. /\ f \in [D -> D] /\ \A a, b \in D : a # b => f[a] # f[b]
      /\ \A b \in D : \E a \in D : f[a] = b
  BY DEF Bijection, Injection, Surjection, IsInjective
<1>2. s \in [D -> Nat] /\ DOMAIN s = D
  OBVIOUS
<1>3. t \in Seq(Nat) /\ t \in [D -> Nat] /\ DOMAIN t = D /\ \A a \in D : t[a] = s[f[a]]
  <2>1. \A a \in 1 .. n : s[f[a]] \in Nat
    BY <1>1, <1>2
  <2>2. QED
    BY <2>1
<1>4. IsFiniteSet(D) /\ D \subseteq D
  BY FS_Interval
<1> HIDE DEF D, t
<1>5. Renames(f, t, D, s, D)
  BY <1>1, <1>3 DEF Renames
<1>6. SameSum(t, D, s, D)
  BY ONLY <1>2, <1>3, <1>4, <1>5, SumRenamed
<1>7. TotalOf(s) = SumFunctionOnSet(s, D) /\ TotalOf(t) = SumFunctionOnSet(t, D)
  BY <1>2, <1>3, TotalIsSum
<1>8. QED
  BY <1>6, <1>7 DEF t, SameSum

\* The total of one sequence after another.
LEMMA TotalOfConcat ==
  ASSUME NEW s \in Seq(Nat), NEW t \in Seq(Nat)
  PROVE  TotalOf(s \o t) = TotalOf(s) + TotalOf(t)
<1> DEFINE m == Len(s)  n == Len(t)  u == s \o t
           A == 1 .. m  B == m + 1 .. m + n  C == 1 .. n  D == 1 .. m + n
<1>1. m \in Nat /\ n \in Nat /\ u \in Seq(Nat) /\ Len(u) = m + n
  OBVIOUS
<1>2. /\ DOMAIN s = A /\ s \in [A -> Nat] /\ DOMAIN t = C /\ t \in [C -> Nat]
  OBVIOUS
<1>3. DOMAIN u = D /\ u \in [D -> Nat]
  <2> HIDE DEF u
  <2>1. QED
    BY <1>1
<1>4. (\A i \in A : u[i] = s[i]) /\ \A i \in C : u[m + i] = t[i]
  OBVIOUS
<1> HIDE DEF m, n, u
<1>5. D = A \cup B /\ A \cap B = {} /\ A \subseteq D /\ B \subseteq D
  BY <1>1
<1>6. IsFiniteSet(A) /\ IsFiniteSet(B) /\ IsFiniteSet(C)
  <2>1. 1 \in Int /\ m \in Int /\ n \in Int /\ m + 1 \in Int /\ m + n \in Int
    BY <1>1
  <2>2. QED
    BY <2>1, FS_Interval
<1> DEFINE f == [i \in C |-> m + i]  id == [i \in A |-> i]
<1>7. /\ f \in [C -> B] /\ (\A a, b \in C : a # b => f[a] # f[b])
      /\ (\A a \in C : t[a] = u[f[a]])
  BY <1>1, <1>4
<1>8. \A b \in B : \E a \in C : f[a] = b
  <2> SUFFICES ASSUME NEW b \in B PROVE \E a \in C : f[a] = b
    OBVIOUS
  <2>1. b - m \in C /\ f[b - m] = b
    BY <1>1
  <2>2. QED
    BY <2>1
<1>9. /\ id \in [A -> A] /\ (\A a, b \in A : a # b => id[a] # id[b])
      /\ (\A b \in A : \E a \in A : id[a] = b) /\ (\A a \in A : s[a] = u[id[a]])
  BY <1>1, <1>4
<1> HIDE DEF A, B, C, D, f, id
<1>10. Renames(f, t, C, u, B) /\ Renames(id, s, A, u, A) /\ C \subseteq C /\ A \subseteq A
  BY <1>7, <1>8, <1>9 DEF Renames
<1>11. SameSum(t, C, u, B)
  BY ONLY <1>2, <1>3, <1>5, <1>6, <1>10, SumRenamed
<1>12. SameSum(s, A, u, A)
  BY ONLY <1>2, <1>3, <1>5, <1>6, <1>10, SumRenamed
<1>13. AddsUp(u, A, B)
  BY ONLY <1>3, <1>5, <1>6, SumOfUnion
<1>14. TotalOf(s) = SumFunctionOnSet(s, A)
  BY <1>2, TotalIsSum
<1>15. TotalOf(t) = SumFunctionOnSet(t, C)
  BY <1>2, TotalIsSum
<1>16. TotalOf(u) = SumFunctionOnSet(u, D)
  BY <1>1, <1>3, TotalIsSum
<1>17. QED
  BY <1>5, <1>11, <1>12, <1>13, <1>14, <1>15, <1>16 DEF u, SameSum, AddsUp

\* The total of a sequence of zeros.
LEMMA TotalOfZeros ==
  ASSUME NEW s \in Seq(Nat), \A i \in DOMAIN s : s[i] = 0
  PROVE  TotalOf(s) = 0
<1> DEFINE D == DOMAIN s
<1>1. IsFiniteSet(D)
  <2>1. D = 1 .. Len(s) /\ Len(s) \in Int
    OBVIOUS
  <2>2. IsFiniteSet(1 .. Len(s))
    BY <2>1, FS_Interval
  <2>3. QED
    BY <2>1, <2>2
<1>2. s \in [D -> Nat] /\ D \subseteq D
  OBVIOUS
<1> HIDE DEF D
<1>3. \A x \in D : s[x] = 0
  BY DEF D
<1>4. SumFunctionOnSet(s, D) = 0
  BY ONLY <1>1, <1>2, <1>3, SumOfZeros
<1>5. QED
  BY <1>4, TotalIsSum DEF D

\* The total of what is selected by a list of positions.
LEMMA TotalOfListed ==
  ASSUME NEW s \in Seq(Nat), NEW S \in SUBSET DOMAIN s, NEW l, ListsInOrder(l, S)
  PROVE  TotalOf([k \in DOMAIN l |-> s[l[k]]]) = SumFunctionOnSet(s, S)
<1> DEFINE n == Len(s)  C == 1 .. Cardinality(S)  D == 1 .. n  t == [k \in DOMAIN l |-> s[l[k]]]
<1>1. n \in Nat /\ DOMAIN s = D /\ s \in [D -> Nat] /\ S \in SUBSET (1 .. n) /\ S \subseteq D
  OBVIOUS
<1>2. /\ Cardinality(S) \in Nat
      /\ \A i, j \in C : i # j => l[i] # l[j]
      /\ \A x \in S : \E i \in C : l[i] = x
  <2>1. n \in Nat /\ S \in SUBSET (1 .. n) /\ ListsInOrder(l, S)
    BY <1>1
  <2> HIDE DEF n
  <2>2. ListsAll(l, S)
    BY ONLY <2>1, ListIsComplete
  <2>3. QED
    BY <2>2 DEF ListsAll, C
<1>3. l \in [C -> S] /\ DOMAIN l = C
  BY DEF ListsInOrder
<1>4. t \in [C -> Nat] /\ \A a \in C : t[a] = s[l[a]]
  <2> HIDE DEF C, D, n
  <2>1. QED
    BY <1>1, <1>3
<1> HIDE DEF t
<1>5. t \in Seq(Nat) /\ DOMAIN t = C
  <2>1. Cardinality(S) \in Nat /\ t \in [1 .. Cardinality(S) -> Nat]
    BY <1>2, <1>4
  <2>2. QED
    BY ONLY <2>1 DEF C
<1>6. IsFiniteSet(C) /\ C \subseteq C
  BY <1>2, FS_Interval
<1> HIDE DEF n, C, D
<1>7. Renames(l, t, C, s, S)
  BY <1>2, <1>3, <1>4 DEF Renames
<1>8. SameSum(t, C, s, S)
  BY ONLY <1>1, <1>4, <1>6, <1>7, SumRenamed
<1>9. TotalOf(t) = SumFunctionOnSet(t, C)
  BY <1>5, TotalIsSum
<1>10. QED
  BY <1>8, <1>9 DEF t, SameSum

\* The values of a function on a finite set are finitely many.
LEMMA FiniteValues ==
  ASSUME NEW S, IsFiniteSet(S), NEW f
  PROVE  IsFiniteSet({f[x] : x \in S})
<1> DEFINE T == {f[x] : x \in S}  g == [x \in S |-> f[x]]
<1>1. g \in Surjection(S, T)
  BY DEF Surjection
<1> HIDE DEF T, g
<1>2. IsFiniteSet(T)
  BY ONLY <1>1, IsFiniteSet(S), FS_Surjection
<1>3. QED
  BY <1>2 DEF T

\* A list of a finite set without repetition leaves no element out.
LEMMA SeqsListAll ==
  ASSUME NEW S, IsFiniteSet(S), NEW s \in SetToSeqs(S)
  PROVE  /\ s \in Seq(S)
         /\ \A i, j \in DOMAIN s : i # j => s[i] # s[j]
         /\ \A x \in S : \E i \in DOMAIN s : s[i] = x
<1> DEFINE D == 1 .. Cardinality(S)
<1>1. Cardinality(S) \in Nat
  BY FS_CardinalityType
<1>2. IsFiniteSet(D) /\ Cardinality(D) = Cardinality(S)
  BY <1>1, FS_Interval
<1>3. s \in [D -> S] /\ \A i, j \in D : i # j => s[i] # s[j]
  BY DEF SetToSeqs
<1>3a. s \in Seq(S) /\ DOMAIN s = D
  BY <1>1, <1>3
<1> HIDE DEF D
<1>4. s \in Injection(D, S)
  BY <1>3 DEF Injection, IsInjective
<1>5. s \in Surjection(D, S)
  BY <1>2, <1>4, FS_Injection
<1>6. \A x \in S : \E i \in D : s[i] = x
  BY <1>5 DEF Surjection
<1>7. QED
  BY <1>3, <1>3a, <1>6

\* The total of a sequence with an element more.
LEMMA TotalOfAppend ==
  ASSUME NEW s \in Seq(Nat), NEW n \in Nat
  PROVE  TotalOf(Append(s, n)) = TotalOf(s) + n
<1> DEFINE u == <<n>>
<1>1. u \in Seq(Nat) /\ Len(u) = 1 /\ u[1] = n
  OBVIOUS
<1>2. Append(s, n) = s \o u
  OBVIOUS
<1> HIDE DEF u
<1>3. PICK p \in [0 .. Len(u) -> Nat] :
        p[0] = 0 /\ p[Len(u)] = TotalOf(u) /\ \A k \in 1 .. Len(u) : p[k] = p[k - 1] + u[k]
  BY <1>1, TotalPrefixSums
<1>4. TotalOf(u) = n
  <2>1. 1 \in 1 .. Len(u) /\ 1 - 1 = 0 /\ 1 \in 0 .. Len(u) /\ 0 \in 0 .. Len(u)
    BY <1>1
  <2>2. p[1] = p[0] + u[1]
    BY <1>3, <2>1
  <2>3. QED
    BY <1>1, <1>3, <2>2
<1>5. QED
  BY <1>1, <1>2, <1>4, TotalOfConcat

\* FlattenSeq appends the sequences one by one.
FlattensTo(f, seqs) ==
  /\ f[1] = seqs[1] /\ f[Len(seqs)] = FlattenSeq(seqs)
  /\ \A i \in 2 .. Len(seqs) : f[i] = f[i - 1] \o seqs[i]

\* FlattenSeq is computed sequence by sequence, whatever is in them.
LEMMA FlattenSteps ==
  ASSUME NEW seqs, Len(seqs) \in Nat, Len(seqs) > 0
  PROVE  \E f : FlattensTo(f, seqs)
<1> DEFINE Iter(f, n) == f = [i \in 1 .. n |-> IF i = 1 THEN seqs[i] ELSE f[i - 1] \o seqs[i]]
           T == {n \in Nat : \E f : Iter(f, n)}
           flat == CHOOSE f : Iter(f, Len(seqs))
<1>1. 0 \in T
  <2>1. Iter([i \in 1 .. 0 |-> 0], 0)
    OBVIOUS
  <2> HIDE DEF Iter
  <2>2. QED
    BY <2>1
<1>2. ASSUME NEW n \in Nat, n \in T PROVE n + 1 \in T
  <2>1. PICK f : Iter(f, n)
    BY <1>2
  <2>2. f = [i \in 1 .. n |-> IF i = 1 THEN seqs[i] ELSE f[i - 1] \o seqs[i]]
    BY <2>1
  <2> DEFINE last == IF n + 1 = 1 THEN seqs[n + 1] ELSE f[n] \o seqs[n + 1]
             g == [i \in 1 .. n + 1 |-> IF i = n + 1 THEN last ELSE f[i]]
  <2>3. ASSUME NEW i \in 1 .. n + 1
        PROVE  g[i] = IF i = 1 THEN seqs[i] ELSE g[i - 1] \o seqs[i]
    <3>1. CASE i = n + 1
      <4>1. g[i] = last
        BY <3>1
      <4>2. i # 1 => i - 1 \in 1 .. n + 1 /\ i - 1 # n + 1 /\ i - 1 = n
        BY <3>1
      <4>3. i # 1 => g[i - 1] = f[n]
        BY <4>2
      <4>4. QED
        BY <3>1, <4>1, <4>3
    <3>2. CASE i # n + 1
      <4>1. i \in 1 .. n /\ g[i] = f[i]
        BY <3>2
      <4>2. i # 1 => i - 1 \in 1 .. n + 1 /\ i - 1 # n + 1
        BY <4>1
      <4>3. i # 1 => g[i - 1] = f[i - 1]
        BY <4>2
      <4>4. f[i] = IF i = 1 THEN seqs[i] ELSE f[i - 1] \o seqs[i]
        BY <2>2, <4>1
      <4>5. QED
        BY <4>1, <4>3, <4>4
    <3>3. QED
      BY <3>1, <3>2
  <2>4. g = [i \in 1 .. n + 1 |-> g[i]]
    OBVIOUS
  <2> HIDE DEF g
  <2>5. Iter(g, n + 1)
    BY <2>3, <2>4
  <2> HIDE DEF Iter
  <2>6. QED
    BY <2>5
<1>3. Nat \subseteq T
  <2> HIDE DEF T
  <2>1. QED
    BY <1>1, <1>2, SetInduction
<1>4. PICK f : Iter(f, Len(seqs))
  <2> HIDE DEF Iter
  <2>1. QED
    BY <1>3
<1>5. Iter(flat, Len(seqs))
  <2> HIDE DEF Iter
  <2>1. QED
    BY <1>4
<1>6. FlattenSeq(seqs) = flat[Len(seqs)]
  BY DEF FlattenSeq
<1> HIDE DEF flat
<1>7. \A i \in 1 .. Len(seqs) : flat[i] = IF i = 1 THEN seqs[i] ELSE flat[i - 1] \o seqs[i]
  BY <1>5
<1> HIDE DEF Iter, T
<1>8. FlattensTo(flat, seqs)
  <2>1. 1 \in 1 .. Len(seqs)
    OBVIOUS
  <2>2. flat[1] = seqs[1]
    BY <1>7, <2>1
  <2>3. ASSUME NEW i \in 2 .. Len(seqs) PROVE flat[i] = flat[i - 1] \o seqs[i]
    <3>1. i \in 1 .. Len(seqs) /\ i # 1
      OBVIOUS
    <3>2. QED
      BY <1>7, <3>1
  <2>4. QED
    BY <1>6, <2>2, <2>3 DEF FlattensTo
<1>9. QED
  BY <1>8

\* f is given, at each h up to top, by its value further up: it exists.
Descends(f, top, to, hd) ==
  f = [h \in 0 .. top + 1 |-> IF h > top THEN <<>> ELSE <<hd[h]>> \o f[to[h] + 1]]

\* Such an f can be built from the top down.
LEMMA DescentExists ==
  ASSUME NEW top \in Nat, NEW to, \A h \in 0 .. top : to[h] \in h .. top, NEW hd
  PROVE  \E f : Descends(f, top, to, hd)
<1> DEFINE Iter(f, n) == f = [h \in top + 1 - n .. top + 1 |->
                                IF h > top THEN <<>> ELSE <<hd[h]>> \o f[to[h] + 1]]
           T == {n \in Nat : n <= top + 1 => \E f : Iter(f, n)}
<1>1. 0 \in T
  <2> DEFINE g == [h \in top + 1 - 0 .. top + 1 |-> <<>>]
  <2>1. \A h \in top + 1 - 0 .. top + 1 : h > top
    OBVIOUS
  <2>2. Iter(g, 0)
    BY <2>1
  <2> HIDE DEF Iter, g
  <2>3. QED
    BY <2>2
<1>2. ASSUME NEW n \in Nat, n \in T PROVE n + 1 \in T
  <2> HIDE DEF Iter
  <2> SUFFICES ASSUME n + 1 <= top + 1 PROVE \E f : Iter(f, n + 1)
    OBVIOUS
  <2> USE DEF Iter
  <2>1. PICK f : Iter(f, n)
    <3>1. n <= top + 1
      OBVIOUS
    <3> HIDE DEF Iter
    <3>2. QED
      BY <1>2, <3>1
  <2>2. f = [h \in top + 1 - n .. top + 1 |-> IF h > top THEN <<>> ELSE <<hd[h]>> \o f[to[h] + 1]]
    BY <2>1
  <2> DEFINE m == top - n
             g == [h \in top + 1 - (n + 1) .. top + 1 |-> IF h = m THEN <<hd[m]>> \o f[to[m] + 1] ELSE f[h]]
  <2>3. /\ m \in 0 .. top /\ m = top + 1 - (n + 1) /\ top + 1 - n = m + 1
        /\ \A h \in m + 1 .. top + 1 : g[h] = f[h]
        /\ g[m] = <<hd[m]>> \o f[to[m] + 1] /\ to[m] + 1 \in m + 1 .. top + 1
        /\ m \in Nat
    OBVIOUS
  <2>4. ASSUME NEW h \in m .. top + 1
        PROVE  g[h] = IF h > top THEN <<>> ELSE <<hd[h]>> \o g[to[h] + 1]
    <3> HIDE DEF m, g, Iter
    <3>1. CASE h = m
      <4>1. g[to[m] + 1] = f[to[m] + 1] /\ ~(m > top)
        BY <2>3
      <4>2. g[m] = <<hd[m]>> \o g[to[m] + 1]
        BY <2>3, <4>1
      <4>3. QED
        BY <3>1, <4>1, <4>2
    <3>2. CASE h # m
      <4>1. h \in m + 1 .. top + 1
        BY <2>3, <3>2
      <4>2. h <= top => h \in 0 .. top /\ to[h] + 1 \in m + 1 .. top + 1
        BY <2>3, <4>1
      <4>3. f[h] = IF h > top THEN <<>> ELSE <<hd[h]>> \o f[to[h] + 1]
        BY <2>2, <2>3, <4>1
      <4>4. h <= top => g[to[h] + 1] = f[to[h] + 1]
        BY <2>3, <4>2
      <4>5. g[h] = f[h]
        BY <2>3, <4>1
      <4>6. h \in Nat
        BY <2>3, <4>1
      <4>7. CASE h > top
        BY <4>3, <4>5, <4>7
      <4>8. CASE ~(h > top)
        <5>1. h <= top
          BY <4>6, <4>8
        <5>2. QED
          BY <4>3, <4>4, <4>5, <4>8, <5>1
      <4>9. QED
        BY <4>7, <4>8
    <3>3. QED
      BY <3>1, <3>2
  <2>5. g = [h \in m .. top + 1 |-> g[h]]
    BY <2>3
  <2> HIDE DEF g
  <2>6. g = [h \in m .. top + 1 |-> IF h > top THEN <<>> ELSE <<hd[h]>> \o g[to[h] + 1]]
    BY <2>4, <2>5
  <2>7. Iter(g, n + 1)
    BY <2>3, <2>6
  <2> HIDE DEF Iter
  <2>8. QED
    BY <2>7
<1>3. Nat \subseteq T
  <2> HIDE DEF T
  <2>1. QED
    BY <1>1, <1>2, SetInduction
<1>4. PICK f : Iter(f, top + 1)
  <2> HIDE DEF Iter
  <2>1. QED
    BY <1>3
<1>5. top + 1 - (top + 1) = 0
  OBVIOUS
<1>6. Descends(f, top, to, hd)
  BY <1>4, <1>5 DEF Descends
<1>7. QED
  BY <1>6
=============================================================================
