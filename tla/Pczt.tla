-------------------------------- MODULE Pczt --------------------------------
(***************************************************************************)
(* A partially created Zcash transaction, and what the roles of the pczt    *)
(* crate do with one.  Keys are named by the path they are derived at, the  *)
(* randomness of an action by a number of its own, and a signature is the   *)
(* key that made it with the effects of the transaction it was made over,   *)
(* so that a signature of other effects is not one of these.                *)
(***************************************************************************)
EXTENDS Integers, Sequences, FiniteSets, SequencesExt

Pools == {"orchard", "ironwood"}

\* Keys: of the wallet, of those it pays, and of the dummies the builder makes up.
WalletKey(path) == [owner |-> "wallet", at |-> path]
PayeeKey(n) == [owner |-> "payee", at |-> <<n>>]
DummyKey(n) == [owner |-> "dummy", at |-> <<n>>]

NoPath == <<>>

\* The fields of an action that a PCZT may lack.
SpendFields == {"recipient", "value", "rho", "rseed", "alpha", "fvk", "zip32"}
OutputFields == {"out_recipient", "out_value", "out_rseed", "cmx"}
ActionFields == SpendFields \cup OutputFields \cup {"rcv", "cv_net"}

\* An action pairs a spend [key, value] with an output [to, value]. No signature
\* and no derivation path yet; everything else is there.
NewAction(spend, out, rk) ==
  [key |-> spend.key, value |-> spend.value, rk |-> rk,
   to |-> out.to, outValue |-> out.value,
   zip32 |-> NoPath, sig |-> <<>>, has |-> ActionFields \ {"zip32"}]

IsDummy(a) == a.key.owner = "dummy"

Total(values) == FoldSeq(LAMBDA v, sum : v + sum, 0, values)

\* The elements of a finite set of numbers, in their order.
Ascending(S) ==
  CHOOSE s \in [1 .. Cardinality(S) -> S] : \A i, j \in DOMAIN s : i < j => s[i] < s[j]

\* What a signature commits to: all that the transaction does, and nothing of
\* what only helps to sign it.
Effects(p) ==
  [tx_version |-> p.tx_version, expiry |-> p.expiry,
   tins |-> [i \in DOMAIN p.tins |-> <<p.tins[i].key, p.tins[i].value>>],
   touts |-> [i \in DOMAIN p.touts |-> <<p.touts[i].to, p.touts[i].value>>],
   actions |-> [q \in Pools |->
                  [i \in DOMAIN p[q] |->
                     LET a == p[q][i] IN <<a.key, a.value, a.rk, a.to, a.outValue>>]]]

Signature(key, rk, p) == [by |-> key, rk |-> rk, over |-> Effects(p)]

MapActions(p, pool, Op(_)) == [p EXCEPT ![pool] = [i \in DOMAIN @ |-> Op(@[i])]]

-----------------------------------------------------------------------------
(* The builder: build_for_pczt *)

MaxOf(a, b) == IF a > b THEN a ELSE b
Padded(s, n, Pad(_)) == s \o [i \in 1 .. n - Len(s) |-> Pad(i)]
DummySpend(i) == [key |-> DummyKey(i), value |-> 0]
DummyOutput(i) == [to |-> DummyKey(i), value |-> 0]

\* The bundles it may make of spends and outputs: padded to two actions, spends
\* and outputs shuffled apart from each other.
MixedBundles(spends, outs, salt) ==
  LET n == MaxOf(2, MaxOf(Len(spends), Len(outs)))
      ss == Padded(spends, n, DummySpend)
      os == Padded(outs, n, DummyOutput)
  IN {[i \in 1 .. n |-> NewAction(ss[f[i]], os[g[i]], <<salt, i>>)] :
        f \in Bijection(1 .. n, 1 .. n), g \in Bijection(1 .. n, 1 .. n)}

\* From NU6.3 the Orchard bundle moves nothing to another address: a spend goes
\* with an output of no value, and change with a spend of no value that the
\* builder fabricates at the change address.
PairedBundles(spends, changes, owner, salt) ==
  LET pairs == [i \in DOMAIN spends |-> <<spends[i], DummyOutput(i)>>] \o
               [i \in DOMAIN changes |-> <<[key |-> owner, value |-> 0], changes[i]>>]
      n == MaxOf(2, Len(pairs))
      all == Padded(pairs, n, LAMBDA i : <<DummySpend(i), DummyOutput(i)>>)
  IN {[i \in 1 .. n |-> NewAction(all[f[i]][1], all[f[i]][2], <<salt, i>>)] :
        f \in Bijection(1 .. n, 1 .. n)}

-----------------------------------------------------------------------------
(* The other roles *)

\* IoFinalizer: the actions of dummies are signed with their dummy_sk.
IoFinalize(p) ==
  LET sign(a) == IF IsDummy(a) THEN [a EXCEPT !.sig = <<Signature(a.key, a.rk, p)>>] ELSE a
  IN MapActions(MapActions(p, "orchard", sign), "ironwood", sign)

\* Prover: the proof of a pool, needed as soon as the pool has actions.
RequiresProof(p, pool) == p[pool] # <<>>
CreateProof(p, pool) ==
  IF RequiresProof(p, pool) THEN [p EXCEPT !.proofs = @ \cup {pool}] ELSE p

\* Signer: a signature is taken if it is the one of that very action; to check
\* the nullifier too it needs the full viewing key.
ActionAccepts(p, pool, i, sig) ==
  LET a == p[pool][i] IN "fvk" \in a.has /\ sig = Signature(a.key, a.rk, p)
InputAccepts(p, i, sig) ==
  /\ p.tins[i].key \in p.tins[i].preimages
  /\ sig = Signature(p.tins[i].key, <<i>>, p)

\* TransactionExtractor: proofs and every signature are verified, on a
\* transaction whose redacted fields can be recomputed.
Extractable(p) ==
  /\ \A pool \in Pools : RequiresProof(p, pool) =>
       /\ pool \in p.proofs
       /\ \A i \in DOMAIN p[pool] :
            /\ p[pool][i].sig = <<Signature(p[pool][i].key, p[pool][i].rk, p)>>
            /\ "cv_net" \in p[pool][i].has \/ {"rcv", "value", "out_value"} \subseteq p[pool][i].has
  /\ \A i \in DOMAIN p.tins : p.tins[i].scriptSig
=============================================================================
