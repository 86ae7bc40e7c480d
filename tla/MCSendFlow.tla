----------------------------- MODULE MCSendFlow -----------------------------
(***************************************************************************)
(* Instances of SendFlow for TLC. The margins are scaled down: 1 block of   *)
(* the node and 2 for signing, expiries of 6 and 9 blocks.                  *)
(***************************************************************************)
EXTENDS SendFlow

MCDelta == [e \in Eras |-> IF e = "fromNu7" THEN 9 ELSE 6]

\* NU7 ahead, together with the one before it, close behind it, or unscheduled.
MCSchedules ==
  {[Nu5 |-> 2, Nu6_3 |-> 9, Nu7 |-> 18], [Nu5 |-> 2, Nu6_3 |-> 9, Nu7 |-> 11],
   [Nu5 |-> 2, Nu6_3 |-> 9, Nu7 |-> 9], [Nu5 |-> 2, Nu6_3 |-> 9, Nu7 |-> 0]}

tin(v) == [value |-> v, path |-> TRUE]
to(pool, v) == [to |-> pool, value |-> v]
ask(flow, spends, tins, outs, fee, ufvk, tkey, from) ==
  [flow |-> flow, spends |-> spends, tins |-> tins, outs |-> outs, fee |-> fee,
   ufvk |-> ufvk, tkey |-> tkey, anchor |-> from]

\* Layouts, with and without change (beside one spend and beside two, where the
\* builder's price differs), at fees around those of ZIP-317; inputs that
\* make the sums wrap; keys missing, malformed or of another account.
Layouts ==
  {<<<<10>>, <<>>, <<to("transparent", 3)>>>>,
   <<<<5, 6>>, <<>>, <<to("shielded", 2)>>>>,
   <<<<4, 5>>, <<>>, <<to("transparent", 3)>>>>,
   <<<<>>, <<tin(10)>>, <<to("transparent", 4)>>>>,
   <<<<>>, <<tin(8), tin(5)>>, <<to("shielded", 5)>>>>}
MCRequests ==
  {ask(flow, l[1], l[2], l[3], fee, "both", "none", 0) :
     flow \in {"v5", "v6"}, l \in Layouts, fee \in {2, 3, 4, 6}}
  \cup {ask("v5", <<>>, <<tin(6)>>, <<to("transparent", v)>>, 2, ufvk, tkey, 0) :
          v \in {2, 4}, ufvk \in Keys, tkey \in {"none", "same", "other"}}
  \cup {ask("v6", <<>>, <<tin(7)>>, <<to("shielded", 4)>>, 3, ufvk, "none", 0) :
          ufvk \in Keys \ {"none"}}
  \cup {ask("v5", <<30, 30>>, <<>>, <<to("transparent", v)>>, 6, "both", "none", 0) :
          v \in {3, 19, 25}}
  \cup {ask("v5", <<10>>, <<>>, <<to("transparent", 3)>>, 6, "both", "none", h) :
          h \in {5, 12}}
  \cup {ask("v5", <<>>, <<[value |-> 6, path |-> FALSE]>>, <<to("transparent", 4)>>, 2,
            "both", "none", 0),
        ask("v5", <<>>, <<>>, <<to("transparent", 4)>>, 2, "both", "none", 0),
        ask("v5", <<10>>, <<>>, <<>>, 4, "both", "none", 0),
        ask("v6", <<>>, <<tin(6)>>, <<to("transparent", 4)>>, 2, "both", "none", 0),
        ask("v5", <<10>>, <<>>, <<to("unsupported", 4)>>, 4, "both", "none", 0)}
=============================================================================
