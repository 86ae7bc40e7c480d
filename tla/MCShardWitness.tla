--------------------------- MODULE MCShardWitness ---------------------------
(***************************************************************************)
(* Instances of ShardWitness for TLC: six blocks and shards of four leaves. *)
(* The chains have empty blocks first, shards that end inside a block, at   *)
(* the end of one, and two shards completed by the same block.              *)
(***************************************************************************)
EXTENDS ShardWitness

note(p) == [position |-> p, cmx |-> p]

MCSizes ==
  LET After == {0, 1} \X {0, 3, 5} \X {0, 5, 9} \X {2, 7, 8} \X {8, 11} \X {11}
      Grows(t) == \A h \in 2 .. MaxHeight : t[h - 1] <= t[h]
  IN {[h \in 0 .. MaxHeight |-> IF h = 0 THEN 0 ELSE t[h]] : t \in {u \in After : Grows(u)}}

MCNoteLists ==
  {<<note(0)>>, <<note(5), note(3)>>, <<note(8), note(1)>>,
   <<note(4), [position |-> 6, cmx |-> 7]>>}

\* Anchors at every height, one below the tip, and further below than there are
\* blocks; anchors without notes; a request without notes.
MCRequests ==
  [entry : {"witnesses"}, anchorHeight : 1 .. MaxHeight, depth : {1}, notes : MCNoteLists]
    \cup [entry : {"witnesses"}, anchorHeight : {Unset}, depth : {1, MaxHeight + 1}, notes : MCNoteLists]
    \cup [entry : {"anchor"}, anchorHeight : {Unset, 2}, depth : {1}, notes : {<<>>}]
    \cup [entry : {"witnesses"}, anchorHeight : {Unset}, depth : {1}, notes : {<<>>}]
=============================================================================
