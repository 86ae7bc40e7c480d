------------------------ MODULE MCBlockHeightSearch -------------------------
(***************************************************************************)
(* Instances of BlockHeightSearch for TLC: nine blocks of which the first   *)
(* two precede Low, a bracket of two blocks read as a stream, and times     *)
(* that increase evenly, unevenly, repeat, or go back and forth.            *)
(***************************************************************************)
EXTENDS BlockHeightSearch

MCTimes ==
  {<<1, 2, 3, 4, 5, 6, 7, 8, 9>>,
   <<1, 2, 3, 4, 5, 6, 7, 8, 19>>,
   <<1, 2, 3, 14, 15, 16, 17, 18, 19>>,
   <<1, 2, 4, 5, 6, 12, 14, 15, 19>>,
   <<2, 3, 4, 5, 6, 6, 6, 6, 9>>,
   <<2, 3, 4, 4, 8, 8, 9, 9, 9>>,
   <<2, 4, 3, 7, 5, 6, 9, 8, 10>>,
   <<9, 8, 1, 6, 2, 9, 4, 3, 7>>}
MCTimestamps == 0 .. 20
=============================================================================
