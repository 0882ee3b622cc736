--------------------------- MODULE MCMahjongHand ----------------------------
(***************************************************************************)
(* Small hands of MahjongHand: what is left of a hand behind three or two  *)
(* melds, and whole hands that wait for seven pairs, for tiles that all    *)
(* lie apart, and for a tile of a run of triplets.                         *)
(***************************************************************************)
EXTENDS MahjongHand

SmallTiles == {11, 12, 13, 14}

SmallDeals ==
  {<<11, 11, 12, 13>>, <<11, 12, 12, 13>>, <<12, 13, 14, 41>>, <<11, 11, 11, 14>>,
   <<11, 12, 13, 14, 14, 19, 21>>, <<11, 11, 11, 12, 12, 13, 13>>,
   <<11, 11, 12, 12, 12, 12, 13, 13, 14, 19, 19, 41, 41>>,
   <<11, 11, 12, 12, 12, 13, 13, 13, 14, 14, 14, 41, 41>>,
   <<14, 17, 22, 25, 28, 33, 36, 39, 41, 43, 45, 47, 51>>}

\* The long hands are for the special hands and draw once.
TilesStep == TilesNext /\ (Len(hand) > 7 => turns' <= 1)
=============================================================================
