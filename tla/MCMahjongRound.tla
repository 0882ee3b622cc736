--------------------------- MODULE MCMahjongRound ---------------------------
(* MahjongRound with the tick's fairness for the TLC runs. *)
EXTENDS MahjongRound
=============================================================================
