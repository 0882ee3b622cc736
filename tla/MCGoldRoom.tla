----------------------------- MODULE MCGoldRoom -----------------------------
(* Players and tables for the TLC runs of GoldRoom. *)
EXTENDS GoldRoom, TLC

CONSTANTS u1, u2, t1, t2

Symmetry == Permutations(User) \cup Permutations(Table)
=============================================================================
