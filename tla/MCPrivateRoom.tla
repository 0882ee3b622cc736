--------------------------- MODULE MCPrivateRoom ---------------------------
(* Players, tables and codes for the TLC runs of PrivateRoom. *)
EXTENDS PrivateRoom, TLC

CONSTANTS u1, u2, t1, t2, k1, k2

Symmetry == Permutations(User) \cup Permutations(Table) \cup Permutations(Code)
=============================================================================
