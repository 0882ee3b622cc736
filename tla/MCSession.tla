----------------------------- MODULE MCSession -----------------------------
(* Connections, gates and players for the TLC runs of Session. *)
EXTENDS Session, TLC

CONSTANTS c1, c2, c3, g1, g2, u1, u2

OneGate(c) == g1
OneUser(c) == u1
OwnFd(c) == c

(* c1 and c2 are the same player on two gates; c3 is another player who has*)
(* on the second gate the socket number that c1 has on the first.          *)
TwoGates(c) == IF c = c1 THEN g1 ELSE g2
TwoUsers(c) == IF c = c3 THEN u2 ELSE u1
SharedFd(c) == IF c = c2 THEN 2 ELSE 1

OwnAddr(g) == g
SameAddr(g) == 1

Symmetry == Permutations(Conn)
=============================================================================
