--------------------------- MODULE MCMatchmaking ---------------------------
(* Matchmaking on small instances.                                           *)
EXTENDS Matchmaking

CONSTANTS u1, u2, u3

TwoUsers   == {u1, u2}
ThreeUsers == {u1, u2, u3}

Symmetry == Permutations(Users)
=============================================================================
