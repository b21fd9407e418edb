----------------------------- MODULE MCPoolGame -----------------------------
(* PoolGame on small instances.                                              *)
EXTENDS PoolGame

CONSTANTS l1, l2

OneLoader  == {l1}
TwoLoaders == {l1, l2}
=============================================================================
