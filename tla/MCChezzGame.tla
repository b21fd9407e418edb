---------------------------- MODULE MCChezzGame ----------------------------
(* ChezzGame on a small instance.                                            *)
EXTENDS ChezzGame
=============================================================================
