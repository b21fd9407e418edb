-------------------------- MODULE MCRealtimeStream --------------------------
(* RealtimeStream on small instances.  Clients share nothing but the         *)
(* session, which they only read, so one client shows what any of them sees. *)
EXTENDS RealtimeStream

CONSTANT c1

OneClient == {c1}
=============================================================================
