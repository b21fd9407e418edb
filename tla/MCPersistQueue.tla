--------------------------- MODULE MCPersistQueue ---------------------------
(* PersistQueue on a small instance: two request threads, two moves, a queue *)
(* of two and workers for two starts of a one-worker pool.                   *)
EXTENDS PersistQueue

CONSTANTS j1, j2, t1, t2, c1, c2

MCJobs    == {j1, j2}
MCThreads == {t1, t2}
MCCallers == {c1, c2}
=============================================================================
