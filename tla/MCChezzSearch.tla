--------------------------- MODULE MCChezzSearch ---------------------------
(***************************************************************************)
(* A tree of three plies in which different moves lead to the same         *)
(* positions, D and E, and Black can let his king be taken in K; and two   *)
(* moves that share a slot of the table.                                   *)
(***************************************************************************)
EXTENDS ChezzSearch

CONSTANTS R, A, B, C, D, E, F, K, G, H, I, s1, s2

Tree == [p \in Positions |->
    CASE p = R -> <<A, B, C>>
      [] p = A -> <<D, E>>
      [] p = B -> <<E, F>>
      [] p = C -> <<K, D>>
      [] p = D -> <<G, H>>
      [] p = E -> <<H, I>>
      [] p = F -> <<I>>
      [] OTHER -> <<>>]

TreeSide == [p \in Positions |-> IF p \in {R, D, E, F, K} THEN 1 ELSE -1]
TreeOrder == [p \in Positions |-> IF p \in {B, E, H} THEN 1 ELSE 0]
TreeFallen == [p \in Positions |-> IF p = K THEN {-1} ELSE {}]
TreeWorths == {[p \in Positions |-> IF p \in {G, H, I} THEN w[p] ELSE 0] :
                   w \in [{G, H, I} -> {-1, 0, 1}]}

(* The three moves of the root fill a cluster of two, so that one replaces *)
(* another; no search meets them twice, so no reader holds an entry that   *)
(* is replaced.                                                            *)
TreeCluster == [p \in Positions |->
    IF p \in {A, B, C} THEN 1 ELSE IF p \in {D, E} THEN 2 ELSE 3]
TreeRoot == [s \in Searches |-> IF s = s1 THEN R ELSE K]

(* Two games at the same position, whose two moves share a slot: what one  *)
(* search stores for B replaces the entry the other is reading for A.      *)
SameRoot == [s \in Searches |-> R]
Pair == [p \in Positions |->
    CASE p = R -> <<A, B>>
      [] p \in {A, B} -> <<D>>
      [] OTHER -> <<>>]
OneCluster == [p \in Positions |-> 1]

NoWorths == {[p \in Positions |-> 0]}
NoneFallen == [p \in Positions |-> {}]
=============================================================================
