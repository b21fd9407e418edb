------------------------------ MODULE MCChezz ------------------------------
(***************************************************************************)
(* Small Chezz games for TLC: positions of the full board with few pieces, *)
(* played out for MaxMoves turns.                                          *)
(***************************************************************************)
EXTENDS ChezzActions, ChezzEval, ChezzWire

Put(turn, placing) ==
    LET on(t) == {p[1] : p \in {x \in placing : x[2] = t}}
        pieces == [t \in Types |-> on(t)]
        white == UNION {pieces[t] : t \in WhiteTypes}
        black == UNION {pieces[t] : t \in BlackTypes}
    IN [turn |-> turn, num_moves |-> 0, pieces |-> pieces,
        white |-> white, black |-> black, all |-> white \cup black]

(* A peon about to rise beside a rook, zombies that can infect on an edge, *)
(* and enemies on both sides of the edge of the board.                     *)
Promotion == {<<4, WK>>, <<48, WP>>, <<23, WZ>>, <<24, BN>>,
              <<57, BR>>, <<60, BK>>, <<40, BP>>, <<30, BP>>}

(* A catapult in a corner of its king with a peon, an enemy in the line of *)
(* the fling, and a black peon that may be flung onto its last row.        *)
Catapults == {<<0, WK>>, <<9, WF>>, <<8, WP>>, <<12, BB>>, <<54, BF>>,
              <<62, BP>>, <<63, BK>>, <<36, BZ>>}

(* Canons that hit friends, kings and zombies on their diagonals.          *)
Canons == {<<3, WK>>, <<27, WC>>, <<36, BP>>, <<18, WN>>, <<59, BK>>,
           <<45, BZ>>, <<41, BC>>}

Sliders == {<<4, WK>>, <<27, WQ>>, <<35, BR>>, <<29, BB>>, <<60, BK>>,
            <<51, BP>>, <<13, WP>>}

(* Two knights a side, a queen and a bishop: everything that coordinates.  *)
Knights == {<<4, WK>>, <<18, WN>>, <<28, WN>>, <<60, BK>>, <<45, BN>>,
            <<34, BN>>, <<58, BB>>, <<59, BQ>>}

(* The kings, peons and a zombie: the end of a game.                       *)
Endgame == {<<4, WK>>, <<60, BK>>, <<20, WZ>>, <<12, WP>>, <<50, BP>>}

Boards == {Put("w", Promotion), Put("b", Promotion), Put("w", Catapults),
           Put("b", Catapults), Put("w", Canons), Put("b", Canons),
           Put("w", Sliders), Put("w", Knights),
           Put("w", Endgame)}
=============================================================================
