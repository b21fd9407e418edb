--------------------------- MODULE MCPoolPhysics ---------------------------
(***************************************************************************)
(* Three balls in a row, a column or a row that ends in holes, which fill  *)
(* the table's slots.                                                      *)
(***************************************************************************)
EXTENDS PoolPhysics

TestRacks ==
    {<<Coord(600 + d, 1500), Coord(1500, 1500), Coord(2100, 1600)>> : d \in 0 .. 2}
        \cup {<<Coord(1350, 1000), Coord(1400 + 100 * d, 1700), Coord(1400, 2300)>> : d \in 0 .. 2}

TestStrokes == {Coord(220, 0), Coord(-200, 30), Coord(0, 240), Coord(120, -150), Coord(150, 150), Coord(-240, -10)}

(* A ball straight ahead, and strokes that just about reach it.            *)
StraightRack == {<<Coord(1350, 2000), Coord(1350, 2700)>>}
SoftStrokes == {Coord(0, v) : v \in 70 .. 80}
=============================================================================
