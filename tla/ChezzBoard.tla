----------------------------- MODULE ChezzBoard -----------------------------
(***************************************************************************)
(* The board of the Chezz engine (chezz/engine/include/chezz.h), the       *)
(* tables of moves of the pieces that do not slide (non_sliding_pieces/)   *)
(* and the attacks of those that do (sliding_pieces/).                     *)
(*                                                                         *)
(* A Bitboard is the set of the squares whose bit is set.  A square is its *)
(* index, row * 8 + column, and a piece type its number in the enum: even  *)
(* numbers are White's.                                                    *)
(***************************************************************************)
EXTENDS Integers, FiniteSets

Squares == 0 .. 63
RowOf(s) == s \div 8
ColOf(s) == s % 8
SquareAt(row, col) == row * 8 + col
OnBoard(row, col) == row \in 0 .. 7 /\ col \in 0 .. 7

WP == 0   \* peons
BP == 1
WN == 2   \* knights
BN == 3
WB == 4   \* bishops
BB == 5
WR == 6   \* rooks
BR == 7
WQ == 8   \* queens
BQ == 9
WK == 10  \* kings
BK == 11
WZ == 12  \* zombies
BZ == 13
WF == 14  \* catapults
BF == 15
WC == 16  \* canons
BC == 17

Types == 0 .. 17
WhiteTypes == {0, 2, 4, 6, 8, 10, 12, 14, 16}
BlackTypes == {1, 3, 5, 7, 9, 11, 13, 15, 17}

TypesOf(turn) == IF turn = "w" THEN WhiteTypes ELSE BlackTypes
Opponent(turn) == IF turn = "w" THEN "b" ELSE "w"

(***************************************************************************)
(* One board: whose turn it is, the moves made so far, the squares of each *)
(* type, and the three combined sets the engine keeps beside them.         *)
(***************************************************************************)
Chezzboard == [turn : {"w", "b"}, num_moves : Nat,
               pieces : [Types -> SUBSET Squares],
               white : SUBSET Squares, black : SUBSET Squares,
               all : SUBSET Squares]

Friendly(b) == IF b.turn = "w" THEN b.white ELSE b.black
Enemy(b) == IF b.turn = "w" THEN b.black ELSE b.white

-----------------------------------------------------------------------------
(***************************************************************************)
(* The squares a set of (row, column) offsets reaches from s: the shape of *)
(* every mask of nsp_masks.c.                                              *)
(***************************************************************************)
Reach(s, offsets) ==
    {q \in Squares : <<RowOf(q) - RowOf(s), ColOf(q) - ColOf(s)>> \in offsets}

gen_peon_mask(s, direction) ==
    {q \in Squares : q = s + direction * 8}
        \cup Reach(s, {<<direction, -1>>, <<direction, 1>>})

gen_knight_mask(s) ==
    Reach(s, {<<-2, -1>>, <<-2, 1>>, <<-1, -2>>, <<1, -2>>,
              <<-1, 2>>, <<1, 2>>, <<2, -1>>, <<2, 1>>})

gen_king_mask(s) ==
    Reach(s, {<<0, 1>>, <<1, 1>>, <<1, 0>>, <<1, -1>>,
              <<0, -1>>, <<-1, -1>>, <<-1, 0>>, <<-1, 1>>})

gen_zombie_mask(s) == Reach(s, {<<0, 1>>, <<1, 0>>, <<0, -1>>, <<-1, 0>>})

gen_catapult_mask(s) ==
    Reach(s, {<<0, 1>>, <<1, 1>>, <<1, 0>>, <<1, -1>>,
              <<0, -1>>, <<-1, -1>>, <<-1, 0>>, <<-1, 1>>})

gen_canon_mask(s) == Reach(s, {<<0, 1>>, <<1, 0>>, <<0, -1>>, <<-1, 0>>})

(* Bishops, rooks and queens have an empty row: their attacks depend on    *)
(* what stands in the way.                                                 *)
nsp_table ==
    [t \in Types |-> [s \in Squares |->
        CASE t = WP         -> gen_peon_mask(s, 1)
          [] t = BP         -> gen_peon_mask(s, -1)
          [] t \in {WN, BN} -> gen_knight_mask(s)
          [] t \in {WK, BK} -> gen_king_mask(s)
          [] t \in {WZ, BZ} -> gen_zombie_mask(s)
          [] t \in {WF, BF} -> gen_catapult_mask(s)
          [] t \in {WC, BC} -> gen_canon_mask(s)
          [] OTHER          -> {}]]

-----------------------------------------------------------------------------
(***************************************************************************)
(* A direction is a pair <<dx, dy>> of column and row steps.  Ray[s][d] is *)
(* every square a slider passes from s to the edge, and Between[s][q] the  *)
(* squares strictly between two squares of one line.                       *)
(***************************************************************************)
Diagonals == {<<1, 1>>, <<-1, 1>>, <<1, -1>>, <<-1, -1>>}
Straights == {<<0, 1>>, <<0, -1>>, <<1, 0>>, <<-1, 0>>}
Directions == Diagonals \cup Straights
Reverse8(d) == <<-d[1], -d[2]>>

Ray ==
    [s \in Squares |-> [d \in Directions |->
        {q \in Squares : \E k \in 1 .. 7 : /\ ColOf(q) = ColOf(s) + k * d[1]
                                           /\ RowOf(q) = RowOf(s) + k * d[2]}]]

Between ==
    [s \in Squares |-> [q \in Squares |->
        UNION {Ray[s][d] \cap Ray[q][Reverse8(d)] :
                   d \in {e \in Directions : q \in Ray[s][e]}}]]

(* The walk of gen_bishop_attacks and gen_rook_attacks: along each         *)
(* direction up to the edge or the first blocker, which it includes.       *)
Walk(s, dirs, blockers) ==
    {q \in UNION {Ray[s][d] : d \in dirs} : Between[s][q] \cap blockers = {}}

gen_bishop_attacks(s, blockers) == Walk(s, Diagonals, blockers)
gen_rook_attacks(s, blockers) == Walk(s, Straights, blockers)

(* The squares whose occupation matters: the ray without its last square.  *)
gen_bishop_mask(s) ==
    {q \in UNION {Ray[s][d] : d \in Diagonals} :
         RowOf(q) \in 1 .. 6 /\ ColOf(q) \in 1 .. 6}

gen_rook_mask(s) ==
    {q \in UNION {Ray[s][d] : d \in Straights} :
         /\ ColOf(q) = ColOf(s) => RowOf(q) \in 1 .. 6
         /\ RowOf(q) = RowOf(s) => ColOf(q) \in 1 .. 6}

gen_queen_mask(s) == UNION {Ray[s][d] : d \in Directions}

bishop_magics == [s \in Squares |-> gen_bishop_mask(s)]
rook_magics == [s \in Squares |-> gen_rook_mask(s)]

(***************************************************************************)
(* The attacks as the engine looks them up: only the blockers within the   *)
(* mask select the entry, and the entry is the walk that                   *)
(* compute_magic_attack_tables did for them.                               *)
(***************************************************************************)
bishop_attacks(s, blockers) == gen_bishop_attacks(s, blockers \cap bishop_magics[s])
rook_attacks(s, blockers) == gen_rook_attacks(s, blockers \cap rook_magics[s])
queen_attacks(s, blockers) == bishop_attacks(s, blockers) \cup rook_attacks(s, blockers)
=============================================================================
