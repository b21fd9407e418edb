----------------------------- MODULE ChezzMoves -----------------------------
(***************************************************************************)
(* The move generator of the Chezz engine (gen_valid_boards.c), and the    *)
(* games it generates: from a starting board, every turn plays one of the  *)
(* boards the generator lists, while both kings stand.                     *)
(*                                                                         *)
(* The C functions fill a list of boards; here each returns the set of the *)
(* boards it adds.  The order of the list and the move-ordering score a    *)
(* board carries are left out (ChezzEval has the scores).                  *)
(***************************************************************************)
EXTENDS ChezzBoard

CONSTANTS StartBoards,  \* the boards a game may start from
          MaxMoves      \* bound on the moves of a game

(* No two pieces on one square, and the combined sets in step.             *)
Placed(b, types) == {s \in Squares : \E t \in types : s \in b.pieces[t]}

Consistent(b) ==
    /\ \A t, u \in Types : t # u => b.pieces[t] \cap b.pieces[u] = {}
    /\ b.white = Placed(b, WhiteTypes)
    /\ b.black = Placed(b, BlackTypes)
    /\ b.all = b.white \cup b.black

NoPeonOnLastRow(b) ==
    /\ \A s \in b.pieces[WP] : RowOf(s) # 7
    /\ \A s \in b.pieces[BP] : RowOf(s) # 0

ASSUME StartAssumption ==
    /\ StartBoards \subseteq Chezzboard
    /\ \A b \in StartBoards : Consistent(b) /\ NoPeonOnLastRow(b)
ASSUME BoundAssumption == MaxMoves \in Nat

VARIABLE board

-----------------------------------------------------------------------------
Xor(S, T) == (S \ T) \cup (T \ S)

(* The piece sets with type t moved, and the mover's combined sets flipped *)
(* at both ends.                                                           *)
move_piece(b, t, from, to) ==
    [b EXCEPT !.pieces[t] = (@ \ {from}) \cup {to},
              !.white = IF b.turn = "w" THEN Xor(@, {from, to}) ELSE @,
              !.black = IF b.turn = "w" THEN @ ELSE Xor(@, {from, to}),
              !.all = Xor(@, {from, to})]

(* Only the first type found on the square is cleared.                     *)
capture_piece(b, target) ==
    [b EXCEPT !.pieces = [t \in Types |->
                  IF /\ target \in b.pieces[t]
                     /\ \A u \in Types : u < t => target \notin b.pieces[u]
                  THEN b.pieces[t] \ {target} ELSE b.pieces[t]],
              !.white = @ \ {target},
              !.black = @ \ {target},
              !.all = @ \ {target}]

(* The mover's peons on their last row become zombies.                     *)
promote_peons(b) ==
    LET white_promotions == {s \in b.pieces[WP] : RowOf(s) = 7}
        black_promotions == {s \in b.pieces[BP] : RowOf(s) = 0}
    IN IF b.turn = "w"
       THEN [b EXCEPT !.pieces[WP] = @ \ white_promotions,
                      !.pieces[WZ] = @ \cup white_promotions]
       ELSE [b EXCEPT !.pieces[BP] = @ \ black_promotions,
                      !.pieces[BZ] = @ \cup black_promotions]

(* The squares whose piece the mover's zombies infect: enemies next to one *)
(* along a row or a column, kings and zombies excepted.                    *)
contagion_mask(b) ==
    LET zombies == b.pieces[IF b.turn = "w" THEN WZ ELSE BZ]
        immune == b.pieces[IF b.turn = "w" THEN BK ELSE WK]
                      \cup b.pieces[IF b.turn = "w" THEN BZ ELSE WZ]
        spread == {q \in Squares : \E z \in zombies :
                       \/ q = z + 8 \/ q = z - 8
                       \/ ColOf(z) # 0 /\ q = z - 1
                       \/ ColOf(z) # 7 /\ q = z + 1}
    IN (spread \cap Enemy(b)) \ immune

infect(b, mask) ==
    LET mine == IF b.turn = "w" THEN WZ ELSE BZ
        white == IF b.turn = "w" THEN b.white \cup mask ELSE b.white \ mask
        black == IF b.turn = "w" THEN b.black \ mask ELSE b.black \cup mask
    IN [b EXCEPT !.pieces = [t \in Types |->
                     IF t = mine THEN b.pieces[t] \cup mask
                     ELSE IF /\ t \in TypesOf(Opponent(b.turn))
                             /\ t \notin {WK, BK, WZ, BZ}
                          THEN b.pieces[t] \ mask ELSE b.pieces[t]],
                 !.white = white, !.black = black, !.all = white \cup black]

handle_contagion(b) ==
    IF contagion_mask(b) = {} THEN b ELSE infect(b, contagion_mask(b))

(* What the list keeps of a board: one more move made, the other's turn.   *)
add_board(b) == [b EXCEPT !.num_moves = @ + 1, !.turn = Opponent(@)]

-----------------------------------------------------------------------------
(* Mutant of Settle: peons rise before the zombies spread.                 *)
SettleRisesFirst(b, promotes) ==
    add_board(handle_contagion(IF promotes THEN promote_peons(b) ELSE b))

(* After the pieces have moved: contagion, then promotion when the         *)
(* function at hand checks for it.                                         *)
Settle(b, promotes) ==
    add_board(IF promotes THEN promote_peons(handle_contagion(b))
              ELSE handle_contagion(b))

(* Peons step forward to a free square and capture diagonally.            *)
PeonSteps(b, s, t) ==
    {q \in nsp_table[t][s] \ Friendly(b) : ColOf(q) = ColOf(s) /\ q \notin Enemy(b)}

PeonCaptures(b, s, t) ==
    {q \in nsp_table[t][s] \ Friendly(b) :
         ColOf(q) - ColOf(s) \in {-1, 1} /\ q \in Enemy(b)}

set_peon_moves(b, s, t) ==
    LET lastRow(q) == RowOf(q) \in {0, 7}
    IN {Settle(move_piece(b, t, s, q), lastRow(q)) : q \in PeonSteps(b, s, t)}
         \cup {Settle(move_piece(capture_piece(b, q), t, s, q), lastRow(q)) :
                   q \in PeonCaptures(b, s, t)}

(* Mutant of set_piece_moves: the piece moves, and then captures.          *)
set_piece_moves_late(b, s, t, pseudo) ==
    LET moved(q) == move_piece(b, t, s, q)
    IN {Settle(IF q \in Enemy(b) THEN capture_piece(moved(q), q) ELSE moved(q), FALSE) :
            q \in pseudo}

set_piece_moves(b, s, t, pseudo) ==
    {Settle(move_piece(IF q \in Enemy(b) THEN capture_piece(b, q) ELSE b,
                       t, s, q), FALSE) : q \in pseudo}

(* The moves of each type that set_piece_moves is called with.             *)
PseudoMoves(b, s, t) ==
    (CASE t \in {WB, BB} -> bishop_attacks(s, b.all)
       [] t \in {WR, BR} -> rook_attacks(s, b.all)
       [] t \in {WQ, BQ} -> bishop_attacks(s, b.all) \cup rook_attacks(s, b.all)
       [] t \in {WF, BF, WC, BC} -> nsp_table[t][s] \ Enemy(b)
       [] OTHER -> nsp_table[t][s]) \ Friendly(b)

(* The squares behind the catapult on s, seen from the piece on f: an      *)
(* attack in which every neighbour of the catapult but the first of them   *)
(* is a blocker, and nothing else is.  A first square off the board leaves *)
(* all neighbours blocked.                                                 *)
FlingPath(s, f) ==
    LET dx == ColOf(s) - ColOf(f)
        dy == RowOf(s) - RowOf(f)
        first == SquareAt(RowOf(s) + dy, ColOf(s) + dx)
        sim_blockers == nsp_table[WF][s] \ {first}
    IN (IF dx # 0 /\ dy # 0 THEN bishop_attacks(s, sim_blockers)
        ELSE rook_attacks(s, sim_blockers)) \ sim_blockers

(* Own pieces next to the catapult, and what each is: the first of the     *)
(* mover's types found there.                                              *)
Payloads(b, s, t) == (nsp_table[t][s] \ Enemy(b)) \cap Friendly(b)

IsFirstType(b, f, u) ==
    /\ u \in TypesOf(b.turn) /\ f \in b.pieces[u]
    /\ \A v \in TypesOf(b.turn) : v < u => f \notin b.pieces[v]

(* Mutant of FlingTargets: the enemy king is not spared.                   *)
FlingTargetsAll(b, s, f) == FlingPath(s, f) \ Friendly(b)

FlingTargets(b, s, f) ==
    (FlingPath(s, f) \ Friendly(b)) \ b.pieces[IF b.turn = "w" THEN BK ELSE WK]

Fling(b, f, u, q) ==
    Settle(IF q \in Enemy(b) THEN capture_piece(capture_piece(b, q), f)
           ELSE move_piece(b, u, f, q), u \in {WP, BP})

set_catapult_flings(b, s, t) ==
    UNION {{Fling(b, f, u, q) : u \in {v \in Types : IsFirstType(b, f, v)},
                                q \in FlingTargets(b, s, f)} :
               f \in Payloads(b, s, t)}

(* The whole diagonal of the canon on s, whatever stands on it.            *)
ShotPath(s, d) ==
    LET first == SquareAt(RowOf(s) + d[2], ColOf(s) + d[1])
        sim_blockers == nsp_table[WF][s] \ {first}
    IN queen_attacks(s, sim_blockers) \ sim_blockers

Victims(b, s, d) == ShotPath(s, d) \cap (Enemy(b) \cup Friendly(b))

(* Captures on different squares do not disturb each other, so the loop    *)
(* that captures the victims one by one comes to this.                     *)
CaptureAll(b, S) ==
    [b EXCEPT !.pieces = [t \in Types |->
                  b.pieces[t] \ {q \in S : \A u \in Types :
                                     u < t => q \notin b.pieces[u]}],
              !.white = @ \ S, !.black = @ \ S, !.all = @ \ S]

set_canon_shots(b, s) ==
    {Settle(CaptureAll(b, Victims(b, s, d)), FALSE) :
         d \in {e \in Diagonals : Victims(b, s, e) # {}}}

(* The boards the generator adds for the piece of type t on s.             *)
BoardsOf(b, s, t) ==
    CASE t \in {WP, BP} -> set_peon_moves(b, s, t)
      [] t \in {WF, BF} -> set_piece_moves(b, s, t, PseudoMoves(b, s, t))
                             \cup set_catapult_flings(b, s, t)
      [] t \in {WC, BC} -> set_piece_moves(b, s, t, PseudoMoves(b, s, t))
                             \cup set_canon_shots(b, s)
      [] OTHER -> set_piece_moves(b, s, t, PseudoMoves(b, s, t))

Movers(b) == {m \in Friendly(b) \X TypesOf(b.turn) : m[1] \in b.pieces[m[2]]}

gen_chezz_boards(b) == UNION {BoardsOf(b, m[1], m[2]) : m \in Movers(b)}

-----------------------------------------------------------------------------
(* negamax stops at a board where a king is gone, and so does the game.    *)
BothKingsStand == board.pieces[WK] # {} /\ board.pieces[BK] # {}

MayMove == BothKingsStand /\ board.num_moves < MaxMoves

MovePeon ==
    /\ MayMove
    /\ \E m \in Movers(board) :
           /\ m[2] \in {WP, BP}
           /\ board' \in set_peon_moves(board, m[1], m[2])

MovePiece ==
    /\ MayMove
    /\ \E m \in Movers(board) :
           /\ m[2] \notin {WP, BP}
           /\ board' \in set_piece_moves(board, m[1], m[2],
                                         PseudoMoves(board, m[1], m[2]))

FlingPiece ==
    /\ MayMove
    /\ \E m \in Movers(board) :
           /\ m[2] \in {WF, BF}
           /\ board' \in set_catapult_flings(board, m[1], m[2])

ShootCanon ==
    /\ MayMove
    /\ \E m \in Movers(board) :
           /\ m[2] \in {WC, BC}
           /\ board' \in set_canon_shots(board, m[1])

Init == board \in StartBoards
Next == MovePeon \/ MovePiece \/ FlingPiece \/ ShootCanon
Spec == Init /\ [][Next]_board

-----------------------------------------------------------------------------
(* The board is a record of the engine's shape.                            *)
TypeOK == board \in Chezzboard

(* However captures, flings, shots, contagion and promotion combine, no    *)
(* square holds two pieces and the three combined bitboards, which are     *)
(* updated on their own with XOR, AND and OR (move_piece, capture_piece,   *)
(* handle_contagion), are still what the eighteen piece bitboards say.     *)
(* And no peon rests on the row where it becomes a zombie, although only   *)
(* peon moves and flings of peons call promote_peons: the evaluation       *)
(* shifts a peon's bit towards that row without looking                    *)
(* (peons_struct_eval.c, piece_safety_eval.c).                             *)
BoardConsistent == Consistent(board) /\ NoPeonOnLastRow(board)

(***************************************************************************)
(* The rules the generator implements, on the board as a map from squares  *)
(* to coloured pieces.                                                     *)
(***************************************************************************)
KindOf(t) == <<"peon", "knight", "bishop", "rook", "queen", "king", "zombie",
               "catapult", "canon">>[(t \div 2) + 1]

At(b) ==
    [s \in Squares |->
        IF \E t \in Types : s \in b.pieces[t]
        THEN LET t == CHOOSE u \in Types : s \in b.pieces[u]
             IN [color |-> IF t \in WhiteTypes THEN "w" ELSE "b", kind |-> KindOf(t)]
        ELSE [color |-> "none", kind |-> "none"]]

Rules == INSTANCE ChezzRules
             WITH Starts <- {[at |-> At(b), turn |-> b.turn] : b \in StartBoards},
                  at <- At(board), turn <- board.turn

(* Every game the generator plays is a game by the rules: each board it    *)
(* lists is what one move, fling or shot makes, with contagion and         *)
(* promotion complete, and the turn passes.                                *)
PlaysByTheRules == Rules!Spec

(* The generator lists every board the rules allow, and no other.          *)
ListsEveryMove ==
    {At(b) : b \in gen_chezz_boards(board)} = Rules!Successors(At(board), board.turn)

=============================================================================
