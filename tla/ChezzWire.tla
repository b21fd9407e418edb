----------------------------- MODULE ChezzWire ------------------------------
(***************************************************************************)
(* The text in which a board enters and leaves the Chezz engine            *)
(* (engine_api.c; main.c has the same functions for the command line).     *)
(*                                                                         *)
(* A text is its header and its rows; a row names a square, by column and  *)
(* row, and a piece, by colour and letter.  The two clock fields of the    *)
(* header, which the engine copies, are left out, and so are the commas.   *)
(***************************************************************************)
EXTENDS ChezzMoves, SequencesExt

piece_lookup ==
    [t \in Types |-> <<IF t \in WhiteTypes THEN "w" ELSE "b",
        <<"P", "N", "B", "R", "Q", "K", "Z", "F", "C">>[(t \div 2) + 1]>>]

INVALID_PIECE == -1

(* Mutant of square_to_index: column and row swapped.                      *)
square_to_index_swapped(square) == square[1] * 8 + square[2]

square_to_index(square) == square[2] * 8 + square[1]

get_piece_index(piece) ==
    IF \E t \in Types : piece_lookup[t] = piece
    THEN CHOOSE t \in Types : piece_lookup[t] = piece
    ELSE INVALID_PIECE

empty_board ==
    [turn |-> "w", num_moves |-> 0, pieces |-> [t \in Types |-> {}],
     white |-> {}, black |-> {}, all |-> {}]

(* One row of the text, added to the board read so far: a name that is no  *)
(* piece, or a square off the board, is passed over.                       *)
add_row(b, row) ==
    LET bit_index == square_to_index(row.square)
        piece_index == get_piece_index(row.piece)
    IN IF piece_index >= 0 /\ bit_index \in Squares
       THEN [b EXCEPT !.pieces[piece_index] = @ \cup {bit_index},
                      !.white = IF row.piece[1] = "w" THEN @ \cup {bit_index} ELSE @,
                      !.black = IF row.piece[1] = "b" THEN @ \cup {bit_index} ELSE @,
                      !.all = @ \cup {bit_index}]
       ELSE b

load_board_from_string(text) ==
    FoldLeft(add_row,
             [empty_board EXCEPT
                 !.turn = IF text.turn \in {"b", "B"} THEN "b" ELSE "w",
                 !.num_moves = text.num_moves],
             text.rows)

(* The command line's readers have no test of the square, copy the letter  *)
(* of the turn, and set all_pieces at the end.                             *)
read_row(b, row) ==
    LET bit_index == square_to_index(row.square)
        piece_index == get_piece_index(row.piece)
    IN IF piece_index >= 0
       THEN [b EXCEPT !.pieces[piece_index] = @ \cup {bit_index},
                      !.white = IF row.piece[1] = "w" THEN @ \cup {bit_index} ELSE @,
                      !.black = IF row.piece[1] = "b" THEN @ \cup {bit_index} ELSE @]
       ELSE b

load_board_from_stdin(text) ==
    LET b == FoldLeft(read_row,
                      [empty_board EXCEPT !.turn = text.turn,
                                          !.num_moves = text.num_moves],
                      text.rows)
    IN [b EXCEPT !.all = b.white \cup b.black]

(* Column by column, every type whose bit is set on the square.            *)
to_string_buf(b) ==
    LET square(p) == <<ColOf(p[1]), RowOf(p[1])>>
        standing == {p \in Squares \X Types : p[1] \in b.pieces[p[2]]}
        rank(p) == ColOf(p[1]) * 8 * 18 + RowOf(p[1]) * 18 + p[2]
        before(p) == {q \in standing : rank(q) < rank(p)}
        placed == [i \in 1 .. Cardinality(standing) |->
                      CHOOSE p \in standing : Cardinality(before(p)) = i - 1]
    IN [turn |-> b.turn, num_moves |-> b.num_moves,
        rows |-> [i \in DOMAIN placed |->
            [square |-> square(placed[i]), piece |-> piece_lookup[placed[i][2]]]]]

(* What the engine prints it reads back: the board a caller sends in for   *)
(* the next move, after any captures, infections and promotions, is the    *)
(* board the last search returned, through either reader, in all eighteen  *)
(* piece sets and the three combined ones.                                 *)
ReadsWhatItPrints ==
    /\ load_board_from_string(to_string_buf(board)) = board
    /\ load_board_from_stdin(to_string_buf(board)) = board
=============================================================================
