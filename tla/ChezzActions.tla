---------------------------- MODULE ChezzActions ----------------------------
(***************************************************************************)
(* The second generator of the engine, for people (user_actions.c): the    *)
(* boards again, each with the action that makes it, the key the client    *)
(* names it by, and the events that tell what happened on the board.       *)
(*                                                                         *)
(* The code repeats the generator of ChezzMoves line by line with events   *)
(* woven in, and so does this module: it shares only the attack tables     *)
(* and the board record with it.  A board under way is carried with its    *)
(* event buffer, as [b, events].                                           *)
(***************************************************************************)
EXTENDS ChezzMoves, SequencesExt

(* An entry of UAValidBoards.  The key is the text of the action, one to   *)
(* one: the action itself stands for it.                                   *)
ua_make_move_action(from, to) == <<"move", from, to>>
ua_make_shoot_action(s, direction) == <<"shoot", s, direction>>
ua_make_fling_action(catapult, payload, target) == <<"fling", catapult, payload, target>>

Push(x, event) == [x EXCEPT !.events = Append(@, event)]

(* The leading event, kept as the text to show and the action.             *)
ua_push_action_event(x, action, name) ==
    Push(x, [type |-> "action", name |-> name, action |-> action])

Copy(b) == [b |-> b, events |-> <<>>]

Ascending(S) ==
    [i \in 1 .. Cardinality(S) |-> CHOOSE s \in S : Cardinality({r \in S : r < s}) = i - 1]

-----------------------------------------------------------------------------
ua_move_piece(x, t, from, to) ==
    LET b == x.b
        mask == {from, to}
        flip(S) == {s \in S \cup mask : ~(s \in S /\ s \in mask)}
    IN [b |-> [b EXCEPT !.pieces[t] = (@ \ {from}) \cup {to},
                        !.white = IF b.turn = "w" THEN flip(@) ELSE @,
                        !.black = IF b.turn = "w" THEN @ ELSE flip(@),
                        !.all = flip(@)],
        events |-> Append(x.events, [type |-> "move", piece |-> t,
                                     from_square |-> from, to_square |-> to])]

(* The loop over the types stops at the first that has the square.         *)
FirstType(b, s) ==
    CHOOSE t \in Types : s \in b.pieces[t] /\ \A u \in Types : s \in b.pieces[u] => t <= u

capture_event(b, s) == [type |-> "capture", square |-> s, piece |-> FirstType(b, s)]

ua_capture_piece(x, target) ==
    LET b == x.b
        cleared == [b EXCEPT !.white = @ \ {target}, !.black = @ \ {target},
                             !.all = @ \ {target}]
    IN IF \A t \in Types : target \notin b.pieces[t] THEN [x EXCEPT !.b = cleared]
       ELSE [b |-> [cleared EXCEPT !.pieces[FirstType(b, target)] = @ \ {target}],
             events |-> Append(x.events, capture_event(b, target))]

(* The loop of a shot, which captures its victims from the lowest square   *)
(* to the highest: no capture disturbs another.                            *)
ua_capture_victims(x, S) ==
    LET b == x.b
        order == Ascending({s \in S : \E t \in Types : s \in b.pieces[t]})
    IN [b |-> [b EXCEPT !.pieces = [t \in Types |-> {s \in b.pieces[t] :
                                        ~ (s \in S /\ FirstType(b, s) = t)}],
                        !.white = @ \ S, !.black = @ \ S, !.all = @ \ S],
        events |-> x.events \o [i \in 1 .. Len(order) |-> capture_event(b, order[i])]]

(* Mutant of ua_promote_peons: the promotion is not told.                  *)
ua_promote_peons_silently(x) ==
    LET b == x.b
        promoted == {s \in b.pieces[IF b.turn = "w" THEN WP ELSE BP] :
                         RowOf(s) = IF b.turn = "w" THEN 7 ELSE 0}
    IN [x EXCEPT !.b.pieces[IF b.turn = "w" THEN WP ELSE BP] = @ \ promoted,
                 !.b.pieces[IF b.turn = "w" THEN WZ ELSE BZ] = @ \cup promoted]

ua_promote_peons(x) ==
    LET b == x.b
        peon == IF b.turn = "w" THEN WP ELSE BP
        zombie == IF b.turn = "w" THEN WZ ELSE BZ
        last == IF b.turn = "w" THEN 7 ELSE 0
        promoted == {s \in b.pieces[peon] : RowOf(s) = last}
        event(s) == [type |-> "promotion", square |-> s,
                     from_piece |-> peon, to_piece |-> zombie]
        order == Ascending(promoted)
    IN [b |-> [b EXCEPT !.pieces[peon] = @ \ promoted,
                        !.pieces[zombie] = @ \cup promoted],
        events |-> x.events \o [i \in 1 .. Len(order) |-> event(order[i])]]

(* Mutant of ua_contagion_mask: it goes round the edge of the board.       *)
ua_contagion_mask_wraps(b) ==
    LET zombies == b.pieces[IF b.turn = "w" THEN WZ ELSE BZ]
    IN UNION {{z + 8, z - 8, z - 1, z + 1} \cap Enemy(b) : z \in zombies}
           \ UNION {b.pieces[t] : t \in {WK, BK, WZ, BZ}}

ua_contagion_mask(b) ==
    LET zombies == IF b.turn = "w" THEN b.pieces[WZ] ELSE b.pieces[BZ]
        enemy_zombies == IF b.turn = "w" THEN b.pieces[BZ] ELSE b.pieces[WZ]
        enemy_king == IF b.turn = "w" THEN b.pieces[BK] ELSE b.pieces[WK]
        up == {z + 8 : z \in zombies}
        down == {z - 8 : z \in zombies}
        left == {z - 1 : z \in {y \in zombies : ColOf(y) # 0}}
        right == {z + 1 : z \in {y \in zombies : ColOf(y) # 7}}
    IN ((up \cup down \cup left \cup right) \cap Enemy(b))
           \ (enemy_king \cup enemy_zombies)

ua_handle_contagion(x) ==
    LET b == x.b
        mask == ua_contagion_mask(b)
        mine == IF b.turn = "w" THEN WZ ELSE BZ
        event(s) == [type |-> "contagion", square |-> s,
                     from_piece |-> FirstType(b, s), to_piece |-> mine]
        infected == Ascending({s \in mask : \E t \in Types : s \in b.pieces[t]})
        cured(t) == IF t \in TypesOf(Opponent(b.turn)) \ {WK, BK, WZ, BZ}
                    THEN b.pieces[t] \ mask
                    ELSE b.pieces[t]
        pieces == [[t \in Types |-> cured(t)] EXCEPT ![mine] = @ \cup mask]
        white == IF b.turn = "w" THEN b.white \cup mask ELSE b.white \ mask
        black == IF b.turn = "w" THEN b.black \ mask ELSE b.black \cup mask
    IN IF mask = {} THEN x
       ELSE [b |-> [b EXCEPT !.pieces = pieces, !.white = white, !.black = black,
                             !.all = white \cup black],
             events |-> x.events \o [i \in 1 .. Len(infected) |-> event(infected[i])]]

(* What the list gains: the board turned over, its action and its events.  *)
ua_add_board(x, action) ==
    [action |-> action, events |-> x.events,
     board |-> [x.b EXCEPT !.num_moves = @ + 1,
                           !.turn = IF @ = "w" THEN "b" ELSE "w"]]

-----------------------------------------------------------------------------
ua_set_peon_moves(b, s, t, pseudo, enemy) ==
    LET finish(x, q) ==
            LET y == ua_handle_contagion(ua_move_piece(x, t, s, q))
            IN ua_add_board(IF RowOf(q) = 7 \/ RowOf(q) = 0
                            THEN ua_promote_peons(y) ELSE y,
                            ua_make_move_action(s, q))
    IN {finish(Copy(b), q) :
            q \in {p \in pseudo : ColOf(p) = ColOf(s) /\ p \notin enemy}}
         \cup {finish(ua_capture_piece(Copy(b), q), q) :
            q \in {p \in pseudo : /\ ColOf(p) \in {ColOf(s) - 1, ColOf(s) + 1}
                                  /\ p \in enemy}}

ua_set_piece_moves(b, s, t, pseudo, enemy) ==
    LET announce(x, q) ==
            CASE t \in {WF, BF} ->
                     ua_push_action_event(x, ua_make_move_action(s, q), "catapult_move")
              [] t \in {WC, BC} ->
                     ua_push_action_event(x, ua_make_move_action(s, q), "canon_move")
              [] OTHER -> x
        taken(x, q) == IF q \in enemy THEN ua_capture_piece(x, q) ELSE x
    IN {ua_add_board(ua_handle_contagion(
            ua_move_piece(taken(announce(Copy(b), q), q), t, s, q)),
            ua_make_move_action(s, q)) : q \in pseudo}

ua_set_catapult_flings(b, s, t, friendly, enemy) ==
    LET adjacent == (nsp_table[t][s] \ enemy) \cap friendly
        dx(f) == ColOf(s) - ColOf(f)
        dy(f) == RowOf(s) - RowOf(f)
        blockers(f) == nsp_table[t][s]
                           \ {SquareAt(RowOf(s) + dy(f), ColOf(s) + dx(f))}
        path(f) == (IF dx(f) # 0 /\ dy(f) # 0 THEN bishop_attacks(s, blockers(f))
                    ELSE rook_attacks(s, blockers(f))) \ blockers(f)
        enemy_king == IF t = WF THEN b.pieces[BK] ELSE b.pieces[WK]
        own == IF t = WF THEN WhiteTypes ELSE BlackTypes
        flung(f) == CHOOSE u \in own :
                        f \in b.pieces[u] /\ \A v \in own : f \in b.pieces[v] => u <= v
        thrown(x, f, q) ==
            IF q \in enemy THEN ua_capture_piece(ua_capture_piece(x, q), f)
            ELSE ua_move_piece(x, flung(f), f, q)
        finish(f, q) ==
            LET action == ua_make_fling_action(s, f, q)
                y == ua_handle_contagion(
                         thrown(ua_push_action_event(Copy(b), action, "catapult_fling"),
                                f, q))
            IN ua_add_board(IF flung(f) \in {WP, BP} THEN ua_promote_peons(y) ELSE y,
                            action)
    IN UNION {{finish(f, q) : q \in (path(f) \ friendly) \ enemy_king} : f \in adjacent}

DirectionLabel(d) ==
    CASE d = <<1, 1>> -> "tr" [] d = <<-1, 1>> -> "tl"
      [] d = <<1, -1>> -> "br" [] d = <<-1, -1>> -> "bl"

ua_set_canon_shots(b, s, friendly, enemy) ==
    LET blockers(d) == nsp_table[WF][s] \ {SquareAt(RowOf(s) + d[2], ColOf(s) + d[1])}
        path(d) == queen_attacks(s, blockers(d)) \ blockers(d)
        victims(d) == path(d) \cap (enemy \cup friendly)
        shot(d) == ua_make_shoot_action(s, DirectionLabel(d))
    IN {ua_add_board(ua_handle_contagion(
            ua_capture_victims(ua_push_action_event(Copy(b), shot(d), "canon_shot"),
                               victims(d))), shot(d)) :
            d \in {e \in Diagonals : victims(e) # {}}}

(* The dispatch of ua_gen_chezz_boards_raw for the piece of type t on s.   *)
ua_entries_of(b, s, t, friendly, enemy) ==
    LET nsp == nsp_table[t][s] \ friendly
        sp == (CASE t \in {WB, BB} -> bishop_attacks(s, b.all)
                 [] t \in {WR, BR} -> rook_attacks(s, b.all)
                 [] OTHER -> queen_attacks(s, b.all)) \ friendly
    IN CASE t \in {WP, BP} -> ua_set_peon_moves(b, s, t, nsp, enemy)
         [] t \in {WB, BB, WR, BR, WQ, BQ} -> ua_set_piece_moves(b, s, t, sp, enemy)
         [] t \in {WF, BF} -> ua_set_piece_moves(b, s, t, nsp \ enemy, enemy)
                                \cup ua_set_catapult_flings(b, s, t, friendly, enemy)
         [] t \in {WC, BC} -> ua_set_piece_moves(b, s, t, nsp \ enemy, enemy)
                                \cup ua_set_canon_shots(b, s, friendly, enemy)
         [] OTHER -> ua_set_piece_moves(b, s, t, nsp, enemy)

ua_gen_chezz_boards(b) ==
    LET friendly == IF b.turn = "w" THEN b.white ELSE b.black
        enemy == IF b.turn = "w" THEN b.black ELSE b.white
    IN UNION {UNION {ua_entries_of(b, s, t, friendly, enemy) :
                         t \in {u \in TypesOf(b.turn) : s \in b.pieces[u]}} :
                  s \in friendly}

-----------------------------------------------------------------------------
(***************************************************************************)
(* What the events say happened, on a board of squares: the session keeps  *)
(* them with the move as its history.                                      *)
(***************************************************************************)
TypeAt(b) ==
    [s \in Squares |-> IF \E t \in Types : s \in b.pieces[t]
                       THEN CHOOSE t \in Types : s \in b.pieces[t] ELSE -1]

Show(shown, e) ==
    CASE e.type = "move" -> [shown EXCEPT ![e.from_square] = -1,
                                          ![e.to_square] = e.piece]
      [] e.type = "capture" -> [shown EXCEPT ![e.square] = -1]
      [] e.type \in {"promotion", "contagion"} -> [shown EXCEPT ![e.square] = e.to_piece]
      [] OTHER -> shown

Shown(b, events) == FoldLeft(Show, TypeAt(b), events)

(* Every event names what really stands on its square when it is shown.    *)
EventFits(shown, e) ==
    CASE e.type = "move" -> shown[e.from_square] = e.piece /\ shown[e.to_square] = -1
      [] e.type = "capture" -> shown[e.square] = e.piece
      [] e.type \in {"promotion", "contagion"} -> shown[e.square] = e.from_piece
      [] OTHER -> TRUE

(* The player is offered exactly the boards the search plays: the two      *)
(* copies of the generator have not drifted apart.  And a key names one    *)
(* entry: the session looks an action up by it.                            *)
ActionsMatchGenerator ==
    LET entries == ua_gen_chezz_boards(board)
    IN /\ {e.board : e \in entries} = gen_chezz_boards(board)
       /\ \A e, f \in entries : e.action = f.action => e = f

(* Replayed on the board before the action, the events of an entry each    *)
(* fit what stands there and end at the entry's board: the history of a    *)
(* game tells the game.                                                    *)
EventsTellTheMove ==
    \A e \in ua_gen_chezz_boards(board) :
        /\ \A i \in 1 .. Len(e.events) :
               EventFits(Shown(board, SubSeq(e.events, 1, i - 1)), e.events[i])
        /\ Shown(board, e.events) = TypeAt(e.board)
=============================================================================
