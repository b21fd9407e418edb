----------------------------- MODULE ChezzEval ------------------------------
(***************************************************************************)
(* The static evaluation of the Chezz engine (negamax/eval/): what a board *)
(* is worth, in points, for White (color 1) or Black (color -1).           *)
(*                                                                         *)
(* The engine writes every heuristic twice, once per colour, and so does   *)
(* this module: that the two halves agree is a property (MirrorFair), not  *)
(* a shape the model gives them.                                           *)
(***************************************************************************)
EXTENDS ChezzMoves, FiniteSetsExt

Sides == {1, -1}

PopCount(S) == Cardinality(S)
Times(n, S) == n * PopCount(S)
When(p, n) == IF p THEN n ELSE 0

(* The lowest square of a set, as __builtin_ctzll finds it: a set of one   *)
(* square, or none.                                                        *)
Lsb(S) == {s \in S : \A q \in S : s <= q}

Shift(S, n) == {s + n : s \in S} \cap Squares
Col(S, c) == {s \in S : ColOf(s) = c}
OffCol(S, c) == {s \in S : ColOf(s) # c}
OffRow(S, r) == {s \in S : RowOf(s) # r}

RowSum(S) == MapThenSumSet(LAMBDA s : RowOf(s), S)

-----------------------------------------------------------------------------
(* Worth of a type at the start, in the middle and at the end of a game.   *)
material_table ==
    <<<<400, 400, 440>>,          <<400, 400, 440>>,
      <<1400, 1500, 1440>>,       <<1400, 1500, 1440>>,
      <<1400, 1500, 1440>>,       <<1400, 1500, 1440>>,
      <<1600, 1600, 1700>>,       <<1600, 1600, 1700>>,
      <<3500, 3600, 4000>>,       <<3500, 3600, 4000>>,
      <<100000, 100000, 100000>>, <<100000, 100000, 100000>>,
      <<600, 650, 700>>,          <<600, 650, 700>>,
      <<1100, 1200, 1000>>,       <<1100, 1200, 1000>>,
      <<2000, 2000, 2000>>,       <<2000, 2000, 2000>>>>

startgame == 1
midgame == 2
endgame == 3
Value(t, phase) == material_table[t + 1][phase]

start_non_peon_zombie_material ==
    2 * (2 * 1400 + 1400 + 1600 + 3500 + 1100 + 2000 + 100000)

(* The phase is this over start_non_peon_zombie_material, at most one.     *)
non_peon_zombie_material(b) ==
    Min({start_non_peon_zombie_material,
         MapThenSumSet(LAMBDA t : PopCount(b.pieces[t]) * Value(t, midgame),
                       Types \ {WP, BP, WZ, BZ})})

(* Division that drops the fraction, as a cast to int does.  The engine    *)
(* computes the factor in single precision; the model is exact.            *)
Trunc(n, d) == IF n >= 0 THEN n \div d ELSE -((-n) \div d)

(* Sum of one column of the table over the pieces of some types.           *)
Worth(b, types, phase) ==
    MapThenSumSet(LAMBDA t : PopCount(b.pieces[t]) * Value(t, phase), types)

(* From the start of the game to its middle while the phase is above one   *)
(* half, from the middle to the end below.                                 *)
Phased(b, types) ==
    LET m == non_peon_zombie_material(b)
        full == start_non_peon_zombie_material
        start == Worth(b, types, startgame)
        mid == Worth(b, types, midgame)
        end == Worth(b, types, endgame)
    IN IF 2 * m > full THEN start + Trunc((mid - start) * (2 * m - full), full)
       ELSE mid + Trunc((end - mid) * 2 * m, full)

material_score(b, color) ==
    (Phased(b, WhiteTypes) - Phased(b, BlackTypes)) * color

-----------------------------------------------------------------------------
PEON_HAS_NEIGHBOR == 5
PEON_COVERING_PEON == 5
PEON_HIGH_ROW == 5
PEON_DOMINANCE == 10
PASSED_PEONS == 5
PEON_SAME_COL == 5
LONELY_PEON == 5
BACKWARDS_PEON == 10
PEON_ISLAND == 15

CenterMask == {SquareAt(r, c) : r \in {3, 4}, c \in {3, 4}}

(* The squares with a peon of P diagonally above, and diagonally below.    *)
UpFriends(P) ==
    Shift(OffRow(OffCol(P, 0), 7), -9) \cup Shift(OffRow(OffCol(P, 7), 7), -7)
DownFriends(P) ==
    Shift(OffRow(OffCol(P, 0), 0), 7) \cup Shift(OffRow(OffCol(P, 7), 0), 9)

Connected(P) ==
    P \cap (Shift(OffCol(P, 0), -1) \cup Shift(OffCol(P, 7), 1)
              \cup Shift(P, 8) \cup Shift(P, -8)
              \cup UpFriends(P) \cup DownFriends(P))

Columns(P) == {ColOf(s) : s \in P}
Islands(P) == {c \in Columns(P) : c - 1 \notin Columns(P)}

white_peon_structure(b) ==
    LET P == b.pieces[WP]
        passed == {s \in P : ~ \E q \in b.pieces[BP] :
                       RowOf(q) > RowOf(s) /\ ColOf(q) - ColOf(s) \in -1 .. 1}
        backward == P \ DownFriends(P)
        advanced == {s \in backward : RowOf(s) >= 4}
    IN Times(PEON_HAS_NEIGHBOR, Connected(P))
         + Times(PEON_COVERING_PEON, P \cap UpFriends(P))
         + PEON_HIGH_ROW * RowSum(P)
         + Times(PEON_DOMINANCE, P \cap CenterMask)
         + PASSED_PEONS * RowSum(passed)
         - PEON_SAME_COL * (PopCount(P) - PopCount(Columns(P)))
         - Times(LONELY_PEON, P \ Connected(P))
         - Times(BACKWARDS_PEON \div 2, advanced)
         - Times(BACKWARDS_PEON, backward \ advanced)
         - PEON_ISLAND * Max({0, PopCount(Islands(P)) - 1})

black_peon_structure(b) ==
    LET P == b.pieces[BP]
        passed == {s \in P : ~ \E q \in b.pieces[WP] :
                       RowOf(q) < RowOf(s) /\ ColOf(q) - ColOf(s) \in -1 .. 1}
        backward == P \ UpFriends(P)
        behind == {s \in backward : RowOf(s) >= 4}
        distance(S) == 7 * PopCount(S) - RowSum(S)
    IN Times(PEON_HAS_NEIGHBOR, Connected(P))
         + Times(PEON_COVERING_PEON, P \cap DownFriends(P))
         + PEON_HIGH_ROW * distance(P)
         + Times(PEON_DOMINANCE, P \cap CenterMask)
         + PASSED_PEONS * distance(passed)
         - PEON_SAME_COL * (PopCount(P) - PopCount(Columns(P)))
         - Times(LONELY_PEON, P \ Connected(P))
         - Times(BACKWARDS_PEON, behind)
         - Times(BACKWARDS_PEON \div 2, backward \ behind)
         - PEON_ISLAND * Max({0, PopCount(Islands(P)) - 1})

peon_structure_score(b, color) ==
    (white_peon_structure(b) - black_peon_structure(b)) * color

-----------------------------------------------------------------------------
(* Does an enemy piece attack the king of color?  Of the canons, bishops,  *)
(* rooks and queens the engine looks at the first only.                    *)
is_king_in_check(b, color) ==
    LET king == b.pieces[IF color = 1 THEN WK ELSE BK]
        enemy(white, black) == b.pieces[IF color = -1 THEN white ELSE black]
        hits(mask) == mask \cap king # {}
    IN \/ \E s \in Lsb(enemy(WC, BC)) : hits(bishop_attacks(s, {}))
       \/ \E s \in enemy(WN, BN) : hits(nsp_table[BN][s])
       \/ \E s \in Lsb(enemy(WB, BB)) : hits(bishop_attacks(s, b.all))
       \/ \E s \in Lsb(enemy(WR, BR)) : hits(rook_attacks(s, b.all))
       \/ \E s \in Lsb(enemy(WQ, BQ)) : hits(queen_attacks(s, b.all))
       \/ \E s \in enemy(WZ, BZ) : hits(nsp_table[WZ][s])
       \/ \E s \in enemy(WP, BP) :
              hits(IF color = -1 THEN nsp_table[WP][s] \ {s + 8}
                   ELSE nsp_table[BP][s] \ {s - 8})
       \/ \E s \in Lsb(enemy(WK, BK)) : hits(nsp_table[WK][s])

(* Mutant of is_king_alive: it looks at the other king.                    *)
other_king_alive(b, color) == b.pieces[IF color = 1 THEN BK ELSE WK] # {}

is_king_alive(b, color) == b.pieces[IF color = 1 THEN WK ELSE BK] # {}

MISSING_PEON_KING_SHIELD == 10
ENEMY_QUEEN_IN_KING_RING == 35
ENEMY_ROOK_IN_KING_RING == 20
ENEMY_BISHOP_IN_KING_RING == 15
ENEMY_KNIGHT_IN_KING_RING == 15
ENEMY_ZOMBIE_IN_KING_RING == 15
ENEMY_FLINGER_IN_KING_RING == 10
ENEMY_CANON_IN_KING_RING == 10
ENEMY_PEON_KING_RING_MED == 20
ENEMY_PEON_KING_RING_LOW == 5
KING_ON_SEMI_OPEN_COL == 15
KING_ON_OPEN_COL == 30
CHECK_PENALTY == 650

Near(s, d) == {q \in Squares : /\ RowOf(q) - RowOf(s) \in -d .. d
                               /\ ColOf(q) - ColOf(s) \in -d .. d}

white_king_safety(b) ==
    LET k == Min(b.pieces[WK])
        shield == {q \in Near(k, 1) : RowOf(q) = RowOf(k) + 1}
        ring == Near(k, 2) \ b.pieces[BK]
        coming == {q \in ring \cap b.pieces[BP] : RowOf(q) > RowOf(k)}
        facing == coming \cap {k + 8}
        column == Col(b.white, ColOf(k)) \ b.pieces[WK]
    IN When(b.pieces[WK] # {},
         - Times(MISSING_PEON_KING_SHIELD, shield \ (b.pieces[WP] \cup b.pieces[WZ]))
         - Times(ENEMY_QUEEN_IN_KING_RING, ring \cap b.pieces[BQ])
         - Times(ENEMY_ROOK_IN_KING_RING, ring \cap b.pieces[BR])
         - Times(ENEMY_BISHOP_IN_KING_RING, ring \cap b.pieces[BB])
         - Times(ENEMY_KNIGHT_IN_KING_RING, ring \cap b.pieces[BN])
         - Times(ENEMY_ZOMBIE_IN_KING_RING, ring \cap b.pieces[BZ])
         - Times(ENEMY_FLINGER_IN_KING_RING, ring \cap b.pieces[BF])
         - Times(ENEMY_CANON_IN_KING_RING, ring \cap b.pieces[BC])
         - Times(ENEMY_PEON_KING_RING_MED, facing)
         - Times(ENEMY_PEON_KING_RING_LOW, coming \ facing)
         - (IF column = {} THEN KING_ON_OPEN_COL
            ELSE When(Shift(column, 8) \cap b.white = {}, KING_ON_SEMI_OPEN_COL)))

black_king_safety(b) ==
    LET k == Min(b.pieces[BK])
        shield == {q \in Near(k, 1) : RowOf(q) = RowOf(k) - 1}
        ring == Near(k, 2) \ b.pieces[BK]
        coming == {q \in ring \cap b.pieces[WP] : RowOf(q) < RowOf(k)}
        facing == coming \cap {k - 8}
        column == Col(b.black, ColOf(k)) \ b.pieces[BK]
    IN When(b.pieces[BK] # {},
         - Times(MISSING_PEON_KING_SHIELD, shield \ (b.pieces[BP] \cup b.pieces[BZ]))
         - Times(ENEMY_QUEEN_IN_KING_RING, ring \cap b.pieces[WQ])
         - Times(ENEMY_ROOK_IN_KING_RING, ring \cap b.pieces[WR])
         - Times(ENEMY_BISHOP_IN_KING_RING, ring \cap b.pieces[WB])
         - Times(ENEMY_KNIGHT_IN_KING_RING, ring \cap b.pieces[WN])
         - Times(ENEMY_ZOMBIE_IN_KING_RING, ring \cap b.pieces[WZ])
         - Times(ENEMY_FLINGER_IN_KING_RING, ring \cap b.pieces[WF])
         - Times(ENEMY_FLINGER_IN_KING_RING, ring \cap b.pieces[WC])
         - Times(ENEMY_PEON_KING_RING_MED, facing)
         - Times(ENEMY_PEON_KING_RING_LOW, coming \ facing)
         - (IF column = {} THEN KING_ON_OPEN_COL
            ELSE When(Shift(column, -8) \cap b.black = {}, KING_ON_SEMI_OPEN_COL)))

king_safety_score(b, color) ==
    LET checked(side) == When(/\ is_king_alive(b, side)
                              /\ is_king_in_check(b, side), CHECK_PENALTY)
    IN ((white_king_safety(b) - checked(1))
          - (black_king_safety(b) - checked(-1))) * color

-----------------------------------------------------------------------------
EN_PRISE_PENALTY == -50
WEAK_DEFENSE_PENALTY == -10
LOW_VALUE_TRADE == -200
STRONG_DEFENSE_BONUS == 10
DEFENSE_EFFICIENCY_BONUS == 20
UNDER_ENEMY_CANON_ATTACK == -50
WATCHING_ENEMY_CANON == 15
ATTACKING_ENEMY_CANON == 30
WATCHING_ENEMY_KING_MOVES == 50
CAPTURE_ENEMY_KING == 500
FREE_CAPTURE_BONUS == 300
HIGH_VALUE_TRADE == 100
CAPTURE_BASE_BONUS == 20
KING_VALUE == 3600

PiecesOf(b, types) == {p \in Squares \X types : p[1] \in b.pieces[p[2]]}

Flingable(b, t, s) ==
    nsp_table[t][s] \cap (IF t \in WhiteTypes THEN b.white ELSE b.black)

(* Mutant of Landings: a fling threatens the king.                         *)
LandingsOnKing(b, t, s, f) == FlingPath(s, f)

(* Where the piece on f may land, flung by the catapult of type t on s.    *)
(* Friendly squares stay in: a landing there counts as a defence.          *)
Landings(b, t, s, f) ==
    FlingPath(s, f) \ b.pieces[IF t \in WhiteTypes THEN BK ELSE WK]

FlingerMask(b, t, s) == UNION {Landings(b, t, s, f) : f \in Flingable(b, t, s)}

(* Kings attack nothing here.                                              *)
AttackMask(b, p) ==
    LET s == p[1]
        t == p[2]
    IN CASE t = WP         -> nsp_table[t][s] \ {s + 8}
         [] t = BP         -> nsp_table[t][s] \ {s - 8}
         [] t \in {WR, BR} -> rook_attacks(s, b.all)
         [] t \in {WB, BB} -> bishop_attacks(s, b.all)
         [] t \in {WQ, BQ} -> queen_attacks(s, b.all)
         [] t \in {WC, BC} -> bishop_attacks(s, {})
         [] t \in {WF, BF} -> FlingerMask(b, t, s)
         [] t \in {WK, BK} -> {}
         [] OTHER          -> nsp_table[t][s]

(* Of several canons, or kings, the last one found is remembered.          *)
Msb(S) == {s \in S : \A q \in S : q <= s}
canon_mask(b, t) == UNION {bishop_attacks(s, {}) : s \in Msb(b.pieces[t])}
canon_moves(b, t) == UNION {nsp_table[t][s] \ b.all : s \in Msb(b.pieces[t])}
king_moves(b, t, own) == UNION {nsp_table[t][s] \ own : s \in Msb(b.pieces[t])}

ValueOf(t) == IF t \in {WK, BK} THEN KING_VALUE ELSE Value(t, midgame)

(* What a catapult of type t risks on q: the piece that lands there.       *)
canon_landing_cost(b, t, q) ==
    LET own == IF t \in WhiteTypes THEN WhiteTypes ELSE BlackTypes
        flings == {x \in b.pieces[t] \X Squares :
                       /\ x[2] \in Flingable(b, t, x[1])
                       /\ q \in Landings(b, t, x[1], x[2])}
        flung(f) == Min({u \in own : f \in b.pieces[u]})
    IN MapThenSumSet(LAMBDA x : ValueOf(flung(x[2])), flings)

CostOf(b, p, q) ==
    IF p[2] \in {WF, BF} THEN canon_landing_cost(b, p[2], q) ELSE ValueOf(p[2])

Watchers(b, types, q) == {a \in PiecesOf(b, types) : q \in AttackMask(b, a)}
CostsOf(b, S, q) == MapThenSumSet(LAMBDA a : CostOf(b, a, q), S)

(* What attackers and defenders of the white piece p are worth to it.      *)
white_defense(b, p) ==
    LET attackers == Watchers(b, BlackTypes, p[1])
        defenders == Watchers(b, WhiteTypes, p[1])
        attacked == PopCount(attackers)
        defended == PopCount(defenders)
        cheapest == Min({Value(WQ, midgame)} \cup {CostOf(b, a, p[1]) : a \in attackers})
    IN When(attacked > 0 /\ defended = 0, EN_PRISE_PENALTY)
         + When(attacked > defended, (attacked - defended) * WEAK_DEFENSE_PENALTY)
         + When(ValueOf(p[2]) > cheapest, LOW_VALUE_TRADE)
         + When(defended > attacked, (defended - attacked) * STRONG_DEFENSE_BONUS)
         + When(/\ defended > attacked
                /\ CostsOf(b, defenders, p[1]) < CostsOf(b, attackers, p[1]),
                DEFENSE_EFFICIENCY_BONUS)
         + When(p[1] \in canon_mask(b, BC), UNDER_ENEMY_CANON_ATTACK)

(* What the white piece p attacks.                                         *)
white_attack(b, p) ==
    LET mask == AttackMask(b, p)
        targets == {e \in PiecesOf(b, BlackTypes) : e[1] \in mask}
        gain(e) ==
            When(e[2] = BC, ATTACKING_ENEMY_CANON)
              + When(e[2] = BK, CAPTURE_ENEMY_KING)
              + (IF Watchers(b, BlackTypes, e[1]) = {} THEN FREE_CAPTURE_BONUS
                 ELSE CAPTURE_BASE_BONUS)
              + When(ValueOf(e[2]) > ValueOf(p[2]), HIGH_VALUE_TRADE)
    IN When(mask \cap canon_moves(b, BC) # {}, WATCHING_ENEMY_CANON)
         + When(mask \cap king_moves(b, BK, b.black) # {}, WATCHING_ENEMY_KING_MOVES)
         + MapThenSumSet(gain, targets)

black_defense(b, p) ==
    LET attackers == Watchers(b, WhiteTypes, p[1])
        defenders == Watchers(b, BlackTypes, p[1])
        attacked == PopCount(attackers)
        defended == PopCount(defenders)
        cheapest == Min({Value(BQ, midgame)} \cup {CostOf(b, a, p[1]) : a \in attackers})
    IN When(attacked > 0 /\ defended = 0, EN_PRISE_PENALTY)
         + When(attacked > defended, (attacked - defended) * WEAK_DEFENSE_PENALTY)
         + When(ValueOf(p[2]) > cheapest, LOW_VALUE_TRADE)
         + When(defended > attacked, (defended - attacked) * STRONG_DEFENSE_BONUS)
         + When(/\ defended > attacked
                /\ CostsOf(b, defenders, p[1]) < CostsOf(b, attackers, p[1]),
                DEFENSE_EFFICIENCY_BONUS)
         + When(p[1] \in canon_mask(b, WC), UNDER_ENEMY_CANON_ATTACK)

black_attack(b, p) ==
    LET mask == AttackMask(b, p)
        targets == {e \in PiecesOf(b, WhiteTypes) : e[1] \in mask}
        gain(e) ==
            When(e[2] = WC, ATTACKING_ENEMY_CANON)
              + When(e[2] = WK, CAPTURE_ENEMY_KING)
              + (IF Watchers(b, WhiteTypes, e[1]) = {} THEN FREE_CAPTURE_BONUS
                 ELSE CAPTURE_BASE_BONUS)
              + When(ValueOf(e[2]) > ValueOf(p[2]), HIGH_VALUE_TRADE)
    IN When(mask \cap canon_moves(b, WC) # {}, WATCHING_ENEMY_CANON)
         + When(mask \cap king_moves(b, WK, b.white) # {}, WATCHING_ENEMY_KING_MOVES)
         + MapThenSumSet(gain, targets)

piece_safety_score(b, color) ==
    (MapThenSumSet(LAMBDA p : white_defense(b, p) + white_attack(b, p),
                   PiecesOf(b, WhiteTypes))
       - MapThenSumSet(LAMBDA p : black_defense(b, p) + black_attack(b, p),
                       PiecesOf(b, BlackTypes))) * color

-----------------------------------------------------------------------------
immobility_penalty == <<-2, -2, -3, -3, -10, -10, -10, -10, -20, -20,
                        -50, -50, -1, -1, -5, -5, -20, -20>>
mobility_reward == <<3, 3, 6, 6, 9, 9, 12, 12, 16, 16, 0, 0, 6, 6, 6, 6, 8, 8>>

BLOCKING_CANON_SHOT == -15
BEHIND_FRIENDLY_CATAPULT == 5
QUEEN_ROOK_COORDINATION == 15
QUEEN_BISHOP_COORDINATION == 10
KNIGHT_ATTACK_COORDINATION == 10
KNIGHT_DEFEND_COORDINATION == 10
CONTROLLING_SQUARES == 2
KING_ATTACK_COORDINATION == 15

(* As AttackMask, but a king attacks the squares around it.                *)
mobility_attack_mask(b, p) ==
    CASE p[2] \in {WR, BR} -> rook_attacks(p[1], b.all)
      [] p[2] \in {WB, BB} -> bishop_attacks(p[1], b.all)
      [] p[2] \in {WQ, BQ} -> queen_attacks(p[1], b.all)
      [] p[2] \in {WC, BC} -> bishop_attacks(p[1], {})
      [] p[2] \in {WF, BF} -> FlingerMask(b, p[2], p[1])
      [] p[2] = WP         -> nsp_table[WP][p[1]] \ {p[1] + 8}
      [] p[2] = BP         -> nsp_table[BP][p[1]] \ {p[1] - 8}
      [] OTHER             -> nsp_table[p[2]][p[1]]

white_legal_moves(b, p) ==
    CASE p[2] \in {WC, WF} -> nsp_table[p[2]][p[1]] \ b.all
      [] p[2] = WP -> ((mobility_attack_mask(b, p) \cap b.black) \ b.white)
                        \cup (({p[1] + 8} \cap Squares) \ b.all)
      [] OTHER -> mobility_attack_mask(b, p) \ b.white

(* Mutant of black_legal_moves: a peon steps onto whatever is ahead.       *)
black_moves_through(b, p) ==
    CASE p[2] \in {BC, BF} -> nsp_table[p[2]][p[1]] \ b.all
      [] p[2] = BP -> nsp_table[BP][p[1]] \ b.black
      [] OTHER -> mobility_attack_mask(b, p) \ b.black

black_legal_moves(b, p) ==
    CASE p[2] \in {BC, BF} -> nsp_table[p[2]][p[1]] \ b.all
      [] p[2] = BP -> ((mobility_attack_mask(b, p) \cap b.white) \ b.black)
                        \cup (({p[1] - 8} \cap Squares) \ b.all)
      [] OTHER -> mobility_attack_mask(b, p) \ b.black

Attacked(b, types) ==
    UNION {mobility_attack_mask(b, p) : p \in PiecesOf(b, types)}
attack_count(b, types, q) ==
    Cardinality({p \in PiecesOf(b, types) : q \in mobility_attack_mask(b, p)})

(* The safe and the unsafe moves of a piece.                               *)
white_moves_worth(b, p) ==
    LET safe == white_legal_moves(b, p) \ Attacked(b, BlackTypes)
        unsafe == white_legal_moves(b, p) \ safe
    IN Times(mobility_reward[p[2] + 1], safe)
         + When(p[2] # WK, Times(immobility_penalty[p[2] + 1], unsafe))
         + When(p[2] = WK /\ unsafe # {} /\ safe = {}, immobility_penalty[WK + 1])

black_moves_worth(b, p) ==
    LET safe == black_legal_moves(b, p) \ Attacked(b, WhiteTypes)
        unsafe == black_legal_moves(b, p) \ safe
    IN Times(mobility_reward[p[2] + 1], safe)
         + When(p[2] # BK, Times(immobility_penalty[p[2] + 1], unsafe))
         + When(p[2] = BK /\ unsafe # {} /\ safe = {}, immobility_penalty[BK + 1])

(* The squares counted as behind a catapult on s.                          *)
white_support_mask(s) == IF s >= 16 THEN {s - 8, s - 7, s - 9} ELSE {}

(* Mutant of black_support_mask: copied from White's.                      *)
black_support_ahead(s) == IF s >= 16 THEN {s - 8, s - 7, s - 9} ELSE {}

black_support_mask(s) == IF s <= 47 THEN {s + 8, s + 7, s + 9} ELSE {}

(* What the last piece of type t could reach, its own colour excepted.     *)
LastMask(b, t, own) ==
    UNION {mobility_attack_mask(b, <<s, t>>) \ own : s \in Msb(b.pieces[t])}

(* The first knight and the last other one.                                *)
knight_masks(b, t) ==
    LET first == Lsb(b.pieces[t])
        mask(S) == UNION {nsp_table[t][s] : s \in S}
    IN <<mask(first), mask(Msb(b.pieces[t] \ first))>>

white_coordination(b) ==
    LET shot == UNION {bishop_attacks(s, {}) : s \in Msb(b.pieces[WC])}
        behind == UNION {white_support_mask(s) : s \in Lsb(b.pieces[WF])}
        wq == LastMask(b, WQ, b.white)
        wr == LastMask(b, WR, b.white)
        wb == LastMask(b, WB, b.white)
        wn == knight_masks(b, WN)
    IN When(shot \cap b.black # {}, Times(BLOCKING_CANON_SHOT, shot \cap b.white))
         + Times(BEHIND_FRIENDLY_CATAPULT, (behind \cap b.white) \ b.pieces[WK])
         + When(wq # {} /\ wr # {},
                IF wq \cap wr \cap b.all = {} THEN QUEEN_ROOK_COORDINATION * 2
                ELSE When(wq \cap wr \cap b.black # {}, QUEEN_ROOK_COORDINATION))
         + When(wq # {} /\ wb # {} /\ wq \cap wb \cap b.white = {},
                QUEEN_BISHOP_COORDINATION)
         + When(wn[1] \cap wn[2] # {}, KNIGHT_ATTACK_COORDINATION)
         + When(Lsb(b.pieces[WN]) \cap wn[2] # {}, KNIGHT_DEFEND_COORDINATION)

black_coordination(b) ==
    LET shot == UNION {bishop_attacks(s, {}) : s \in Msb(b.pieces[BC])}
        behind == UNION {black_support_mask(s) : s \in Lsb(b.pieces[BF])}
        bq == LastMask(b, BQ, b.black)
        br == LastMask(b, BR, b.black)
        bb == LastMask(b, BB, b.black)
        bn == knight_masks(b, BN)
    IN When(shot \cap b.white # {}, Times(BLOCKING_CANON_SHOT, shot \cap b.black))
         + Times(BEHIND_FRIENDLY_CATAPULT, (behind \cap b.black) \ b.pieces[BK])
         + When(bq # {} /\ br # {},
                IF bq \cap br \cap b.all = {} THEN QUEEN_ROOK_COORDINATION * 2
                ELSE When(bq \cap br \cap b.black # {}, QUEEN_ROOK_COORDINATION))
         + When(bq # {} /\ bb # {} /\ bq \cap bb \cap b.black = {},
                QUEEN_BISHOP_COORDINATION)
         + When(bn[1] \cap bn[2] # {}, KNIGHT_ATTACK_COORDINATION)
         + When(Lsb(b.pieces[BN]) \cap bn[2] # {}, KNIGHT_DEFEND_COORDINATION)

(* The balance of attacks over the board counts for both sides, and those  *)
(* on a king for the attacker.                                             *)
control_difference(b) ==
    MapThenSumSet(LAMBDA p : PopCount(mobility_attack_mask(b, p)), PiecesOf(b, WhiteTypes))
      - MapThenSumSet(LAMBDA p : PopCount(mobility_attack_mask(b, p)), PiecesOf(b, BlackTypes))

king_attack(b, king, attackers, defenders) ==
    LET edge(q) == attack_count(b, attackers, q) - attack_count(b, defenders, q)
    IN MapThenSumSet(LAMBDA q : KING_ATTACK_COORDINATION * Max({0, edge(q)}),
                     Lsb(b.pieces[king]))

mobility_score(b, color) ==
    (MapThenSumSet(LAMBDA p : white_moves_worth(b, p), PiecesOf(b, WhiteTypes))
       + white_coordination(b)
       + CONTROLLING_SQUARES * control_difference(b)
       + king_attack(b, BK, WhiteTypes, BlackTypes)
       - MapThenSumSet(LAMBDA p : black_moves_worth(b, p), PiecesOf(b, BlackTypes))
       - black_coordination(b)
       + CONTROLLING_SQUARES * control_difference(b)
       - king_attack(b, WK, BlackTypes, WhiteTypes)) * color

-----------------------------------------------------------------------------
(* The board seen from the other side of the table: rows turned over and   *)
(* colours swapped.                                                        *)
Flip(S) == {SquareAt(7 - RowOf(s), ColOf(s)) : s \in S}

Mirror(b) ==
    [turn |-> Opponent(b.turn), num_moves |-> b.num_moves,
     pieces |-> [t \in Types |->
         Flip(b.pieces[IF t \in WhiteTypes THEN t + 1 ELSE t - 1])],
     white |-> Flip(b.black), black |-> Flip(b.white), all |-> Flip(b.all)]

(* A score is relative to the side to move, as the doc comment of every    *)
(* heuristic says: mirrored, a board is worth to Black what it was worth   *)
(* to White, although each heuristic is written once per colour, with its  *)
(* own shifts, rows and bounds.  Mobility is excepted while a side has     *)
(* both a queen and a rook: mobility_eval.c:453 rewards Black for its own  *)
(* pieces in the shared path where line 342 rewards White for the enemy's; *)
(* and while a catapult stands on an edge column, where the support behind *)
(* it wraps round the board, otherwise for White (line 326) than for Black *)
(* (line 438).                                                             *)
MirrorFair ==
    LET m == Mirror(board)
        Paired(q, r) == board.pieces[q] # {} /\ board.pieces[r] # {}
        Inland(t) == \A s \in board.pieces[t] : ColOf(s) \in 1 .. 6
    IN \A color \in Sides :
        /\ material_score(m, -color) = material_score(board, color)
        /\ peon_structure_score(m, -color) = peon_structure_score(board, color)
        /\ king_safety_score(m, -color) = king_safety_score(board, color)
        /\ piece_safety_score(m, -color) = piece_safety_score(board, color)
        /\ ~Paired(WQ, WR) /\ ~Paired(BQ, BR) /\ Inland(WF) /\ Inland(BF) =>
               mobility_score(m, -color) = mobility_score(board, color)

ToMove(b, turn) == [b EXCEPT !.turn = turn]
SideOf(turn) == IF turn = "w" THEN 1 ELSE -1

(* The engine's test for check, which never generates a move, is exact: a  *)
(* king is in check if and only if the other side, to move, has a move, a  *)
(* fling or a shot after which the king is gone.                           *)
CheckIsExact ==
    BothKingsStand =>
        \A turn \in {"w", "b"} :
            is_king_in_check(board, SideOf(turn)) <=>
                \E b \in gen_chezz_boards(ToMove(board, Opponent(turn))) :
                    ~is_king_alive(b, SideOf(turn))

(* What the evaluation calls an attack can be carried out: if an enemy     *)
(* stands in the attack mask of a piece (piece_safety_eval.c), the side of *)
(* that piece, to move, has a board on which the enemy is gone.            *)
ThreatsAreReal ==
    \A turn \in {"w", "b"} :
        LET b == ToMove(board, turn)
        IN \A p \in PiecesOf(b, TypesOf(turn)) :
            \A e \in PiecesOf(b, TypesOf(Opponent(turn))) :
                e[1] \in AttackMask(b, p) =>
                    \E c \in BoardsOf(b, p[1], p[2]) : e[1] \notin c.pieces[e[2]]

(* The moves mobility counts are the moves the generator makes: for every  *)
(* piece, legal_moves is where the generator moves it (flings and shots    *)
(* aside), though the two are computed apart.                              *)
MobilityCountsMoves ==
    \A turn \in {"w", "b"} :
        LET b == ToMove(board, turn)
            legal(p) == IF turn = "w" THEN white_legal_moves(b, p)
                        ELSE black_legal_moves(b, p)
            targets(p) == IF p[2] \in {WP, BP}
                          THEN PeonSteps(b, p[1], p[2]) \cup PeonCaptures(b, p[1], p[2])
                          ELSE PseudoMoves(b, p[1], p[2])
        IN \A p \in PiecesOf(b, TypesOf(turn)) : legal(p) = targets(p)
=============================================================================
