------------------------- MODULE ChezzEngine_proofs --------------------------
(***************************************************************************)
(* Proofs about the engine's boards, for any consistent starting boards    *)
(* and games of any length.                                                *)
(*                                                                         *)
(* The board keeps its shape, no square holds two pieces, the combined     *)
(* sets stay in step with the eighteen piece sets, and no peon rests on    *)
(* the row where it becomes a zombie.  For every square and set of         *)
(* blockers, the masked lookups of ChezzBoard are walks along the lines.   *)
(* The generator lists the moves of the rules, and its games implement the *)
(* game of ChezzRules.                                                     *)
(*                                                                         *)
(* Then what the rest of the engine makes of a board.  The generator for   *)
(* the page: the boards it lists, the keys it gives them and the events    *)
(* that tell them.  The evaluation: the moves mobility counts, the threats *)
(* of the safety score, and the test for check.  The text of a board,      *)
(* printed and read back.  Last the attack tables (ChezzMagic), for any    *)
(* hash: a number the search keeps, with whatever collisions, makes a      *)
(* table in which every lookup is a walk, in the process that made it and  *)
(* in those that read it back.                                             *)
(***************************************************************************)
EXTENDS ChezzActions, ChezzEval, ChezzWire, ChezzMagic, TLAPS, FiniteSetTheorems,
        WellFoundedInduction

-----------------------------------------------------------------------------
(* Consistency square by square, as the provers like it.                   *)
Once(pieces) ==
    \A s \in Squares : \A t, u \in Types : s \in pieces[t] /\ s \in pieces[u] => t = u

Tells(pieces, S, types) ==
    \A s \in Squares : s \in S <=> \E t \in types : s \in pieces[t]

Sound(b) ==
    /\ b \in Chezzboard
    /\ Once(b.pieces)
    /\ Tells(b.pieces, b.white, WhiteTypes)
    /\ Tells(b.pieces, b.black, BlackTypes)
    /\ b.all = b.white \cup b.black

LEMMA TypeFacts ==
    /\ \A t : t \in Types <=> t \in WhiteTypes \/ t \in BlackTypes
    /\ \A t : ~(t \in WhiteTypes /\ t \in BlackTypes)
    /\ {WP, WN, WB, WR, WQ, WK, WZ, WF, WC} = WhiteTypes
    /\ {BP, BN, BB, BR, BQ, BK, BZ, BF, BC} = BlackTypes
  BY DEF Types, WhiteTypes, BlackTypes, WP, WN, WB, WR, WQ, WK, WZ, WF, WC,
         BP, BN, BB, BR, BQ, BK, BZ, BF, BC

LEMMA BoardFields ==
    ASSUME NEW b \in Chezzboard
    PROVE  /\ b.turn \in {"w", "b"} /\ b.num_moves \in Nat
           /\ b.pieces \in [Types -> SUBSET Squares]
           /\ b.white \subseteq Squares /\ b.black \subseteq Squares
           /\ b.all \subseteq Squares
  BY DEF Chezzboard

LEMMA SoundIsConsistent ==
    ASSUME NEW b \in Chezzboard
    PROVE  Sound(b) <=> Consistent(b)
  <1>0. /\ b.pieces \in [Types -> SUBSET Squares]
        /\ b.white \subseteq Squares /\ b.black \subseteq Squares
    BY BoardFields
  <1>1. Once(b.pieces) <=> \A t, u \in Types : t # u => b.pieces[t] \cap b.pieces[u] = {}
    BY <1>0 DEF Once
  <1>2. Tells(b.pieces, b.white, WhiteTypes) <=> b.white = Placed(b, WhiteTypes)
    BY <1>0 DEF Tells, Placed
  <1>3. Tells(b.pieces, b.black, BlackTypes) <=> b.black = Placed(b, BlackTypes)
    BY <1>0 DEF Tells, Placed
  <1> QED
    BY <1>1, <1>2, <1>3 DEF Sound, Consistent

-----------------------------------------------------------------------------
(* The steps of the generator, field by field.                             *)
IsMoved(c, b, t, from, to) ==
    /\ c \in Chezzboard /\ c.turn = b.turn
    /\ \A u \in Types : c.pieces[u] = IF u = t THEN (b.pieces[t] \ {from}) \cup {to}
                                      ELSE b.pieces[u]
    /\ c.white = IF b.turn = "w" THEN Xor(b.white, {from, to}) ELSE b.white
    /\ c.black = IF b.turn = "w" THEN b.black ELSE Xor(b.black, {from, to})
    /\ c.all = Xor(b.all, {from, to})

LEMMA MoveFields ==
    ASSUME NEW b \in Chezzboard, NEW t \in Types, NEW from \in Squares, NEW to \in Squares
    PROVE  IsMoved(move_piece(b, t, from, to), b, t, from, to)
  <1> DEFINE c == move_piece(b, t, from, to)
  <1> DEFINE pieces == [b.pieces EXCEPT ![t] = (@ \ {from}) \cup {to}]
             white == IF b.turn = "w" THEN Xor(b.white, {from, to}) ELSE b.white
             black == IF b.turn = "w" THEN b.black ELSE Xor(b.black, {from, to})
             all == Xor(b.all, {from, to})
  <1>0. /\ b.pieces \in [Types -> SUBSET Squares]
        /\ b.white \subseteq Squares /\ b.black \subseteq Squares
        /\ b.all \subseteq Squares /\ b.turn \in {"w", "b"}
    BY BoardFields
  <1>1. /\ pieces \in [Types -> SUBSET Squares]
        /\ white \subseteq Squares /\ black \subseteq Squares /\ all \subseteq Squares
    BY <1>0 DEF Xor
  <1>2. c = [b EXCEPT !.pieces = pieces, !.white = white, !.black = black, !.all = all]
    BY DEF move_piece, Chezzboard
  <1> HIDE DEF pieces, white, black, all, c
  <1>3. /\ c \in Chezzboard /\ c.turn = b.turn /\ c.pieces = pieces
        /\ c.white = white /\ c.black = black /\ c.all = all
    BY <1>1, <1>2 DEF Chezzboard
  <1>4. \A u \in Types : pieces[u] = IF u = t THEN (b.pieces[t] \ {from}) \cup {to}
                                      ELSE b.pieces[u]
    BY <1>0 DEF pieces
  <1> QED
    BY <1>3, <1>4 DEF IsMoved, c, white, black, all

LEMMA CaptureFields ==
    ASSUME NEW b \in Chezzboard, NEW S
    PROVE  LET c == CaptureAll(b, S)
           IN /\ c \in Chezzboard /\ c.turn = b.turn
              /\ \A u \in Types : c.pieces[u] =
                     b.pieces[u] \ {q \in S : \A v \in Types : v < u => q \notin b.pieces[v]}
              /\ c.white = b.white \ S /\ c.black = b.black \ S /\ c.all = b.all \ S
  <1> DEFINE pieces == [t \in Types |->
                  b.pieces[t] \ {q \in S : \A u \in Types : u < t => q \notin b.pieces[u]}]
             c == CaptureAll(b, S)
  <1>0. /\ b.pieces \in [Types -> SUBSET Squares]
        /\ b.white \subseteq Squares /\ b.black \subseteq Squares
        /\ b.all \subseteq Squares
    BY BoardFields
  <1>1. pieces \in [Types -> SUBSET Squares]
    BY <1>0
  <1>2. c = [b EXCEPT !.pieces = pieces, !.white = b.white \ S, !.black = b.black \ S,
                      !.all = b.all \ S]
    BY DEF CaptureAll, Chezzboard
  <1>4. \A u \in Types : pieces[u] =
            b.pieces[u] \ {q \in S : \A v \in Types : v < u => q \notin b.pieces[v]}
    OBVIOUS
  <1> HIDE DEF pieces, c
  <1>3. /\ c \in Chezzboard /\ c.turn = b.turn /\ c.pieces = pieces
        /\ c.white = b.white \ S /\ c.black = b.black \ S /\ c.all = b.all \ S
    BY <1>0, <1>1, <1>2 DEF Chezzboard
  <1> QED
    BY <1>3, <1>4 DEF c

(* capture_piece is the case of one victim.                                *)
LEMMA CaptureOne ==
    ASSUME NEW b \in Chezzboard, NEW target
    PROVE  capture_piece(b, target) = CaptureAll(b, {target})
  <1>1. \A t \in Types :
            (IF /\ target \in b.pieces[t]
                /\ \A u \in Types : u < t => target \notin b.pieces[u]
             THEN b.pieces[t] \ {target} ELSE b.pieces[t]) =
            b.pieces[t] \ {q \in {target} : \A u \in Types : u < t => q \notin b.pieces[u]}
    BY BoardFields
  <1> QED
    BY <1>1, Zenon DEF capture_piece, CaptureAll
-----------------------------------------------------------------------------
(* Each step keeps the board sound.                                        *)
LEMMA OneColor ==
    ASSUME NEW b, Sound(b)
    PROVE  ~ \E s : s \in b.white /\ s \in b.black
  <1> SUFFICES ASSUME NEW s \in Squares, s \in b.white, s \in b.black PROVE FALSE
    BY BoardFields DEF Sound
  <1>1. PICK t \in WhiteTypes : s \in b.pieces[t]
    BY DEF Sound, Tells
  <1>2. PICK u \in BlackTypes : s \in b.pieces[u]
    BY DEF Sound, Tells
  <1> QED
    BY <1>1, <1>2, TypeFacts DEF Sound, Once

LEMMA MoveSound ==
    ASSUME NEW b, Sound(b), NEW t \in TypesOf(b.turn), NEW from \in Squares, NEW to \in Squares,
           from \in b.pieces[t], to \notin b.all
    PROVE  Sound(move_piece(b, t, from, to))
  <1> DEFINE c == move_piece(b, t, from, to)
  <1> HIDE DEF c
  <1>0. b \in Chezzboard /\ t \in Types /\ b.turn \in {"w", "b"}
    BY TypeFacts, BoardFields DEF Sound, TypesOf
  <1>1m. IsMoved(c, b, t, from, to)
    BY <1>0, MoveFields DEF c
  <1>1. /\ c \in Chezzboard /\ c.turn = b.turn
        /\ \A u \in Types : c.pieces[u] = IF u = t THEN (b.pieces[t] \ {from}) \cup {to}
                                          ELSE b.pieces[u]
        /\ c.white = IF b.turn = "w" THEN Xor(b.white, {from, to}) ELSE b.white
        /\ c.black = IF b.turn = "w" THEN b.black ELSE Xor(b.black, {from, to})
        /\ c.all = Xor(b.all, {from, to})
    BY <1>1m DEF IsMoved
  <1>2. /\ from \in Friendly(b) /\ from \in b.all /\ from # to
        /\ to \notin b.white /\ to \notin b.black
        /\ \A u \in Types : to \notin b.pieces[u]
        /\ \A u \in Types : from \in b.pieces[u] => u = t
    BY <1>0, TypeFacts DEF Sound, Tells, Once, Friendly, TypesOf
  <1>3. Once(c.pieces)
    BY <1>0, <1>1, <1>2 DEF Sound, Once
  <1>4. CASE b.turn = "w"
    <2>1. t \in WhiteTypes /\ from \in b.white /\ from \notin b.black
      BY <1>2, <1>4, OneColor DEF TypesOf, Friendly
    <2>2. c.white = (b.white \ {from}) \cup {to} /\ c.black = b.black
      BY <1>1, <1>2, <1>4, <2>1 DEF Xor
    <2>3. Tells(c.pieces, c.white, WhiteTypes)
      BY <1>0, <1>1, <1>2, <2>1, <2>2, TypeFacts DEF Sound, Tells
    <2>4. Tells(c.pieces, c.black, BlackTypes)
      BY <1>0, <1>1, <1>2, <2>1, <2>2, TypeFacts DEF Sound, Tells
    <2>5. c.all = c.white \cup c.black
      BY <1>1, <1>2, <2>1, <2>2 DEF Sound, Xor
    <2> QED
      BY <1>1, <1>3, <2>3, <2>4, <2>5 DEF Sound, c
  <1>5. CASE b.turn = "b"
    <2>1. t \in BlackTypes /\ from \in b.black /\ from \notin b.white
      BY <1>2, <1>5, OneColor DEF TypesOf, Friendly
    <2>2. c.black = (b.black \ {from}) \cup {to} /\ c.white = b.white
      BY <1>1, <1>2, <1>5, <2>1 DEF Xor
    <2>3. Tells(c.pieces, c.white, WhiteTypes)
      BY <1>0, <1>1, <1>2, <2>1, <2>2, TypeFacts DEF Sound, Tells
    <2>4. Tells(c.pieces, c.black, BlackTypes)
      BY <1>0, <1>1, <1>2, <2>1, <2>2, TypeFacts DEF Sound, Tells
    <2>5. c.all = c.white \cup c.black
      BY <1>1, <1>2, <2>1, <2>2 DEF Sound, Xor
    <2> QED
      BY <1>1, <1>3, <2>3, <2>4, <2>5 DEF Sound, c
  <1> QED
    BY <1>0, <1>4, <1>5

LEMMA CaptureSound ==
    ASSUME NEW b, Sound(b), NEW S
    PROVE  LET c == CaptureAll(b, S)
           IN /\ Sound(c) /\ c.turn = b.turn
              /\ \A u \in Types : c.pieces[u] = b.pieces[u] \ S
              /\ c.white = b.white \ S /\ c.black = b.black \ S /\ c.all = b.all \ S
  <1> DEFINE c == CaptureAll(b, S)
  <1>0. b \in Chezzboard /\ b.pieces \in [Types -> SUBSET Squares]
    BY BoardFields DEF Sound
  <1>1. /\ c \in Chezzboard /\ c.turn = b.turn
        /\ \A u \in Types : c.pieces[u] =
               b.pieces[u] \ {q \in S : \A v \in Types : v < u => q \notin b.pieces[v]}
        /\ c.white = b.white \ S /\ c.black = b.black \ S /\ c.all = b.all \ S
    BY <1>0, CaptureFields
  <1> HIDE DEF c
  <1>2. \A u \in Types : \A q \in b.pieces[u] : \A v \in Types : v < u => q \notin b.pieces[v]
    BY <1>0 DEF Sound, Once, Types
  <1>3. \A u \in Types : c.pieces[u] = b.pieces[u] \ S
    BY <1>1, <1>2
  <1>4. Once(c.pieces)
    BY <1>3 DEF Sound, Once
  <1>5. Tells(c.pieces, c.white, WhiteTypes) /\ Tells(c.pieces, c.black, BlackTypes)
    BY <1>1, <1>3, TypeFacts DEF Sound, Tells
  <1>6. c.all = c.white \cup c.black
    BY <1>1 DEF Sound
  <1> QED
    BY <1>1, <1>3, <1>4, <1>5, <1>6 DEF Sound, c

(* Contagion and promotion only take peons away.                           *)
FewerPeons(c, b) == c.pieces[WP] \subseteq b.pieces[WP] /\ c.pieces[BP] \subseteq b.pieces[BP]

LEMMA InfectFields ==
    ASSUME NEW b \in Chezzboard, NEW mask \in SUBSET Squares
    PROVE  /\ infect(b, mask) \in Chezzboard /\ infect(b, mask).turn = b.turn
           /\ \A t \in Types : infect(b, mask).pieces[t] =
                  IF t = IF b.turn = "w" THEN WZ ELSE BZ THEN b.pieces[t] \cup mask
                  ELSE IF t \in TypesOf(Opponent(b.turn)) /\ t \notin {WK, BK, WZ, BZ}
                       THEN b.pieces[t] \ mask ELSE b.pieces[t]
           /\ infect(b, mask).white = IF b.turn = "w" THEN b.white \cup mask ELSE b.white \ mask
           /\ infect(b, mask).black = IF b.turn = "w" THEN b.black \ mask ELSE b.black \cup mask
           /\ infect(b, mask).all = infect(b, mask).white \cup infect(b, mask).black
  <1> DEFINE c == infect(b, mask)
             mine == IF b.turn = "w" THEN WZ ELSE BZ
             white == IF b.turn = "w" THEN b.white \cup mask ELSE b.white \ mask
             black == IF b.turn = "w" THEN b.black \ mask ELSE b.black \cup mask
             lost(t) == t \in TypesOf(Opponent(b.turn)) /\ t \notin {WK, BK, WZ, BZ}
             pieces == [t \in Types |->
                            IF t = mine THEN b.pieces[t] \cup mask
                            ELSE IF lost(t) THEN b.pieces[t] \ mask ELSE b.pieces[t]]
  <1>0. /\ b.pieces \in [Types -> SUBSET Squares]
        /\ b.white \subseteq Squares /\ b.black \subseteq Squares
        /\ b.all \subseteq Squares /\ b.turn \in {"w", "b"}
    BY BoardFields
  <1>1. /\ pieces \in [Types -> SUBSET Squares]
        /\ white \subseteq Squares /\ black \subseteq Squares
    BY <1>0
  <1>2. c = [b EXCEPT !.pieces = pieces, !.white = white, !.black = black,
                      !.all = white \cup black]
    BY DEF infect
  <1>4. \A t \in Types : pieces[t] =
            IF t = mine THEN b.pieces[t] \cup mask
            ELSE IF lost(t) THEN b.pieces[t] \ mask ELSE b.pieces[t]
    OBVIOUS
  <1> HIDE DEF pieces, white, black, c
  <1>3. /\ c \in Chezzboard /\ c.turn = b.turn /\ c.pieces = pieces
        /\ c.white = white /\ c.black = black /\ c.all = white \cup black
    BY <1>1, <1>2 DEF Chezzboard
  <1> QED
    BY <1>3, <1>4 DEF c, white, black

LEMMA ContagionSound ==
    ASSUME NEW b, Sound(b)
    PROVE  /\ Sound(handle_contagion(b)) /\ handle_contagion(b).turn = b.turn
           /\ FewerPeons(handle_contagion(b), b)
  <1> DEFINE mask == contagion_mask(b)
             c == infect(b, mask)
             mine == IF b.turn = "w" THEN WZ ELSE BZ
  <1>0. b \in Chezzboard /\ b.turn \in {"w", "b"}
    BY BoardFields DEF Sound
  <1>1. /\ mask \subseteq Squares /\ mask \subseteq Enemy(b)
        /\ b.turn = "w" => mask \cap (b.pieces[BK] \cup b.pieces[BZ]) = {}
        /\ b.turn = "b" => mask \cap (b.pieces[WK] \cup b.pieces[WZ]) = {}
    BY <1>0 DEF contagion_mask
  <1> HIDE DEF mask
  <1>2. /\ c \in Chezzboard /\ c.turn = b.turn
        /\ \A t \in Types : c.pieces[t] =
               IF t = mine THEN b.pieces[t] \cup mask
               ELSE IF t \in TypesOf(Opponent(b.turn)) /\ t \notin {WK, BK, WZ, BZ}
                    THEN b.pieces[t] \ mask ELSE b.pieces[t]
        /\ c.white = IF b.turn = "w" THEN b.white \cup mask ELSE b.white \ mask
        /\ c.black = IF b.turn = "w" THEN b.black \ mask ELSE b.black \cup mask
        /\ c.all = c.white \cup c.black
    BY <1>0, <1>1, InfectFields
  <1>5. handle_contagion(b) = IF mask = {} THEN b ELSE c
    BY DEF handle_contagion, mask, c
  <1> HIDE DEF c
  <1>3. CASE b.turn = "w"
    <2>1. /\ \A t \in WhiteTypes : c.pieces[t] = IF t = WZ THEN b.pieces[t] \cup mask
                                                 ELSE b.pieces[t]
          /\ \A t \in BlackTypes : c.pieces[t] = IF t \notin {BK, BZ} THEN b.pieces[t] \ mask
                                                 ELSE b.pieces[t]
      BY <1>2, <1>3, TypeFacts DEF TypesOf, Opponent, WK, WZ, BK, BZ, WhiteTypes, BlackTypes, Types
    <2>2a. \A s \in mask : s \in Squares /\ s \notin b.white
      BY <1>1, <1>3, OneColor DEF Enemy
    <2>2b. \A s \in mask : \A t \in WhiteTypes : s \notin b.pieces[t]
      BY <2>2a DEF Sound, Tells
    <2>2c. \A s \in mask : \A t \in BlackTypes : s \notin c.pieces[t]
      BY <1>1, <1>3, <2>1
    <2>3. \A s \in Squares \ mask : \A t \in Types : s \in c.pieces[t] <=> s \in b.pieces[t]
      BY <2>1, TypeFacts
    <2>4a. \A s \in mask : \A t \in WhiteTypes : s \in c.pieces[t] <=> t = WZ
      BY <2>1, <2>2b
    <2>4b. WZ \in WhiteTypes
      BY TypeFacts
    <2>4. \A s \in mask : \A t \in Types : s \in c.pieces[t] <=> t = WZ
      BY <2>4a, <2>4b, <2>2c, TypeFacts
    <2>5. Once(c.pieces)
      BY <2>3, <2>4 DEF Sound, Once
    <2>6. Tells(c.pieces, c.white, WhiteTypes)
      BY <1>2, <1>3, <2>3, <2>4, TypeFacts DEF Sound, Tells
    <2>7. Tells(c.pieces, c.black, BlackTypes)
      BY <1>2, <1>3, <2>3, <2>4, TypeFacts DEF Sound, Tells
    <2>8. FewerPeons(c, b)
      BY <2>1, TypeFacts DEF FewerPeons, WP, BP, WZ, BK, BZ, WhiteTypes, BlackTypes
    <2> QED
      BY <1>2, <1>5, <2>5, <2>6, <2>7, <2>8 DEF Sound, FewerPeons
  <1>4. CASE b.turn = "b"
    <2>1. /\ \A t \in BlackTypes : c.pieces[t] = IF t = BZ THEN b.pieces[t] \cup mask
                                                 ELSE b.pieces[t]
          /\ \A t \in WhiteTypes : c.pieces[t] = IF t \notin {WK, WZ} THEN b.pieces[t] \ mask
                                                 ELSE b.pieces[t]
      BY <1>2, <1>4, TypeFacts DEF TypesOf, Opponent, WK, WZ, BK, BZ, WhiteTypes, BlackTypes, Types
    <2>2a. \A s \in mask : s \in Squares /\ s \notin b.black
      BY <1>1, <1>4, OneColor DEF Enemy
    <2>2b. \A s \in mask : \A t \in BlackTypes : s \notin b.pieces[t]
      BY <2>2a DEF Sound, Tells
    <2>2c. \A s \in mask : \A t \in WhiteTypes : s \notin c.pieces[t]
      BY <1>1, <1>4, <2>1
    <2>3. \A s \in Squares \ mask : \A t \in Types : s \in c.pieces[t] <=> s \in b.pieces[t]
      <3>1. \A s \in Squares \ mask : \A t \in WhiteTypes : s \in c.pieces[t] <=> s \in b.pieces[t]
        BY <2>1
      <3>2. \A s \in Squares \ mask : \A t \in BlackTypes : s \in c.pieces[t] <=> s \in b.pieces[t]
        BY <2>1
      <3> QED
        BY <3>1, <3>2, TypeFacts
    <2>4a. \A s \in mask : \A t \in BlackTypes : s \in c.pieces[t] <=> t = BZ
      BY <2>1, <2>2b
    <2>4b. BZ \in BlackTypes
      BY TypeFacts
    <2>4. \A s \in mask : \A t \in Types : s \in c.pieces[t] <=> t = BZ
      BY <2>4a, <2>4b, <2>2c, TypeFacts
    <2>5. Once(c.pieces)
      BY <2>3, <2>4 DEF Sound, Once
    <2>6. Tells(c.pieces, c.white, WhiteTypes)
      BY <1>2, <1>4, <2>3, <2>4, TypeFacts DEF Sound, Tells
    <2>7. Tells(c.pieces, c.black, BlackTypes)
      BY <1>2, <1>4, <2>3, <2>4, TypeFacts DEF Sound, Tells
    <2>8. FewerPeons(c, b)
      BY <2>1, TypeFacts DEF FewerPeons, WP, BP, BZ, WK, WZ, WhiteTypes, BlackTypes
    <2> QED
      BY <1>2, <1>5, <2>5, <2>6, <2>7, <2>8 DEF Sound, FewerPeons
  <1> QED
    BY <1>0, <1>3, <1>4

LEMMA PromoteSound ==
    ASSUME NEW b, Sound(b)
    PROVE  /\ Sound(promote_peons(b)) /\ promote_peons(b).turn = b.turn
           /\ FewerPeons(promote_peons(b), b)
           /\ b.turn = "w" => \A s \in promote_peons(b).pieces[WP] : RowOf(s) # 7
           /\ b.turn = "b" => \A s \in promote_peons(b).pieces[BP] : RowOf(s) # 0
  <1> DEFINE c == promote_peons(b)
             risen == IF b.turn = "w" THEN {s \in b.pieces[WP] : RowOf(s) = 7}
                      ELSE {s \in b.pieces[BP] : RowOf(s) = 0}
             P == IF b.turn = "w" THEN WP ELSE BP
             Z == IF b.turn = "w" THEN WZ ELSE BZ
             pieces == [b.pieces EXCEPT ![P] = @ \ risen, ![Z] = @ \cup risen]
  <1>0. /\ b \in Chezzboard /\ b.turn \in {"w", "b"}
        /\ b.pieces \in [Types -> SUBSET Squares]
    BY BoardFields DEF Sound
  <1>1. c = [b EXCEPT !.pieces = pieces]
    BY <1>0 DEF promote_peons, Chezzboard
  <1>2. /\ P \in Types /\ Z \in Types /\ P # Z
        /\ P \in WhiteTypes <=> Z \in WhiteTypes
        /\ P \in BlackTypes <=> Z \in BlackTypes
    BY DEF Types, WhiteTypes, BlackTypes, WP, WZ, BP, BZ
  <1>3. risen \subseteq b.pieces[P]
    OBVIOUS
  <1> HIDE DEF P, Z, risen
  <1>4. /\ pieces \in [Types -> SUBSET Squares]
        /\ \A t \in Types : pieces[t] = IF t = P THEN b.pieces[P] \ risen
                                        ELSE IF t = Z THEN b.pieces[Z] \cup risen
                                        ELSE b.pieces[t]
    BY <1>0, <1>2, <1>3
  <1> HIDE DEF pieces, c
  <1>5. /\ c \in Chezzboard /\ c.turn = b.turn /\ c.pieces = pieces
        /\ c.white = b.white /\ c.black = b.black /\ c.all = b.all
    BY <1>0, <1>1, <1>4 DEF Chezzboard
  <1>6. \A s \in Squares \ risen : \A t \in Types : s \in pieces[t] <=> s \in b.pieces[t]
    BY <1>2, <1>4
  <1>7. \A s \in risen : \A t \in Types : s \in pieces[t] <=> t = Z
    BY <1>0, <1>2, <1>3, <1>4 DEF Sound, Once
  <1>8. Once(pieces)
    BY <1>6, <1>7 DEF Sound, Once
  <1>9. Tells(pieces, b.white, WhiteTypes)
    BY <1>0, <1>2, <1>3, <1>6, <1>7, TypeFacts DEF Sound, Tells, Once
  <1>10. Tells(pieces, b.black, BlackTypes)
    BY <1>0, <1>2, <1>3, <1>6, <1>7, TypeFacts DEF Sound, Tells, Once
  <1>11. Sound(c)
    BY <1>5, <1>8, <1>9, <1>10 DEF Sound
  <1>12. FewerPeons(c, b)
    BY <1>4, <1>5 DEF FewerPeons, P, Z, Types, WP, WZ, BP, BZ
  <1>13. b.turn = "w" => \A s \in c.pieces[WP] : RowOf(s) # 7
    BY <1>2, <1>4, <1>5 DEF P, risen
  <1>14. b.turn = "b" => \A s \in c.pieces[BP] : RowOf(s) # 0
    BY <1>2, <1>4, <1>5 DEF P, risen
  <1> QED
    BY <1>5, <1>11, <1>12, <1>13, <1>14 DEF c

LEMMA AddBoardSound ==
    ASSUME NEW b, Sound(b)
    PROVE  Sound(add_board(b)) /\ add_board(b).pieces = b.pieces
  <1>0. b \in Chezzboard /\ b.turn \in {"w", "b"} /\ b.num_moves \in Nat
    BY BoardFields DEF Sound
  <1>1. add_board(b) = [b EXCEPT !.num_moves = b.num_moves + 1, !.turn = Opponent(b.turn)]
    BY <1>0 DEF add_board, Chezzboard
  <1> DEFINE c == add_board(b)
  <1> HIDE DEF c
  <1>1a. c = [b EXCEPT !.num_moves = b.num_moves + 1, !.turn = Opponent(b.turn)]
    BY <1>1 DEF c
  <1>1b. Opponent(b.turn) \in {"w", "b"} /\ b.num_moves + 1 \in Nat
    BY <1>0 DEF Opponent
  <1>2. /\ c \in Chezzboard /\ c.pieces = b.pieces
        /\ c.white = b.white /\ c.black = b.black /\ c.all = b.all
    BY <1>0, <1>1a, <1>1b DEF Chezzboard
  <1> QED
    BY <1>2 DEF Sound, c

(***************************************************************************)
(* What every board of the generator goes through at the end.  The mover   *)
(* may stand with a peon on its last row only where promotion is checked;  *)
(* the other side never does.                                              *)
(***************************************************************************)
Good(b) == Sound(b) /\ NoPeonOnLastRow(b)

OthersOffLastRow(b) ==
    /\ b.turn = "w" => \A s \in b.pieces[BP] : RowOf(s) # 0
    /\ b.turn = "b" => \A s \in b.pieces[WP] : RowOf(s) # 7

LEMMA SettleGood ==
    ASSUME NEW c, Sound(c), OthersOffLastRow(c), NEW promotes \in BOOLEAN,
           ~promotes => NoPeonOnLastRow(c)
    PROVE  Good(Settle(c, promotes))
  <1> DEFINE d == handle_contagion(c)
             e == promote_peons(d)
  <1>0. c.turn \in {"w", "b"}
    BY BoardFields DEF Sound
  <1>1. Sound(d) /\ d.turn = c.turn /\ FewerPeons(d, c)
    BY ContagionSound
  <1>2. OthersOffLastRow(d)
    BY <1>1 DEF OthersOffLastRow, FewerPeons
  <1> HIDE DEF d
  <1>3. CASE promotes
    <2>1. /\ Sound(e) /\ e.turn = d.turn /\ FewerPeons(e, d)
          /\ d.turn = "w" => \A s \in e.pieces[WP] : RowOf(s) # 7
          /\ d.turn = "b" => \A s \in e.pieces[BP] : RowOf(s) # 0
      BY <1>1, PromoteSound
    <2> HIDE DEF e
    <2>2. NoPeonOnLastRow(e)
      BY <1>0, <1>1, <1>2, <2>1 DEF OthersOffLastRow, FewerPeons, NoPeonOnLastRow
    <2>3. Sound(add_board(e)) /\ add_board(e).pieces = e.pieces
      BY <2>1, AddBoardSound
    <2>4. Settle(c, promotes) = add_board(e)
      BY <1>3 DEF Settle, d, e
    <2> QED
      BY <2>2, <2>3, <2>4 DEF Good, NoPeonOnLastRow
  <1>4. CASE ~promotes
    <2>1. NoPeonOnLastRow(d)
      BY <1>1, <1>4 DEF NoPeonOnLastRow, FewerPeons
    <2>2. Sound(add_board(d)) /\ add_board(d).pieces = d.pieces
      BY <1>1, AddBoardSound
    <2>3. Settle(c, promotes) = add_board(d)
      BY <1>4 DEF Settle, d
    <2> QED
      BY <2>1, <2>2, <2>3 DEF Good, NoPeonOnLastRow
  <1> QED
    BY <1>3, <1>4

-----------------------------------------------------------------------------
(* Attacks stay on the board.                                              *)
LEMMA RaysOnBoard ==
    \A s \in Squares : \A d \in Directions : Ray[s][d] \subseteq Squares
  BY DEF Ray

LEMMA AttacksOnBoard ==
    ASSUME NEW s \in Squares, NEW B
    PROVE  bishop_attacks(s, B) \subseteq Squares /\ rook_attacks(s, B) \subseteq Squares
  <1>1. Diagonals \subseteq Directions /\ Straights \subseteq Directions
    BY DEF Directions
  <1>2. \A dirs : dirs \subseteq Directions => \A C : Walk(s, dirs, C) \subseteq Squares
    BY RaysOnBoard DEF Walk
  <1> QED
    BY <1>1, <1>2 DEF bishop_attacks, rook_attacks, gen_bishop_attacks, gen_rook_attacks

LEMMA TableOnBoard ==
    ASSUME NEW t \in Types, NEW s \in Squares
    PROVE  nsp_table[t][s] \subseteq Squares
  <1>1. \A o : Reach(s, o) \subseteq Squares
    BY DEF Reach
  <1>2. /\ \A d : gen_peon_mask(s, d) \subseteq Squares
        /\ gen_knight_mask(s) \subseteq Squares /\ gen_king_mask(s) \subseteq Squares
        /\ gen_zombie_mask(s) \subseteq Squares /\ gen_catapult_mask(s) \subseteq Squares
        /\ gen_canon_mask(s) \subseteq Squares
    BY <1>1 DEF gen_peon_mask, gen_knight_mask, gen_king_mask, gen_zombie_mask,
                gen_catapult_mask, gen_canon_mask
  <1> DEFINE entry == CASE t = WP         -> gen_peon_mask(s, 1)
                        [] t = BP         -> gen_peon_mask(s, -1)
                        [] t \in {WN, BN} -> gen_knight_mask(s)
                        [] t \in {WK, BK} -> gen_king_mask(s)
                        [] t \in {WZ, BZ} -> gen_zombie_mask(s)
                        [] t \in {WF, BF} -> gen_catapult_mask(s)
                        [] t \in {WC, BC} -> gen_canon_mask(s)
                        [] OTHER          -> {}
  <1>3. nsp_table[t][s] = entry
    BY DEF nsp_table
  <1>4. entry \subseteq Squares
    BY <1>2 DEF WP, BP, WN, BN, WK, BK, WZ, BZ, WF, BF, WC, BC
  <1> QED
    BY <1>3, <1>4

LEMMA PseudoMovesOnBoard ==
    ASSUME NEW b, NEW s \in Squares, NEW t \in Types
    PROVE  PseudoMoves(b, s, t) \subseteq Squares \ Friendly(b)
  <1>1. /\ nsp_table[t][s] \subseteq Squares
        /\ bishop_attacks(s, b.all) \subseteq Squares
        /\ rook_attacks(s, b.all) \subseteq Squares
    BY TableOnBoard, AttacksOnBoard
  <1> QED
    BY <1>1 DEF PseudoMoves, WB, BB, WR, BR, WQ, BQ, WF, BF, WC, BC

-----------------------------------------------------------------------------
(* One piece has moved, perhaps onto an enemy it captured.                 *)
Capturing(b, q) == IF q \in Enemy(b) THEN capture_piece(b, q) ELSE b

HasMoved(m, b, t, to) ==
    /\ Sound(m) /\ m.turn = b.turn
    /\ \A u \in Types : m.pieces[u] \subseteq b.pieces[u] \cup (IF u = t THEN {to} ELSE {})

LEMMA PieceMoves ==
    ASSUME NEW b, Sound(b), NEW t \in TypesOf(b.turn), NEW from \in Squares,
           from \in b.pieces[t], NEW to \in Squares, to \notin Friendly(b)
    PROVE  HasMoved(move_piece(Capturing(b, to), t, from, to), b, t, to)
  <1> DEFINE c == Capturing(b, to)
             m == move_piece(c, t, from, to)
  <1>0. b \in Chezzboard /\ t \in Types /\ b.turn \in {"w", "b"}
    BY TypeFacts, BoardFields DEF Sound, TypesOf
  <1>a. from \in Friendly(b)
    BY <1>0 DEF Sound, Tells, Friendly, TypesOf
  <1>b. b.all = Friendly(b) \cup Enemy(b)
    BY DEF Sound, Friendly, Enemy
  <1>1. /\ Sound(c) /\ c.turn = b.turn /\ to \notin c.all
        /\ from \in c.pieces[t]
        /\ \A u \in Types : c.pieces[u] \subseteq b.pieces[u]
    <2>1. CASE to \in Enemy(b)
      <3> DEFINE d == CaptureAll(b, {to})
      <3>1. /\ Sound(d) /\ d.turn = b.turn
            /\ \A u \in Types : d.pieces[u] = b.pieces[u] \ {to}
            /\ d.all = b.all \ {to}
        BY CaptureSound
      <3>2. c = d
        BY <1>0, <2>1, CaptureOne DEF Capturing
      <3> HIDE DEF c, d
      <3>3. from # to
        BY <1>a
      <3> QED
        BY <1>0, <3>1, <3>2, <3>3
    <2>2. CASE to \notin Enemy(b)
      BY <1>b, <2>2 DEF Capturing
    <2> QED
      BY <2>1, <2>2
  <1> HIDE DEF c
  <1>2. Sound(m)
    BY <1>1, MoveSound
  <1>3. c \in Chezzboard
    BY <1>1 DEF Sound
  <1>4. IsMoved(m, c, t, from, to)
    BY <1>0, <1>3, MoveFields
  <1> HIDE DEF m
  <1>5. HasMoved(m, b, t, to)
    BY <1>1, <1>2, <1>4 DEF HasMoved, IsMoved
  <1> QED
    BY <1>5 DEF m, c

(* The other side's peons stay off their last row.                         *)
LEMMA OthersStay ==
    ASSUME NEW b, Good(b), NEW t \in TypesOf(b.turn), NEW to, NEW m, HasMoved(m, b, t, to)
    PROVE  /\ OthersOffLastRow(m)
           /\ t \notin {WP, BP} \/ RowOf(to) \notin {0, 7} => NoPeonOnLastRow(m)
  <1>0. b.turn \in {"w", "b"}
    BY BoardFields DEF Good, Sound
  <1>1. /\ m.turn = b.turn
        /\ m.pieces[WP] \subseteq b.pieces[WP] \cup (IF WP = t THEN {to} ELSE {})
        /\ m.pieces[BP] \subseteq b.pieces[BP] \cup (IF BP = t THEN {to} ELSE {})
    BY DEF HasMoved, Types, WP, BP
  <1>2. NoPeonOnLastRow(b)
    BY DEF Good
  <1>3. (b.turn = "w" => t # BP) /\ (b.turn = "b" => t # WP)
    BY DEF TypesOf, WhiteTypes, BlackTypes, WP, BP
  <1>4. OthersOffLastRow(m)
    BY <1>0, <1>1, <1>2, <1>3 DEF OthersOffLastRow, NoPeonOnLastRow
  <1>5. ASSUME t \notin {WP, BP} \/ RowOf(to) \notin {0, 7} PROVE NoPeonOnLastRow(m)
    BY <1>1, <1>2, <1>5 DEF NoPeonOnLastRow
  <1> QED
    BY <1>4, <1>5

-----------------------------------------------------------------------------
(* Every board of every generator function is good.                        *)
LEMMA PeonMovesGood ==
    ASSUME NEW b, Good(b), NEW s \in Squares, NEW t \in TypesOf(b.turn), s \in b.pieces[t],
           NEW c \in set_peon_moves(b, s, t)
    PROVE  Good(c)
  <1>0. b \in Chezzboard /\ t \in Types
    BY TypeFacts DEF Good, Sound, TypesOf
  <1>1. PICK q \in nsp_table[t][s] \ Friendly(b) :
            c = Settle(move_piece(Capturing(b, q), t, s, q), RowOf(q) \in {0, 7})
    BY DEF set_peon_moves, PeonSteps, PeonCaptures, Capturing
  <1>2. q \in Squares /\ q \notin Friendly(b)
    BY <1>0, <1>1, TableOnBoard
  <1> DEFINE m == move_piece(Capturing(b, q), t, s, q)
             last == RowOf(q) \in {0, 7}
  <1>3. HasMoved(m, b, t, q)
    BY <1>2, PieceMoves DEF Good
  <1> HIDE DEF m
  <1>4. OthersOffLastRow(m) /\ (~last => NoPeonOnLastRow(m))
    BY <1>3, OthersStay
  <1>5. last \in BOOLEAN
    OBVIOUS
  <1> HIDE DEF last
  <1>6. Good(Settle(m, last))
    BY <1>3, <1>4, <1>5, SettleGood DEF HasMoved
  <1> QED
    BY <1>1, <1>6 DEF m, last

LEMMA PieceMovesGood ==
    ASSUME NEW b, Good(b), NEW s \in Squares, NEW t \in TypesOf(b.turn), s \in b.pieces[t],
           t \notin {WP, BP}, NEW c \in set_piece_moves(b, s, t, PseudoMoves(b, s, t))
    PROVE  Good(c)
  <1>0. b \in Chezzboard /\ t \in Types
    BY TypeFacts DEF Good, Sound, TypesOf
  <1>1. PICK q \in PseudoMoves(b, s, t) :
            c = Settle(move_piece(Capturing(b, q), t, s, q), FALSE)
    BY DEF set_piece_moves, Capturing
  <1>2. q \in Squares /\ q \notin Friendly(b)
    BY <1>0, <1>1, PseudoMovesOnBoard
  <1> DEFINE m == move_piece(Capturing(b, q), t, s, q)
  <1>3. HasMoved(m, b, t, q)
    BY <1>2, PieceMoves DEF Good
  <1> HIDE DEF m
  <1>4. OthersOffLastRow(m) /\ NoPeonOnLastRow(m)
    BY <1>3, OthersStay
  <1>5. Good(Settle(m, FALSE))
    BY <1>3, <1>4, SettleGood DEF HasMoved
  <1> QED
    BY <1>1, <1>5 DEF m

LEMMA FlingsGood ==
    ASSUME NEW b, Good(b), NEW s \in Squares, NEW t \in Types,
           NEW c \in set_catapult_flings(b, s, t)
    PROVE  Good(c)
  <1>0. b \in Chezzboard /\ b.turn \in {"w", "b"}
    BY BoardFields DEF Good, Sound
  <1>1. PICK f \in Payloads(b, s, t) : \E u \in Types : \E q \in FlingTargets(b, s, f) :
            IsFirstType(b, f, u) /\ c = Fling(b, f, u, q)
    BY DEF set_catapult_flings
  <1>2. PICK u \in Types, q \in FlingTargets(b, s, f) :
            IsFirstType(b, f, u) /\ c = Fling(b, f, u, q)
    BY <1>1
  <1>3. u \in TypesOf(b.turn) /\ f \in b.pieces[u]
    BY <1>2 DEF IsFirstType
  <1>4. f \in Squares
    BY <1>0, <1>2, <1>3, BoardFields
  <1>5. q \in Squares /\ q \notin Friendly(b)
    <2>1. FlingPath(s, f) \subseteq Squares
      BY AttacksOnBoard DEF FlingPath
    <2> QED
      BY <1>2, <2>1 DEF FlingTargets
  <1> DEFINE m == IF q \in Enemy(b) THEN capture_piece(capture_piece(b, q), f)
                  ELSE move_piece(b, u, f, q)
             peon == u \in {WP, BP}
  <1>6. HasMoved(m, b, u, q)
    <2>1. CASE q \in Enemy(b)
      <3> DEFINE d == CaptureAll(b, {q})
                 e == CaptureAll(d, {f})
      <3>1. /\ Sound(d) /\ d.turn = b.turn
            /\ \A v \in Types : d.pieces[v] = b.pieces[v] \ {q}
        BY CaptureSound DEF Good
      <3>2. capture_piece(b, q) = d
        BY <1>0, CaptureOne
      <3> HIDE DEF d
      <3>3. /\ Sound(e) /\ e.turn = d.turn
            /\ \A v \in Types : e.pieces[v] = d.pieces[v] \ {f}
        BY <3>1, CaptureSound
      <3>4. capture_piece(d, f) = e
        BY <3>1, CaptureOne DEF Sound
      <3>5. m = e
        BY <2>1, <3>2, <3>4
      <3> HIDE DEF e, m
      <3> QED
        BY <3>1, <3>3, <3>5 DEF HasMoved
    <2>2. CASE q \notin Enemy(b)
      <3>1. HasMoved(move_piece(Capturing(b, q), u, f, q), b, u, q)
        BY <1>3, <1>4, <1>5, PieceMoves DEF Good
      <3> QED
        BY <2>2, <3>1 DEF Capturing
    <2> QED
      BY <2>1, <2>2
  <1>7. c = Settle(m, peon)
    BY <1>2 DEF Fling
  <1> HIDE DEF m
  <1>8. OthersOffLastRow(m) /\ (~peon => NoPeonOnLastRow(m))
    BY <1>3, <1>6, OthersStay
  <1>9. peon \in BOOLEAN
    OBVIOUS
  <1> HIDE DEF peon
  <1> QED
    BY <1>6, <1>7, <1>8, <1>9, SettleGood DEF HasMoved

LEMMA ShotsGood ==
    ASSUME NEW b, Good(b), NEW s, NEW c \in set_canon_shots(b, s)
    PROVE  Good(c)
  <1>1. PICK d \in Diagonals : c = Settle(CaptureAll(b, Victims(b, s, d)), FALSE)
    BY DEF set_canon_shots
  <1> DEFINE V == Victims(b, s, d)
             m == CaptureAll(b, V)
  <1>2. /\ Sound(m) /\ m.turn = b.turn
        /\ \A u \in Types : m.pieces[u] = b.pieces[u] \ V
    BY CaptureSound DEF Good
  <1> HIDE DEF m
  <1>3. m.pieces[WP] \subseteq b.pieces[WP] /\ m.pieces[BP] \subseteq b.pieces[BP]
    BY <1>2 DEF Types, WP, BP
  <1>4. OthersOffLastRow(m) /\ NoPeonOnLastRow(m)
    BY <1>3 DEF Good, OthersOffLastRow, NoPeonOnLastRow
  <1>5. Good(Settle(m, FALSE))
    BY <1>2, <1>4, SettleGood
  <1> QED
    BY <1>1, <1>5 DEF m

-----------------------------------------------------------------------------
(* The inductive invariant.                                                *)
BoardGood == Good(board)

LEMMA InitGood == Init => BoardGood
  BY StartAssumption, SoundIsConsistent DEF Init, BoardGood, Good

LEMMA NextGood == BoardGood /\ [Next]_board => BoardGood'
  <1> SUFFICES ASSUME BoardGood, [Next]_board PROVE Good(board')
    BY DEF BoardGood
  <1>0. Good(board)
    BY DEF BoardGood
  <1>1. \A m \in Movers(board) :
            /\ m[1] \in Squares /\ m[2] \in TypesOf(board.turn) /\ m[2] \in Types
            /\ m[1] \in board.pieces[m[2]]
    <2>1. board \in Chezzboard
      BY <1>0 DEF Good, Sound
    <2>2. Friendly(board) \subseteq Squares
      BY <2>1, BoardFields DEF Friendly
    <2> QED
      BY <2>2, TypeFacts DEF Movers, TypesOf
  <1>2. CASE MovePeon
    BY <1>0, <1>1, <1>2, PeonMovesGood DEF MovePeon
  <1>3. CASE MovePiece
    BY <1>0, <1>1, <1>3, PieceMovesGood DEF MovePiece
  <1>4. CASE FlingPiece
    BY <1>0, <1>1, <1>4, FlingsGood DEF FlingPiece
  <1>5. CASE ShootCanon
    BY <1>0, <1>5, ShotsGood DEF ShootCanon
  <1>6. CASE UNCHANGED board
    BY <1>0, <1>6
  <1> QED
    BY <1>2, <1>3, <1>4, <1>5, <1>6 DEF Next

LEMMA AlwaysGood == Spec => []BoardGood
  BY InitGood, NextGood, PTL DEF Spec

(* The board keeps the engine's shape through any game.                    *)
THEOREM BoardTypeOK == Spec => []TypeOK
  <1>1. BoardGood => TypeOK
    BY DEF BoardGood, Good, Sound, TypeOK
  <1> QED
    BY <1>1, AlwaysGood, PTL

(***************************************************************************)
(* From any consistent start and for games of any length: no square holds  *)
(* two pieces, the combined bitboards say what the piece bitboards say,    *)
(* and no peon rests on the row where it rises (gen_valid_boards.c).       *)
(***************************************************************************)
THEOREM BoardStaysConsistent == Spec => []BoardConsistent
  <1>1. BoardGood => BoardConsistent
    BY SoundIsConsistent DEF BoardGood, Good, Sound, BoardConsistent
  <1> QED
    BY <1>1, AlwaysGood, PTL
-----------------------------------------------------------------------------
(***************************************************************************)
(* The attacks of the sliding pieces: the blockers inside the relevant     *)
(* masks decide them, so a table indexed by those alone answers for every  *)
(* position.                                                               *)
(***************************************************************************)

LEMMA Coordinates ==
    \A s \in Squares : RowOf(s) \in 0 .. 7 /\ ColOf(s) \in 0 .. 7
  BY DEF Squares, RowOf, ColOf

LEMMA RayDef ==
    ASSUME NEW s \in Squares, NEW d \in Directions, NEW q
    PROVE  q \in Ray[s][d] <=> q \in Squares /\ \E k \in 1 .. 7 :
               ColOf(q) = ColOf(s) + k * d[1] /\ RowOf(q) = RowOf(s) + k * d[2]
  BY DEF Ray

LEMMA Steps ==
    /\ \A d \in Diagonals : d \in Directions /\ d[1] \in {-1, 1} /\ d[2] \in {-1, 1}
    /\ \A d \in Straights : /\ d \in Directions
                            /\ \/ d[1] = 0 /\ d[2] \in {-1, 1}
                               \/ d[2] = 0 /\ d[1] \in {-1, 1}
    /\ \A d \in Directions : d \in Diagonals \/ d \in Straights
    /\ \A d \in Directions : /\ Reverse8(d) \in Directions
                             /\ Reverse8(d)[1] = -d[1] /\ Reverse8(d)[2] = -d[2]
  <1>1. \A d \in Diagonals : d \in Directions /\ d[1] \in {-1, 1} /\ d[2] \in {-1, 1}
    BY DEF Directions, Diagonals
  <1>2. \A d \in Straights : /\ d \in Directions
                             /\ \/ d[1] = 0 /\ d[2] \in {-1, 1}
                                \/ d[2] = 0 /\ d[1] \in {-1, 1}
    BY DEF Directions, Straights
  <1>3. \A d \in Directions : d \in Diagonals \/ d \in Straights
    BY DEF Directions
  <1>4. ASSUME NEW d \in Directions
        PROVE  /\ Reverse8(d) \in Directions
               /\ Reverse8(d)[1] = -d[1] /\ Reverse8(d)[2] = -d[2]
    <2>1. Reverse8(d)[1] = -d[1] /\ Reverse8(d)[2] = -d[2]
      BY DEF Reverse8
    <2>2. Reverse8(d) \in Directions
      BY DEF Reverse8, Directions, Diagonals, Straights
    <2> QED
      BY <2>1, <2>2
  <1> QED
    BY <1>1, <1>2, <1>3, <1>4

LEMMA Unit == \A d \in Directions : d[1] \in {-1, 0, 1} /\ d[2] \in {-1, 0, 1}
  BY Steps

(* One coordinate after k steps of d, without the product.                 *)
Along(a, b, k, d) ==
    (d = 1 => b = a + k) /\ (d = -1 => b = a - k) /\ (d = 0 => b = a)

(* From s to q in k steps of <<dx, dy>>.                                   *)
Goes(s, q, k, dx, dy) ==
    Along(ColOf(s), ColOf(q), k, dx) /\ Along(RowOf(s), RowOf(q), k, dy)

LEMMA Product ==
    ASSUME NEW a \in 0 .. 7, NEW k \in 1 .. 7, NEW d, NEW b, b = a + k * d
    PROVE  Along(a, b, k, d)
  <1>1. CASE d = 1
    BY <1>1 DEF Along
  <1>2. CASE d = -1
    BY <1>2 DEF Along
  <1>3. CASE d = 0
    BY <1>3 DEF Along
  <1>4. CASE d # 1 /\ d # -1 /\ d # 0
    BY <1>4 DEF Along
  <1> QED
    BY <1>1, <1>2, <1>3, <1>4

LEMMA OnRay ==
    ASSUME NEW s \in Squares, NEW d \in Directions, NEW q \in Ray[s][d]
    PROVE  \E k \in 1 .. 7 : Goes(s, q, k, d[1], d[2])
  <1>1. PICK k \in 1 .. 7 : ColOf(q) = ColOf(s) + k * d[1] /\ RowOf(q) = RowOf(s) + k * d[2]
    BY RayDef
  <1>2. Along(ColOf(s), ColOf(q), k, d[1])
    BY <1>1, Coordinates, Product
  <1>3. Along(RowOf(s), RowOf(q), k, d[2])
    BY <1>1, Coordinates, Product
  <1> QED
    BY <1>2, <1>3 DEF Goes

(* A step of nothing keeps the coordinate, a step of one changes it.       *)
LEMMA SameLine ==
    ASSUME NEW s \in Squares, NEW q \in Squares, NEW k \in 1 .. 7,
           NEW dx \in {-1, 0, 1}, NEW dy \in {-1, 0, 1}, Goes(s, q, k, dx, dy)
    PROVE  /\ ColOf(q) = ColOf(s) <=> dx = 0
           /\ RowOf(q) = RowOf(s) <=> dy = 0
  BY Coordinates DEF Goes, Along

(* Between two points of the board, in steps of one, is off both edges.    *)
LEMMA InnerCol ==
    ASSUME NEW s \in Squares, NEW q \in Squares, NEW x \in Squares,
           NEW i \in 1 .. 7, NEW h \in 1 .. 7, NEW dx \in {-1, 1}, NEW dy, NEW ey,
           Goes(s, x, i, dx, dy), Goes(q, x, h, -dx, ey)
    PROVE  ColOf(x) \in 1 .. 6
  BY Coordinates DEF Goes, Along

LEMMA InnerRow ==
    ASSUME NEW s \in Squares, NEW q \in Squares, NEW x \in Squares,
           NEW i \in 1 .. 7, NEW h \in 1 .. 7, NEW dy \in {-1, 1}, NEW dx, NEW ex,
           Goes(s, x, i, dx, dy), Goes(q, x, h, ex, -dy)
    PROVE  RowOf(x) \in 1 .. 6
  BY Coordinates DEF Goes, Along

(* A square strictly inside a diagonal is off the four edges.              *)
LEMMA InsideDiagonal ==
    ASSUME NEW s \in Squares, NEW q \in Squares, NEW d \in Diagonals, q \in Ray[s][d],
           NEW x \in Between[s][q]
    PROVE  x \in gen_bishop_mask(s)
  <1>1. PICK e \in Directions : /\ q \in Ray[s][e] /\ x \in Ray[s][e]
                                /\ x \in Ray[q][Reverse8(e)]
    BY DEF Between
  <1>2. x \in Squares
    BY <1>1, RayDef
  <1>3. PICK k \in 1 .. 7 : Goes(s, q, k, d[1], d[2])
    BY Steps, OnRay
  <1>4. PICK j \in 1 .. 7 : Goes(s, q, j, e[1], e[2])
    BY <1>1, OnRay
  <1>5. PICK i \in 1 .. 7 : Goes(s, x, i, e[1], e[2])
    BY <1>1, <1>2, OnRay
  <1>6. PICK h \in 1 .. 7 : Goes(q, x, h, -e[1], -e[2])
    <2>1. Reverse8(e) \in Directions /\ Reverse8(e)[1] = -e[1] /\ Reverse8(e)[2] = -e[2]
      BY Steps
    <2>2. PICK h \in 1 .. 7 : Goes(q, x, h, Reverse8(e)[1], Reverse8(e)[2])
      BY <1>1, <1>2, <2>1, OnRay
    <2> QED
      BY <2>1, <2>2
  <1>7. e \in Diagonals
    <2>1. d[1] = 0 <=> e[1] = 0
      BY <1>3, <1>4, Steps, Unit, SameLine
    <2>2. d[2] = 0 <=> e[2] = 0
      BY <1>3, <1>4, Steps, Unit, SameLine
    <2> QED
      BY <2>1, <2>2, Steps
  <1>8. e[1] \in {-1, 1} /\ e[2] \in {-1, 1}
    BY <1>7, Steps
  <1>9. ColOf(x) \in 1 .. 6
    BY <1>2, <1>5, <1>6, <1>8, InnerCol
  <1>10. RowOf(x) \in 1 .. 6
    BY <1>2, <1>5, <1>6, <1>8, InnerRow
  <1> QED
    BY <1>1, <1>2, <1>7, <1>9, <1>10 DEF gen_bishop_mask

(* The same along rows and columns, off the two edges the line runs into.  *)
LEMMA InsideStraight ==
    ASSUME NEW s \in Squares, NEW q \in Squares, NEW d \in Straights, q \in Ray[s][d],
           NEW x \in Between[s][q]
    PROVE  x \in gen_rook_mask(s)
  <1>1. PICK e \in Directions : /\ q \in Ray[s][e] /\ x \in Ray[s][e]
                                /\ x \in Ray[q][Reverse8(e)]
    BY DEF Between
  <1>2. x \in Squares
    BY <1>1, RayDef
  <1>3. PICK k \in 1 .. 7 : Goes(s, q, k, d[1], d[2])
    BY Steps, OnRay
  <1>4. PICK j \in 1 .. 7 : Goes(s, q, j, e[1], e[2])
    BY <1>1, OnRay
  <1>5. PICK i \in 1 .. 7 : Goes(s, x, i, e[1], e[2])
    BY <1>1, <1>2, OnRay
  <1>6. PICK h \in 1 .. 7 : Goes(q, x, h, -e[1], -e[2])
    <2>1. Reverse8(e) \in Directions /\ Reverse8(e)[1] = -e[1] /\ Reverse8(e)[2] = -e[2]
      BY Steps
    <2>2. PICK h \in 1 .. 7 : Goes(q, x, h, Reverse8(e)[1], Reverse8(e)[2])
      BY <1>1, <1>2, <2>1, OnRay
    <2> QED
      BY <2>1, <2>2
  <1>7. e \in Straights
    <2>1. d[1] = 0 <=> e[1] = 0
      BY <1>3, <1>4, Steps, Unit, SameLine
    <2>2. d[2] = 0 <=> e[2] = 0
      BY <1>3, <1>4, Steps, Unit, SameLine
    <2> QED
      BY <2>1, <2>2, Steps
  <1>8. CASE e[1] = 0 /\ e[2] \in {-1, 1}
    <2>1. RowOf(x) \in 1 .. 6
      BY <1>2, <1>5, <1>6, <1>8, InnerRow
    <2>2. RowOf(x) # RowOf(s)
      BY <1>2, <1>5, <1>8, Unit, SameLine
    <2> QED
      BY <1>1, <1>2, <1>7, <2>1, <2>2 DEF gen_rook_mask
  <1>9. CASE e[2] = 0 /\ e[1] \in {-1, 1}
    <2>1. ColOf(x) \in 1 .. 6
      BY <1>2, <1>5, <1>6, <1>9, InnerCol
    <2>2. ColOf(x) # ColOf(s)
      BY <1>2, <1>5, <1>9, Unit, SameLine
    <2> QED
      BY <1>1, <1>2, <1>7, <2>1, <2>2 DEF gen_rook_mask
  <1> QED
    BY <1>7, <1>8, <1>9, Steps

LEMMA MaskedWalk ==
    ASSUME NEW s \in Squares, NEW dirs \in SUBSET Directions, NEW B, NEW mask,
           \A d \in dirs : \A q \in Ray[s][d] : Between[s][q] \subseteq mask
    PROVE  Walk(s, dirs, B \cap mask) = Walk(s, dirs, B)
  BY DEF Walk

(***************************************************************************)
(* What the engine looks up for a bishop is the walk along its diagonals   *)
(* up to the first blocker, whatever stands on the board: the squares that *)
(* gen_bishop_mask drops never change an attack (sp_masks.c,               *)
(* get_sp_attacks.c, gen_sp_tables.c).                                     *)
(***************************************************************************)
THEOREM BishopMaskSuffices ==
    \A s \in Squares : \A B : bishop_attacks(s, B) = gen_bishop_attacks(s, B)
  <1> SUFFICES ASSUME NEW s \in Squares, NEW B
               PROVE  bishop_attacks(s, B) = gen_bishop_attacks(s, B)
    OBVIOUS
  <1>1. \A d \in Diagonals : \A q \in Ray[s][d] : Between[s][q] \subseteq gen_bishop_mask(s)
    BY InsideDiagonal, RayDef, Steps
  <1>2. Diagonals \in SUBSET Directions
    BY DEF Directions
  <1>3. bishop_magics[s] = gen_bishop_mask(s)
    BY DEF bishop_magics
  <1> QED
    BY <1>1, <1>2, <1>3, MaskedWalk DEF bishop_attacks, gen_bishop_attacks

(* The same for a rook and its row and column.                             *)
THEOREM RookMaskSuffices ==
    \A s \in Squares : \A B : rook_attacks(s, B) = gen_rook_attacks(s, B)
  <1> SUFFICES ASSUME NEW s \in Squares, NEW B
               PROVE  rook_attacks(s, B) = gen_rook_attacks(s, B)
    OBVIOUS
  <1>1. \A d \in Straights : \A q \in Ray[s][d] : Between[s][q] \subseteq gen_rook_mask(s)
    BY InsideStraight, RayDef, Steps
  <1>2. Straights \in SUBSET Directions
    BY DEF Directions
  <1>3. rook_magics[s] = gen_rook_mask(s)
    BY DEF rook_magics
  <1> QED
    BY <1>1, <1>2, <1>3, MaskedWalk DEF rook_attacks, gen_rook_attacks
-----------------------------------------------------------------------------
(***************************************************************************)
(* The generator implements the rules of ChezzRules.  First the lines and  *)
(* tables of the board, then what the functions of the generator make of   *)
(* the position on the board, then the moves of each kind of piece.        *)
(***************************************************************************)
(* Squares by row and column.                                              *)
LEMMA ByCoordinates ==
    ASSUME NEW s \in Squares
    PROVE  /\ RowOf(s) \in 0 .. 7 /\ ColOf(s) \in 0 .. 7
           /\ s = 8 * RowOf(s) + ColOf(s)
           /\ Rules!Row(s) = RowOf(s) /\ Rules!Col(s) = ColOf(s)
  BY DEF Squares, RowOf, ColOf, Rules!Row, Rules!Col

LEMMA ThisSquare ==
    ASSUME NEW row \in 0 .. 7, NEW col \in 0 .. 7
    PROVE  /\ SquareAt(row, col) \in Squares
           /\ RowOf(SquareAt(row, col)) = row /\ ColOf(SquareAt(row, col)) = col
  BY DEF Squares, SquareAt, RowOf, ColOf

LEMMA RulesSquares == Rules!Squares = Squares
  BY DEF Rules!Squares, Squares

(* How far and which way.                                                  *)
LEMMA DiffSign ==
    ASSUME NEW a \in 0 .. 7, NEW b \in 0 .. 7
    PROVE  /\ Rules!Diff(a, b) \in 0 .. 7
           /\ a < b => Rules!Diff(a, b) = b - a /\ Rules!Sign(b - a) = 1
           /\ b < a => Rules!Diff(a, b) = a - b /\ Rules!Sign(b - a) = -1
           /\ a = b => Rules!Diff(a, b) = 0 /\ Rules!Sign(b - a) = 0
  BY DEF Rules!Diff, Rules!Sign

LEMMA DirIs ==
    ASSUME NEW s \in Squares, NEW q \in Squares
    PROVE  Rules!Dir(s, q) =
               <<Rules!Sign(RowOf(q) - RowOf(s)), Rules!Sign(ColOf(q) - ColOf(s))>>
  BY ByCoordinates DEF Rules!Dir

-----------------------------------------------------------------------------
(* The masks of the pieces that do not slide.                              *)

LEMMA KnightMask ==
    ASSUME NEW s \in Squares, NEW q \in Squares
    PROVE  q \in gen_knight_mask(s) <=> Rules!Jump(s, q)
  <1> DEFINE r == RowOf(s)
             c == ColOf(s)
             x == RowOf(q)
             y == ColOf(q)
  <1>1. /\ r \in 0 .. 7 /\ c \in 0 .. 7 /\ x \in 0 .. 7 /\ y \in 0 .. 7
    BY ByCoordinates
  <1>2. Rules!Jump(s, q) <=> {Rules!Diff(r, x), Rules!Diff(c, y)} = {1, 2}
    BY ByCoordinates DEF Rules!Jump
  <1>3. q \in gen_knight_mask(s) <=>
            <<x - r, y - c>> \in {<<-2, -1>>, <<-2, 1>>, <<-1, -2>>, <<1, -2>>,
                                  <<-1, 2>>, <<1, 2>>, <<2, -1>>, <<2, 1>>}
    BY DEF gen_knight_mask, Reach
  <1> HIDE DEF r, c, x, y
  <1>4. {Rules!Diff(r, x), Rules!Diff(c, y)} = {1, 2} <=>
            \/ Rules!Diff(r, x) = 1 /\ Rules!Diff(c, y) = 2
            \/ Rules!Diff(r, x) = 2 /\ Rules!Diff(c, y) = 1
    BY <1>1, DiffSign
  <1>5. @ <=> \/ (x - r = 1 \/ x - r = -1) /\ (y - c = 2 \/ y - c = -2)
              \/ (x - r = 2 \/ x - r = -2) /\ (y - c = 1 \/ y - c = -1)
    BY <1>1 DEF Rules!Diff
  <1> QED
    BY <1>2, <1>3, <1>4, <1>5

LEMMA KingMask ==
    ASSUME NEW s \in Squares, NEW q \in Squares
    PROVE  /\ q \in gen_king_mask(s) <=> Rules!Neighbours(s, q)
           /\ q \in gen_catapult_mask(s) <=> Rules!Neighbours(s, q)
           /\ Rules!Neighbours(s, q) <=> /\ s # q
                                         /\ RowOf(q) - RowOf(s) \in -1 .. 1
                                         /\ ColOf(q) - ColOf(s) \in -1 .. 1
  <1> DEFINE r == RowOf(s)
             c == ColOf(s)
             x == RowOf(q)
             y == ColOf(q)
             near == {<<0, 1>>, <<1, 1>>, <<1, 0>>, <<1, -1>>,
                      <<0, -1>>, <<-1, -1>>, <<-1, 0>>, <<-1, 1>>}
  <1>1. /\ r \in 0 .. 7 /\ c \in 0 .. 7 /\ x \in 0 .. 7 /\ y \in 0 .. 7
        /\ s # q <=> r # x \/ c # y
    BY ByCoordinates
  <1>2. Rules!Neighbours(s, q) <=> /\ s # q /\ Rules!Diff(r, x) <= 1
                                   /\ Rules!Diff(c, y) <= 1
    BY ByCoordinates DEF Rules!Neighbours
  <1>3. /\ q \in gen_king_mask(s) <=> <<x - r, y - c>> \in near
        /\ q \in gen_catapult_mask(s) <=> <<x - r, y - c>> \in near
    BY DEF gen_king_mask, gen_catapult_mask, Reach
  <1> HIDE DEF r, c, x, y
  <1>4. Rules!Diff(r, x) <= 1 <=> x - r \in -1 .. 1
    BY <1>1 DEF Rules!Diff
  <1>5. Rules!Diff(c, y) <= 1 <=> y - c \in -1 .. 1
    BY <1>1 DEF Rules!Diff
  <1>6. <<x - r, y - c>> \in near <=>
            (r # x \/ c # y) /\ x - r \in -1 .. 1 /\ y - c \in -1 .. 1
    BY <1>1
  <1> HIDE DEF near
  <1> QED
    BY <1>1, <1>2, <1>3, <1>4, <1>5, <1>6 DEF r, c, x, y

LEMMA ZombieMask ==
    ASSUME NEW s \in Squares, NEW q \in Squares
    PROVE  /\ q \in gen_zombie_mask(s) <=> Rules!Beside(s, q)
           /\ q \in gen_canon_mask(s) <=> Rules!Beside(s, q)
           /\ Rules!Beside(s, q) <=>
                  \/ RowOf(q) = RowOf(s) /\ (ColOf(q) = ColOf(s) + 1 \/ ColOf(q) = ColOf(s) - 1)
                  \/ ColOf(q) = ColOf(s) /\ (RowOf(q) = RowOf(s) + 1 \/ RowOf(q) = RowOf(s) - 1)
  <1> DEFINE r == RowOf(s)
             c == ColOf(s)
             x == RowOf(q)
             y == ColOf(q)
             next == {<<0, 1>>, <<1, 0>>, <<0, -1>>, <<-1, 0>>}
             touch == \/ x = r /\ (y = c + 1 \/ y = c - 1)
                      \/ y = c /\ (x = r + 1 \/ x = r - 1)
  <1>1. /\ r \in 0 .. 7 /\ c \in 0 .. 7 /\ x \in 0 .. 7 /\ y \in 0 .. 7
    BY ByCoordinates
  <1>2. Rules!Beside(s, q) <=> Rules!Diff(r, x) + Rules!Diff(c, y) = 1
    BY ByCoordinates DEF Rules!Beside
  <1>3. /\ q \in gen_zombie_mask(s) <=> <<x - r, y - c>> \in next
        /\ q \in gen_canon_mask(s) <=> <<x - r, y - c>> \in next
    BY DEF gen_zombie_mask, gen_canon_mask, Reach
  <1> HIDE DEF r, c, x, y
  <1>4. Rules!Diff(r, x) + Rules!Diff(c, y) = 1 <=> touch
    BY <1>1 DEF Rules!Diff
  <1>6. <<x - r, y - c>> \in next <=> touch
    BY <1>1
  <1> HIDE DEF next
  <1> QED
    BY <1>1, <1>2, <1>3, <1>4, <1>6 DEF r, c, x, y

LEMMA PeonMask ==
    ASSUME NEW s \in Squares, NEW q \in Squares, NEW d \in {-1, 1}
    PROVE  q \in gen_peon_mask(s, d) <=>
               RowOf(q) = RowOf(s) + d /\ ColOf(q) - ColOf(s) \in -1 .. 1
  <1> DEFINE r == RowOf(s)
             c == ColOf(s)
             x == RowOf(q)
             y == ColOf(q)
  <1>1. /\ r \in 0 .. 7 /\ c \in 0 .. 7 /\ x \in 0 .. 7 /\ y \in 0 .. 7
        /\ s = 8 * r + c /\ q = 8 * x + y
    BY ByCoordinates
  <1>2. q \in gen_peon_mask(s, d) <=>
            q = s + d * 8 \/ <<x - r, y - c>> \in {<<d, -1>>, <<d, 1>>}
    BY DEF gen_peon_mask, Reach
  <1> HIDE DEF r, c, x, y
  <1>3. q = s + d * 8 <=> x = r + d /\ y = c
    BY <1>1
  <1>4. <<x - r, y - c>> \in {<<d, -1>>, <<d, 1>>} <=> x = r + d /\ (y = c - 1 \/ y = c + 1)
    BY <1>1
  <1>5. x = r + d /\ y - c \in -1 .. 1 <=>
            \/ x = r + d /\ y = c
            \/ x = r + d /\ (y = c - 1 \/ y = c + 1)
    BY <1>1
  <1> QED
    BY <1>2, <1>3, <1>4, <1>5 DEF r, c, x, y

(* The table, row by row.                                                  *)
LEMMA TableRows ==
    ASSUME NEW s \in Squares
    PROVE  /\ nsp_table[WP][s] = gen_peon_mask(s, 1)
           /\ nsp_table[BP][s] = gen_peon_mask(s, -1)
           /\ \A t \in {WN, BN} : nsp_table[t][s] = gen_knight_mask(s)
           /\ \A t \in {WK, BK} : nsp_table[t][s] = gen_king_mask(s)
           /\ \A t \in {WZ, BZ} : nsp_table[t][s] = gen_zombie_mask(s)
           /\ \A t \in {WF, BF} : nsp_table[t][s] = gen_catapult_mask(s)
           /\ \A t \in {WC, BC} : nsp_table[t][s] = gen_canon_mask(s)
  <1> DEFINE entry(t) == CASE t = WP         -> gen_peon_mask(s, 1)
                           [] t = BP         -> gen_peon_mask(s, -1)
                           [] t \in {WN, BN} -> gen_knight_mask(s)
                           [] t \in {WK, BK} -> gen_king_mask(s)
                           [] t \in {WZ, BZ} -> gen_zombie_mask(s)
                           [] t \in {WF, BF} -> gen_catapult_mask(s)
                           [] t \in {WC, BC} -> gen_canon_mask(s)
                           [] OTHER          -> {}
  <1>1. \A t \in Types : nsp_table[t][s] = entry(t)
    BY DEF nsp_table
  <1>2. {WP, BP, WN, BN, WK, BK, WZ, BZ, WF, BF, WC, BC} \subseteq Types
    BY DEF WP, BP, WN, BN, WK, BK, WZ, BZ, WF, BF, WC, BC, Types
  <1>3. entry(WP) = gen_peon_mask(s, 1)
    BY DEF WP, BP, WN, BN, WK, BK, WZ, BZ, WF, BF, WC, BC
  <1>4. entry(BP) = gen_peon_mask(s, -1)
    BY DEF WP, BP, WN, BN, WK, BK, WZ, BZ, WF, BF, WC, BC
  <1>5. /\ \A t \in {WN, BN} : entry(t) = gen_knight_mask(s)
        /\ \A t \in {WK, BK} : entry(t) = gen_king_mask(s)
        /\ \A t \in {WZ, BZ} : entry(t) = gen_zombie_mask(s)
        /\ \A t \in {WF, BF} : entry(t) = gen_catapult_mask(s)
        /\ \A t \in {WC, BC} : entry(t) = gen_canon_mask(s)
    BY DEF WP, BP, WN, BN, WK, BK, WZ, BZ, WF, BF, WC, BC
  <1> HIDE DEF entry
  <1> QED
    BY <1>1, <1>2, <1>3, <1>4, <1>5

-----------------------------------------------------------------------------
(* Lines: a ray is a line in one direction, and what is between two        *)
(* squares of a line is inside it.                                         *)
Line(s, q) == Rules!Straight(s, q) \/ Rules!Diagonal(s, q)
Swap(d) == <<d[2], d[1]>>

LEMMA LineIs ==
    ASSUME NEW s \in Squares, NEW q \in Squares
    PROVE  /\ Rules!Straight(s, q) <=>
                  s # q /\ (RowOf(s) = RowOf(q) \/ ColOf(s) = ColOf(q))
           /\ Rules!Diagonal(s, q) <=>
                  s # q /\ Rules!Diff(RowOf(s), RowOf(q)) = Rules!Diff(ColOf(s), ColOf(q))
           /\ s # q <=> RowOf(s) # RowOf(q) \/ ColOf(s) # ColOf(q)
  BY ByCoordinates DEF Rules!Straight, Rules!Diagonal

(* A coordinate that goes k steps of d.                                    *)
LEMMA AlongIs ==
    ASSUME NEW a \in 0 .. 7, NEW b \in 0 .. 7, NEW k \in 1 .. 7, NEW d \in {-1, 0, 1}
    PROVE  /\ Along(a, b, k, d) <=> b = a + k * d
           /\ Along(a, b, k, d) <=>
                  Rules!Sign(b - a) = d /\ Rules!Diff(a, b) = (IF d = 0 THEN 0 ELSE k)
  <1>1. Along(a, b, k, d) <=> b = a + k * d
    <2>1. CASE d = 1
      BY <2>1 DEF Along
    <2>2. CASE d = -1
      BY <2>2 DEF Along
    <2>3. CASE d = 0
      BY <2>3 DEF Along
    <2> QED
      BY <2>1, <2>2, <2>3
  <1>2. Along(a, b, k, d) <=>
            Rules!Sign(b - a) = d /\ Rules!Diff(a, b) = (IF d = 0 THEN 0 ELSE k)
    BY DEF Along, Rules!Sign, Rules!Diff
  <1> QED
    BY <1>1, <1>2

LEMMA RayGoes ==
    ASSUME NEW s \in Squares, NEW d \in Directions, NEW q \in Squares
    PROVE  q \in Ray[s][d] <=> \E k \in 1 .. 7 : Goes(s, q, k, d[1], d[2])
  <1>1. \A k \in 1 .. 7 :
            Goes(s, q, k, d[1], d[2]) <=>
                ColOf(q) = ColOf(s) + k * d[1] /\ RowOf(q) = RowOf(s) + k * d[2]
    <2> SUFFICES ASSUME NEW k \in 1 .. 7
                 PROVE  Goes(s, q, k, d[1], d[2]) <=>
                            ColOf(q) = ColOf(s) + k * d[1] /\ RowOf(q) = RowOf(s) + k * d[2]
      OBVIOUS
    <2>1. Along(ColOf(s), ColOf(q), k, d[1]) <=> ColOf(q) = ColOf(s) + k * d[1]
      BY Coordinates, Unit, AlongIs
    <2>2. Along(RowOf(s), RowOf(q), k, d[2]) <=> RowOf(q) = RowOf(s) + k * d[2]
      BY Coordinates, Unit, AlongIs
    <2> QED
      BY <2>1, <2>2 DEF Goes
  <1> QED
    BY <1>1, RayDef

LEMMA RayIsLine ==
    ASSUME NEW s \in Squares, NEW d \in Directions, NEW q \in Squares
    PROVE  /\ q \in Ray[s][d] <=> Line(s, q) /\ Rules!Dir(s, q) = Swap(d)
           /\ d \in Diagonals => (q \in Ray[s][d] =>  Rules!Diagonal(s, q))
           /\ d \in Straights => (q \in Ray[s][d] => Rules!Straight(s, q))
  <1> DEFINE r == RowOf(s)
             c == ColOf(s)
             x == RowOf(q)
             y == ColOf(q)
             h == Rules!Diff(r, x)
             w == Rules!Diff(c, y)
             i == Rules!Sign(x - r)
             j == Rules!Sign(y - c)
             e == d[1]
             f == d[2]
  <1>1. /\ r \in 0 .. 7 /\ c \in 0 .. 7 /\ x \in 0 .. 7 /\ y \in 0 .. 7
        /\ e \in {-1, 0, 1} /\ f \in {-1, 0, 1} /\ (e # 0 \/ f # 0)
    BY ByCoordinates, Unit, Steps
  <1>2. Rules!Dir(s, q) = Swap(d) <=> i = f /\ j = e
    BY DirIs DEF Swap
  <1>3. /\ Rules!Straight(s, q) <=> (r # x \/ c # y) /\ (r = x \/ c = y)
        /\ Rules!Diagonal(s, q) <=> (r # x \/ c # y) /\ h = w
    BY LineIs
  <1>4. \A k \in 1 .. 7 : Goes(s, q, k, d[1], d[2]) <=>
            /\ i = f /\ h = (IF f = 0 THEN 0 ELSE k)
            /\ j = e /\ w = (IF e = 0 THEN 0 ELSE k)
    BY <1>1, AlongIs DEF Goes
  <1>5. /\ h \in 0 .. 7 /\ (h = 0 <=> r = x) /\ (h = 0 <=> i = 0)
        /\ w \in 0 .. 7 /\ (w = 0 <=> c = y) /\ (w = 0 <=> j = 0)
    BY <1>1, DiffSign
  <1>6. q \in Ray[s][d] <=> \E k \in 1 .. 7 : Goes(s, q, k, d[1], d[2])
    BY RayGoes
  <1>7. /\ d \in Diagonals => e # 0 /\ f # 0
        /\ d \in Straights => e = 0 \/ f = 0
    BY Steps
  <1> HIDE DEF r, c, x, y, h, w, i, j, e, f
  <1>8. ASSUME q \in Ray[s][d]
        PROVE  /\ i = f /\ j = e /\ (r # x \/ c # y)
               /\ (e # 0 /\ f # 0 => h = w) /\ (e = 0 \/ f = 0 => r = x \/ c = y)
    <2>1. PICK k \in 1 .. 7 : /\ i = f /\ h = (IF f = 0 THEN 0 ELSE k)
                              /\ j = e /\ w = (IF e = 0 THEN 0 ELSE k)
      BY <1>4, <1>6, <1>8
    <2> QED
      BY <1>1, <1>5, <2>1
  <1>9. ASSUME Line(s, q), i = f, j = e
        PROVE  q \in Ray[s][d]
    <2> DEFINE k == IF h = 0 THEN w ELSE h
    <2>1. k \in 1 .. 7
      BY <1>1, <1>3, <1>5, <1>9 DEF Line
    <2>2. h = (IF f = 0 THEN 0 ELSE k) /\ w = (IF e = 0 THEN 0 ELSE k)
      BY <1>1, <1>3, <1>5, <1>9 DEF Line
    <2> HIDE DEF k
    <2> QED
      BY <1>4, <1>6, <1>9, <2>1, <2>2
  <1>10. q \in Ray[s][d] => Line(s, q)
    BY <1>1, <1>3, <1>8 DEF Line
  <1>11. q \in Ray[s][d] <=> Line(s, q) /\ Rules!Dir(s, q) = Swap(d)
    BY <1>2, <1>8, <1>9, <1>10
  <1>12. d \in Diagonals => (q \in Ray[s][d] => Rules!Diagonal(s, q))
    BY <1>3, <1>7, <1>8
  <1>13. d \in Straights => (q \in Ray[s][d] => Rules!Straight(s, q))
    BY <1>3, <1>7, <1>8
  <1> QED
    BY <1>11, <1>12, <1>13

(* Every line has its direction.                                           *)
LEMMA LineHasRay ==
    ASSUME NEW s \in Squares, NEW q \in Squares
    PROVE  /\ Rules!Diagonal(s, q) => \E d \in Diagonals : q \in Ray[s][d]
           /\ Rules!Straight(s, q) => \E d \in Straights : q \in Ray[s][d]
  <1> DEFINE i == Rules!Sign(RowOf(q) - RowOf(s))
             j == Rules!Sign(ColOf(q) - ColOf(s))
             d == <<j, i>>
  <1>1. Rules!Dir(s, q) = Swap(d)
    BY DirIs DEF Swap
  <1>2. /\ RowOf(s) \in 0 .. 7 /\ RowOf(q) \in 0 .. 7
        /\ ColOf(s) \in 0 .. 7 /\ ColOf(q) \in 0 .. 7
    BY ByCoordinates
  <1>3. /\ i \in {-1, 0, 1} /\ j \in {-1, 0, 1}
        /\ i = 0 <=> RowOf(s) = RowOf(q)
        /\ j = 0 <=> ColOf(s) = ColOf(q)
        /\ i = 0 <=> Rules!Diff(RowOf(s), RowOf(q)) = 0
        /\ j = 0 <=> Rules!Diff(ColOf(s), ColOf(q)) = 0
    BY <1>2, DiffSign
  <1> HIDE DEF i, j
  <1>4. ASSUME Rules!Diagonal(s, q) PROVE \E e \in Diagonals : q \in Ray[s][e]
    <2>1. i # 0 /\ j # 0
      BY <1>3, <1>4, LineIs
    <2>2. d \in Diagonals
      BY <1>3, <2>1 DEF Diagonals
    <2> QED
      BY <1>1, <1>4, <2>2, Steps, RayIsLine DEF Line
  <1>5. ASSUME Rules!Straight(s, q) PROVE \E e \in Straights : q \in Ray[s][e]
    <2>1. (i # 0 \/ j # 0) /\ (i = 0 \/ j = 0)
      BY <1>3, <1>5, LineIs
    <2>2. d \in Straights
      BY <1>3, <2>1 DEF Straights
    <2> QED
      BY <1>1, <1>5, <2>2, Steps, RayIsLine DEF Line
  <1> QED
    BY <1>4, <1>5

LEMMA TurnsRound ==
    ASSUME NEW s \in Squares, NEW q \in Squares, NEW d \in Directions
    PROVE  /\ Line(s, q) <=> Line(q, s)
           /\ Rules!Dir(s, q) = Swap(Reverse8(d)) <=> Rules!Dir(q, s) = Swap(d)
  <1> DEFINE r == RowOf(s)
             c == ColOf(s)
             x == RowOf(q)
             y == ColOf(q)
  <1>1. /\ r \in 0 .. 7 /\ c \in 0 .. 7 /\ x \in 0 .. 7 /\ y \in 0 .. 7
        /\ d[1] \in {-1, 0, 1} /\ d[2] \in {-1, 0, 1}
    BY ByCoordinates, Unit
  <1>2. Rules!Diff(r, x) = Rules!Diff(x, r) /\ Rules!Diff(c, y) = Rules!Diff(y, c)
    BY <1>1 DEF Rules!Diff
  <1>3. Line(s, q) <=> Line(q, s)
    BY <1>2, LineIs DEF Line
  <1>4. /\ Rules!Dir(s, q) = <<Rules!Sign(x - r), Rules!Sign(y - c)>>
        /\ Rules!Dir(q, s) = <<Rules!Sign(r - x), Rules!Sign(c - y)>>
        /\ Swap(Reverse8(d)) = <<-d[2], -d[1]>> /\ Swap(d) = <<d[2], d[1]>>
    BY DirIs DEF Swap, Reverse8
  <1> HIDE DEF r, c, x, y
  <1>5. Rules!Sign(x - r) = -d[2] <=> Rules!Sign(r - x) = d[2]
    BY <1>1 DEF Rules!Sign
  <1>6. Rules!Sign(y - c) = -d[1] <=> Rules!Sign(c - y) = d[1]
    BY <1>1 DEF Rules!Sign
  <1>7. Rules!Dir(s, q) = Swap(Reverse8(d)) <=> Rules!Dir(q, s) = Swap(d)
    BY <1>4, <1>5, <1>6
  <1> QED
    BY <1>3, <1>7

LEMMA LineAway == \A s, q : Line(s, q) => s # q
  BY DEF Line, Rules!Straight, Rules!Diagonal

LEMMA BetweenIsInside ==
    ASSUME NEW s \in Squares, NEW d \in Directions, NEW q \in Ray[s][d], NEW x
    PROVE  x \in Between[s][q] <=> x \in Squares /\ Rules!Inside(s, x, q)
  <1>0. q \in Squares
    BY RayDef
  <1>1. x \in Between[s][q] <=>
            \E e \in Directions : /\ q \in Ray[s][e]
                                  /\ x \in Ray[s][e] /\ x \in Ray[q][Reverse8(e)]
    BY <1>0 DEF Between
  <1>2. x \in Between[s][q] => x \in Squares
    BY <1>1, RayDef
  <1>3. ASSUME NEW y \in Squares, NEW e \in Directions
        PROVE  /\ q \in Ray[s][e] <=> Line(s, q) /\ Rules!Dir(s, q) = Swap(e)
               /\ y \in Ray[s][e] <=> Line(s, y) /\ Rules!Dir(s, y) = Swap(e)
               /\ y \in Ray[q][Reverse8(e)] <=> Line(y, q) /\ Rules!Dir(y, q) = Swap(e)
    BY <1>0, Steps, RayIsLine, TurnsRound
  <1>4. Line(s, q) /\ Rules!Dir(s, q) = Swap(d)
    BY <1>0, RayIsLine
  <1>5. Rules!Inside(s, x, q) <=> /\ x # s /\ x # q /\ Line(s, x) /\ Line(x, q)
                                  /\ Rules!Dir(s, x) = Rules!Dir(s, q)
                                  /\ Rules!Dir(x, q) = Rules!Dir(s, q)
    BY DEF Rules!Inside, Line
  <1>6. ASSUME x \in Between[s][q] PROVE x \in Squares /\ Rules!Inside(s, x, q)
    <2>1. PICK e \in Directions : /\ q \in Ray[s][e]
                                  /\ x \in Ray[s][e] /\ x \in Ray[q][Reverse8(e)]
      BY <1>1, <1>6
    <2> QED
      BY <1>2, <1>3, <1>5, <1>6, <2>1, LineAway
  <1>7. ASSUME x \in Squares, Rules!Inside(s, x, q) PROVE x \in Between[s][q]
    BY <1>1, <1>3, <1>4, <1>5, <1>7
  <1> QED
    BY <1>6, <1>7

(* A slider goes where its line is clear.                                  *)
Marks(a, B) == \A x \in Squares : x \in B <=> a[x] # Rules!Empty

LEMMA WalkIsClear ==
    ASSUME NEW s \in Squares, NEW q \in Squares, NEW B, NEW a, Marks(a, B)
    PROVE  /\ q \in bishop_attacks(s, B) <=> Rules!Diagonal(s, q) /\ Rules!Clear(a, s, q)
           /\ q \in rook_attacks(s, B) <=> Rules!Straight(s, q) /\ Rules!Clear(a, s, q)
  <1>1. \A d \in Directions : q \in Ray[s][d] =>
            (Between[s][q] \cap B = {} <=> Rules!Clear(a, s, q))
    <2> SUFFICES ASSUME NEW d \in Directions, q \in Ray[s][d]
                 PROVE  Between[s][q] \cap B = {} <=> Rules!Clear(a, s, q)
      OBVIOUS
    <2>1. \A x : x \in Between[s][q] <=> x \in Squares /\ Rules!Inside(s, x, q)
      BY BetweenIsInside
    <2> QED
      BY <2>1, RulesSquares DEF Rules!Clear, Marks
  <1>2. \A d \in Diagonals : d \in Directions /\ (q \in Ray[s][d] => Rules!Diagonal(s, q))
    BY Steps, RayIsLine
  <1>3. \A d \in Straights : d \in Directions /\ (q \in Ray[s][d] => Rules!Straight(s, q))
    BY Steps, RayIsLine
  <1>4. q \in bishop_attacks(s, B) <=>
            (\E d \in Diagonals : q \in Ray[s][d]) /\ Between[s][q] \cap B = {}
    BY BishopMaskSuffices DEF gen_bishop_attacks, Walk
  <1>5. q \in rook_attacks(s, B) <=>
            (\E d \in Straights : q \in Ray[s][d]) /\ Between[s][q] \cap B = {}
    BY RookMaskSuffices DEF gen_rook_attacks, Walk
  <1> QED
    BY <1>1, <1>2, <1>3, <1>4, <1>5, LineHasRay

-----------------------------------------------------------------------------
(* The trick of flings and shots: an attack with every neighbour blocked   *)
(* but the first square of one line is that line.                          *)
First(s, d) == SquareAt(RowOf(s) + d[2], ColOf(s) + d[1])

LEMMA FirstIsOnRay ==
    ASSUME NEW s \in Squares, NEW d \in Directions, NEW n \in Squares, Rules!Neighbours(s, n)
    PROVE  n = First(s, d) <=> n \in Ray[s][d]
  <1> DEFINE r == RowOf(s)
             c == ColOf(s)
             x == RowOf(n)
             y == ColOf(n)
             e == d[1]
             f == d[2]
  <1>1. /\ r \in 0 .. 7 /\ c \in 0 .. 7 /\ x \in 0 .. 7 /\ y \in 0 .. 7
        /\ n = 8 * x + y /\ e \in {-1, 0, 1} /\ f \in {-1, 0, 1} /\ (e # 0 \/ f # 0)
        /\ x - r \in -1 .. 1 /\ y - c \in -1 .. 1
    BY ByCoordinates, KingMask, Unit, Steps
  <1>2. First(s, d) = (r + f) * 8 + (c + e)
    BY DEF First, SquareAt
  <1>3. n \in Ray[s][d] <=> \E k \in 1 .. 7 : Along(c, y, k, e) /\ Along(r, x, k, f)
    BY RayGoes DEF Goes
  <1> HIDE DEF r, c, x, y, e, f
  <1>4. n = First(s, d) <=> x = r + f /\ y = c + e
    BY <1>1, <1>2
  <1>5. ASSUME x = r + f, y = c + e PROVE Along(c, y, 1, e) /\ Along(r, x, 1, f)
    BY <1>1, <1>5 DEF Along
  <1>6. ASSUME NEW k \in 1 .. 7, Along(c, y, k, e), Along(r, x, k, f)
        PROVE  x = r + f /\ y = c + e
    BY <1>1, <1>6 DEF Along
  <1> QED
    BY <1>3, <1>4, <1>5, <1>6

LEMMA RayStarts ==
    ASSUME NEW s \in Squares, NEW d \in Directions, NEW q \in Ray[s][d]
    PROVE  \E n \in Squares : /\ Rules!Neighbours(s, n) /\ n \in Ray[s][d]
                              /\ n = q \/ n \in Between[s][q]
  <1> DEFINE r == RowOf(s)
             c == ColOf(s)
             x == RowOf(q)
             y == ColOf(q)
             e == d[1]
             f == d[2]
             n == SquareAt(r + f, c + e)
  <1>0. q \in Squares
    BY RayDef
  <1>1. PICK k \in 1 .. 7 : Along(c, y, k, e) /\ Along(r, x, k, f)
    BY <1>0, RayGoes DEF Goes
  <1>2. /\ r \in 0 .. 7 /\ c \in 0 .. 7 /\ x \in 0 .. 7 /\ y \in 0 .. 7
        /\ e \in {-1, 0, 1} /\ f \in {-1, 0, 1} /\ (e # 0 \/ f # 0)
    BY <1>0, ByCoordinates, Unit, Steps
  <1> HIDE DEF r, c, x, y, e, f, n
  <1>3. r + f \in 0 .. 7 /\ c + e \in 0 .. 7
    BY <1>1, <1>2 DEF Along
  <1>4. n \in Squares /\ RowOf(n) = r + f /\ ColOf(n) = c + e
    BY <1>3, ThisSquare DEF n
  <1>5. Rules!Neighbours(s, n)
    <2>1. s # n /\ RowOf(n) - r \in -1 .. 1 /\ ColOf(n) - c \in -1 .. 1
      <3>1. RowOf(n) - r \in -1 .. 1 /\ ColOf(n) - c \in -1 .. 1
            /\ (RowOf(n) # r \/ ColOf(n) # c)
        BY <1>2, <1>4
      <3> QED
        BY <3>1 DEF r, c
    <2> QED
      BY <1>4, <2>1, KingMask DEF r, c
  <1>6. n \in Ray[s][d]
    BY <1>4, <1>5, FirstIsOnRay DEF First, n, r, c, e, f
  <1>7. CASE k = 1
    <2>1. RowOf(n) = x /\ ColOf(n) = y
      BY <1>1, <1>2, <1>4, <1>7 DEF Along
    <2>2. n = q
      BY <1>0, <1>4, <2>1, ByCoordinates DEF x, y
    <2> QED
      BY <1>4, <1>5, <1>6, <2>2
  <1>8. CASE k # 1
    <2>1. k - 1 \in 1 .. 7 /\ Along(y, ColOf(n), k - 1, -e) /\ Along(x, RowOf(n), k - 1, -f)
      BY <1>1, <1>2, <1>4, <1>8 DEF Along
    <2>2. Reverse8(d) \in Directions /\ Reverse8(d)[1] = -e /\ Reverse8(d)[2] = -f
      BY Steps DEF e, f
    <2>3. Goes(q, n, k - 1, Reverse8(d)[1], Reverse8(d)[2])
      BY <2>1, <2>2 DEF Goes, x, y
    <2>4. n \in Ray[q][Reverse8(d)]
      BY <1>0, <1>4, <2>1, <2>2, <2>3, RayGoes
    <2>5. n \in Between[s][q]
      BY <1>0, <1>6, <2>4 DEF Between
    <2> QED
      BY <1>4, <1>5, <1>6, <2>5
  <1> QED
    BY <1>7, <1>8

LEMMA SameDirection ==
    ASSUME NEW d \in Directions, NEW e \in Directions, Swap(d) = Swap(e)
    PROVE  d = e
  <1>1. d[1] = e[1] /\ d[2] = e[2]
    BY DEF Swap
  <1>2. d = <<d[1], d[2]>> /\ e = <<e[1], e[2]>>
    BY DEF Directions, Diagonals, Straights
  <1> QED
    BY <1>1, <1>2

LEMMA OneLineOpen ==
    ASSUME NEW s \in Squares, NEW q \in Squares, NEW d \in Directions,
           NEW dirs \in SUBSET Directions
    PROVE  LET blockers == nsp_table[WF][s] \ {First(s, d)}
           IN q \in Walk(s, dirs, blockers) \ blockers <=> d \in dirs /\ q \in Ray[s][d]
  <1> DEFINE B == nsp_table[WF][s] \ {First(s, d)}
  <1>0. nsp_table[WF][s] = gen_catapult_mask(s) /\ gen_catapult_mask(s) \subseteq Squares
    BY TableRows DEF gen_catapult_mask, Reach
  <1>1. \A n \in Squares : n \in B <=> Rules!Neighbours(s, n) /\ n \notin Ray[s][d]
    BY <1>0, KingMask, FirstIsOnRay
  <1>2. q \in Walk(s, dirs, B) <=>
            (\E e \in dirs : q \in Ray[s][e]) /\ Between[s][q] \cap B = {}
    BY DEF Walk
  <1> HIDE DEF B
  <1>3. ASSUME d \in dirs, q \in Ray[s][d] PROVE q \in Walk(s, dirs, B) \ B
    <2>1. \A x \in Between[s][q] : x \in Squares /\ x \in Ray[s][d]
      <3> SUFFICES ASSUME NEW x \in Between[s][q] PROVE x \in Squares /\ x \in Ray[s][d]
        OBVIOUS
      <3>1. x \in Squares /\ Rules!Inside(s, x, q)
        BY <1>3, BetweenIsInside
      <3>2. Line(s, x) /\ Rules!Dir(s, x) = Rules!Dir(s, q)
        BY <3>1 DEF Rules!Inside, Line
      <3> QED
        BY <1>3, <3>1, <3>2, RayIsLine
    <2> QED
      BY <1>1, <1>2, <1>3, <2>1
  <1>4. ASSUME q \in Walk(s, dirs, B) \ B PROVE d \in dirs /\ q \in Ray[s][d]
    <2>1. PICK e \in dirs : q \in Ray[s][e]
      BY <1>2, <1>4
    <2>2. PICK n \in Squares : /\ Rules!Neighbours(s, n) /\ n \in Ray[s][e]
                               /\ n = q \/ n \in Between[s][q]
      BY <2>1, RayStarts
    <2>3. n \in Ray[s][d]
      BY <1>1, <1>2, <1>4, <2>2
    <2>4. d = e
      BY <2>2, <2>3, RayIsLine, SameDirection
    <2> QED
      BY <2>1, <2>4
  <1> QED
    BY <1>3, <1>4 DEF B

(* Where a piece on f may land beyond the catapult on s.                   *)
LEMMA FlingPathIsLine ==
    ASSUME NEW s \in Squares, NEW f \in Squares, Rules!Neighbours(s, f), NEW q \in Squares
    PROVE  q \in FlingPath(s, f) <=> Line(s, q) /\ Rules!Dir(s, q) = Rules!Dir(f, s)
  <1> DEFINE dx == ColOf(s) - ColOf(f)
             dy == RowOf(s) - RowOf(f)
             d == <<dx, dy>>
             B == nsp_table[WF][s] \ {First(s, d)}
  <1>1. /\ dx \in {-1, 0, 1} /\ dy \in {-1, 0, 1} /\ (dx # 0 \/ dy # 0)
    <2>1. /\ s # f /\ RowOf(f) - RowOf(s) \in -1 .. 1 /\ ColOf(f) - ColOf(s) \in -1 .. 1
          /\ s = 8 * RowOf(s) + ColOf(s) /\ f = 8 * RowOf(f) + ColOf(f)
          /\ RowOf(s) \in 0 .. 7 /\ RowOf(f) \in 0 .. 7
          /\ ColOf(s) \in 0 .. 7 /\ ColOf(f) \in 0 .. 7
      BY KingMask, ByCoordinates
    <2> QED
      BY <2>1
  <1>2. Rules!Dir(f, s) = Swap(d)
    <2>1. Rules!Dir(f, s) = <<Rules!Sign(dy), Rules!Sign(dx)>>
      BY DirIs
    <2> HIDE DEF dx, dy
    <2>2. Rules!Sign(dy) = dy /\ Rules!Sign(dx) = dx
      BY <1>1 DEF Rules!Sign
    <2> QED
      BY <2>1, <2>2 DEF Swap
  <1>3. First(s, d) = SquareAt(RowOf(s) + dy, ColOf(s) + dx)
    BY DEF First
  <1>4. FlingPath(s, f) = (IF dx # 0 /\ dy # 0 THEN bishop_attacks(s, B)
                           ELSE rook_attacks(s, B)) \ B
    BY <1>3, Zenon DEF FlingPath
  <1> HIDE DEF dx, dy, B
  <1>5. CASE dx # 0 /\ dy # 0
    <2>1. d \in Diagonals /\ d \in Directions /\ Diagonals \in SUBSET Directions
      BY <1>1, <1>5 DEF Diagonals, Directions
    <2>2. FlingPath(s, f) = Walk(s, Diagonals, B) \ B
      BY <1>4, <1>5, BishopMaskSuffices DEF gen_bishop_attacks
    <2>3. q \in FlingPath(s, f) <=> q \in Ray[s][d]
      BY <2>1, <2>2, OneLineOpen DEF B
    <2> QED
      BY <1>2, <2>1, <2>3, RayIsLine
  <1>6. CASE ~(dx # 0 /\ dy # 0)
    <2>1. d \in Straights /\ d \in Directions /\ Straights \in SUBSET Directions
      BY <1>1, <1>6 DEF Straights, Directions
    <2>2. FlingPath(s, f) = Walk(s, Straights, B) \ B
      BY <1>4, <1>6, RookMaskSuffices DEF gen_rook_attacks
    <2>3. q \in FlingPath(s, f) <=> q \in Ray[s][d]
      BY <2>1, <2>2, OneLineOpen DEF B
    <2> QED
      BY <1>2, <2>1, <2>3, RayIsLine
  <1> QED
    BY <1>5, <1>6

(* What a canon on s fires at.                                             *)
LEMMA ShotPathIsLine ==
    ASSUME NEW s \in Squares, NEW d \in Diagonals, NEW q \in Squares
    PROVE  q \in ShotPath(s, d) <=> Rules!InFire(s, Swap(d), q)
  <1> DEFINE B == nsp_table[WF][s] \ {First(s, d)}
  <1>1. /\ d \in Directions /\ d \notin Straights
        /\ Diagonals \in SUBSET Directions /\ Straights \in SUBSET Directions
    BY Steps DEF Directions
  <1>2. ShotPath(s, d) = (Walk(s, Diagonals, B) \cup Walk(s, Straights, B)) \ B
    BY BishopMaskSuffices, RookMaskSuffices
       DEF ShotPath, First, queen_attacks, gen_bishop_attacks, gen_rook_attacks
  <1>3. q \in Walk(s, Diagonals, B) \ B <=> q \in Ray[s][d]
    BY <1>1, OneLineOpen
  <1>4. q \notin Walk(s, Straights, B) \ B
    BY <1>1, OneLineOpen
  <1> HIDE DEF B
  <1>5. q \in ShotPath(s, d) <=> q \in Ray[s][d]
    BY <1>2, <1>3, <1>4
  <1>6. q \in Ray[s][d] <=> Rules!Diagonal(s, q) /\ Rules!Dir(s, q) = Swap(d)
    BY <1>1, RayIsLine DEF Line
  <1> QED
    BY <1>5, <1>6 DEF Rules!InFire

-----------------------------------------------------------------------------
(* The position a sound board shows.                                       *)
Piece(t) == [color |-> IF t \in WhiteTypes THEN "w" ELSE "b", kind |-> KindOf(t)]

LEMMA Kinds ==
    /\ KindOf(WP) = "peon" /\ KindOf(BP) = "peon"
    /\ KindOf(WN) = "knight" /\ KindOf(BN) = "knight"
    /\ KindOf(WB) = "bishop" /\ KindOf(BB) = "bishop"
    /\ KindOf(WR) = "rook" /\ KindOf(BR) = "rook"
    /\ KindOf(WQ) = "queen" /\ KindOf(BQ) = "queen"
    /\ KindOf(WK) = "king" /\ KindOf(BK) = "king"
    /\ KindOf(WZ) = "zombie" /\ KindOf(BZ) = "zombie"
    /\ KindOf(WF) = "catapult" /\ KindOf(BF) = "catapult"
    /\ KindOf(WC) = "canon" /\ KindOf(BC) = "canon"
  BY DEF KindOf, WP, BP, WN, BN, WB, BB, WR, BR, WQ, BQ, WK, BK, WZ, BZ, WF, BF, WC, BC

LEMMA PieceFacts ==
    /\ \A t \in Types : Piece(t).color = (IF t \in WhiteTypes THEN "w" ELSE "b")
    /\ \A t \in Types : Piece(t).kind = KindOf(t)
    /\ \A t, u \in Types : Piece(t) = Piece(u) => t = u
    /\ \A t \in Types : Piece(t) # Rules!Empty
    /\ Rules!Empty.color = "none" /\ Rules!Empty.kind = "none"
  <1>1. ASSUME NEW t \in Types, NEW u \in Types, Piece(t) = Piece(u) PROVE t = u
    <2>1. Piece(t).color = Piece(u).color /\ Piece(t).kind = Piece(u).kind
      BY <1>1
    <2>2. t \in WhiteTypes <=> u \in WhiteTypes
      BY <2>1 DEF Piece
    <2>3. KindOf(t) = KindOf(u)
      BY <2>1 DEF Piece
    <2>4. CASE t \in WhiteTypes
      <3>1. t \in {WP, WN, WB, WR, WQ, WK, WZ, WF, WC} /\ u \in {WP, WN, WB, WR, WQ, WK, WZ, WF, WC}
        BY <2>2, <2>4, TypeFacts
      <3> QED
        BY <2>3, <3>1, Kinds
    <2>5. CASE t \notin WhiteTypes
      <3>1. t \in {BP, BN, BB, BR, BQ, BK, BZ, BF, BC} /\ u \in {BP, BN, BB, BR, BQ, BK, BZ, BF, BC}
        BY <2>2, <2>5, TypeFacts
      <3> QED
        BY <2>3, <3>1, Kinds
    <2> QED
      BY <2>4, <2>5
  <1>2. \A t \in Types : Piece(t).color # "none"
    BY DEF Piece
  <1> QED
    BY <1>1, <1>2 DEF Piece, Rules!Empty

LEMMA AtPiece ==
    ASSUME NEW b, Sound(b), NEW t \in Types, NEW s \in b.pieces[t]
    PROVE  s \in Squares /\ At(b)[s] = Piece(t)
  <1>1. s \in Squares
    BY BoardFields DEF Sound
  <1> DEFINE u == CHOOSE v \in Types : s \in b.pieces[v]
  <1>2. u \in Types /\ s \in b.pieces[u]
    OBVIOUS
  <1>3. u = t
    BY <1>1, <1>2 DEF Sound, Once
  <1>4. At(b)[s] = Piece(u)
    BY <1>1 DEF At, Piece
  <1> QED
    BY <1>1, <1>3, <1>4

LEMMA AtNothing ==
    ASSUME NEW b, NEW s \in Squares, \A t \in Types : s \notin b.pieces[t]
    PROVE  At(b)[s] = Rules!Empty
  BY DEF At, Rules!Empty

LEMMA AtIs ==
    ASSUME NEW b, Sound(b), NEW s \in Squares
    PROVE  /\ \A t \in Types : At(b)[s] = Piece(t) <=> s \in b.pieces[t]
           /\ At(b)[s] = Rules!Empty <=> s \notin b.all
           /\ At(b)[s].color = "w" <=> s \in b.white
           /\ At(b)[s].color = "b" <=> s \in b.black
           /\ At(b)[s] = Rules!Empty \/ \E t \in Types : s \in b.pieces[t] /\ At(b)[s] = Piece(t)
  <1>1. CASE \E t \in Types : s \in b.pieces[t]
    <2>1. PICK t \in Types : s \in b.pieces[t]
      BY <1>1
    <2>2. At(b)[s] = Piece(t)
      BY <2>1, AtPiece
    <2>3. \A u \in Types : s \in b.pieces[u] => u = t
      BY <2>1 DEF Sound, Once
    <2>4. s \in b.white <=> t \in WhiteTypes
      BY <2>1, <2>3, TypeFacts DEF Sound, Tells
    <2>5. s \in b.black <=> t \in BlackTypes
      BY <2>1, <2>3, TypeFacts DEF Sound, Tells
    <2>6. s \in b.all <=> s \in b.white \/ s \in b.black
      BY DEF Sound
    <2> QED
      BY <2>1, <2>2, <2>3, <2>4, <2>5, <2>6, PieceFacts, TypeFacts
  <1>2. CASE ~ \E t \in Types : s \in b.pieces[t]
    <2>1. At(b)[s] = Rules!Empty
      BY <1>2, AtNothing
    <2>2. s \notin b.white /\ s \notin b.black /\ s \notin b.all
      BY <1>2, TypeFacts DEF Sound, Tells
    <2> QED
      BY <1>2, <2>1, <2>2, PieceFacts
  <1> QED
    BY <1>1, <1>2

LEMMA AtShape ==
    ASSUME NEW b
    PROVE  At(b) = [s \in Squares |-> At(b)[s]]
  BY DEF At

(* Squares with the same pieces show the same.                             *)
LEMMA AtSame ==
    ASSUME NEW b, NEW c, Sound(b), Sound(c), NEW s \in Squares,
           \A t \in Types : s \in c.pieces[t] <=> s \in b.pieces[t]
    PROVE  At(c)[s] = At(b)[s]
  <1>1. CASE \E t \in Types : s \in b.pieces[t]
    BY <1>1, AtPiece
  <1>2. CASE ~ \E t \in Types : s \in b.pieces[t]
    BY <1>2, AtNothing
  <1> QED
    BY <1>1, <1>2

(* The same for the side to move.                                          *)
Type(turn, white, black) == IF turn = "w" THEN white ELSE black

LEMMA MoverFacts ==
    ASSUME NEW b, Sound(b)
    PROVE  /\ b.turn \in {"w", "b"} /\ Rules!Other(b.turn) = Opponent(b.turn)
           /\ Opponent(b.turn) \in {"w", "b"} /\ Opponent(b.turn) # b.turn
           /\ \A t \in TypesOf(b.turn) : t \in Types /\ Piece(t).color = b.turn
           /\ \A t \in TypesOf(Opponent(b.turn)) : t \in Types /\ Piece(t).color = Opponent(b.turn)
           /\ \A t \in Types : \/ t \in TypesOf(b.turn) /\ t \notin TypesOf(Opponent(b.turn))
                               \/ t \notin TypesOf(b.turn) /\ t \in TypesOf(Opponent(b.turn))
           /\ \A s \in Squares : At(b)[s].color = b.turn <=> s \in Friendly(b)
           /\ \A s \in Squares : At(b)[s].color = Opponent(b.turn) <=> s \in Enemy(b)
           /\ \A s \in Squares : s \in Friendly(b) <=> \E t \in TypesOf(b.turn) : s \in b.pieces[t]
           /\ \A s \in Squares :
                s \in Enemy(b) <=> \E t \in TypesOf(Opponent(b.turn)) : s \in b.pieces[t]
           /\ Friendly(b) \subseteq Squares /\ Enemy(b) \subseteq Squares
           /\ \A s : ~(s \in Friendly(b) /\ s \in Enemy(b))
           /\ b.all = Friendly(b) \cup Enemy(b)
  <1>1. b.turn \in {"w", "b"} /\ b.white \subseteq Squares /\ b.black \subseteq Squares
    BY BoardFields DEF Sound
  <1>2. Rules!Other(b.turn) = Opponent(b.turn)
    BY DEF Rules!Other, Opponent
  <1>3. Opponent(b.turn) \in {"w", "b"} /\ Opponent(b.turn) # b.turn
    BY <1>1 DEF Opponent
  <1>4. \A t \in TypesOf(b.turn) : t \in Types /\ Piece(t).color = b.turn
    BY <1>1, TypeFacts, PieceFacts DEF TypesOf
  <1>5. \A t \in TypesOf(Opponent(b.turn)) : t \in Types /\ Piece(t).color = Opponent(b.turn)
    BY <1>1, TypeFacts, PieceFacts DEF TypesOf, Opponent
  <1>6. \A t \in Types : \/ t \in TypesOf(b.turn) /\ t \notin TypesOf(Opponent(b.turn))
                         \/ t \notin TypesOf(b.turn) /\ t \in TypesOf(Opponent(b.turn))
    BY <1>1, TypeFacts DEF TypesOf, Opponent
  <1>7. \A s \in Squares : At(b)[s].color = b.turn <=> s \in Friendly(b)
    BY <1>1, AtIs DEF Friendly
  <1>8. \A s \in Squares : At(b)[s].color = Opponent(b.turn) <=> s \in Enemy(b)
    BY <1>1, AtIs DEF Enemy, Opponent
  <1>9. \A s \in Squares : s \in Friendly(b) <=> \E t \in TypesOf(b.turn) : s \in b.pieces[t]
    BY <1>1 DEF Friendly, TypesOf, Sound, Tells
  <1>10. \A s \in Squares :
           s \in Enemy(b) <=> \E t \in TypesOf(Opponent(b.turn)) : s \in b.pieces[t]
    BY <1>1 DEF Enemy, TypesOf, Sound, Tells, Opponent
  <1>11. Friendly(b) \subseteq Squares /\ Enemy(b) \subseteq Squares
    BY <1>1 DEF Friendly, Enemy
  <1>12. \A s : ~(s \in Friendly(b) /\ s \in Enemy(b))
    BY OneColor DEF Friendly, Enemy
  <1>13. b.all = Friendly(b) \cup Enemy(b)
    BY DEF Sound, Friendly, Enemy
  <1> QED
    BY <1>1, <1>2, <1>3, <1>4, <1>5, <1>6, <1>7, <1>8, <1>9, <1>10, <1>11, <1>12, <1>13

-----------------------------------------------------------------------------
(* What the functions of the generator make of the position.               *)
LEMMA SamePosition ==
    ASSUME NEW b, NEW a, DOMAIN a = Squares, a = [s \in Squares |-> a[s]],
           \A s \in Squares : At(b)[s] = a[s]
    PROVE  At(b) = a
  <1>1. [s \in Squares |-> At(b)[s]] = [s \in Squares |-> a[s]]
    BY Zenon
  <1> QED
    BY <1>1, AtShape

LEMMA MovedPieces ==
    ASSUME NEW b, Sound(b), NEW t \in TypesOf(b.turn), NEW from \in Squares,
           from \in b.pieces[t], NEW to \in Squares, to \notin Friendly(b)
    PROVE  LET m == move_piece(Capturing(b, to), t, from, to)
           IN \A u \in Types : m.pieces[u] = IF u = t THEN (b.pieces[t] \ {from}) \cup {to}
                                             ELSE b.pieces[u] \ {to}
  <1> DEFINE c == Capturing(b, to)
             m == move_piece(c, t, from, to)
  <1>0. b \in Chezzboard /\ t \in Types
    BY MoverFacts DEF Sound
  <1>1. Sound(c) /\ c.turn = b.turn /\ \A u \in Types : c.pieces[u] = b.pieces[u] \ {to}
    <2>1. CASE to \in Enemy(b)
      <3> DEFINE d == CaptureAll(b, {to})
      <3>1. Sound(d) /\ d.turn = b.turn /\ \A u \in Types : d.pieces[u] = b.pieces[u] \ {to}
        BY CaptureSound
      <3>2. c = d
        BY <1>0, <2>1, CaptureOne DEF Capturing
      <3> QED
        BY <3>1, <3>2
    <2>2. CASE to \notin Enemy(b)
      <3>1. c = b
        BY <2>2 DEF Capturing
      <3>2. \A u \in Types : to \notin b.pieces[u]
        BY <2>2, MoverFacts
      <3> QED
        BY <3>1, <3>2
    <2> QED
      BY <2>1, <2>2
  <1> HIDE DEF c
  <1>2. c \in Chezzboard
    BY <1>1 DEF Sound
  <1>3. IsMoved(m, c, t, from, to)
    BY <1>0, <1>2, MoveFields
  <1> HIDE DEF m
  <1>4. \A u \in Types : m.pieces[u] = IF u = t THEN (b.pieces[t] \ {from}) \cup {to}
                                       ELSE b.pieces[u] \ {to}
    BY <1>0, <1>1, <1>3 DEF IsMoved
  <1> QED
    BY <1>4 DEF m, c

LEMMA AtMove ==
    ASSUME NEW b, Sound(b), NEW t \in TypesOf(b.turn), NEW from \in Squares,
           from \in b.pieces[t], NEW to \in Squares, to \notin Friendly(b)
    PROVE  At(move_piece(Capturing(b, to), t, from, to)) =
               Rules!AfterMove(At(b), from, to)
  <1> DEFINE m == move_piece(Capturing(b, to), t, from, to)
             a == Rules!AfterMove(At(b), from, to)
  <1>1. Sound(m)
    BY PieceMoves DEF HasMoved
  <1>2. \A u \in Types : m.pieces[u] = IF u = t THEN (b.pieces[t] \ {from}) \cup {to}
                                       ELSE b.pieces[u] \ {to}
    BY MovedPieces
  <1>3. from # to /\ t \in Types
    BY MoverFacts
  <1>4. a = [s \in Squares |-> IF s = from THEN Rules!Empty ELSE IF s = to THEN At(b)[from]
                                ELSE At(b)[s]]
    BY <1>3, AtShape DEF Rules!AfterMove
  <1>5. At(b)[from] = Piece(t)
    BY <1>3, AtPiece
  <1>6. \A u \in Types : from \in b.pieces[u] => u = t
    BY <1>3 DEF Sound, Once
  <1> HIDE DEF m, a
  <1>7. ASSUME NEW s \in Squares PROVE At(m)[s] = a[s]
    <2>1. CASE s = from
      <3>1. \A u \in Types : s \notin m.pieces[u]
        BY <1>2, <1>3, <1>6, <2>1
      <3> QED
        BY <1>4, <2>1, <3>1, AtNothing
    <2>2. CASE s = to
      <3>1. s \in m.pieces[t]
        BY <1>2, <1>3, <2>2
      <3> QED
        BY <1>1, <1>3, <1>4, <1>5, <2>2, <3>1, AtPiece
    <2>3. CASE s # from /\ s # to
      <3>1. \A u \in Types : s \in m.pieces[u] <=> s \in b.pieces[u]
        BY <1>2, <2>3
      <3>2. At(m)[s] = At(b)[s]
        BY <1>1, <3>1, AtSame
      <3> QED
        BY <1>4, <2>3, <3>2
    <2> QED
      BY <2>1, <2>2, <2>3
  <1>8. DOMAIN a = Squares /\ a = [s \in Squares |-> a[s]]
    BY <1>4
  <1>9. At(m) = a
    BY <1>7, <1>8, SamePosition
  <1> QED
    BY <1>9 DEF m, a

LEMMA AtCapture ==
    ASSUME NEW b, Sound(b), NEW S
    PROVE  At(CaptureAll(b, S)) =
               [s \in Squares |-> IF s \in S THEN Rules!Empty ELSE At(b)[s]]
  <1> DEFINE c == CaptureAll(b, S)
             a == [s \in Squares |-> IF s \in S THEN Rules!Empty ELSE At(b)[s]]
  <1>1. Sound(c) /\ \A u \in Types : c.pieces[u] = b.pieces[u] \ S
    BY CaptureSound
  <1> HIDE DEF c
  <1>2. ASSUME NEW s \in Squares PROVE At(c)[s] = a[s]
    <2>1. CASE s \in S
      BY <1>1, <2>1, AtNothing
    <2>2. CASE s \notin S
      <3>1. At(c)[s] = At(b)[s]
        BY <1>1, <2>2, AtSame
      <3> QED
        BY <2>2, <3>1
    <2> QED
      BY <2>1, <2>2
  <1>3. DOMAIN a = Squares /\ a = [s \in Squares |-> a[s]]
    OBVIOUS
  <1> HIDE DEF a
  <1>4. At(c) = a
    BY <1>2, <1>3, SamePosition
  <1> QED
    BY <1>4 DEF c, a

(* Contagion.                                                              *)
Zombie(turn) == Type(turn, WZ, BZ)

LEMMA Zombies ==
    ASSUME NEW turn \in {"w", "b"}
    PROVE  /\ Zombie(turn) \in TypesOf(turn) /\ Zombie(turn) \in Types
           /\ Piece(Zombie(turn)) = [color |-> turn, kind |-> "zombie"]
           /\ Type(turn, WP, BP) \in TypesOf(turn) /\ Type(turn, WP, BP) \in Types
           /\ Piece(Type(turn, WP, BP)) = [color |-> turn, kind |-> "peon"]
           /\ Type(turn, WP, BP) # Zombie(turn)
  BY Kinds, TypeFacts DEF Zombie, Type, TypesOf, Piece, WZ, BZ, WP, BP

LEMMA Spreads ==
    ASSUME NEW z \in Squares, NEW q \in Squares
    PROVE  Rules!Beside(z, q) <=> \/ q = z + 8 \/ q = z - 8
                                  \/ ColOf(z) # 0 /\ q = z - 1
                                  \/ ColOf(z) # 7 /\ q = z + 1
  <1> DEFINE r == RowOf(z)
             c == ColOf(z)
             x == RowOf(q)
             y == ColOf(q)
  <1>1. /\ r \in 0 .. 7 /\ c \in 0 .. 7 /\ x \in 0 .. 7 /\ y \in 0 .. 7
        /\ z = 8 * r + c /\ q = 8 * x + y
    BY ByCoordinates
  <1>2. Rules!Beside(z, q) <=> \/ x = r /\ (y = c + 1 \/ y = c - 1)
                               \/ y = c /\ (x = r + 1 \/ x = r - 1)
    BY ZombieMask
  <1> HIDE DEF r, c, x, y
  <1>3. q = z + 8 \/ q = z - 8 <=> y = c /\ (x = r + 1 \/ x = r - 1)
    BY <1>1
  <1>4. (c # 0 /\ q = z - 1) \/ (c # 7 /\ q = z + 1) <=> x = r /\ (y = c + 1 \/ y = c - 1)
    BY <1>1
  <1> QED
    BY <1>2, <1>3, <1>4 DEF c

LEMMA MaskIsInfected ==
    ASSUME NEW b, Sound(b), NEW q \in Squares
    PROVE  q \in contagion_mask(b) <=> q \in Rules!Infected(At(b), b.turn)
  <1> DEFINE turn == b.turn
             foe == Opponent(turn)
             Z == Zombie(turn)
  <1>0. turn \in {"w", "b"} /\ foe \in {"w", "b"}
    BY MoverFacts
  <1>1. q \in contagion_mask(b) <=>
            /\ \E z \in b.pieces[Z] : \/ q = z + 8 \/ q = z - 8
                                      \/ ColOf(z) # 0 /\ q = z - 1
                                      \/ ColOf(z) # 7 /\ q = z + 1
            /\ q \in Enemy(b) /\ q \notin b.pieces[Type(foe, WK, BK)] /\ q \notin b.pieces[Zombie(foe)]
    BY <1>0 DEF contagion_mask, Zombie, Type, Opponent
  <1>2. q \in Rules!Infected(At(b), turn) <=>
            /\ At(b)[q].color = foe
            /\ At(b)[q].kind \notin {"king", "zombie"}
            /\ \E z \in Squares : Rules!Beside(z, q) /\ At(b)[z] = [color |-> turn, kind |-> "zombie"]
    BY MoverFacts, RulesSquares DEF Rules!Infected
  <1>3. At(b)[q].color = foe <=> q \in Enemy(b)
    BY MoverFacts
  <1>4. \A z \in Squares : At(b)[z] = [color |-> turn, kind |-> "zombie"] <=> z \in b.pieces[Z]
    BY <1>0, Zombies, AtIs
  <1>5. b.pieces[Z] \subseteq Squares
    BY <1>0, Zombies, BoardFields DEF Sound
  <1>6. ASSUME q \in Enemy(b)
        PROVE  At(b)[q].kind \in {"king", "zombie"} <=>
                   q \in b.pieces[Type(foe, WK, BK)] \/ q \in b.pieces[Zombie(foe)]
    <2>1. PICK t \in TypesOf(foe) : q \in b.pieces[t]
      BY <1>6, MoverFacts
    <2>2. t \in Types /\ At(b)[q].kind = KindOf(t)
      BY <2>1, MoverFacts, AtPiece, PieceFacts
    <2>3. \A u \in Types : q \in b.pieces[u] <=> u = t
      BY <2>1, <2>2 DEF Sound, Once
    <2>4. /\ Type(foe, WK, BK) \in Types /\ Zombie(foe) \in Types
          /\ KindOf(t) \in {"king", "zombie"} <=> t = Type(foe, WK, BK) \/ t = Zombie(foe)
      <3>1. CASE foe = "w"
        <4>1. t \in {WP, WN, WB, WR, WQ, WK, WZ, WF, WC}
          BY <2>1, <3>1, TypeFacts DEF TypesOf
        <4> QED
          BY <3>1, <4>1, Kinds, TypeFacts DEF Type, Zombie
      <3>2. CASE foe = "b"
        <4>1. t \in {BP, BN, BB, BR, BQ, BK, BZ, BF, BC}
          BY <2>1, <3>2, TypeFacts DEF TypesOf
        <4> QED
          BY <3>2, <4>1, Kinds, TypeFacts DEF Type, Zombie
      <3> QED
        BY <1>0, <3>1, <3>2
    <2> QED
      BY <2>2, <2>3, <2>4
  <1> HIDE DEF turn, foe, Z
  <1>7. (\E z \in Squares : Rules!Beside(z, q) /\ At(b)[z] = [color |-> turn, kind |-> "zombie"])
        <=> \E z \in b.pieces[Z] : \/ q = z + 8 \/ q = z - 8
                                   \/ ColOf(z) # 0 /\ q = z - 1
                                   \/ ColOf(z) # 7 /\ q = z + 1
    BY <1>4, <1>5, Spreads
  <1>8. q \in contagion_mask(b) <=> q \in Rules!Infected(At(b), turn)
    BY <1>1, <1>2, <1>3, <1>6, <1>7
  <1> QED
    BY <1>8 DEF turn

LEMMA AtContagion ==
    ASSUME NEW b, Sound(b)
    PROVE  At(handle_contagion(b)) =
               [s \in Squares |-> IF s \in Rules!Infected(At(b), b.turn)
                                  THEN [color |-> b.turn, kind |-> "zombie"] ELSE At(b)[s]]
  <1> DEFINE mask == contagion_mask(b)
             ill == Rules!Infected(At(b), b.turn)
             c == infect(b, mask)
             Z == Zombie(b.turn)
             a == [s \in Squares |-> IF s \in ill
                                     THEN [color |-> b.turn, kind |-> "zombie"] ELSE At(b)[s]]
  <1>0. b \in Chezzboard /\ b.turn \in {"w", "b"}
    BY MoverFacts DEF Sound
  <1>1. mask \in SUBSET Squares /\ mask \subseteq Enemy(b)
    BY DEF contagion_mask
  <1>2. \A s \in Squares : s \in mask <=> s \in ill
    BY MaskIsInfected
  <1>3. handle_contagion(b) = IF mask = {} THEN b ELSE c
    BY DEF handle_contagion
  <1>4. /\ Z \in Types /\ Z \in TypesOf(b.turn)
        /\ Piece(Z) = [color |-> b.turn, kind |-> "zombie"]
    BY <1>0, Zombies
  <1>5. DOMAIN a = Squares /\ a = [s \in Squares |-> a[s]]
    OBVIOUS
  <1> HIDE DEF ill
  <1>6. CASE mask = {}
    <2>1. \A s \in Squares : At(b)[s] = a[s]
      BY <1>2, <1>6
    <2> HIDE DEF a, mask
    <2>2. At(b) = a
      BY <1>5, <2>1, SamePosition
    <2> QED
      BY <1>3, <1>6, <2>2 DEF a, ill
  <1>7. CASE mask # {}
    <2>1. handle_contagion(b) = c
      BY <1>3, <1>7
    <2>2. Sound(c)
      BY <2>1, ContagionSound
    <2>3. \A t \in Types : c.pieces[t] =
              IF t = Z THEN b.pieces[t] \cup mask
              ELSE IF t \in TypesOf(Opponent(b.turn)) /\ t \notin {WK, BK, WZ, BZ}
                   THEN b.pieces[t] \ mask ELSE b.pieces[t]
      BY <1>0, <1>1, InfectFields DEF Zombie, Type
    <2> HIDE DEF c, mask
    <2>4. ASSUME NEW s \in Squares PROVE At(c)[s] = a[s]
      <3>1. CASE s \in mask
        <4>1. s \in c.pieces[Z]
          BY <1>4, <2>3, <3>1
        <4>2. At(c)[s] = Piece(Z)
          BY <1>4, <2>2, <4>1, AtPiece
        <4> QED
          BY <1>2, <1>4, <3>1, <4>2
      <3>2. CASE s \notin mask
        <4>1. \A t \in Types : s \in c.pieces[t] <=> s \in b.pieces[t]
          BY <2>3, <3>2
        <4>2. At(c)[s] = At(b)[s]
          BY <2>2, <4>1, AtSame
        <4> QED
          BY <1>2, <3>2, <4>2
      <3> QED
        BY <3>1, <3>2
    <2> HIDE DEF a
    <2>5. At(c) = a
      BY <1>5, <2>4, SamePosition
    <2> QED
      BY <2>1, <2>5 DEF a, ill
  <1> QED
    BY <1>6, <1>7

(* Promotion.                                                              *)
LastRow(turn) == IF turn = "w" THEN 7 ELSE 0

LEMMA PromotedPieces ==
    ASSUME NEW b, Sound(b)
    PROVE  LET risen == {s \in b.pieces[Type(b.turn, WP, BP)] : RowOf(s) = LastRow(b.turn)}
           IN \A t \in Types : promote_peons(b).pieces[t] =
                  IF t = Type(b.turn, WP, BP) THEN b.pieces[t] \ risen
                  ELSE IF t = Zombie(b.turn) THEN b.pieces[t] \cup risen
                  ELSE b.pieces[t]
  <1> DEFINE P == Type(b.turn, WP, BP)
             Z == Zombie(b.turn)
             risen == {s \in b.pieces[P] : RowOf(s) = LastRow(b.turn)}
             pieces == [b.pieces EXCEPT ![P] = @ \ risen, ![Z] = @ \cup risen]
             c == promote_peons(b)
  <1>0. /\ b \in Chezzboard /\ b.turn \in {"w", "b"}
        /\ b.pieces \in [Types -> SUBSET Squares]
    BY BoardFields DEF Sound
  <1>1. P \in Types /\ Z \in Types /\ P # Z
    BY <1>0, Zombies
  <1>2. c = [b EXCEPT !.pieces = pieces]
    <2>1. CASE b.turn = "w"
      BY <1>0, <2>1 DEF promote_peons, Chezzboard, Type, Zombie, LastRow
    <2>2. CASE b.turn = "b"
      BY <1>0, <2>2 DEF promote_peons, Chezzboard, Type, Zombie, LastRow
    <2> QED
      BY <1>0, <2>1, <2>2
  <1> HIDE DEF P, Z, risen
  <1>3. \A t \in Types : pieces[t] = IF t = P THEN b.pieces[t] \ risen
                                     ELSE IF t = Z THEN b.pieces[t] \cup risen
                                     ELSE b.pieces[t]
    BY <1>0, <1>1
  <1> HIDE DEF pieces, c
  <1>4. c.pieces = pieces
    BY <1>0, <1>2 DEF Chezzboard
  <1> QED
    BY <1>3, <1>4 DEF P, Z, risen, c

LEMMA AtPromote ==
    ASSUME NEW b, Sound(b)
    PROVE  At(promote_peons(b)) = Rules!Rise(At(b), b.turn)
  <1> DEFINE P == Type(b.turn, WP, BP)
             Z == Zombie(b.turn)
             risen == {s \in b.pieces[P] : RowOf(s) = LastRow(b.turn)}
             c == promote_peons(b)
             a == Rules!Rise(At(b), b.turn)
  <1>0. b.turn \in {"w", "b"}
    BY MoverFacts
  <1>1. /\ P \in Types /\ Z \in Types /\ P # Z
        /\ Piece(P) = [color |-> b.turn, kind |-> "peon"]
        /\ Piece(Z) = [color |-> b.turn, kind |-> "zombie"]
    BY <1>0, Zombies
  <1>2. Sound(c)
    BY PromoteSound
  <1>3. \A t \in Types : c.pieces[t] = IF t = P THEN b.pieces[t] \ risen
                                       ELSE IF t = Z THEN b.pieces[t] \cup risen
                                       ELSE b.pieces[t]
    BY PromotedPieces
  <1>4. ASSUME NEW s \in Squares
        PROVE  s \in risen <=> At(b)[s] = [color |-> b.turn, kind |-> "peon"]
                               /\ Rules!Row(s) = Rules!LastRow(b.turn)
    <2>1. At(b)[s] = Piece(P) <=> s \in b.pieces[P]
      BY <1>1, AtIs
    <2>2. Rules!Row(s) = RowOf(s) /\ Rules!LastRow(b.turn) = LastRow(b.turn)
      BY ByCoordinates DEF Rules!LastRow, LastRow
    <2> QED
      BY <1>1, <2>1, <2>2
  <1>5. a = [s \in Squares |-> IF s \in risen THEN [color |-> b.turn, kind |-> "zombie"]
                               ELSE At(b)[s]]
    BY <1>4, RulesSquares, Zenon DEF Rules!Rise
  <1> HIDE DEF c, a, P, Z
  <1>6. ASSUME NEW s \in Squares PROVE At(c)[s] = a[s]
    <2>1. CASE s \in risen
      <3>1. s \in c.pieces[Z]
        BY <1>1, <1>3, <2>1
      <3>2. At(c)[s] = Piece(Z)
        BY <1>1, <1>2, <3>1, AtPiece
      <3> QED
        BY <1>1, <1>5, <2>1, <3>2
    <2>2. CASE s \notin risen
      <3>1. \A t \in Types : s \in c.pieces[t] <=> s \in b.pieces[t]
        BY <1>3, <2>2
      <3>2. At(c)[s] = At(b)[s]
        BY <1>2, <3>1, AtSame
      <3> QED
        BY <1>5, <2>2, <3>2
    <2> QED
      BY <2>1, <2>2
  <1>7. DOMAIN a = Squares /\ a = [s \in Squares |-> a[s]]
    BY <1>5
  <1>8. At(c) = a
    BY <1>6, <1>7, SamePosition
  <1> QED
    BY <1>8 DEF c, a

LEMMA RiseOfNone ==
    ASSUME NEW b, Good(b)
    PROVE  Rules!Rise(At(b), b.turn) = At(b)
  <1> DEFINE a == Rules!Rise(At(b), b.turn)
             P == Type(b.turn, WP, BP)
  <1>0. Sound(b) /\ b.turn \in {"w", "b"}
    BY MoverFacts DEF Good
  <1>1. P \in Types /\ Piece(P) = [color |-> b.turn, kind |-> "peon"]
    BY <1>0, Zombies
  <1>2. \A s \in b.pieces[P] : RowOf(s) # LastRow(b.turn)
    BY <1>0 DEF Good, NoPeonOnLastRow, Type, LastRow
  <1>3. ASSUME NEW s \in Squares
        PROVE  ~(At(b)[s] = [color |-> b.turn, kind |-> "peon"]
                 /\ Rules!Row(s) = Rules!LastRow(b.turn))
    <2>1. At(b)[s] = Piece(P) <=> s \in b.pieces[P]
      BY <1>0, <1>1, AtIs
    <2>2. Rules!Row(s) = RowOf(s) /\ Rules!LastRow(b.turn) = LastRow(b.turn)
      BY ByCoordinates DEF Rules!LastRow, LastRow
    <2> QED
      BY <1>1, <1>2, <2>1, <2>2
  <1>4. a = [s \in Squares |-> At(b)[s]]
    BY <1>3, RulesSquares, Zenon DEF Rules!Rise
  <1> QED
    BY <1>4, AtShape

LEMMA AtAdd ==
    ASSUME NEW b, Sound(b)
    PROVE  At(add_board(b)) = At(b) /\ add_board(b).turn = Opponent(b.turn)
  <1>1. add_board(b).pieces = b.pieces
    BY AddBoardSound
  <1>2. add_board(b).turn = Opponent(b.turn)
    BY DEF add_board, Sound, Chezzboard
  <1> QED
    BY <1>1, <1>2, Zenon DEF At

(* What follows every move.                                                *)
LEMMA AtSettle ==
    ASSUME NEW c, Sound(c), NEW promotes \in BOOLEAN, ~promotes => NoPeonOnLastRow(c)
    PROVE  /\ At(Settle(c, promotes)) = Rules!Aftermath(At(c), c.turn)
           /\ Settle(c, promotes).turn = Opponent(c.turn)
  <1> DEFINE d == handle_contagion(c)
             e == promote_peons(d)
  <1>1. Sound(d) /\ d.turn = c.turn /\ FewerPeons(d, c)
    BY ContagionSound
  <1>2. At(d) = [s \in Squares |-> IF s \in Rules!Infected(At(c), c.turn)
                                   THEN [color |-> c.turn, kind |-> "zombie"] ELSE At(c)[s]]
    BY AtContagion
  <1>3. Rules!Aftermath(At(c), c.turn) = Rules!Rise(At(d), c.turn)
    BY <1>2, RulesSquares, Zenon DEF Rules!Aftermath
  <1> HIDE DEF d
  <1>4. CASE promotes
    <2>1. Sound(e) /\ e.turn = d.turn /\ At(e) = Rules!Rise(At(d), d.turn)
      BY <1>1, PromoteSound, AtPromote
    <2>2. Settle(c, promotes) = add_board(e)
      BY <1>4 DEF Settle, d, e
    <2> HIDE DEF e
    <2>3. At(add_board(e)) = At(e) /\ add_board(e).turn = Opponent(e.turn)
      BY <2>1, AtAdd
    <2> QED
      BY <1>1, <1>3, <2>1, <2>2, <2>3
  <1>5. CASE ~promotes
    <2>1. Good(d)
      BY <1>1, <1>5 DEF Good, NoPeonOnLastRow, FewerPeons
    <2>2. Rules!Rise(At(d), d.turn) = At(d)
      BY <2>1, RiseOfNone
    <2>3. Settle(c, promotes) = add_board(d)
      BY <1>5 DEF Settle, d
    <2>4. At(add_board(d)) = At(d) /\ add_board(d).turn = Opponent(d.turn)
      BY <1>1, AtAdd
    <2> QED
      BY <1>1, <1>3, <2>2, <2>3, <2>4
  <1> QED
    BY <1>4, <1>5

-----------------------------------------------------------------------------
(* Where the piece on s may go by itself.                                  *)
LEMMA MayGoIs ==
    ASSUME NEW b, Sound(b), NEW t \in TypesOf(b.turn), NEW s \in b.pieces[t], NEW q \in Squares
    PROVE  LET a == At(b)
               k == KindOf(t)
           IN Rules!MayGo(a, s, q) <=>
                /\ q \notin Friendly(b)
                /\ \/ /\ k = "peon" /\ RowOf(q) = RowOf(s) + Rules!Ahead(b.turn)
                      /\ \/ ColOf(q) = ColOf(s) /\ q \notin Enemy(b)
                         \/ Rules!Diff(ColOf(q), ColOf(s)) = 1 /\ q \in Enemy(b)
                   \/ k = "knight" /\ Rules!Jump(s, q)
                   \/ k = "bishop" /\ Rules!Diagonal(s, q) /\ Rules!Clear(a, s, q)
                   \/ k = "rook" /\ Rules!Straight(s, q) /\ Rules!Clear(a, s, q)
                   \/ k = "queen" /\ (Rules!Diagonal(s, q) \/ Rules!Straight(s, q))
                                  /\ Rules!Clear(a, s, q)
                   \/ k = "king" /\ Rules!Neighbours(s, q)
                   \/ k = "zombie" /\ Rules!Beside(s, q)
                   \/ k = "catapult" /\ Rules!Neighbours(s, q) /\ q \notin Enemy(b)
                   \/ k = "canon" /\ Rules!Beside(s, q) /\ q \notin Enemy(b)
  <1>1. t \in Types /\ Piece(t).color = b.turn
    BY MoverFacts
  <1>2. s \in Squares /\ At(b)[s].color = b.turn /\ At(b)[s].kind = KindOf(t)
    BY <1>1, AtPiece, PieceFacts
  <1>3. /\ At(b)[q].color = b.turn <=> q \in Friendly(b)
        /\ At(b)[q].color = Rules!Other(b.turn) <=> q \in Enemy(b)
    BY MoverFacts
  <1>4. /\ Rules!Row(s) = RowOf(s) /\ Rules!Col(s) = ColOf(s)
        /\ Rules!Row(q) = RowOf(q) /\ Rules!Col(q) = ColOf(q)
    BY <1>2, ByCoordinates
  <1> QED
    BY <1>2, <1>3, <1>4, Zenon DEF Rules!MayGo

LEMMA PeonGoes ==
    ASSUME NEW b, Sound(b), NEW t \in TypesOf(b.turn), t \in {WP, BP},
           NEW s \in b.pieces[t], NEW q \in Squares
    PROVE  q \in PeonSteps(b, s, t) \cup PeonCaptures(b, s, t) <=>
               Rules!MayGo(At(b), s, q)
  <1>1. s \in Squares /\ b.turn \in {"w", "b"}
    BY MoverFacts, AtPiece
  <1>2. KindOf(t) = "peon"
    BY Kinds
  <1>3. Rules!MayGo(At(b), s, q) <=>
            /\ q \notin Friendly(b)
            /\ RowOf(q) = RowOf(s) + Rules!Ahead(b.turn)
            /\ \/ ColOf(q) = ColOf(s) /\ q \notin Enemy(b)
               \/ Rules!Diff(ColOf(q), ColOf(s)) = 1 /\ q \in Enemy(b)
    BY <1>2, MayGoIs
  <1>4. Rules!Ahead(b.turn) \in {-1, 1} /\ nsp_table[t][s] = gen_peon_mask(s, Rules!Ahead(b.turn))
    <2>1. CASE b.turn = "w"
      <3>1. t = WP
        BY <2>1 DEF TypesOf, WhiteTypes, WP, BP
      <3> QED
        BY <1>1, <2>1, <3>1, TableRows DEF Rules!Ahead
    <2>2. CASE b.turn = "b"
      <3>1. t = BP
        BY <2>2 DEF TypesOf, BlackTypes, WP, BP
      <3> QED
        BY <1>1, <2>2, <3>1, TableRows DEF Rules!Ahead
    <2> QED
      BY <1>1, <2>1, <2>2
  <1>5. q \in nsp_table[t][s] <=> /\ RowOf(q) = RowOf(s) + Rules!Ahead(b.turn)
                                  /\ ColOf(q) - ColOf(s) \in -1 .. 1
    BY <1>1, <1>4, PeonMask
  <1>6. /\ ColOf(q) \in 0 .. 7 /\ ColOf(s) \in 0 .. 7
    BY <1>1, ByCoordinates
  <1>7. /\ ColOf(q) = ColOf(s) => ColOf(q) - ColOf(s) \in -1 .. 1
        /\ ColOf(q) - ColOf(s) \in {-1, 1} => ColOf(q) - ColOf(s) \in -1 .. 1
        /\ Rules!Diff(ColOf(q), ColOf(s)) = 1 <=> ColOf(q) - ColOf(s) \in {-1, 1}
    BY <1>6 DEF Rules!Diff
  <1> QED
    BY <1>3, <1>5, <1>7 DEF PeonSteps, PeonCaptures

LEMMA PieceGoes ==
    ASSUME NEW b, Sound(b), NEW t \in TypesOf(b.turn), t \notin {WP, BP},
           NEW s \in b.pieces[t], NEW q \in Squares
    PROVE  q \in PseudoMoves(b, s, t) <=> Rules!MayGo(At(b), s, q)
  <1>1. s \in Squares /\ t \in Types
    BY MoverFacts, AtPiece
  <1>2. Marks(At(b), b.all)
    BY AtIs DEF Marks
  <1>3. /\ q \in bishop_attacks(s, b.all) <=> Rules!Diagonal(s, q) /\ Rules!Clear(At(b), s, q)
        /\ q \in rook_attacks(s, b.all) <=> Rules!Straight(s, q) /\ Rules!Clear(At(b), s, q)
    BY <1>1, <1>2, WalkIsClear
  <1>4. t \in {WN, BN, WB, BB, WR, BR, WQ, BQ, WK, BK, WZ, BZ, WF, BF, WC, BC}
    BY <1>1, TypeFacts
  <1>5. CASE t \in {WN, BN}
    <2>1. KindOf(t) = "knight"
      BY <1>5, Kinds
    <2>2. PseudoMoves(b, s, t) = gen_knight_mask(s) \ Friendly(b)
      <3>1. PseudoMoves(b, s, t) = nsp_table[t][s] \ Friendly(b)
        BY <1>5 DEF PseudoMoves, WN, BN, WB, BB, WR, BR, WQ, BQ, WF, BF, WC, BC
      <3> QED
        BY <1>1, <1>5, <3>1, TableRows
    <2> QED
      BY <1>1, <2>1, <2>2, KnightMask, MayGoIs
  <1>6. CASE t \in {WB, BB}
    <2>1. KindOf(t) = "bishop"
      BY <1>6, Kinds
    <2>2. PseudoMoves(b, s, t) = bishop_attacks(s, b.all) \ Friendly(b)
      BY <1>6 DEF PseudoMoves, WB, BB, WR, BR, WQ, BQ, WF, BF, WC, BC
    <2> QED
      BY <1>3, <2>1, <2>2, MayGoIs
  <1>7. CASE t \in {WR, BR}
    <2>1. KindOf(t) = "rook"
      BY <1>7, Kinds
    <2>2. PseudoMoves(b, s, t) = rook_attacks(s, b.all) \ Friendly(b)
      BY <1>7 DEF PseudoMoves, WB, BB, WR, BR, WQ, BQ, WF, BF, WC, BC
    <2> QED
      BY <1>3, <2>1, <2>2, MayGoIs
  <1>8. CASE t \in {WQ, BQ}
    <2>1. KindOf(t) = "queen"
      BY <1>8, Kinds
    <2>2. PseudoMoves(b, s, t) =
              (bishop_attacks(s, b.all) \cup rook_attacks(s, b.all)) \ Friendly(b)
      BY <1>8 DEF PseudoMoves, WB, BB, WR, BR, WQ, BQ, WF, BF, WC, BC
    <2> QED
      BY <1>3, <2>1, <2>2, MayGoIs
  <1>9. CASE t \in {WK, BK}
    <2>1. KindOf(t) = "king"
      BY <1>9, Kinds
    <2>2. PseudoMoves(b, s, t) = gen_king_mask(s) \ Friendly(b)
      <3>1. PseudoMoves(b, s, t) = nsp_table[t][s] \ Friendly(b)
        BY <1>9 DEF PseudoMoves, WK, BK, WB, BB, WR, BR, WQ, BQ, WF, BF, WC, BC
      <3> QED
        BY <1>1, <1>9, <3>1, TableRows
    <2> QED
      BY <1>1, <2>1, <2>2, KingMask, MayGoIs
  <1>10. CASE t \in {WZ, BZ}
    <2>1. KindOf(t) = "zombie"
      BY <1>10, Kinds
    <2>2. PseudoMoves(b, s, t) = gen_zombie_mask(s) \ Friendly(b)
      <3>1. PseudoMoves(b, s, t) = nsp_table[t][s] \ Friendly(b)
        BY <1>10 DEF PseudoMoves, WZ, BZ, WB, BB, WR, BR, WQ, BQ, WF, BF, WC, BC
      <3> QED
        BY <1>1, <1>10, <3>1, TableRows
    <2> QED
      BY <1>1, <2>1, <2>2, ZombieMask, MayGoIs
  <1>11. CASE t \in {WF, BF}
    <2>1. KindOf(t) = "catapult"
      BY <1>11, Kinds
    <2>2. PseudoMoves(b, s, t) = (gen_catapult_mask(s) \ Enemy(b)) \ Friendly(b)
      <3>1. PseudoMoves(b, s, t) = (nsp_table[t][s] \ Enemy(b)) \ Friendly(b)
        BY <1>11 DEF PseudoMoves, WB, BB, WR, BR, WQ, BQ, WF, BF, WC, BC
      <3> QED
        BY <1>1, <1>11, <3>1, TableRows
    <2> QED
      BY <1>1, <2>1, <2>2, KingMask, MayGoIs
  <1>12. CASE t \in {WC, BC}
    <2>1. KindOf(t) = "canon"
      BY <1>12, Kinds
    <2>2. PseudoMoves(b, s, t) = (gen_canon_mask(s) \ Enemy(b)) \ Friendly(b)
      <3>1. PseudoMoves(b, s, t) = (nsp_table[t][s] \ Enemy(b)) \ Friendly(b)
        BY <1>12 DEF PseudoMoves, WB, BB, WR, BR, WQ, BQ, WF, BF, WC, BC
      <3> QED
        BY <1>1, <1>12, <3>1, TableRows
    <2> QED
      BY <1>1, <2>1, <2>2, ZombieMask, MayGoIs
  <1> QED
    BY <1>4, <1>5, <1>6, <1>7, <1>8, <1>9, <1>10, <1>11, <1>12

-----------------------------------------------------------------------------
(* Moves: what the generator lists for one piece is what it may do.        *)
After(b, a) == Rules!Aftermath(a, b.turn)

LEMMA MoveMade ==
    ASSUME NEW b, Good(b), NEW t \in TypesOf(b.turn), NEW s \in b.pieces[t],
           NEW q \in Squares, q \notin Friendly(b), NEW promotes \in BOOLEAN,
           promotes \/ t \notin {WP, BP} \/ RowOf(q) \notin {0, 7}
    PROVE  LET x == Settle(move_piece(Capturing(b, q), t, s, q), promotes)
           IN /\ At(x) = After(b, Rules!AfterMove(At(b), s, q))
              /\ x.turn = Opponent(b.turn)
  <1> DEFINE m == move_piece(Capturing(b, q), t, s, q)
  <1>1. Sound(b) /\ s \in Squares
    BY MoverFacts, AtPiece DEF Good
  <1>2. HasMoved(m, b, t, q)
    BY <1>1, PieceMoves
  <1>3. At(m) = Rules!AfterMove(At(b), s, q)
    BY <1>1, AtMove
  <1> HIDE DEF m
  <1>4. Sound(m) /\ m.turn = b.turn /\ (~promotes => NoPeonOnLastRow(m))
    BY <1>2, OthersStay DEF HasMoved
  <1>5. /\ At(Settle(m, promotes)) = Rules!Aftermath(At(m), m.turn)
        /\ Settle(m, promotes).turn = Opponent(m.turn)
    BY <1>4, AtSettle
  <1> QED
    BY <1>3, <1>4, <1>5 DEF m, After

LEMMA PeonsListed ==
    ASSUME NEW b, Good(b), NEW t \in TypesOf(b.turn), t \in {WP, BP}, NEW s \in b.pieces[t]
    PROVE  /\ \A x \in set_peon_moves(b, s, t) :
                /\ x.turn = Opponent(b.turn)
                /\ \E q \in Squares : /\ Rules!MayGo(At(b), s, q)
                                      /\ At(x) = After(b, Rules!AfterMove(At(b), s, q))
           /\ \A q \in Squares : Rules!MayGo(At(b), s, q) =>
                \E x \in set_peon_moves(b, s, t) :
                    At(x) = After(b, Rules!AfterMove(At(b), s, q))
  <1> DEFINE targets == PeonSteps(b, s, t) \cup PeonCaptures(b, s, t)
             board_of(q) == Settle(move_piece(Capturing(b, q), t, s, q), RowOf(q) \in {0, 7})
  <1>1. Sound(b) /\ s \in Squares /\ t \in Types
    BY MoverFacts, AtPiece DEF Good
  <1>2. set_peon_moves(b, s, t) = {board_of(q) : q \in targets}
    <2>1. \A q \in PeonSteps(b, s, t) : Capturing(b, q) = b
      BY DEF PeonSteps, Capturing
    <2>2. \A q \in PeonCaptures(b, s, t) : Capturing(b, q) = capture_piece(b, q)
      BY DEF PeonCaptures, Capturing
    <2> QED
      BY <2>1, <2>2 DEF set_peon_moves
  <1>3. targets \subseteq Squares
    BY <1>1, TableOnBoard DEF PeonSteps, PeonCaptures
  <1>4. \A q \in Squares : q \in targets <=> Rules!MayGo(At(b), s, q)
    BY <1>1, PeonGoes
  <1>5. \A q \in targets : q \notin Friendly(b)
    BY DEF PeonSteps, PeonCaptures
  <1> HIDE DEF targets
  <1>6. ASSUME NEW q \in targets
        PROVE  /\ At(board_of(q)) = After(b, Rules!AfterMove(At(b), s, q))
               /\ board_of(q).turn = Opponent(b.turn)
    <2> DEFINE last == RowOf(q) \in {0, 7}
    <2>1. last \in BOOLEAN /\ (last \/ RowOf(q) \notin {0, 7})
      OBVIOUS
    <2>2. q \in Squares /\ q \notin Friendly(b)
      BY <1>3, <1>5
    <2>3. board_of(q) = Settle(move_piece(Capturing(b, q), t, s, q), last)
      OBVIOUS
    <2> HIDE DEF last, board_of
    <2> QED
      BY <2>1, <2>2, <2>3, MoveMade
  <1> HIDE DEF board_of
  <1> QED
    BY <1>2, <1>3, <1>4, <1>6

LEMMA PiecesListed ==
    ASSUME NEW b, Good(b), NEW t \in TypesOf(b.turn), t \notin {WP, BP}, NEW s \in b.pieces[t]
    PROVE  LET moves == set_piece_moves(b, s, t, PseudoMoves(b, s, t)) IN
           /\ \A x \in moves :
                /\ x.turn = Opponent(b.turn)
                /\ \E q \in Squares : /\ Rules!MayGo(At(b), s, q)
                                      /\ At(x) = After(b, Rules!AfterMove(At(b), s, q))
           /\ \A q \in Squares : Rules!MayGo(At(b), s, q) =>
                \E x \in moves : At(x) = After(b, Rules!AfterMove(At(b), s, q))
  <1> DEFINE targets == PseudoMoves(b, s, t)
             board_of(q) == Settle(move_piece(Capturing(b, q), t, s, q), FALSE)
             moves == set_piece_moves(b, s, t, targets)
  <1>1. Sound(b) /\ s \in Squares /\ t \in Types
    BY MoverFacts, AtPiece DEF Good
  <1>2. moves = {board_of(q) : q \in targets}
    BY DEF set_piece_moves, Capturing
  <1>3. targets \subseteq Squares /\ \A q \in targets : q \notin Friendly(b)
    BY <1>1, PseudoMovesOnBoard
  <1>4. \A q \in Squares : q \in targets <=> Rules!MayGo(At(b), s, q)
    BY <1>1, PieceGoes
  <1> HIDE DEF targets, moves
  <1>6. ASSUME NEW q \in targets
        PROVE  /\ At(board_of(q)) = After(b, Rules!AfterMove(At(b), s, q))
               /\ board_of(q).turn = Opponent(b.turn)
    BY <1>3, MoveMade
  <1> HIDE DEF board_of
  <1>7. /\ \A x \in moves :
             /\ x.turn = Opponent(b.turn)
             /\ \E q \in Squares : /\ Rules!MayGo(At(b), s, q)
                                   /\ At(x) = After(b, Rules!AfterMove(At(b), s, q))
        /\ \A q \in Squares : Rules!MayGo(At(b), s, q) =>
             \E x \in moves : At(x) = After(b, Rules!AfterMove(At(b), s, q))
    BY <1>2, <1>3, <1>4, <1>6
  <1> QED
    BY <1>7 DEF moves, targets

-----------------------------------------------------------------------------
(* Flings.                                                                 *)
LEMMA EnemyKing ==
    ASSUME NEW b, Sound(b), NEW q \in Squares, q \notin Friendly(b)
    PROVE  At(b)[q].kind = "king" <=> q \in b.pieces[IF b.turn = "w" THEN BK ELSE WK]
  <1> DEFINE K == IF b.turn = "w" THEN BK ELSE WK
             foe == Opponent(b.turn)
  <1>1. b.turn \in {"w", "b"}
    BY MoverFacts
  <1>2. K \in TypesOf(foe) /\ K \in Types
    BY <1>1, TypeFacts DEF TypesOf, Opponent
  <1>3. CASE q \in Enemy(b)
    <2>1. PICK t \in TypesOf(foe) : q \in b.pieces[t]
      BY <1>3, MoverFacts
    <2>2. t \in Types /\ At(b)[q].kind = KindOf(t)
      BY <2>1, MoverFacts, AtPiece, PieceFacts
    <2>3. q \in b.pieces[K] <=> K = t
      BY <1>2, <2>1, <2>2 DEF Sound, Once
    <2>4. KindOf(t) = "king" <=> t = K
      <3>1. CASE b.turn = "b"
        <4>1. t \in {WP, WN, WB, WR, WQ, WK, WZ, WF, WC}
          BY <2>1, <3>1, TypeFacts DEF TypesOf, Opponent
        <4> QED
          BY <3>1, <4>1, Kinds
      <3>2. CASE b.turn = "w"
        <4>1. t \in {BP, BN, BB, BR, BQ, BK, BZ, BF, BC}
          BY <2>1, <3>2, TypeFacts DEF TypesOf, Opponent
        <4> QED
          BY <3>2, <4>1, Kinds
      <3> QED
        BY <1>1, <3>1, <3>2
    <2> QED
      BY <2>2, <2>3, <2>4
  <1>4. CASE q \notin Enemy(b)
    <2>1. q \notin b.all
      BY <1>4, MoverFacts
    <2>2. At(b)[q] = Rules!Empty
      BY <2>1, AtIs
    <2>3. q \notin b.pieces[K]
      BY <1>2, <1>4, MoverFacts
    <2> QED
      BY <2>2, <2>3, PieceFacts
  <1> QED
    BY <1>3, <1>4

LEMMA FlingMade ==
    ASSUME NEW b, Good(b), NEW u \in TypesOf(b.turn), NEW f \in b.pieces[u],
           NEW q \in Squares, q \notin Friendly(b)
    PROVE  /\ At(Fling(b, f, u, q)) = After(b, Rules!AfterFling(At(b), f, q))
           /\ Fling(b, f, u, q).turn = Opponent(b.turn)
  <1> DEFINE peon == u \in {WP, BP}
  <1>0. Sound(b) /\ b \in Chezzboard /\ f \in Squares /\ f \in Friendly(b) /\ u \in Types
    BY MoverFacts, AtPiece DEF Good, Sound
  <1>1. CASE q \notin Enemy(b)
    <2>1. Capturing(b, q) = b
      BY <1>1 DEF Capturing
    <2>2. Fling(b, f, u, q) = Settle(move_piece(Capturing(b, q), u, f, q), peon)
      BY <1>1, <2>1 DEF Fling
    <2>3. peon \in BOOLEAN /\ (peon \/ u \notin {WP, BP})
      OBVIOUS
    <2> HIDE DEF peon
    <2>4. /\ At(Fling(b, f, u, q)) = After(b, Rules!AfterMove(At(b), f, q))
          /\ Fling(b, f, u, q).turn = Opponent(b.turn)
      BY <2>2, <2>3, MoveMade
    <2>5. At(b)[q] = Rules!Empty
      BY <1>0, <1>1, MoverFacts, AtIs
    <2>6. Rules!AfterFling(At(b), f, q) = Rules!AfterMove(At(b), f, q)
      BY <2>5 DEF Rules!AfterFling
    <2> QED
      BY <2>4, <2>6
  <1>2. CASE q \in Enemy(b)
    <2> DEFINE d == CaptureAll(b, {q})
               e == CaptureAll(d, {f})
    <2>1. /\ Sound(d) /\ d.turn = b.turn /\ \A v \in Types : d.pieces[v] = b.pieces[v] \ {q}
          /\ capture_piece(b, q) = d
      BY <1>0, CaptureSound, CaptureOne
    <2>2. At(d) = [s \in Squares |-> IF s \in {q} THEN Rules!Empty ELSE At(b)[s]]
      BY <1>0, AtCapture
    <2> HIDE DEF d
    <2>3. /\ Sound(e) /\ e.turn = d.turn /\ \A v \in Types : e.pieces[v] = d.pieces[v] \ {f}
          /\ capture_piece(d, f) = e
      BY <2>1, CaptureSound, CaptureOne DEF Sound
    <2>4. At(e) = [s \in Squares |-> IF s \in {f} THEN Rules!Empty ELSE At(d)[s]]
      BY <2>1, AtCapture
    <2>5. Fling(b, f, u, q) = Settle(e, peon)
      BY <1>2, <2>1, <2>3 DEF Fling
    <2> HIDE DEF e
    <2>6. peon \in BOOLEAN
      OBVIOUS
    <2>7. NoPeonOnLastRow(e)
      BY <2>1, <2>3 DEF Good, NoPeonOnLastRow, Types, WP, BP
    <2> HIDE DEF peon
    <2>8. /\ At(Settle(e, peon)) = Rules!Aftermath(At(e), e.turn)
          /\ Settle(e, peon).turn = Opponent(e.turn)
      BY <2>3, <2>6, <2>7, AtSettle
    <2>9. At(b)[q] # Rules!Empty
      BY <1>0, <1>2, MoverFacts, AtIs
    <2>10. Rules!AfterFling(At(b), f, q) =
               [At(b) EXCEPT ![q] = Rules!Empty, ![f] = Rules!Empty]
      BY <2>9 DEF Rules!AfterFling
    <2>11. At(e) = Rules!AfterFling(At(b), f, q)
      <3> DEFINE a == At(b)
      <3>1. a = [s \in Squares |-> a[s]]
        BY AtShape
      <3> HIDE DEF a
      <3>2. [a EXCEPT ![q] = Rules!Empty, ![f] = Rules!Empty] =
                [s \in Squares |-> IF s \in {f} THEN Rules!Empty
                                   ELSE IF s \in {q} THEN Rules!Empty ELSE a[s]]
        BY <1>0, <3>1
      <3>3. At(e) = [s \in Squares |-> IF s \in {f} THEN Rules!Empty
                                       ELSE IF s \in {q} THEN Rules!Empty ELSE a[s]]
        BY <2>2, <2>4 DEF a
      <3> QED
        BY <2>10, <3>2, <3>3 DEF a
    <2> QED
      BY <2>1, <2>3, <2>5, <2>8, <2>11 DEF After
  <1> QED
    BY <1>1, <1>2

LEMMA MayFlingIs ==
    ASSUME NEW b, Sound(b), NEW t \in TypesOf(b.turn), t \in {WF, BF}, NEW k \in b.pieces[t],
           NEW f \in Squares, NEW q \in Squares
    PROVE  Rules!MayFling(At(b), k, f, q) <=>
               /\ f \in Payloads(b, k, t) /\ f \in Friendly(b)
               /\ q \in FlingTargets(b, k, f) /\ q \notin Friendly(b)
  <1>1. k \in Squares /\ t \in Types /\ At(b)[k] = Piece(t)
    BY MoverFacts, AtPiece
  <1>2. At(b)[k].color = b.turn /\ At(b)[k].kind = "catapult"
    BY <1>1, MoverFacts, PieceFacts, Kinds
  <1>3. nsp_table[t][k] = gen_catapult_mask(k)
    BY <1>1, TableRows
  <1>4. f \in Payloads(b, k, t) <=> Rules!Neighbours(k, f) /\ f \in Friendly(b)
    BY <1>1, <1>3, KingMask, MoverFacts DEF Payloads
  <1>5. Rules!Neighbours(k, f) =>
            (q \in FlingPath(k, f) <=> Line(k, q) /\ Rules!Dir(k, q) = Rules!Dir(f, k))
    BY <1>1, FlingPathIsLine
  <1>6. /\ At(b)[f].color = b.turn <=> f \in Friendly(b)
        /\ At(b)[q].color = b.turn <=> q \in Friendly(b)
    BY MoverFacts
  <1>7. q \in FlingTargets(b, k, f) <=>
            /\ q \in FlingPath(k, f) /\ q \notin Friendly(b)
            /\ q \notin b.pieces[IF b.turn = "w" THEN BK ELSE WK]
    BY DEF FlingTargets
  <1>8. Rules!MayFling(At(b), k, f, q) <=>
            /\ Rules!Neighbours(k, f) /\ f \in Friendly(b)
            /\ Line(k, q) /\ Rules!Dir(k, q) = Rules!Dir(f, k)
            /\ q \notin Friendly(b) /\ At(b)[q].kind # "king"
    BY <1>2, <1>6 DEF Rules!MayFling, Line
  <1> QED
    BY <1>4, <1>5, <1>7, <1>8, EnemyKing

LEMMA FlingsListed ==
    ASSUME NEW b, Good(b), NEW t \in TypesOf(b.turn), t \in {WF, BF}, NEW k \in b.pieces[t]
    PROVE  /\ \A x \in set_catapult_flings(b, k, t) :
                /\ x.turn = Opponent(b.turn)
                /\ \E f \in Squares : \E q \in Squares :
                     /\ f \in Friendly(b) /\ Rules!MayFling(At(b), k, f, q)
                     /\ At(x) = After(b, Rules!AfterFling(At(b), f, q))
           /\ \A f \in Squares : \A q \in Squares : Rules!MayFling(At(b), k, f, q) =>
                \E x \in set_catapult_flings(b, k, t) :
                    At(x) = After(b, Rules!AfterFling(At(b), f, q))
  <1>0. Sound(b) /\ b \in Chezzboard /\ b.turn \in {"w", "b"}
    BY MoverFacts DEF Good, Sound
  <1>1. ASSUME NEW x \in set_catapult_flings(b, k, t)
        PROVE  /\ x.turn = Opponent(b.turn)
               /\ \E f \in Squares : \E q \in Squares :
                    /\ f \in Friendly(b) /\ Rules!MayFling(At(b), k, f, q)
                    /\ At(x) = After(b, Rules!AfterFling(At(b), f, q))
    <2>1. PICK f \in Payloads(b, k, t) : \E u \in Types : \E q \in FlingTargets(b, k, f) :
              IsFirstType(b, f, u) /\ x = Fling(b, f, u, q)
      BY DEF set_catapult_flings
    <2>2. PICK u \in Types, q \in FlingTargets(b, k, f) :
              IsFirstType(b, f, u) /\ x = Fling(b, f, u, q)
      BY <2>1
    <2>3. u \in TypesOf(b.turn) /\ f \in b.pieces[u]
      BY <2>2 DEF IsFirstType
    <2>4. f \in Squares /\ f \in Friendly(b)
      BY <1>0, <2>3, MoverFacts, AtPiece
    <2>5. k \in Squares
      BY <1>0, MoverFacts, AtPiece
    <2>6. q \in Squares /\ q \notin Friendly(b)
      <3>1. FlingPath(k, f) \subseteq Squares
        BY <2>5, AttacksOnBoard DEF FlingPath
      <3> QED
        BY <2>2, <3>1 DEF FlingTargets
    <2>7. Rules!MayFling(At(b), k, f, q)
      BY <1>0, <2>1, <2>2, <2>4, <2>6, MayFlingIs
    <2> QED
      BY <2>2, <2>3, <2>4, <2>6, <2>7, FlingMade
  <1>2. ASSUME NEW f \in Squares, NEW q \in Squares, Rules!MayFling(At(b), k, f, q)
        PROVE  \E x \in set_catapult_flings(b, k, t) :
                   At(x) = After(b, Rules!AfterFling(At(b), f, q))
    <2>1. /\ f \in Payloads(b, k, t) /\ f \in Friendly(b)
          /\ q \in FlingTargets(b, k, f) /\ q \notin Friendly(b)
      BY <1>0, <1>2, MayFlingIs
    <2>2. PICK u \in TypesOf(b.turn) : f \in b.pieces[u]
      BY <1>0, <2>1, MoverFacts
    <2>3. \A v \in TypesOf(b.turn) : f \in b.pieces[v] => v = u
      BY <1>0, <2>2, MoverFacts DEF Sound, Once
    <2>4. u \in Types /\ u \in Nat /\ \A v \in TypesOf(b.turn) : v \in Nat
      BY <1>0, MoverFacts DEF Types
    <2>5. IsFirstType(b, f, u)
      BY <2>2, <2>3, <2>4 DEF IsFirstType
    <2>6. Fling(b, f, u, q) \in set_catapult_flings(b, k, t)
      BY <2>1, <2>4, <2>5 DEF set_catapult_flings
    <2> QED
      BY <2>1, <2>2, <2>6, FlingMade
  <1> QED
    BY <1>1, <1>2

-----------------------------------------------------------------------------
(* Shots.                                                                  *)
LEMMA CornersAreDiagonals ==
    /\ \A d \in Diagonals : Swap(d) \in Rules!Corners
    /\ \A e \in Rules!Corners : \E d \in Diagonals : e = Swap(d)
  <1>1. \A d \in Diagonals : Swap(d) \in Rules!Corners
    BY DEF Diagonals, Swap, Rules!Corners
  <1>2. ASSUME NEW e \in Rules!Corners PROVE \E d \in Diagonals : e = Swap(d)
    <2>1. PICK i \in {-1, 1}, j \in {-1, 1} : e = <<i, j>>
      BY DEF Rules!Corners
    <2>2. <<j, i>> \in Diagonals /\ Swap(<<j, i>>) = e
      BY <2>1 DEF Diagonals, Swap
    <2> QED
      BY <2>2
  <1> QED
    BY <1>1, <1>2

LEMMA ShotMade ==
    ASSUME NEW b, Good(b), NEW k \in Squares, NEW d \in Diagonals
    PROVE  LET a == Rules!AfterShot(At(b), k, Swap(d))
               x == Settle(CaptureAll(b, Victims(b, k, d)), FALSE)
           IN /\ Victims(b, k, d) # {} <=> a # At(b)
              /\ At(x) = After(b, a) /\ x.turn = Opponent(b.turn)
  <1> DEFINE V == Victims(b, k, d)
             a == Rules!AfterShot(At(b), k, Swap(d))
             c == CaptureAll(b, V)
  <1>0. Sound(b)
    BY DEF Good
  <1>1. \A s \in Squares : s \in V <=> Rules!InFire(k, Swap(d), s) /\ s \in b.all
    BY <1>0, ShotPathIsLine, MoverFacts DEF Victims
  <1>2. \A s \in Squares : s \in b.all <=> At(b)[s] # Rules!Empty
    BY <1>0, AtIs
  <1>3. a = [s \in Squares |-> IF Rules!InFire(k, Swap(d), s) THEN Rules!Empty ELSE At(b)[s]]
    BY RulesSquares DEF Rules!AfterShot
  <1>4. V \subseteq Squares
    BY <1>0, MoverFacts DEF Victims
  <1>5. /\ Sound(c) /\ c.turn = b.turn /\ \A u \in Types : c.pieces[u] = b.pieces[u] \ V
    BY <1>0, CaptureSound
  <1>6. At(c) = [s \in Squares |-> IF s \in V THEN Rules!Empty ELSE At(b)[s]]
    BY <1>0, AtCapture
  <1> HIDE DEF V, a, c
  <1>7. \A s \in Squares : At(c)[s] = a[s]
    BY <1>1, <1>2, <1>3, <1>6
  <1>8. DOMAIN a = Squares /\ a = [s \in Squares |-> a[s]]
    BY <1>3
  <1>9. At(c) = a
    BY <1>7, <1>8, SamePosition
  <1>10. V # {} <=> a # At(b)
    <2>1. ASSUME V = {} PROVE a = At(b)
      <3>1. \A s \in Squares : At(b)[s] = a[s]
        BY <1>1, <1>2, <1>3, <2>1
      <3> QED
        BY <1>8, <3>1, SamePosition
    <2>2. ASSUME V # {} PROVE a # At(b)
      <3>1. PICK s \in V : s \in Squares
        BY <1>4, <2>2
      <3>2. a[s] # At(b)[s]
        BY <1>1, <1>2, <1>3, <3>1
      <3> QED
        BY <3>2
    <2> QED
      BY <2>1, <2>2
  <1>11. NoPeonOnLastRow(c)
    BY <1>5 DEF Good, NoPeonOnLastRow, Types, WP, BP
  <1>12. /\ At(Settle(c, FALSE)) = Rules!Aftermath(At(c), c.turn)
         /\ Settle(c, FALSE).turn = Opponent(c.turn)
    BY <1>5, <1>11, AtSettle
  <1> QED
    BY <1>5, <1>9, <1>10, <1>12 DEF V, a, c, After

LEMMA ShotsListed ==
    ASSUME NEW b, Good(b), NEW k \in Squares
    PROVE  /\ \A x \in set_canon_shots(b, k) :
                /\ x.turn = Opponent(b.turn)
                /\ \E e \in Rules!Corners :
                     /\ Rules!AfterShot(At(b), k, e) # At(b)
                     /\ At(x) = After(b, Rules!AfterShot(At(b), k, e))
           /\ \A e \in Rules!Corners : Rules!AfterShot(At(b), k, e) # At(b) =>
                \E x \in set_canon_shots(b, k) :
                    At(x) = After(b, Rules!AfterShot(At(b), k, e))
  <1>1. ASSUME NEW x \in set_canon_shots(b, k)
        PROVE  /\ x.turn = Opponent(b.turn)
               /\ \E e \in Rules!Corners :
                    /\ Rules!AfterShot(At(b), k, e) # At(b)
                    /\ At(x) = After(b, Rules!AfterShot(At(b), k, e))
    <2>1. PICK d \in Diagonals : /\ Victims(b, k, d) # {}
                                 /\ x = Settle(CaptureAll(b, Victims(b, k, d)), FALSE)
      BY DEF set_canon_shots
    <2> QED
      BY <2>1, ShotMade, CornersAreDiagonals
  <1>2. ASSUME NEW e \in Rules!Corners, Rules!AfterShot(At(b), k, e) # At(b)
        PROVE  \E x \in set_canon_shots(b, k) :
                   At(x) = After(b, Rules!AfterShot(At(b), k, e))
    <2>1. PICK d \in Diagonals : e = Swap(d)
      BY CornersAreDiagonals
    <2> DEFINE x == Settle(CaptureAll(b, Victims(b, k, d)), FALSE)
    <2>2. Victims(b, k, d) # {} /\ At(x) = After(b, Rules!AfterShot(At(b), k, e))
      BY <1>2, <2>1, ShotMade
    <2>3. x \in set_canon_shots(b, k)
      BY <2>2 DEF set_canon_shots
    <2> QED
      BY <2>2, <2>3
  <1> QED
    BY <1>1, <1>2

-----------------------------------------------------------------------------
(* All moves together.                                                     *)
IsMove(b, p) ==
    \E s \in Friendly(b) : \E q \in Squares :
        /\ Rules!MayGo(At(b), s, q)
        /\ p = After(b, Rules!AfterMove(At(b), s, q))

IsFling(b, p) ==
    \E k \in Friendly(b) : \E f \in Friendly(b) : \E q \in Squares :
        /\ At(b)[k].kind = "catapult" /\ Rules!MayFling(At(b), k, f, q)
        /\ p = After(b, Rules!AfterFling(At(b), f, q))

IsShot(b, p) ==
    \E k \in Friendly(b) : \E e \in Rules!Corners :
        /\ At(b)[k].kind = "canon" /\ Rules!AfterShot(At(b), k, e) # At(b)
        /\ p = After(b, Rules!AfterShot(At(b), k, e))

LEMMA SuccessorsAre ==
    ASSUME NEW b, Sound(b), NEW p
    PROVE  p \in Rules!Successors(At(b), b.turn) <=> IsMove(b, p) \/ IsFling(b, p) \/ IsShot(b, p)
  <1> DEFINE a == At(b)
             c == b.turn
             own == Rules!Own(a, c)
             moved == UNION {{Rules!AfterMove(a, s, q) : q \in {x \in Rules!Squares : Rules!MayGo(a, s, x)}} :
                                 s \in own}
             catapults == {k \in own : a[k].kind = "catapult"}
             flung == UNION {{Rules!AfterFling(a, fl[1], fl[2]) :
                                 fl \in {g \in own \X Rules!Squares : Rules!MayFling(a, k, g[1], g[2])}} :
                                 k \in catapults}
             canons == {k \in own : a[k].kind = "canon"}
             fired == UNION {{Rules!AfterShot(a, k, d) :
                                 d \in {e \in Rules!Corners : Rules!AfterShot(a, k, e) # a}} : k \in canons}
  <1>1. Rules!Successors(a, c) = {Rules!Aftermath(x, c) : x \in moved \cup flung \cup fired}
    BY Zenon DEF Rules!Successors
  <1>2. own = Friendly(b) /\ Rules!Squares = Squares
    BY MoverFacts, RulesSquares DEF Rules!Own
  <1>3. \A x : x \in moved <=> \E s \in own : \E q \in Squares :
                                   Rules!MayGo(a, s, q) /\ x = Rules!AfterMove(a, s, q)
    BY <1>2
  <1>4. \A x : x \in flung <=> \E k \in catapults : \E f \in own : \E q \in Squares :
                                   Rules!MayFling(a, k, f, q) /\ x = Rules!AfterFling(a, f, q)
    <2>1. ASSUME NEW x \in flung
          PROVE  \E k \in catapults : \E f \in own : \E q \in Squares :
                     Rules!MayFling(a, k, f, q) /\ x = Rules!AfterFling(a, f, q)
      <3>1. PICK k \in catapults : \E g \in own \X Rules!Squares :
                /\ Rules!MayFling(a, k, g[1], g[2]) /\ x = Rules!AfterFling(a, g[1], g[2])
        OBVIOUS
      <3> QED
        BY <1>2, <3>1
    <2>2. ASSUME NEW x, NEW k \in catapults, NEW f \in own, NEW q \in Squares,
                 Rules!MayFling(a, k, f, q), x = Rules!AfterFling(a, f, q)
          PROVE  x \in flung
      <3>1. /\ <<f, q>> \in {g \in own \X Rules!Squares : Rules!MayFling(a, k, g[1], g[2])}
            /\ x = Rules!AfterFling(a, <<f, q>>[1], <<f, q>>[2])
        BY <1>2, <2>2
      <3> QED
        BY <3>1
    <2> QED
      BY <2>1, <2>2
  <1>5. \A x : x \in fired <=> \E k \in canons : \E e \in Rules!Corners :
                                   Rules!AfterShot(a, k, e) # a /\ x = Rules!AfterShot(a, k, e)
    OBVIOUS
  <1> HIDE DEF moved, flung, fired, own
  <1>6. p \in Rules!Successors(a, c) <=>
            \E x : x \in moved \cup flung \cup fired /\ p = Rules!Aftermath(x, c)
    BY <1>1
  <1>7. (\E x \in moved : p = Rules!Aftermath(x, c)) <=> IsMove(b, p)
    BY <1>2, <1>3 DEF IsMove, After
  <1>8. (\E x \in flung : p = Rules!Aftermath(x, c)) <=> IsFling(b, p)
    BY <1>2, <1>4 DEF IsFling, After
  <1>9. (\E x \in fired : p = Rules!Aftermath(x, c)) <=> IsShot(b, p)
    BY <1>2, <1>5 DEF IsShot, After
  <1> QED
    BY <1>6, <1>7, <1>8, <1>9

LEMMA MoversAre ==
    ASSUME NEW b, Sound(b), NEW m \in Movers(b)
    PROVE  /\ m[2] \in TypesOf(b.turn) /\ m[2] \in Types /\ m[1] \in b.pieces[m[2]]
           /\ m[1] \in Squares /\ m[1] \in Friendly(b) /\ At(b)[m[1]].kind = KindOf(m[2])
  <1>1. m[1] \in Friendly(b) /\ m[2] \in TypesOf(b.turn) /\ m[1] \in b.pieces[m[2]]
    BY DEF Movers
  <1> QED
    BY <1>1, MoverFacts, AtPiece, PieceFacts

LEMMA MoverOf ==
    ASSUME NEW b, Sound(b), NEW s \in Friendly(b)
    PROVE  \E t \in TypesOf(b.turn) :
               /\ s \in b.pieces[t] /\ <<s, t>> \in Movers(b) /\ At(b)[s].kind = KindOf(t)
  <1>1. PICK t \in TypesOf(b.turn) : s \in b.pieces[t]
    BY MoverFacts
  <1>2. <<s, t>> \in Movers(b)
    BY <1>1 DEF Movers
  <1> QED
    BY <1>1, <1>2, MoverFacts, AtPiece, PieceFacts

LEMMA TypeOfKind ==
    \A t \in Types : /\ KindOf(t) = "catapult" => t \in {WF, BF}
                     /\ KindOf(t) = "canon" => t \in {WC, BC}
  <1>1. \A t \in Types :
            t \in {WP, BP, WN, BN, WB, BB, WR, BR, WQ, BQ, WK, BK, WZ, BZ, WF, BF, WC, BC}
    BY TypeFacts
  <1> QED
    BY <1>1, Kinds

LEMMA BoardsOfIs ==
    ASSUME NEW b, NEW s, NEW t \in Types
    PROVE  /\ t \in {WP, BP} => BoardsOf(b, s, t) = set_peon_moves(b, s, t)
           /\ t \notin {WP, BP} =>
                set_piece_moves(b, s, t, PseudoMoves(b, s, t)) \subseteq BoardsOf(b, s, t)
           /\ t \in {WF, BF} => set_catapult_flings(b, s, t) \subseteq BoardsOf(b, s, t)
           /\ t \in {WC, BC} => set_canon_shots(b, s) \subseteq BoardsOf(b, s, t)
           /\ \A x \in BoardsOf(b, s, t) :
                \/ t \in {WP, BP} /\ x \in set_peon_moves(b, s, t)
                \/ t \notin {WP, BP} /\ x \in set_piece_moves(b, s, t, PseudoMoves(b, s, t))
                \/ t \in {WF, BF} /\ x \in set_catapult_flings(b, s, t)
                \/ t \in {WC, BC} /\ x \in set_canon_shots(b, s)
  <1>1. CASE t \in {WP, BP}
    <2>1. BoardsOf(b, s, t) = set_peon_moves(b, s, t)
      BY <1>1 DEF BoardsOf, WP, BP, WF, BF, WC, BC
    <2> QED
      BY <1>1, <2>1 DEF WP, BP, WF, BF, WC, BC
  <1>2. CASE t \in {WF, BF}
    <2>1. BoardsOf(b, s, t) = set_piece_moves(b, s, t, PseudoMoves(b, s, t))
                                  \cup set_catapult_flings(b, s, t)
      BY <1>2 DEF BoardsOf, WP, BP, WF, BF, WC, BC
    <2> QED
      BY <1>2, <2>1 DEF WP, BP, WF, BF, WC, BC
  <1>3. CASE t \in {WC, BC}
    <2>1. BoardsOf(b, s, t) = set_piece_moves(b, s, t, PseudoMoves(b, s, t))
                                  \cup set_canon_shots(b, s)
      BY <1>3 DEF BoardsOf, WP, BP, WF, BF, WC, BC
    <2> QED
      BY <1>3, <2>1 DEF WP, BP, WF, BF, WC, BC
  <1>4. CASE t \notin {WP, BP, WF, BF, WC, BC}
    <2>1. BoardsOf(b, s, t) = set_piece_moves(b, s, t, PseudoMoves(b, s, t))
      BY <1>4 DEF BoardsOf, WP, BP, WF, BF, WC, BC
    <2> QED
      BY <1>4, <2>1
  <1> QED
    BY <1>1, <1>2, <1>3, <1>4

LEMMA EachIsAllowed ==
    ASSUME NEW b, Good(b), NEW x \in gen_chezz_boards(b)
    PROVE  x.turn = Opponent(b.turn) /\ At(x) \in Rules!Successors(At(b), b.turn)
  <1>0. Sound(b)
    BY DEF Good
  <1>1. PICK m \in Movers(b) : x \in BoardsOf(b, m[1], m[2])
    BY DEF gen_chezz_boards
  <1> DEFINE s == m[1]
             t == m[2]
  <1>2. /\ t \in TypesOf(b.turn) /\ t \in Types /\ s \in b.pieces[t]
        /\ s \in Squares /\ s \in Friendly(b) /\ At(b)[s].kind = KindOf(t)
    BY <1>0, MoversAre
  <1> HIDE DEF s, t
  <1>3. CASE t \in {WP, BP} /\ x \in set_peon_moves(b, s, t)
    <2>1. x.turn = Opponent(b.turn) /\ IsMove(b, At(x))
      BY <1>2, <1>3, PeonsListed DEF IsMove
    <2> QED
      BY <1>0, <2>1, SuccessorsAre
  <1>4. CASE t \notin {WP, BP} /\ x \in set_piece_moves(b, s, t, PseudoMoves(b, s, t))
    <2>1. x.turn = Opponent(b.turn) /\ IsMove(b, At(x))
      BY <1>2, <1>4, PiecesListed DEF IsMove
    <2> QED
      BY <1>0, <2>1, SuccessorsAre
  <1>5. CASE t \in {WF, BF} /\ x \in set_catapult_flings(b, s, t)
    <2>1. At(b)[s].kind = "catapult"
      BY <1>2, <1>5, Kinds
    <2>2. x.turn = Opponent(b.turn) /\ IsFling(b, At(x))
      BY <1>2, <1>5, <2>1, FlingsListed DEF IsFling
    <2> QED
      BY <1>0, <2>2, SuccessorsAre
  <1>6. CASE t \in {WC, BC} /\ x \in set_canon_shots(b, s)
    <2>1. At(b)[s].kind = "canon"
      BY <1>2, <1>6, Kinds
    <2>2. x.turn = Opponent(b.turn) /\ IsShot(b, At(x))
      BY <1>2, <1>6, <2>1, ShotsListed DEF IsShot
    <2> QED
      BY <1>0, <2>2, SuccessorsAre
  <1> QED
    BY <1>1, <1>2, <1>3, <1>4, <1>5, <1>6, BoardsOfIs DEF s, t

LEMMA EachIsListed ==
    ASSUME NEW b, Good(b), NEW p \in Rules!Successors(At(b), b.turn)
    PROVE  \E x \in gen_chezz_boards(b) : At(x) = p
  <1>0. Sound(b)
    BY DEF Good
  <1>1. \A s, t : <<s, t>> \in Movers(b) => BoardsOf(b, s, t) \subseteq gen_chezz_boards(b)
    BY DEF gen_chezz_boards
  <1>2. IsMove(b, p) \/ IsFling(b, p) \/ IsShot(b, p)
    BY <1>0, SuccessorsAre
  <1>3. CASE IsMove(b, p)
    <2>1. PICK s \in Friendly(b) : \E q \in Squares :
              Rules!MayGo(At(b), s, q) /\ p = After(b, Rules!AfterMove(At(b), s, q))
      BY <1>3 DEF IsMove
    <2>2. PICK q \in Squares :
              Rules!MayGo(At(b), s, q) /\ p = After(b, Rules!AfterMove(At(b), s, q))
      BY <2>1
    <2>3. PICK t \in TypesOf(b.turn) : s \in b.pieces[t] /\ <<s, t>> \in Movers(b)
      BY <1>0, MoverOf
    <2>4. t \in Types
      BY <1>0, MoverFacts
    <2>5. CASE t \in {WP, BP}
      BY <1>1, <2>2, <2>3, <2>4, <2>5, PeonsListed, BoardsOfIs
    <2>6. CASE t \notin {WP, BP}
      BY <1>1, <2>2, <2>3, <2>4, <2>6, PiecesListed, BoardsOfIs
    <2> QED
      BY <2>5, <2>6
  <1>4. CASE IsFling(b, p)
    <2>1. PICK k \in Friendly(b), f \in Friendly(b) : \E q \in Squares :
              /\ At(b)[k].kind = "catapult" /\ Rules!MayFling(At(b), k, f, q)
              /\ p = After(b, Rules!AfterFling(At(b), f, q))
      BY <1>4 DEF IsFling
    <2>2. PICK q \in Squares :
              /\ At(b)[k].kind = "catapult" /\ Rules!MayFling(At(b), k, f, q)
              /\ p = After(b, Rules!AfterFling(At(b), f, q))
      BY <2>1
    <2>3. PICK t \in TypesOf(b.turn) :
              /\ k \in b.pieces[t] /\ <<k, t>> \in Movers(b) /\ At(b)[k].kind = KindOf(t)
      BY <1>0, MoverOf
    <2>4. t \in Types /\ t \in {WF, BF} /\ f \in Squares
      BY <1>0, <2>2, <2>3, MoverFacts, TypeOfKind
    <2> QED
      BY <1>1, <2>2, <2>3, <2>4, FlingsListed, BoardsOfIs
  <1>5. CASE IsShot(b, p)
    <2>1. PICK k \in Friendly(b), e \in Rules!Corners :
              /\ At(b)[k].kind = "canon" /\ Rules!AfterShot(At(b), k, e) # At(b)
              /\ p = After(b, Rules!AfterShot(At(b), k, e))
      BY <1>5 DEF IsShot
    <2>3. PICK t \in TypesOf(b.turn) :
              /\ k \in b.pieces[t] /\ <<k, t>> \in Movers(b) /\ At(b)[k].kind = KindOf(t)
      BY <1>0, MoverOf
    <2>4. t \in Types /\ t \in {WC, BC} /\ k \in Squares
      BY <1>0, <2>1, <2>3, MoverFacts, TypeOfKind
    <2> QED
      BY <1>1, <2>1, <2>3, <2>4, ShotsListed, BoardsOfIs
  <1> QED
    BY <1>2, <1>3, <1>4, <1>5

LEMMA ListsExactly ==
    ASSUME NEW b, Good(b)
    PROVE  {At(x) : x \in gen_chezz_boards(b)} = Rules!Successors(At(b), b.turn)
  <1>1. \A p : p \in {At(x) : x \in gen_chezz_boards(b)} =>
            p \in Rules!Successors(At(b), b.turn)
    BY EachIsAllowed
  <1>2. \A p : p \in Rules!Successors(At(b), b.turn) =>
            p \in {At(x) : x \in gen_chezz_boards(b)}
    BY EachIsListed
  <1> QED
    BY <1>1, <1>2

-----------------------------------------------------------------------------
(* The theorems.                                                           *)

(***************************************************************************)
(* In games of any length from any consistent boards, the generator lists  *)
(* every position the rules allow and no other (gen_valid_boards.c         *)
(* gen_chezz_boards, against ChezzRules).                                  *)
(***************************************************************************)
THEOREM GeneratorIsExact == Spec => []ListsEveryMove
  <1>1. BoardGood => ListsEveryMove
    BY ListsExactly DEF BoardGood, ListsEveryMove
  <1> QED
    BY <1>1, AlwaysGood, PTL

LEMMA NextIsListed ==
    ASSUME Sound(board), Next
    PROVE  BothKingsStand /\ board' \in gen_chezz_boards(board)
  <1>1. \A m \in Movers(board) :
            m[2] \in Types /\ BoardsOf(board, m[1], m[2]) \subseteq gen_chezz_boards(board)
    BY MoversAre DEF gen_chezz_boards
  <1>2. CASE MovePeon
    BY <1>1, <1>2, BoardsOfIs DEF MovePeon, MayMove
  <1>3. CASE MovePiece
    BY <1>1, <1>3, BoardsOfIs DEF MovePiece, MayMove
  <1>4. CASE FlingPiece
    BY <1>1, <1>4, BoardsOfIs DEF FlingPiece, MayMove
  <1>5. CASE ShootCanon
    BY <1>1, <1>5, BoardsOfIs DEF ShootCanon, MayMove
  <1> QED
    BY <1>2, <1>3, <1>4, <1>5 DEF Next

LEMMA InitIsAllowed == Init => Rules!Init
  BY DEF Init, Rules!Init

LEMMA StepIsAllowed ==
    BoardGood /\ [Next]_board => [Rules!Next]_<<At(board), board.turn>>
  <1>1. CASE UNCHANGED board
    BY <1>1
  <1>2. ASSUME BoardGood, Next PROVE Rules!Next
    <2>1. Good(board) /\ Sound(board)
      BY <1>2 DEF BoardGood, Good
    <2>2. BothKingsStand /\ board' \in gen_chezz_boards(board)
      BY <1>2, <2>1, NextIsListed
    <2>3. /\ board'.turn = Opponent(board.turn)
          /\ At(board') \in Rules!Successors(At(board), board.turn)
      BY <2>1, <2>2, EachIsAllowed
    <2>4. Rules!Other(board.turn) = Opponent(board.turn)
      BY <2>1, MoverFacts
    <2>5. Rules!KingsStand
      <3>1. PICK s, q : s \in board.pieces[WK] /\ q \in board.pieces[BK]
        BY <2>2 DEF BothKingsStand
      <3>2. /\ WK \in Types /\ Piece(WK) = [color |-> "w", kind |-> "king"]
            /\ BK \in Types /\ Piece(BK) = [color |-> "b", kind |-> "king"]
        BY Kinds, TypeFacts DEF Piece
      <3>3. /\ s \in Squares /\ At(board)[s] = [color |-> "w", kind |-> "king"]
            /\ q \in Squares /\ At(board)[q] = [color |-> "b", kind |-> "king"]
        BY <2>1, <3>1, <3>2, AtPiece
      <3> QED
        BY <3>3, RulesSquares DEF Rules!KingsStand
    <2> QED
      BY <2>3, <2>4, <2>5 DEF Rules!Next, Rules!Turn
  <1> QED
    BY <1>1, <1>2

(***************************************************************************)
(* Every game the generator plays is a game by the rules of ChezzRules:    *)
(* the bitboards implement the abstract game, step by step, the turn       *)
(* passing and both kings standing before each.                            *)
(***************************************************************************)
THEOREM GeneratorImplementsRules == Spec => PlaysByTheRules
  BY InitIsAllowed, StepIsAllowed, AlwaysGood, PTL DEF Spec, PlaysByTheRules, Rules!Spec

-----------------------------------------------------------------------------
(***************************************************************************)
(* Induction over numbers as a statement about sets: the provers cannot    *)
(* instantiate a theorem that takes a predicate, but the finite sets are   *)
(* well founded, so a set of numbers has a least element.  From it, what a *)
(* fold of the community modules computes.                                 *)
(***************************************************************************)
LEMMA Least ==
    ASSUME NEW S \in SUBSET Nat, S # {}
    PROVE  \E m \in S : \A k \in S : m <= k
  <1>1. PICK n : n \in S
    OBVIOUS
  <1> DEFINE T == {0 .. k : k \in {l \in S : l <= n}}
  <1>2. IsWellFoundedOn(StrictSubsetOrdering(0 .. n), SUBSET (0 .. n))
    <2>1. IsFiniteSet(0 .. n)
      BY <1>1, FS_Interval
    <2>2. FiniteSubsetsOf(0 .. n) = SUBSET (0 .. n)
      BY <2>1, FS_FiniteSubsetsOfFinite
    <2>3. IsWellFoundedOn(StrictSubsetOrdering(0 .. n), FiniteSubsetsOf(0 .. n))
      BY FS_StrictSubsetOrderingWellFounded
    <2> QED
      BY <2>2, <2>3
  <1>3. T \subseteq SUBSET (0 .. n) /\ T # {}
    BY <1>1
  <1>4. PICK X \in T : \A Y \in T : <<Y, X>> \notin StrictSubsetOrdering(0 .. n)
    <2> HIDE DEF T
    <2> QED
      BY <1>2, <1>3, WFMin
  <1>5. PICK m \in S : X = 0 .. m /\ m <= n
    BY <1>4
  <1>6. ASSUME NEW k \in S, k < m
        PROVE  FALSE
    <2>1. 0 .. k \in T
      <3>1. k \in {l \in S : l <= n}
        BY <1>1, <1>5, <1>6
      <3> QED
        BY <3>1
    <2>2. <<0 .. k, X>> \in StrictSubsetOrdering(0 .. n)
      <3>1. 0 .. k \subseteq X /\ m \in X /\ m \notin 0 .. k
        BY <1>5, <1>6
      <3>2. X \subseteq 0 .. n
        BY <1>3, <1>4
      <3> QED
        BY <3>1, <3>2 DEF StrictSubsetOrdering
    <2> QED
      BY <1>4, <2>1, <2>2
  <1> QED
    BY <1>5, <1>6

(* What 0 has and every number hands on, n has.                            *)
LEMMA Induct ==
    ASSUME NEW n \in Nat, NEW S, 0 \in S, \A k \in 0 .. n - 1 : k \in S => k + 1 \in S
    PROVE  n \in S
  <1> SUFFICES ASSUME n \notin S PROVE FALSE
    OBVIOUS
  <1> DEFINE T == {k \in Nat : k \notin S /\ k <= n}
  <1>1. PICK m \in T : \A k \in T : m <= k
    <2>1. T \in SUBSET Nat /\ T # {}
      OBVIOUS
    <2> QED
      BY <2>1, Least
  <1>2. m # 0
    BY <1>1
  <1>3. m - 1 \in Nat /\ m - 1 \notin T
    BY <1>1, <1>2
  <1> QED
    BY <1>1, <1>2, <1>3

(* The element a fold takes off first.                                     *)
LEMMA TopIs ==
    ASSUME NEW n \in Nat, NEW S \in SUBSET (1 .. n), S # {}
    PROVE  Max(S) \in S /\ \A k \in S : Max(S) >= k
  <1> DEFINE T == {n - k : k \in S}
  <1>1. PICK m \in T : \A k \in T : m <= k
    <2>1. \A k \in S : n - k \in Nat
      OBVIOUS
    <2>2. T \in SUBSET Nat /\ T # {}
      BY <2>1
    <2> QED
      BY <2>2, Least
  <1>2. PICK l \in S : m = n - l
    BY <1>1
  <1>3. \A k \in S : n - k \in T /\ k \in Int
    OBVIOUS
  <1> HIDE DEF T
  <1>4. ASSUME NEW k \in S PROVE l >= k
    <2>1. m <= n - k /\ k \in Int /\ l \in Int
      BY <1>1, <1>3
    <2> QED
      BY <1>2, <2>1
  <1> QED
    BY <1>3, <1>4 DEF Max

(* The function a fold over 1 .. n chooses does exist.                     *)
FoldsDown(n, A, base, F) ==
    \E h \in [SUBSET (1 .. n) -> A] : \A S \in SUBSET (1 .. n) :
        h[S] = IF S = {} THEN base ELSE F[<<h[S \ {Max(S)}], Max(S)>>]

LEMMA FoldExists ==
    ASSUME NEW n \in Nat, NEW A, NEW base \in A, NEW F \in [A \X (1 .. n) -> A]
    PROVE  FoldsDown(n, A, base, F)
  <1> DEFINE Is(h, k) == /\ h = [S \in SUBSET (1 .. k) |->
                                  IF S = {} THEN base ELSE F[<<h[S \ {Max(S)}], Max(S)>>]]
                         /\ h \in [SUBSET (1 .. k) -> A]
             K == {k \in 0 .. n : \E h : Is(h, k)}
  <1>1. 0 \in K
    <2> DEFINE h == [S \in SUBSET (1 .. 0) |-> base]
    <2>1. SUBSET (1 .. 0) = {{}}
      OBVIOUS
    <2>2. Is(h, 0)
      BY <2>1
    <2> QED
      BY <2>2
  <1>2. ASSUME NEW k \in 0 .. n - 1, k \in K
        PROVE  k + 1 \in K
    <2>1. PICK h : Is(h, k)
      BY <1>2
    <2> DEFINE g == [S \in SUBSET (1 .. k + 1) |->
                        IF k + 1 \in S THEN F[<<h[S \ {k + 1}], k + 1>>] ELSE h[S]]
    <2>2. \A S \in SUBSET (1 .. k + 1) : k + 1 \in S =>
              Max(S) = k + 1 /\ S \ {k + 1} \in SUBSET (1 .. k) /\ g[S \ {k + 1}] = h[S \ {k + 1}]
      <3> SUFFICES ASSUME NEW S \in SUBSET (1 .. k + 1), k + 1 \in S
                   PROVE  /\ Max(S) = k + 1 /\ S \ {k + 1} \in SUBSET (1 .. k)
                          /\ g[S \ {k + 1}] = h[S \ {k + 1}]
        OBVIOUS
      <3>1. k + 1 \in Nat
        OBVIOUS
      <3>2. Max(S) \in S /\ Max(S) >= k + 1
        BY <3>1, TopIs
      <3>3. Max(S) = k + 1
        <4>1. Max(S) \in 1 .. k + 1
          BY <3>2
        <4> QED
          BY <3>2, <4>1
      <3>4. S \ {k + 1} \in SUBSET (1 .. k)
        OBVIOUS
      <3>5. S \ {k + 1} \in SUBSET (1 .. k + 1) /\ k + 1 \notin S \ {k + 1}
        OBVIOUS
      <3> QED
        BY <3>3, <3>4, <3>5
    <2>3. \A S \in SUBSET (1 .. k + 1) : k + 1 \notin S => S \in SUBSET (1 .. k)
      OBVIOUS
    <2>4. g \in [SUBSET (1 .. k + 1) -> A]
      <3>1. ASSUME NEW S \in SUBSET (1 .. k + 1)
            PROVE  (IF k + 1 \in S THEN F[<<h[S \ {k + 1}], k + 1>>] ELSE h[S]) \in A
        <4>1. k + 1 \in S => h[S \ {k + 1}] \in A
          BY <2>1, <2>2
        <4>2. k + 1 \in S => F[<<h[S \ {k + 1}], k + 1>>] \in A
          BY <4>1
        <4>3. k + 1 \notin S => h[S] \in A
          BY <2>1, <2>3
        <4> QED
          BY <4>2, <4>3
      <3> QED
        BY <3>1
    <2>5. ASSUME NEW S \in SUBSET (1 .. k + 1)
          PROVE  g[S] = IF S = {} THEN base ELSE F[<<g[S \ {Max(S)}], Max(S)>>]
      <3>1. CASE k + 1 \in S
        BY <2>2, <3>1
      <3>2. CASE k + 1 \notin S
        <4>1. S \in SUBSET (1 .. k) /\ g[S] = h[S]
          BY <2>3, <3>2
        <4>2. g[S \ {Max(S)}] = h[S \ {Max(S)}]
          BY <3>2
        <4>3. h[S] = IF S = {} THEN base ELSE F[<<h[S \ {Max(S)}], Max(S)>>]
          BY <2>1, <4>1
        <4> QED
          BY <4>1, <4>2, <4>3
      <3> QED
        BY <3>1, <3>2
    <2>6. Is(g, k + 1)
      <3> DEFINE f == [S \in SUBSET (1 .. k + 1) |->
                  IF S = {} THEN base ELSE F[<<g[S \ {Max(S)}], Max(S)>>]]
      <3>1. \A S \in SUBSET (1 .. k + 1) : g[S] = f[S]
        BY <2>5
      <3>2. g = f
        BY <3>1
      <3> QED
        BY <2>4, <3>2
    <2> HIDE DEF Is
    <2> QED
      BY <2>6
  <1> HIDE DEF K
  <1>3. n \in K
    BY <1>1, <1>2, Induct
  <1>4. PICK h : Is(h, n)
    BY <1>3 DEF K
  <1> QED
    BY <1>4 DEF FoldsDown

(* It meets the prefixes of 1 .. n alone, so that what holds of h step by  *)
(* step is what the fold returns.                                          *)
LEMMA PrefixIs ==
    ASSUME NEW n \in Nat, NEW k \in 1 .. n
    PROVE  /\ 1 .. k \in SUBSET (1 .. n) /\ 1 .. k # {}
           /\ Max(1 .. k) = k /\ (1 .. k) \ {k} = 1 .. k - 1
  <1>1. k \in 1 .. k /\ \A l \in 1 .. k : l \in 1 .. n
    <2>1. k \in 1 .. k
      OBVIOUS
    <2>2. \A l \in 1 .. k : l \in 1 .. n
      OBVIOUS
    <2> QED
      BY <2>1, <2>2
  <1>2. Max(1 .. k) \in 1 .. k /\ Max(1 .. k) >= k
    BY <1>1, TopIs
  <1>3. Max(1 .. k) \in Int /\ Max(1 .. k) <= k
    BY <1>2
  <1>4. Max(1 .. k) = k
    BY <1>2, <1>3
  <1>5. (1 .. k) \ {k} = 1 .. k - 1
    OBVIOUS
  <1> QED
    BY <1>1, <1>4, <1>5

LEMMA FoldChain ==
    ASSUME NEW n \in Nat, NEW G, NEW h, G[{}] = h[0],
           \A k \in 1 .. n : G[1 .. k - 1] = h[k - 1] => G[1 .. k] = h[k]
    PROVE  G[1 .. n] = h[n]
  <1> DEFINE K == {k \in 0 .. n : G[1 .. k] = h[k]}
  <1>1. 0 \in K
    <2>1. 1 .. 0 = {}
      OBVIOUS
    <2> QED
      BY <2>1
  <1>2. \A k \in 0 .. n - 1 : k \in K => k + 1 \in K
    <2> SUFFICES ASSUME NEW k \in 0 .. n - 1, G[1 .. k] = h[k]
                 PROVE  G[1 .. k + 1] = h[k + 1]
      OBVIOUS
    <2>1. k + 1 \in 1 .. n /\ k + 1 - 1 = k
      OBVIOUS
    <2> QED
      BY <2>1
  <1> HIDE DEF K
  <1>3. n \in K
    BY <1>1, <1>2, Induct
  <1> QED
    BY <1>3 DEF K

(* The replay of events is such a fold.                                    *)
Replays(h, n, b, s, A) ==
    /\ TypeAt(b) \in A /\ DOMAIN s = 1 .. n
    /\ \A a \in A : \A i \in 1 .. n : Show(a, s[i]) \in A
    /\ h[0] = TypeAt(b) /\ \A i \in 1 .. n : h[i] = Show(h[i - 1], s[i])

LEMMA ShownIs ==
    ASSUME NEW n \in Nat, NEW A, NEW b, NEW s, NEW h, Replays(h, n, b, s, A)
    PROVE  Shown(b, s) = h[n]
  <1> DEFINE base == TypeAt(b)
             F == [p \in A \X (1 .. n) |-> Show(p[1], s[p[2]])]
             Is(g) == g = [S \in SUBSET (DOMAIN s) |->
                          IF S = {} THEN base ELSE Show(g[S \ {Max(S)}], s[Max(S)])]
             G == CHOOSE g : Is(g)
  <1>1. Shown(b, s) = G[DOMAIN s]
    BY DEF Shown, FoldLeft, MapThenFoldSet
  <1>0. /\ base \in A /\ DOMAIN s = 1 .. n
        /\ \A a \in A : \A i \in 1 .. n : Show(a, s[i]) \in A
        /\ h[0] = base /\ \A i \in 1 .. n : h[i] = Show(h[i - 1], s[i])
    BY DEF Replays
  <1> HIDE DEF base
  <1>2. \E g : Is(g) /\ g \in [SUBSET (1 .. n) -> A]
    <2>1. F \in [A \X (1 .. n) -> A]
      BY <1>0
    <2>2. PICK g \in [SUBSET (1 .. n) -> A] : \A S \in SUBSET (1 .. n) :
               g[S] = IF S = {} THEN base ELSE F[<<g[S \ {Max(S)}], Max(S)>>]
      <3> HIDE DEF F
      <3>1. FoldsDown(n, A, base, F)
        BY <1>0, <2>1, FoldExists
      <3> QED
        BY <3>1 DEF FoldsDown
    <2>3. \A S \in SUBSET (1 .. n) : S # {} =>
              F[<<g[S \ {Max(S)}], Max(S)>>] = Show(g[S \ {Max(S)}], s[Max(S)])
      <3> SUFFICES ASSUME NEW S \in SUBSET (1 .. n), S # {}
                   PROVE  F[<<g[S \ {Max(S)}], Max(S)>>] = Show(g[S \ {Max(S)}], s[Max(S)])
        OBVIOUS
      <3>1. Max(S) \in 1 .. n
        BY TopIs
      <3>2. g[S \ {Max(S)}] \in A
        BY <2>2
      <3> QED
        BY <3>1, <3>2
    <2> HIDE DEF F
    <2>4. Is(g)
      <3> DEFINE f == [S \in SUBSET (1 .. n) |->
                           IF S = {} THEN base ELSE Show(g[S \ {Max(S)}], s[Max(S)])]
      <3>1. \A S \in SUBSET (1 .. n) : g[S] = f[S]
        BY <1>0, <2>2, <2>3
      <3>2. g = f
        BY <3>1
      <3> QED
        BY <1>0, <3>2
    <2> QED
      BY <2>2, <2>4
  <1> HIDE DEF Is
  <1>3. Is(G)
    BY <1>2
  <1> HIDE DEF G
  <1>4. G[{}] = h[0]
    <2>1. {} \in SUBSET DOMAIN s
      OBVIOUS
    <2> QED
      BY <1>0, <1>3, <2>1 DEF Is
  <1>5. ASSUME NEW k \in 1 .. n, G[1 .. k - 1] = h[k - 1]
        PROVE  G[1 .. k] = h[k]
    <2>1. /\ 1 .. k \in SUBSET DOMAIN s /\ 1 .. k # {}
          /\ Max(1 .. k) = k /\ (1 .. k) \ {k} = 1 .. k - 1
      BY <1>0, PrefixIs
    <2>2. G[1 .. k] = Show(G[(1 .. k) \ {Max(1 .. k)}], s[Max(1 .. k)])
      BY <1>3, <2>1 DEF Is
    <2> QED
      BY <1>0, <1>5, <2>1, <2>2
  <1>6. G[1 .. n] = h[n]
    BY <1>4, <1>5, FoldChain
  <1> QED
    BY <1>0, <1>1, <1>6

-----------------------------------------------------------------------------
(* A set listed, each element once; and listed by rank.                    *)
Listing(order, S) ==
    \E n \in Nat : /\ order \in [1 .. n -> S]
                   /\ \A s \in S : \E i \in 1 .. n : order[i] = s
                   /\ \A i, j \in 1 .. n : order[i] = order[j] => i = j

RankedBy(order, S, rank) ==
    /\ order = [i \in 1 .. Cardinality(S) |-> order[i]]
    /\ \A i \in 1 .. Cardinality(S) : \A t \in S :
           Cardinality({r \in S : rank[r] < rank[t]}) = i - 1 =>
               /\ order[i] \in S
               /\ Cardinality({r \in S : rank[r] < rank[order[i]]}) = i - 1

LEMMA Ranked ==
    ASSUME NEW S, IsFiniteSet(S), NEW rank \in [S -> Int],
           \A r, s \in S : rank[r] = rank[s] => r = s,
           NEW order, RankedBy(order, S, rank)
    PROVE  Listing(order, S)
  <1> DEFINE n == Cardinality(S)
             below(s) == {r \in S : rank[r] < rank[s]}
             pos == [s \in S |-> Cardinality(below(s)) + 1]
  <1>1. n \in Nat
    BY FS_CardinalityType
  <1>2. ASSUME NEW s \in S
        PROVE  IsFiniteSet(below(s)) /\ Cardinality(below(s)) \in 0 .. n - 1
    <2>1. IsFiniteSet(S \ {s}) /\ Cardinality(S \ {s}) = n - 1
      BY FS_RemoveElement
    <2>2. below(s) \in SUBSET (S \ {s})
      BY <1>2
    <2>3. /\ IsFiniteSet(below(s)) /\ Cardinality(below(s)) <= n - 1
      BY <2>1, <2>2, FS_Subset
    <2>4. Cardinality(below(s)) \in Nat
      BY <2>3, FS_CardinalityType
    <2> QED
      BY <1>1, <2>3, <2>4
  <1>3. ASSUME NEW r \in S, NEW s \in S, rank[r] < rank[s]
        PROVE  pos[r] # pos[s]
    <2>1. below(r) \in SUBSET below(s) /\ r \in below(s) /\ r \notin below(r)
      BY <1>3
    <2>2. IsFiniteSet(below(s)) /\ Cardinality(below(s)) \in Int /\ Cardinality(below(r)) \in Int
      <3> HIDE DEF below
      <3> QED
        BY <1>2
    <2>3. Cardinality(below(r)) < Cardinality(below(s))
      <3> HIDE DEF below
      <3> QED
        BY <2>1, <2>2, FS_Subset
    <2> HIDE DEF below
    <2> QED
      BY <2>2, <2>3
  <1>4. pos \in [S -> 1 .. n]
    <2>1. \A s \in S : Cardinality(below(s)) + 1 \in 1 .. n
      <3> HIDE DEF below
      <3> QED
        BY <1>1, <1>2
    <2> HIDE DEF below, n
    <2> QED
      BY <2>1
  <1>5. pos \in Injection(S, 1 .. n)
    <2>1. \A r, s \in S : pos[r] = pos[s] => r = s
      <3> SUFFICES ASSUME NEW r \in S, NEW s \in S, r # s PROVE pos[r] # pos[s]
        OBVIOUS
      <3>1. rank[r] \in Int /\ rank[s] \in Int /\ rank[r] # rank[s]
        OBVIOUS
      <3>2. rank[r] < rank[s] \/ rank[s] < rank[r]
        BY <3>1
      <3> HIDE DEF pos
      <3> QED
        BY <1>3, <3>2
    <2> HIDE DEF pos
    <2> QED
      BY <1>4, <2>1 DEF Injection, IsInjective
  <1>6. pos \in Surjection(S, 1 .. n)
    <2>1. IsFiniteSet(1 .. n) /\ Cardinality(1 .. n) = n
      BY <1>1, FS_Interval
    <2> HIDE DEF pos
    <2> QED
      BY <1>5, <2>1, FS_Injection
  <1> HIDE DEF below
  <1>7. ASSUME NEW i \in 1 .. n
        PROVE  order[i] \in S /\ pos[order[i]] = i
    <2>1. \E s \in S : pos[s] = i
      <3> HIDE DEF pos
      <3> QED
        BY <1>6 DEF Surjection
    <2>2. \E s \in S : Cardinality(below(s)) = i - 1
      BY <1>2, <2>1
    <2>4. order[i] \in S /\ Cardinality(below(order[i])) = i - 1
      BY <2>2 DEF below, RankedBy
    <2>5. pos[order[i]] = Cardinality(below(order[i])) + 1
      BY <2>4
    <2> HIDE DEF pos
    <2> QED
      BY <2>4, <2>5
  <1>8. \A s \in S : pos[s] \in 1 .. n /\ order[pos[s]] = s
    <2> HIDE DEF pos
    <2>1. \A r, s \in S : pos[r] = pos[s] => r = s
      BY <1>5 DEF Injection, IsInjective
    <2> QED
      BY <1>4, <1>7, <2>1
  <1> HIDE DEF pos
  <1>9. order \in [1 .. n -> S]
    <2>1. \A i \in 1 .. n : order[i] \in S
      BY <1>7
    <2>2. order = [i \in 1 .. n |-> order[i]]
      BY DEF RankedBy
    <2> HIDE DEF pos
    <2> QED
      BY <2>1, <2>2
  <1> HIDE DEF n
  <1>10. \A i, j \in 1 .. n : order[i] = order[j] => i = j
    BY <1>7
  <1>11. \A s \in S : \E i \in 1 .. n : order[i] = s
    BY <1>8
  <1> QED
    BY <1>1, <1>9, <1>10, <1>11 DEF Listing

LEMMA SquaresFinite == \A S \in SUBSET Squares : IsFiniteSet(S)
  <1>1. IsFiniteSet(Squares)
    <2>1. IsFiniteSet(0 .. 63)
      <3>1. \A a, b \in Int : IsFiniteSet(a .. b)
        BY FS_Interval
      <3>2. 0 \in Int /\ 63 \in Int
        OBVIOUS
      <3> QED
        BY <3>1, <3>2, Zenon
    <2> QED
      BY <2>1 DEF Squares
  <1> QED
    BY <1>1, FS_Subset

(* Ascending lists the squares of a set, each once.                        *)
LEMMA AscendingIs ==
    ASSUME NEW S \in SUBSET Squares
    PROVE  Listing(Ascending(S), S)
  <1> DEFINE rank == [s \in S |-> s]
             n == Cardinality(S)
  <1>1. \A s \in S : {r \in S : rank[r] < rank[s]} = {r \in S : r < s}
    OBVIOUS
  <1>2. ASSUME NEW i \in 1 .. n, NEW t \in S, Cardinality({r \in S : rank[r] < rank[t]}) = i - 1
        PROVE  /\ Ascending(S)[i] \in S
               /\ Cardinality({r \in S : rank[r] < rank[Ascending(S)[i]]}) = i - 1
    <2> DEFINE At1(s) == Cardinality({r \in S : r < s}) = i - 1
    <2>1. Ascending(S)[i] = CHOOSE s \in S : At1(s)
      BY DEF Ascending
    <2>2. At1(t)
      BY <1>1, <1>2
    <2> HIDE DEF At1
    <2>3. Ascending(S)[i] \in S /\ At1(Ascending(S)[i])
      BY <2>1, <2>2
    <2> QED
      BY <1>1, <2>3 DEF At1
  <1>3. /\ IsFiniteSet(S) /\ rank \in [S -> Int]
        /\ \A r, s \in S : rank[r] = rank[s] => r = s
    BY SquaresFinite DEF Squares
  <1> HIDE DEF rank
  <1>5. Ascending(S) = [i \in 1 .. n |-> Ascending(S)[i]]
    BY DEF Ascending
  <1>6. RankedBy(Ascending(S), S, rank)
    BY <1>2, <1>5 DEF RankedBy
  <1> HIDE DEF rank
  <1> QED
    BY <1>3, <1>6, Ranked

-----------------------------------------------------------------------------
(***************************************************************************)
(* What events tell.  Shown boards are maps from squares to types.         *)
(***************************************************************************)
Showns == [Squares -> Types \cup {-1}]

Happens(f, e, g) ==
    EventFits(f, e) /\ Show(f, e) = g /\ \A a \in Showns : Show(a, e) \in Showns

Tale(f, events, g) ==
    /\ \E S : events \in Seq(S)
    /\ \E h \in [0 .. Len(events) -> Showns] :
           /\ h[0] = f /\ h[Len(events)] = g
           /\ \A i \in 1 .. Len(events) : Happens(h[i - 1], events[i], h[i])

LEMMA TaleStarts ==
    ASSUME NEW f \in Showns
    PROVE  Tale(f, <<>>, f)
  <1> DEFINE h == [i \in 0 .. 0 |-> f]
  <1>1. <<>> \in Seq({}) /\ Len(<<>>) = 0
    OBVIOUS
  <1>2. h \in [0 .. 0 -> Showns] /\ h[0] = f /\ \A i \in 1 .. 0 : FALSE
    OBVIOUS
  <1> QED
    BY <1>1, <1>2 DEF Tale

LEMMA ConcatIs ==
    ASSUME NEW S, NEW T, NEW s \in Seq(S), NEW t \in Seq(T)
    PROVE  /\ s \o t \in Seq(S \cup T) /\ Len(s \o t) = Len(s) + Len(t)
           /\ \A i \in 1 .. Len(s) : (s \o t)[i] = s[i]
           /\ \A i \in 1 .. Len(t) : (s \o t)[Len(s) + i] = t[i]
  <1>1. s \in Seq(S \cup T) /\ t \in Seq(S \cup T)
    OBVIOUS
  <1> QED
    BY <1>1

LEMMA TaleThen ==
    ASSUME NEW f, NEW s, NEW g, NEW t, NEW k, Tale(f, s, g), Tale(g, t, k)
    PROVE  Tale(f, s \o t, k)
  <1>1. PICK S : s \in Seq(S)
    BY DEF Tale
  <1>2. PICK T : t \in Seq(T)
    BY DEF Tale
  <1> DEFINE n == Len(s)
             m == Len(t)
             u == s \o t
  <1>3. /\ u \in Seq(S \cup T) /\ Len(u) = n + m /\ n \in Nat /\ m \in Nat
        /\ \A i \in 1 .. n : u[i] = s[i]
        /\ \A i \in 1 .. m : u[n + i] = t[i]
    BY <1>1, <1>2, ConcatIs
  <1>4. PICK a \in [0 .. n -> Showns] :
            /\ a[0] = f /\ a[n] = g
            /\ \A i \in 1 .. n : Happens(a[i - 1], s[i], a[i])
    BY DEF Tale
  <1>5. PICK b \in [0 .. m -> Showns] :
            /\ b[0] = g /\ b[m] = k
            /\ \A i \in 1 .. m : Happens(b[i - 1], t[i], b[i])
    BY DEF Tale
  <1> HIDE DEF n, m, u
  <1> DEFINE h == [i \in 0 .. n + m |-> IF i <= n THEN a[i] ELSE b[i - n]]
  <1>6. \A i \in 0 .. n : i \in 0 .. n + m /\ h[i] = a[i]
    BY <1>3
  <1>7. \A i \in 0 .. m : n + i \in 0 .. n + m /\ h[n + i] = b[i]
    <2> SUFFICES ASSUME NEW i \in 0 .. m
                 PROVE  n + i \in 0 .. n + m /\ h[n + i] = b[i]
      OBVIOUS
    <2>1. CASE i = 0
      BY <1>3, <1>4, <1>5, <2>1
    <2>2. CASE i # 0
      <3> DEFINE j == n + i
      <3>1. j \in 0 .. n + m /\ ~ (j <= n) /\ j - n = i
        BY <1>3, <2>2
      <3> HIDE DEF j
      <3>2. h[j] = b[j - n]
        BY <3>1
      <3> HIDE DEF h
      <3> QED
        BY <3>1, <3>2 DEF j
    <2> QED
      BY <2>1, <2>2
  <1>8. \A i \in 0 .. n + m : h[i] \in Showns
    <2> SUFFICES ASSUME NEW i \in 0 .. n + m PROVE h[i] \in Showns
      OBVIOUS
    <2>1. CASE i <= n
      BY <1>3, <2>1
    <2>2. CASE ~ (i <= n)
      <3>1. i - n \in 0 .. m
        BY <1>3, <2>2
      <3> QED
        BY <2>2, <3>1
    <2> QED
      BY <2>1, <2>2
  <1>9. ASSUME NEW i \in 1 .. n + m
        PROVE  Happens(h[i - 1], u[i], h[i])
    <2>1. CASE i <= n
      <3>1. i \in 1 .. n /\ i \in 0 .. n /\ i - 1 \in 0 .. n
        BY <1>3, <2>1
      <3> HIDE DEF h
      <3>2. h[i] = a[i] /\ h[i - 1] = a[i - 1] /\ u[i] = s[i]
        BY <1>3, <1>6, <3>1
      <3> QED
        BY <1>4, <3>1, <3>2
    <2>2. CASE ~ (i <= n)
      <3> DEFINE j == i - n
      <3>1. j \in 1 .. m /\ j \in 0 .. m /\ j - 1 \in 0 .. m /\ i = n + j /\ i - 1 = n + (j - 1)
        BY <1>3, <2>2
      <3> HIDE DEF h, j
      <3>2. h[i] = b[j] /\ h[i - 1] = b[j - 1] /\ u[i] = t[j]
        BY <1>3, <1>7, <3>1
      <3> QED
        BY <1>5, <3>1, <3>2
    <2> QED
      BY <2>1, <2>2
  <1>10. h \in [0 .. n + m -> Showns]
    BY <1>8
  <1>11. h[0] = f /\ h[n + m] = k
    <2>1. 0 \in 0 .. n /\ m \in 0 .. m
      BY <1>3
    <2> HIDE DEF h
    <2> QED
      BY <1>4, <1>5, <1>6, <1>7, <2>1
  <1> HIDE DEF h
  <1>12. Tale(f, u, k)
    BY <1>3, <1>9, <1>10, <1>11 DEF Tale
  <1> QED
    BY <1>12 DEF u

LEMMA TaleGoesOn ==
    ASSUME NEW f, NEW s, NEW g \in Showns, NEW e, NEW k \in Showns,
           Tale(f, s, g), Happens(g, e, k)
    PROVE  Tale(f, Append(s, e), k)
  <1> DEFINE h == [i \in 0 .. 1 |-> IF i = 0 THEN g ELSE k]
  <1>1. <<e>> \in Seq({e}) /\ Len(<<e>>) = 1 /\ <<e>>[1] = e
    OBVIOUS
  <1>2. h \in [0 .. 1 -> Showns] /\ h[0] = g /\ h[1] = k /\ \A i \in 1 .. 1 : i = 1 /\ i - 1 = 0
    OBVIOUS
  <1> HIDE DEF h
  <1>3. Tale(g, <<e>>, k)
    BY <1>1, <1>2 DEF Tale
  <1>4. Tale(f, s \o <<e>>, k)
    BY <1>3, TaleThen
  <1>5. PICK S : s \in Seq(S)
    BY DEF Tale
  <1>6. s \in Seq(S \cup {e}) /\ e \in S \cup {e}
    BY <1>5
  <1>7. Append(s, e) = s \o <<e>>
    BY <1>6
  <1> QED
    BY <1>4, <1>7

(* Such events, replayed, show what the tale says.                         *)
LEMMA TaleIsShown ==
    ASSUME NEW b, NEW events, NEW g, Tale(TypeAt(b), events, g)
    PROVE  /\ Shown(b, events) = g
           /\ \A i \in 1 .. Len(events) :
                  EventFits(Shown(b, SubSeq(events, 1, i - 1)), events[i])
  <1> DEFINE n == Len(events)
  <1>1. PICK S : events \in Seq(S)
    BY DEF Tale
  <1>2. PICK h \in [0 .. n -> Showns] :
            /\ h[0] = TypeAt(b) /\ h[n] = g
            /\ \A i \in 1 .. n : Happens(h[i - 1], events[i], h[i])
    BY DEF Tale
  <1>3. n \in Nat /\ DOMAIN events = 1 .. n
    BY <1>1
  <1>4. \A k \in 0 .. n : /\ DOMAIN SubSeq(events, 1, k) = 1 .. k
                          /\ \A i \in 1 .. k : SubSeq(events, 1, k)[i] = events[i]
    BY <1>1
  <1>5. SubSeq(events, 1, n) = events
    BY <1>1
  <1> HIDE DEF n
  <1>6. ASSUME NEW k \in 0 .. n
        PROVE  Shown(b, SubSeq(events, 1, k)) = h[k]
    <2> DEFINE s == SubSeq(events, 1, k)
    <2>1. k \in Nat /\ \A i \in 1 .. k : i \in 1 .. n
      BY <1>3
    <2>2. DOMAIN s = 1 .. k /\ \A i \in 1 .. k : s[i] = events[i]
      BY <1>4
    <2> HIDE DEF s
    <2>3. TypeAt(b) \in Showns /\ h[0] = TypeAt(b)
      BY <1>2, <1>3
    <2>4. \A a \in Showns : \A i \in 1 .. k : Show(a, s[i]) \in Showns
      BY <1>2, <2>1, <2>2 DEF Happens
    <2>5. \A i \in 1 .. k : h[i] = Show(h[i - 1], s[i])
      BY <1>2, <2>1, <2>2 DEF Happens
    <2>6. Replays(h, k, b, s, Showns)
      BY <2>2, <2>3, <2>4, <2>5 DEF Replays
    <2>7. Shown(b, s) = h[k]
      BY <2>1, <2>6, ShownIs
    <2> QED
      BY <2>7 DEF s
  <1>7. Shown(b, events) = g
    <2>1. n \in 0 .. n
      BY <1>3
    <2>2. Shown(b, SubSeq(events, 1, n)) = h[n]
      BY <1>6, <2>1
    <2> QED
      BY <1>2, <1>5, <2>2
  <1>8. ASSUME NEW i \in 1 .. n
        PROVE  EventFits(Shown(b, SubSeq(events, 1, i - 1)), events[i])
    <2>1. i - 1 \in 0 .. n
      BY <1>3
    <2>2. Shown(b, SubSeq(events, 1, i - 1)) = h[i - 1]
      BY <1>6, <2>1
    <2> QED
      BY <1>2, <2>2 DEF Happens
  <1> QED
    BY <1>7, <1>8 DEF n

(* Events that each change the piece on one square, whatever stands on     *)
(* the others.                                                             *)
Changes(e, s, old, new) ==
    /\ \A a \in Showns : Show(a, e) = [a EXCEPT ![s] = new]
    /\ \A a \in Showns : a[s] = old => EventFits(a, e)

LEMMA ChangeHappens ==
    ASSUME NEW f \in Showns, NEW s \in Squares, NEW new \in Types \cup {-1}, NEW e,
           Changes(e, s, f[s], new)
    PROVE  /\ [f EXCEPT ![s] = new] \in Showns
           /\ Happens(f, e, [f EXCEPT ![s] = new])
  <1>1. \A a \in Showns : [a EXCEPT ![s] = new] \in Showns
    BY DEF Showns
  <1> QED
    BY <1>1 DEF Happens, Changes

LEMMA TaleOfMany ==
    ASSUME NEW f \in Showns, NEW S \in SUBSET Squares, NEW order, Listing(order, S),
           NEW to \in Types \cup {-1}, NEW events,
           events = [i \in 1 .. Len(order) |-> events[i]],
           \A i \in 1 .. Len(order) : Changes(events[i], order[i], f[order[i]], to)
    PROVE  Tale(f, events, [s \in Squares |-> IF s \in S THEN to ELSE f[s]])
  <1>1. PICK n \in Nat : /\ order \in [1 .. n -> S]
                         /\ \A s \in S : \E i \in 1 .. n : order[i] = s
                         /\ \A i, j \in 1 .. n : order[i] = order[j] => i = j
    BY DEF Listing
  <1>2. Len(order) = n
    BY <1>1
  <1> DEFINE done(k) == {s \in Squares : \E j \in 1 .. k : order[j] = s}
             h == [k \in 0 .. n |-> [s \in Squares |-> IF s \in done(k) THEN to ELSE f[s]]]
  <1>3. \E T : events \in Seq(T)
    <2>1. events \in Seq({events[i] : i \in 1 .. n})
      BY <1>2
    <2> QED
      BY <2>1
  <1>4. Len(events) = n
    BY <1>2
  <1>5. h \in [0 .. n -> Showns]
    <2>1. \A k \in 0 .. n : [s \in Squares |-> IF s \in done(k) THEN to ELSE f[s]] \in Showns
      <3> HIDE DEF done
      <3> QED
        BY DEF Showns
    <2> HIDE DEF done
    <2> QED
      BY <2>1
  <1>6. h[0] = f
    <2>1. done(0) = {}
      OBVIOUS
    <2>2. f = [s \in Squares |-> f[s]]
      BY DEF Showns
    <2>3. h[0] = [s \in Squares |-> IF s \in done(0) THEN to ELSE f[s]]
      OBVIOUS
    <2> HIDE DEF done, h
    <2> QED
      BY <2>1, <2>2, <2>3
  <1>7. h[n] = [s \in Squares |-> IF s \in S THEN to ELSE f[s]]
    <2>1. done(n) = S
      BY <1>1
    <2>2. h[n] = [s \in Squares |-> IF s \in done(n) THEN to ELSE f[s]]
      OBVIOUS
    <2> HIDE DEF done, h
    <2> QED
      BY <2>1, <2>2
  <1>8. ASSUME NEW i \in 1 .. n
        PROVE  Happens(h[i - 1], events[i], h[i])
    <2> DEFINE q == order[i]
               a == h[i - 1]
    <2>1. q \in Squares /\ i \in 0 .. n /\ i - 1 \in 0 .. n
      BY <1>1
    <2>2. q \notin done(i - 1)
      <3> SUFFICES ASSUME NEW j \in 1 .. i - 1, order[j] = order[i] PROVE FALSE
        OBVIOUS
      <3>1. j \in 1 .. n /\ j # i
        OBVIOUS
      <3> QED
        BY <1>1, <3>1
    <2>3. \A s \in Squares : s \in done(i) <=> s \in done(i - 1) \/ s = q
      <3>1. \A j : j \in 1 .. i <=> j \in 1 .. i - 1 \/ j = i
        OBVIOUS
      <3> QED
        BY <3>1
    <2>4. h[i] = [s \in Squares |-> IF s \in done(i) THEN to ELSE f[s]]
      BY <2>1
    <2>5. a = [s \in Squares |-> IF s \in done(i - 1) THEN to ELSE f[s]]
      BY <2>1
    <2>6. a \in Showns
      <3> HIDE DEF h
      <3> QED
        BY <1>5, <2>1
    <2> HIDE DEF done, h, q
    <2>7. a[q] = f[q]
      BY <2>1, <2>2, <2>5
    <2> HIDE DEF a
    <2>8. h[i] = [a EXCEPT ![q] = to]
      BY <2>1, <2>3, <2>4, <2>5
    <2>9. Changes(events[i], q, a[q], to)
      BY <1>2, <2>7 DEF q
    <2>10. Happens(a, events[i], h[i])
      BY <2>1, <2>6, <2>8, <2>9, ChangeHappens
    <2> QED
      BY <2>10 DEF a
  <1> HIDE DEF h
  <1> QED
    BY <1>3, <1>4, <1>5, <1>6, <1>7, <1>8 DEF Tale

-----------------------------------------------------------------------------
(* The board that is shown: which type is on a square, if any.             *)
LEMMA TypeAtIs ==
    ASSUME NEW b, Sound(b)
    PROVE  /\ TypeAt(b) \in Showns
           /\ \A s \in Squares :
                  /\ \A t \in Types : TypeAt(b)[s] = t <=> s \in b.pieces[t]
                  /\ TypeAt(b)[s] = -1 <=> \A t \in Types : s \notin b.pieces[t]
  <1>1. \A s \in Squares : \A t, u \in Types : s \in b.pieces[t] /\ s \in b.pieces[u] => t = u
    BY DEF Sound, Once
  <1>2. -1 \notin Types
    BY DEF Types
  <1>3. ASSUME NEW s \in Squares
        PROVE  /\ TypeAt(b)[s] \in Types \cup {-1}
               /\ \A t \in Types : TypeAt(b)[s] = t <=> s \in b.pieces[t]
               /\ TypeAt(b)[s] = -1 <=> \A t \in Types : s \notin b.pieces[t]
    <2>1. TypeAt(b)[s] = IF \E t \in Types : s \in b.pieces[t]
                         THEN CHOOSE t \in Types : s \in b.pieces[t] ELSE -1
      BY DEF TypeAt
    <2>2. CASE \E t \in Types : s \in b.pieces[t]
      <3>1. PICK t \in Types : s \in b.pieces[t]
        BY <2>2
      <3>2. TypeAt(b)[s] \in Types /\ s \in b.pieces[TypeAt(b)[s]]
        BY <2>1, <2>2
      <3> QED
        BY <1>1, <1>2, <2>2, <3>2
    <2>3. CASE ~ \E t \in Types : s \in b.pieces[t]
      BY <1>2, <2>1, <2>3
    <2> QED
      BY <2>2, <2>3
  <1>4. TypeAt(b) \in Showns
    BY <1>3 DEF TypeAt, Showns
  <1> QED
    BY <1>3, <1>4

LEMMA TypesShown ==
    ASSUME NEW b, Sound(b), NEW f \in Showns,
           \A s \in Squares : \A t \in Types : f[s] = t <=> s \in b.pieces[t]
    PROVE  TypeAt(b) = f
  <1>1. \A s \in Squares : TypeAt(b)[s] = f[s]
    <2> SUFFICES ASSUME NEW s \in Squares PROVE TypeAt(b)[s] = f[s]
      OBVIOUS
    <2>1. TypeAt(b)[s] \in Types \cup {-1} /\ f[s] \in Types \cup {-1} /\ -1 \notin Types
      BY TypeAtIs DEF Showns, Types
    <2> QED
      BY <2>1, TypeAtIs
  <1> QED
    BY <1>1, TypeAtIs DEF Showns

-----------------------------------------------------------------------------
(* Function by function: the board under way is the search's board.        *)
Carried(x, b) == x = [b |-> b, events |-> x.events]

LEMMA CarriedIs ==
    /\ \A b, events : Carried([b |-> b, events |-> events], b)
    /\ \A x, b : Carried(x, b) => x.b = b
    /\ \A b : Carried(Copy(b), b)
    /\ \A x, b, action, name : Carried(x, b) => Carried(ua_push_action_event(x, action, name), b)
  BY DEF Carried, Copy, ua_push_action_event, Push

LEMMA UaMove ==
    ASSUME NEW x, NEW b, Carried(x, b), NEW t, NEW from, NEW to
    PROVE  Carried(ua_move_piece(x, t, from, to), move_piece(b, t, from, to))
  <1> DEFINE mask == {from, to}
             flip(S) == {s \in S \cup mask : ~(s \in S /\ s \in mask)}
  <1>1. \A S : flip(S) = Xor(S, mask)
    BY DEF Xor
  <1> HIDE DEF flip
  <1>2. x.b = b
    BY CarriedIs
  <1>3. [b EXCEPT !.pieces[t] = (@ \ {from}) \cup {to},
                  !.white = IF b.turn = "w" THEN flip(@) ELSE @,
                  !.black = IF b.turn = "w" THEN @ ELSE flip(@),
                  !.all = flip(@)] = move_piece(b, t, from, to)
    BY <1>1, Zenon DEF move_piece
  <1> QED
    BY <1>2, <1>3, CarriedIs DEF ua_move_piece, flip

LEMMA FirstTypeIs ==
    ASSUME NEW b, Sound(b), NEW s \in Squares, NEW t \in Types, s \in b.pieces[t]
    PROVE  FirstType(b, s) = t
  <1>1. \A u \in Types : s \in b.pieces[u] => u = t
    BY DEF Sound, Once
  <1>2. t <= t
    BY DEF Types
  <1> QED
    BY <1>1, <1>2 DEF FirstType

LEMMA UaCapture ==
    ASSUME NEW x, NEW b, Carried(x, b), Sound(b), NEW q \in Squares
    PROVE  /\ Carried(ua_capture_piece(x, q), capture_piece(b, q))
           /\ Sound(capture_piece(b, q))
  <1> DEFINE cleared == [b EXCEPT !.white = @ \ {q}, !.black = @ \ {q}, !.all = @ \ {q}]
             pieces == [t \in Types |->
                  IF /\ q \in b.pieces[t]
                     /\ \A u \in Types : u < t => q \notin b.pieces[u]
                  THEN b.pieces[t] \ {q} ELSE b.pieces[t]]
  <1>0. b \in Chezzboard /\ b.pieces \in [Types -> SUBSET Squares]
    BY BoardFields DEF Sound
  <1>1. x.b = b
    BY CarriedIs
  <1>2. capture_piece(b, q) = [b EXCEPT !.pieces = pieces, !.white = @ \ {q},
                                        !.black = @ \ {q}, !.all = @ \ {q}]
    BY DEF capture_piece
  <1>3. Sound(capture_piece(b, q))
    <2>1. capture_piece(b, q) = CaptureAll(b, {q})
      BY <1>0, CaptureOne
    <2>2. Sound(CaptureAll(b, {q}))
      BY CaptureSound
    <2> QED
      BY <2>1, <2>2
  <1>4. CASE \A t \in Types : q \notin b.pieces[t]
    <2>1. pieces = b.pieces
      BY <1>0, <1>4
    <2> HIDE DEF pieces
    <2>2. capture_piece(b, q) = cleared
      BY <1>0, <1>2, <2>1 DEF Chezzboard
    <2>3. ua_capture_piece(x, q) = [x EXCEPT !.b = cleared]
      BY <1>1, <1>4 DEF ua_capture_piece
    <2> HIDE DEF cleared
    <2>4. Carried([x EXCEPT !.b = cleared], cleared)
      BY DEF Carried
    <2> QED
      BY <1>3, <2>2, <2>3, <2>4
  <1>5. ASSUME NEW t \in Types, q \in b.pieces[t]
        PROVE  Carried(ua_capture_piece(x, q), capture_piece(b, q))
    <2>1. FirstType(b, q) = t
      BY <1>5, FirstTypeIs
    <2> DEFINE d == [cleared EXCEPT !.pieces[t] = @ \ {q}]
               events == Append(x.events, capture_event(b, q))
    <2>2. ua_capture_piece(x, q) = [b |-> d, events |-> events]
      BY <1>1, <1>5, <2>1 DEF ua_capture_piece
    <2>3. \A u \in Types : q \in b.pieces[u] => u = t
      BY <1>5 DEF Sound, Once
    <2>4. \A u \in Types : u < t => u # t
      BY DEF Types
    <2>5. pieces = [b.pieces EXCEPT ![t] = @ \ {q}]
      BY <1>0, <1>5, <2>3, <2>4
    <2> HIDE DEF pieces
    <2>6. capture_piece(b, q) = d
      BY <1>0, <1>2, <2>5 DEF Chezzboard
    <2> HIDE DEF d, events
    <2> QED
      BY <2>2, <2>6, CarriedIs
  <1> HIDE DEF cleared, pieces
  <1>6. CASE \E t \in Types : q \in b.pieces[t]
    BY <1>3, <1>5, <1>6
  <1> QED
    BY <1>4, <1>6

LEMMA UaVictims ==
    ASSUME NEW x, NEW b, Carried(x, b), Sound(b), NEW S \in SUBSET Squares
    PROVE  Carried(ua_capture_victims(x, S), CaptureAll(b, S))
  <1> DEFINE mine == [t \in Types |-> {s \in b.pieces[t] : ~ (s \in S /\ FirstType(b, s) = t)}]
             pieces == [t \in Types |->
                  b.pieces[t] \ {q \in S : \A u \in Types : u < t => q \notin b.pieces[u]}]
  <1>0. b.pieces \in [Types -> SUBSET Squares]
    BY BoardFields DEF Sound
  <1>1. x.b = b
    BY CarriedIs
  <1>2. \A t \in Types : \A s \in b.pieces[t] : FirstType(b, s) = t
    BY <1>0, FirstTypeIs
  <1>3. \A t \in Types : \A s \in b.pieces[t] : \A u \in Types : u < t => s \notin b.pieces[u]
    BY <1>0 DEF Sound, Once, Types
  <1>4. mine = pieces
    BY <1>2, <1>3
  <1>5. CaptureAll(b, S) = [b EXCEPT !.pieces = pieces, !.white = @ \ S,
                                     !.black = @ \ S, !.all = @ \ S]
    BY DEF CaptureAll
  <1> HIDE DEF pieces
  <1>6. CaptureAll(b, S) = [b EXCEPT !.pieces = mine, !.white = @ \ S,
                                     !.black = @ \ S, !.all = @ \ S]
    BY <1>4, <1>5
  <1> QED
    BY <1>1, <1>6, CarriedIs DEF ua_capture_victims

LEMMA UaPromote ==
    ASSUME NEW x, NEW b, Carried(x, b), Sound(b)
    PROVE  Carried(ua_promote_peons(x), promote_peons(b))
  <1>0. b.turn \in {"w", "b"} /\ x.b = b
    BY BoardFields, CarriedIs DEF Sound
  <1>1. CASE b.turn = "w"
    BY <1>0, <1>1, CarriedIs DEF ua_promote_peons, promote_peons
  <1>2. CASE b.turn = "b"
    BY <1>0, <1>2, CarriedIs DEF ua_promote_peons, promote_peons
  <1> QED
    BY <1>0, <1>1, <1>2

LEMMA UaMask ==
    ASSUME NEW b, Sound(b)
    PROVE  ua_contagion_mask(b) = contagion_mask(b)
  <1>0. /\ b.turn \in {"w", "b"} /\ b.pieces[WZ] \subseteq Squares /\ b.pieces[BZ] \subseteq Squares
        /\ Enemy(b) \subseteq Squares
    BY BoardFields DEF Sound, Enemy, Types, WZ, BZ
  <1>1. CASE b.turn = "w"
    BY <1>0, <1>1 DEF ua_contagion_mask, contagion_mask
  <1>2. CASE b.turn = "b"
    BY <1>0, <1>2 DEF ua_contagion_mask, contagion_mask
  <1> QED
    BY <1>0, <1>1, <1>2

LEMMA UaContagion ==
    ASSUME NEW x, NEW b, Carried(x, b), Sound(b)
    PROVE  Carried(ua_handle_contagion(x), handle_contagion(b))
  <1> DEFINE mask == contagion_mask(b)
             mine == IF b.turn = "w" THEN WZ ELSE BZ
             cured(t) == IF t \in TypesOf(Opponent(b.turn)) \ {WK, BK, WZ, BZ}
                         THEN b.pieces[t] \ mask ELSE b.pieces[t]
             told == [[t \in Types |-> cured(t)] EXCEPT ![mine] = @ \cup mask]
             pieces == [t \in Types |->
                     IF t = mine THEN b.pieces[t] \cup mask
                     ELSE IF /\ t \in TypesOf(Opponent(b.turn))
                             /\ t \notin {WK, BK, WZ, BZ}
                          THEN b.pieces[t] \ mask ELSE b.pieces[t]]
             white == IF b.turn = "w" THEN b.white \cup mask ELSE b.white \ mask
             black == IF b.turn = "w" THEN b.black \ mask ELSE b.black \cup mask
             infected == [b EXCEPT !.pieces = told, !.white = white, !.black = black,
                                   !.all = white \cup black]
  <1>0. x.b = b /\ ua_contagion_mask(b) = mask
    BY CarriedIs, UaMask
  <1>1. infect(b, mask) = [b EXCEPT !.pieces = pieces, !.white = white, !.black = black,
                                    !.all = white \cup black]
    BY DEF infect
  <1>2. mine \in {WK, BK, WZ, BZ} /\ mine \in Types
    BY DEF Types, WZ, BZ
  <1>3. told = pieces
    BY <1>2
  <1>4. infected = infect(b, mask)
    BY <1>1, <1>3
  <1>5. CASE mask = {}
    BY <1>0, <1>5 DEF ua_handle_contagion, handle_contagion
  <1>6. CASE mask # {}
    <2>1. \E events : ua_handle_contagion(x) = [b |-> infected, events |-> events]
      BY <1>0, <1>6 DEF ua_handle_contagion
    <2>2. handle_contagion(b) = infect(b, mask)
      BY <1>6 DEF handle_contagion
    <2> HIDE DEF infected, mask
    <2> QED
      BY <1>4, <2>1, <2>2, CarriedIs
  <1> QED
    BY <1>5, <1>6

-----------------------------------------------------------------------------
(* The board under way, and that its events tell how it came to be.        *)
Follows(f, x, b) == Carried(x, b) /\ Tale(f, x.events, TypeAt(b))

LEMMA FollowsStart ==
    ASSUME NEW b, Sound(b)
    PROVE  /\ Follows(TypeAt(b), Copy(b), b)
           /\ \A action, name :
                  Follows(TypeAt(b), ua_push_action_event(Copy(b), action, name), b)
  <1>1. Copy(b).events = <<>> /\ Carried(Copy(b), b)
    BY CarriedIs DEF Copy
  <1>2. TypeAt(b) \in Showns
    BY TypeAtIs
  <1>3. Tale(TypeAt(b), <<>>, TypeAt(b))
    BY <1>2, TaleStarts
  <1>4. ASSUME NEW action, NEW name
        PROVE  Follows(TypeAt(b), ua_push_action_event(Copy(b), action, name), b)
    <2> DEFINE e == [type |-> "action", name |-> name, action |-> action]
               x == ua_push_action_event(Copy(b), action, name)
    <2>1. Carried(x, b) /\ x.events = Append(<<>>, e)
      BY <1>1, CarriedIs DEF ua_push_action_event, Push, Copy
    <2>2. Happens(TypeAt(b), e, TypeAt(b))
      BY DEF Happens, EventFits, Show
    <2> HIDE DEF e, x
    <2>3. Tale(TypeAt(b), Append(<<>>, e), TypeAt(b))
      BY <1>2, <1>3, <2>2, TaleGoesOn
    <2> QED
      BY <2>1, <2>3 DEF Follows, x
  <1> QED
    BY <1>1, <1>3, <1>4 DEF Follows

LEMMA FollowsMove ==
    ASSUME NEW f, NEW x, NEW b, Follows(f, x, b), Sound(b), NEW t \in Types,
           NEW from \in Squares, NEW to \in Squares, from \in b.pieces[t],
           \A u \in Types : to \notin b.pieces[u], Sound(move_piece(b, t, from, to))
    PROVE  Follows(f, ua_move_piece(x, t, from, to), move_piece(b, t, from, to))
  <1> DEFINE c == move_piece(b, t, from, to)
             y == ua_move_piece(x, t, from, to)
             e == [type |-> "move", piece |-> t, from_square |-> from, to_square |-> to]
             g == TypeAt(b)
             k == [g EXCEPT ![from] = -1, ![to] = t]
  <1>1. Carried(y, c)
    BY UaMove DEF Follows
  <1>2. y.events = Append(x.events, e)
    BY DEF ua_move_piece
  <1>3. g \in Showns /\ g[from] = t /\ g[to] = -1
    BY TypeAtIs
  <1>4. k \in Showns /\ -1 \notin Types
    BY <1>3 DEF Showns, Types
  <1>5. TypeAt(c) = k
    <2>1. \A u \in Types : c.pieces[u] = IF u = t THEN (b.pieces[t] \ {from}) \cup {to}
                                         ELSE b.pieces[u]
      <3>1. b \in Chezzboard
        BY DEF Sound
      <3>2. IsMoved(c, b, t, from, to)
        BY <3>1, MoveFields
      <3> HIDE DEF c
      <3> QED
        BY <3>2 DEF IsMoved
    <2>2. \A s \in Squares : k[s] = IF s = to THEN t ELSE IF s = from THEN -1 ELSE g[s]
      BY <1>3 DEF Showns
    <2> HIDE DEF k
    <2>3. \A s \in Squares : \A u \in Types : k[s] = u <=> s \in c.pieces[u]
      BY <1>4, <2>1, <2>2, TypeAtIs DEF Sound, Once
    <2> HIDE DEF c
    <2> QED
      BY <1>4, <2>3, TypesShown DEF c
  <1>6. Happens(g, e, k)
    <2>1. \A a \in Showns : [a EXCEPT ![from] = -1, ![to] = t] \in Showns
      BY DEF Showns
    <2> HIDE DEF g
    <2> QED
      BY <1>3, <2>1 DEF Happens, EventFits, Show
  <1> HIDE DEF c, y, e, g, k
  <1>7. Tale(f, Append(x.events, e), k)
    BY <1>3, <1>4, <1>6, TaleGoesOn DEF Follows, g
  <1> QED
    BY <1>1, <1>2, <1>5, <1>7 DEF Follows, c, y

LEMMA CaptureChanges ==
    ASSUME NEW b, Sound(b), NEW s \in Squares, NEW t \in Types, s \in b.pieces[t]
    PROVE  Changes(capture_event(b, s), s, TypeAt(b)[s], -1)
  <1>1. FirstType(b, s) = t /\ TypeAt(b)[s] = t
    BY FirstTypeIs, TypeAtIs
  <1> QED
    BY <1>1 DEF Changes, capture_event, Show, EventFits

LEMMA FollowsCapture ==
    ASSUME NEW f, NEW x, NEW b, Follows(f, x, b), Sound(b), NEW q \in Squares
    PROVE  /\ Follows(f, ua_capture_piece(x, q), capture_piece(b, q))
           /\ Sound(capture_piece(b, q))
           /\ \A u \in Types : capture_piece(b, q).pieces[u] = b.pieces[u] \ {q}
  <1> DEFINE c == capture_piece(b, q)
             y == ua_capture_piece(x, q)
             g == TypeAt(b)
             k == [g EXCEPT ![q] = -1]
  <1>1. Carried(y, c) /\ Sound(c)
    BY UaCapture DEF Follows
  <1>2. \A u \in Types : c.pieces[u] = b.pieces[u] \ {q}
    <2>1. c = CaptureAll(b, {q})
      BY CaptureOne DEF Sound
    <2> HIDE DEF c
    <2> QED
      BY <2>1, CaptureSound
  <1>3. g \in Showns /\ k \in Showns /\ -1 \notin Types
    BY TypeAtIs DEF Showns, Types
  <1>4. TypeAt(c) = k
    <2>1. \A s \in Squares : k[s] = IF s = q THEN -1 ELSE g[s]
      BY <1>3 DEF Showns
    <2> HIDE DEF k, c
    <2>2. \A s \in Squares : \A u \in Types : k[s] = u <=> s \in c.pieces[u]
      BY <1>2, <1>3, <2>1, TypeAtIs
    <2> QED
      BY <1>1, <1>3, <2>2, TypesShown
  <1>5. x.b = b
    BY CarriedIs DEF Follows
  <1>6. Tale(f, y.events, k)
    <2>1. CASE \A t \in Types : q \notin b.pieces[t]
      <3>1. y.events = x.events
        BY <1>5, <2>1 DEF ua_capture_piece
      <3>2. g[q] = -1
        BY <2>1, TypeAtIs
      <3>3. k = g
        BY <1>3, <3>2 DEF Showns
      <3> HIDE DEF y, k
      <3> QED
        BY <3>1, <3>3 DEF Follows
    <2>2. ASSUME NEW t \in Types, q \in b.pieces[t]
          PROVE  Tale(f, y.events, k)
      <3>1. y.events = Append(x.events, capture_event(b, q))
        BY <1>5, <2>2 DEF ua_capture_piece
      <3>2. Changes(capture_event(b, q), q, g[q], -1)
        BY <2>2, CaptureChanges
      <3> HIDE DEF y, g
      <3>3. Happens(g, capture_event(b, q), k)
        BY <1>3, <3>2, ChangeHappens
      <3> HIDE DEF k
      <3>4. Tale(f, Append(x.events, capture_event(b, q)), k)
        BY <1>3, <3>3, TaleGoesOn DEF Follows, g
      <3> QED
        BY <3>1, <3>4
    <2> HIDE DEF y, k
    <2> QED
      BY <2>1, <2>2
  <1> HIDE DEF c, y, k, g
  <1>7. Follows(f, y, c)
    BY <1>1, <1>4, <1>6 DEF Follows
  <1> QED
    BY <1>1, <1>2, <1>7 DEF c, y

(* Several events at once, to the squares of a set.                        *)
Told(events, order, f, to) ==
    /\ events = [i \in 1 .. Len(order) |-> events[i]]
    /\ \A i \in 1 .. Len(order) : Changes(events[i], order[i], f[order[i]], to)

Becomes(c, b, S, to) ==
    \A s \in Squares : \A u \in Types :
        s \in c.pieces[u] <=> IF s \in S THEN u = to ELSE s \in b.pieces[u]

LEMMA FollowsMany ==
    ASSUME NEW f, NEW x, NEW b, Follows(f, x, b), Sound(b), NEW y, NEW c, Carried(y, c), Sound(c),
           NEW S \in SUBSET Squares, NEW order, Listing(order, S),
           NEW to \in Types \cup {-1}, NEW events, Told(events, order, TypeAt(b), to),
           y.events = x.events \o events, Becomes(c, b, S, to)
    PROVE  Follows(f, y, c)
  <1> DEFINE k == [s \in Squares |-> IF s \in S THEN to ELSE TypeAt(b)[s]]
  <1>1. TypeAt(b) \in Showns
    BY TypeAtIs
  <1>2. k \in Showns
    BY <1>1 DEF Showns
  <1>3. TypeAt(c) = k
    <2>1. \A s \in Squares : \A u \in Types : k[s] = u <=> s \in c.pieces[u]
      BY TypeAtIs DEF Becomes
    <2> HIDE DEF k
    <2> QED
      BY <1>2, <2>1, TypesShown
  <1>4. Tale(TypeAt(b), events, k)
    BY <1>1, TaleOfMany DEF Told
  <1> HIDE DEF k
  <1>5. Tale(f, x.events \o events, k)
    BY <1>4, TaleThen DEF Follows
  <1> QED
    BY <1>3, <1>5 DEF Follows

LEMMA FollowsVictims ==
    ASSUME NEW f, NEW x, NEW b, Follows(f, x, b), Sound(b), NEW S \in SUBSET Squares
    PROVE  Follows(f, ua_capture_victims(x, S), CaptureAll(b, S))
  <1> DEFINE hit == {s \in S : \E t \in Types : s \in b.pieces[t]}
             order == Ascending(hit)
             events == [i \in 1 .. Len(order) |-> capture_event(b, order[i])]
             y == ua_capture_victims(x, S)
             c == CaptureAll(b, S)
  <1>1. Carried(y, c) /\ x.b = b
    BY UaVictims, CarriedIs DEF Follows
  <1>2. Sound(c) /\ \A u \in Types : c.pieces[u] = b.pieces[u] \ S
    BY CaptureSound
  <1>3. y.events = x.events \o events
    BY <1>1 DEF ua_capture_victims
  <1>4. hit \in SUBSET Squares /\ Listing(order, hit)
    BY AscendingIs
  <1> HIDE DEF y, c
  <1>5. \A i \in 1 .. Len(order) : order[i] \in hit
    <2> HIDE DEF order
    <2> QED
      BY <1>4 DEF Listing
  <1>6. \A i \in 1 .. Len(order) : Changes(events[i], order[i], TypeAt(b)[order[i]], -1)
    <2> SUFFICES ASSUME NEW i \in 1 .. Len(order)
                 PROVE  Changes(events[i], order[i], TypeAt(b)[order[i]], -1)
      OBVIOUS
    <2>1. events[i] = capture_event(b, order[i])
      OBVIOUS
    <2> HIDE DEF events, order
    <2>2. PICK t \in Types : order[i] \in b.pieces[t]
      BY <1>5
    <2>3. order[i] \in Squares
      BY <1>4, <1>5
    <2> QED
      BY <2>1, <2>2, <2>3, CaptureChanges
  <1>7. \A s \in Squares : \A u \in Types :
            s \in c.pieces[u] <=> IF s \in hit THEN u = -1 ELSE s \in b.pieces[u]
    BY <1>2 DEF Types
  <1>8. events = [i \in 1 .. Len(order) |-> events[i]]
    OBVIOUS
  <1> HIDE DEF hit, order, events
  <1>9. Told(events, order, TypeAt(b), -1) /\ Becomes(c, b, hit, -1)
    BY <1>6, <1>7, <1>8 DEF Told, Becomes
  <1>11. -1 \in Types \cup {-1}
    OBVIOUS
  <1>10. Follows(f, y, c)
    BY <1>1, <1>2, <1>3, <1>4, <1>9, <1>11, FollowsMany
  <1> QED
    BY <1>10 DEF y, c

LEMMA FollowsPromote ==
    ASSUME NEW f, NEW x, NEW b, Follows(f, x, b), Sound(b)
    PROVE  Follows(f, ua_promote_peons(x), promote_peons(b))
  <1> DEFINE peon == Type(b.turn, WP, BP)
             zombie == Zombie(b.turn)
             risen == {s \in b.pieces[peon] : RowOf(s) = LastRow(b.turn)}
             order == Ascending(risen)
             event(s) == [type |-> "promotion", square |-> s,
                          from_piece |-> peon, to_piece |-> zombie]
             events == [i \in 1 .. Len(order) |-> event(order[i])]
             y == ua_promote_peons(x)
             c == promote_peons(b)
  <1>0. b.turn \in {"w", "b"} /\ b.pieces \in [Types -> SUBSET Squares]
    BY BoardFields DEF Sound
  <1>1. Carried(y, c) /\ x.b = b
    BY UaPromote, CarriedIs DEF Follows
  <1>2. /\ Sound(c)
        /\ \A t \in Types : c.pieces[t] = IF t = peon THEN b.pieces[t] \ risen
                                          ELSE IF t = zombie THEN b.pieces[t] \cup risen
                                          ELSE b.pieces[t]
    BY PromoteSound, PromotedPieces
  <1>3. peon \in Types /\ zombie \in Types /\ peon # zombie
    BY <1>0, Zombies
  <1>4. y.events = x.events \o events
    BY <1>1 DEF ua_promote_peons, Type, Zombie, LastRow
  <1>5. risen \in SUBSET Squares /\ Listing(order, risen)
    <2>1. risen \in SUBSET Squares
      BY <1>0, <1>3
    <2> HIDE DEF risen
    <2> QED
      BY <2>1, AscendingIs
  <1> HIDE DEF y, c, peon, zombie
  <1>6. \A i \in 1 .. Len(order) : order[i] \in risen
    <2> HIDE DEF order
    <2> QED
      BY <1>5 DEF Listing
  <1>7. \A i \in 1 .. Len(order) : Changes(events[i], order[i], TypeAt(b)[order[i]], zombie)
    <2> SUFFICES ASSUME NEW i \in 1 .. Len(order)
                 PROVE  Changes(events[i], order[i], TypeAt(b)[order[i]], zombie)
      OBVIOUS
    <2>1. events[i] = event(order[i])
      OBVIOUS
    <2>2. order[i] \in Squares /\ order[i] \in b.pieces[peon]
      BY <1>5, <1>6
    <2> HIDE DEF events, order
    <2>3. TypeAt(b)[order[i]] = peon
      BY <1>3, <2>2, TypeAtIs
    <2> QED
      BY <2>1, <2>3 DEF Changes, Show, EventFits
  <1>8. \A s \in Squares : \A u \in Types :
            s \in c.pieces[u] <=> IF s \in risen THEN u = zombie ELSE s \in b.pieces[u]
    <2>1. \A s \in Squares : \A u \in Types : s \in risen /\ s \in b.pieces[u] => u = peon
      BY <1>3 DEF Sound, Once
    <2> HIDE DEF risen
    <2> QED
      BY <1>2, <1>3, <2>1
  <1>9. events = [i \in 1 .. Len(order) |-> events[i]]
    OBVIOUS
  <1> HIDE DEF risen, order, events
  <1>10. Told(events, order, TypeAt(b), zombie) /\ Becomes(c, b, risen, zombie)
    BY <1>7, <1>8, <1>9 DEF Told, Becomes
  <1>11. Follows(f, y, c)
    BY <1>1, <1>2, <1>3, <1>4, <1>5, <1>10, FollowsMany
  <1> QED
    BY <1>11 DEF y, c

LEMMA FollowsContagion ==
    ASSUME NEW f, NEW x, NEW b, Follows(f, x, b), Sound(b)
    PROVE  Follows(f, ua_handle_contagion(x), handle_contagion(b))
  <1> DEFINE mask == contagion_mask(b)
             ill == {s \in mask : \E t \in Types : s \in b.pieces[t]}
             zombie == Zombie(b.turn)
             order == Ascending(ill)
             event(s) == [type |-> "contagion", square |-> s,
                          from_piece |-> FirstType(b, s), to_piece |-> zombie]
             events == [i \in 1 .. Len(order) |-> event(order[i])]
             y == ua_handle_contagion(x)
             c == handle_contagion(b)
  <1>0. b \in Chezzboard /\ b.turn \in {"w", "b"}
    BY BoardFields DEF Sound
  <1>1. Carried(y, c) /\ x.b = b /\ ua_contagion_mask(b) = mask /\ Sound(c)
    BY UaContagion, UaMask, CarriedIs, ContagionSound DEF Follows
  <1>2. CASE mask = {}
    <2>1. y = x /\ c = b
      BY <1>1, <1>2 DEF ua_handle_contagion, handle_contagion
    <2> QED
      BY <2>1
  <1>3. CASE mask # {}
    <2>1. y.events = x.events \o events
      BY <1>1, <1>3 DEF ua_handle_contagion, Type, Zombie
    <2>2. /\ mask \in SUBSET Squares /\ mask \subseteq Enemy(b)
          /\ b.turn = "w" => mask \cap (b.pieces[BK] \cup b.pieces[BZ]) = {}
          /\ b.turn = "b" => mask \cap (b.pieces[WK] \cup b.pieces[WZ]) = {}
      BY <1>0 DEF contagion_mask
    <2>3. c = infect(b, mask)
      BY <1>3 DEF handle_contagion
    <2> HIDE DEF y, c, mask
    <2>4. \A t \in Types : c.pieces[t] =
              IF t = zombie THEN b.pieces[t] \cup mask
              ELSE IF t \in TypesOf(Opponent(b.turn)) /\ t \notin {WK, BK, WZ, BZ}
                   THEN b.pieces[t] \ mask ELSE b.pieces[t]
      <3> DEFINE mine == IF b.turn = "w" THEN WZ ELSE BZ
      <3>1. zombie = mine
        BY DEF Zombie, Type
      <3>2. \A t \in Types : infect(b, mask).pieces[t] =
              IF t = mine THEN b.pieces[t] \cup mask
              ELSE IF t \in TypesOf(Opponent(b.turn)) /\ t \notin {WK, BK, WZ, BZ}
                   THEN b.pieces[t] \ mask ELSE b.pieces[t]
        BY <1>0, <2>2, InfectFields
      <3> HIDE DEF zombie, mine
      <3> QED
        BY <2>3, <3>1, <3>2
    <2>5. ASSUME NEW s \in mask
          PROVE  \E t \in Types : /\ s \in b.pieces[t] /\ t \in TypesOf(Opponent(b.turn))
                                  /\ t \notin {WK, BK, WZ, BZ}
      <3>1. s \in Squares /\ s \in Enemy(b)
        BY <2>2
      <3>2. CASE b.turn = "w"
        <4>1. PICK t \in BlackTypes : s \in b.pieces[t]
          BY <3>1, <3>2 DEF Sound, Tells, Enemy
        <4>2. t \notin {WK, BK, WZ, BZ}
          BY <2>2, <3>2, <4>1 DEF BlackTypes, WK, WZ
        <4> QED
          BY <3>2, <4>1, <4>2, TypeFacts DEF TypesOf, Opponent
      <3>3. CASE b.turn = "b"
        <4>1. PICK t \in WhiteTypes : s \in b.pieces[t]
          BY <3>1, <3>3 DEF Sound, Tells, Enemy
        <4>2. t \notin {WK, BK, WZ, BZ}
          BY <2>2, <3>3, <4>1 DEF WhiteTypes, BK, BZ
        <4> QED
          BY <3>3, <4>1, <4>2, TypeFacts DEF TypesOf, Opponent
      <3> QED
        BY <1>0, <3>2, <3>3
    <2>6. ill = mask
      BY <2>5
    <2>7. ill \in SUBSET Squares /\ Listing(order, ill)
      BY <2>2, <2>6, AscendingIs
    <2>8. zombie \in Types
      BY <1>0, Zombies
    <2> HIDE DEF ill
    <2>9. \A i \in 1 .. Len(order) : order[i] \in ill
      <3> HIDE DEF order
      <3> QED
        BY <2>7 DEF Listing
    <2>10. \A i \in 1 .. Len(order) : Changes(events[i], order[i], TypeAt(b)[order[i]], zombie)
      <3> SUFFICES ASSUME NEW i \in 1 .. Len(order)
                   PROVE  Changes(events[i], order[i], TypeAt(b)[order[i]], zombie)
        OBVIOUS
      <3>1. events[i] = event(order[i])
        OBVIOUS
      <3>2. order[i] \in Squares /\ order[i] \in mask
        BY <2>6, <2>7, <2>9
      <3> HIDE DEF events, order
      <3>3. PICK t \in Types : order[i] \in b.pieces[t]
        BY <2>5, <3>2
      <3>4. TypeAt(b)[order[i]] = t /\ FirstType(b, order[i]) = t
        BY <3>2, <3>3, TypeAtIs, FirstTypeIs
      <3> HIDE DEF zombie
      <3> QED
        BY <3>1, <3>4 DEF Changes, Show, EventFits
    <2>11. \A s \in Squares : \A u \in Types :
              s \in c.pieces[u] <=> IF s \in ill THEN u = zombie ELSE s \in b.pieces[u]
      <3> SUFFICES ASSUME NEW s \in Squares, NEW u \in Types
                   PROVE  s \in c.pieces[u] <=> IF s \in ill THEN u = zombie ELSE s \in b.pieces[u]
        OBVIOUS
      <3> HIDE DEF zombie
      <3>1. CASE s \in ill
        <4>1. PICK t \in Types : /\ s \in b.pieces[t] /\ t \in TypesOf(Opponent(b.turn))
                                 /\ t \notin {WK, BK, WZ, BZ}
          BY <2>5, <2>6, <3>1
        <4>2. s \in b.pieces[u] => u = t
          BY <4>1 DEF Sound, Once
        <4> QED
          BY <2>4, <2>6, <3>1, <4>1, <4>2
      <3>2. CASE s \notin ill
        BY <2>4, <2>6, <3>2
      <3> QED
        BY <3>1, <3>2
    <2>12. events = [i \in 1 .. Len(order) |-> events[i]]
      OBVIOUS
    <2> HIDE DEF order, events, zombie
    <2>13. Told(events, order, TypeAt(b), zombie) /\ Becomes(c, b, ill, zombie)
      BY <2>10, <2>11, <2>12 DEF Told, Becomes
    <2>14. Follows(f, y, c)
      BY <1>1, <2>1, <2>7, <2>8, <2>13, FollowsMany
    <2> QED
      BY <2>14 DEF y, c
  <1> QED
    BY <1>2, <1>3

LEMMA UaAdd ==
    ASSUME NEW f, NEW x, NEW b, Follows(f, x, b), Sound(b), NEW action
    PROVE  LET e == ua_add_board(x, action)
           IN /\ e.board = add_board(b) /\ e.action = action
              /\ Tale(f, e.events, TypeAt(e.board))
  <1> DEFINE e == ua_add_board(x, action)
  <1>1. x.b = b /\ b \in Chezzboard
    BY CarriedIs DEF Follows, Sound
  <1>2. e.board = add_board(b) /\ e.action = action /\ e.events = x.events
    BY <1>1 DEF ua_add_board, add_board, Opponent
  <1>3. add_board(b).pieces = b.pieces
    BY <1>1 DEF add_board, Chezzboard
  <1>4. TypeAt(add_board(b)) = TypeAt(b)
    BY <1>3 DEF TypeAt
  <1> QED
    BY <1>2, <1>4 DEF Follows

-----------------------------------------------------------------------------
(* The end of every move: contagion, and promotion where it is looked for. *)
LEMMA UaSettle ==
    ASSUME NEW f, NEW x, NEW b, Follows(f, x, b), Sound(b),
           NEW action, NEW promotes \in BOOLEAN
    PROVE  LET y == ua_handle_contagion(x)
               e == ua_add_board(IF promotes THEN ua_promote_peons(y) ELSE y, action)
           IN /\ e.board = Settle(b, promotes) /\ e.action = action
              /\ Tale(f, e.events, TypeAt(e.board))
  <1> DEFINE y == ua_handle_contagion(x)
             c == handle_contagion(b)
             z == IF promotes THEN ua_promote_peons(y) ELSE y
             d == IF promotes THEN promote_peons(c) ELSE c
  <1>1. Follows(f, y, c) /\ Sound(c)
    BY FollowsContagion, ContagionSound
  <1>3. Settle(b, promotes) = add_board(d)
    BY DEF Settle
  <1> HIDE DEF y, c
  <1>2. Follows(f, z, d) /\ Sound(d)
    BY <1>1, FollowsPromote, PromoteSound
  <1> HIDE DEF z, d
  <1>4. LET e == ua_add_board(z, action)
        IN /\ e.board = add_board(d) /\ e.action = action
           /\ Tale(f, e.events, TypeAt(e.board))
    BY <1>2, UaAdd
  <1> QED
    BY <1>3, <1>4 DEF z, y

(***************************************************************************)
(* What a set of entries E must be for the list L of boards and the piece  *)
(* on s: the same boards, actions that name the piece's square, and one    *)
(* entry to an action.                                                     *)
(***************************************************************************)
Matches(E, L, s) ==
    /\ {e.board : e \in E} = L
    /\ \A e \in E : e.action[2] = s
    /\ \A e, f \in E : e.action = f.action => e = f

Tagged(E, tag) == \A e \in E : e.action[1] = tag

(* And each entry's events tell how its board came to be.                  *)
Telling(E, b) == \A e \in E : Tale(TypeAt(b), e.events, TypeAt(e.board))

LEMMA MatchUnion ==
    ASSUME NEW E, NEW F, NEW L, NEW M, NEW s, NEW t, NEW u, t # u,
           Matches(E, L, s), Matches(F, M, s), Tagged(E, t), Tagged(F, u)
    PROVE  Matches(E \cup F, L \cup M, s)
  BY DEF Matches, Tagged

(* A capture by the piece that moves, and its move.                        *)
LEMMA UaMoved ==
    ASSUME NEW f, NEW x, NEW b, Follows(f, x, b), Sound(b), NEW t \in TypesOf(b.turn),
           NEW s \in Squares, s \in b.pieces[t], NEW q \in Squares, q \notin Friendly(b)
    PROVE  LET y == IF q \in Enemy(b) THEN ua_capture_piece(x, q) ELSE x
               m == move_piece(Capturing(b, q), t, s, q)
           IN Follows(f, ua_move_piece(y, t, s, q), m) /\ Sound(m)
  <1> DEFINE y == IF q \in Enemy(b) THEN ua_capture_piece(x, q) ELSE x
             c == Capturing(b, q)
             m == move_piece(c, t, s, q)
  <1>1. t \in Types /\ s # q
    BY MoverFacts
  <1>2. Sound(m)
    BY PieceMoves DEF HasMoved
  <1>3. Follows(f, y, c) /\ Sound(c) /\ s \in c.pieces[t] /\ \A u \in Types : q \notin c.pieces[u]
    <2>1. CASE q \in Enemy(b)
      <3>1. y = ua_capture_piece(x, q) /\ c = capture_piece(b, q)
        BY <2>1 DEF Capturing
      <3> HIDE DEF y, c
      <3> QED
        BY <1>1, <3>1, FollowsCapture
    <2>2. CASE q \notin Enemy(b)
      <3>1. y = x /\ c = b
        BY <2>2 DEF Capturing
      <3>2. \A u \in Types : q \notin b.pieces[u]
        BY <2>2, MoverFacts
      <3> HIDE DEF y, c
      <3> QED
        BY <3>1, <3>2
    <2> QED
      BY <2>1, <2>2
  <1> HIDE DEF y, c
  <1>4. Follows(f, ua_move_piece(y, t, s, q), m)
    BY <1>1, <1>2, <1>3, FollowsMove
  <1> QED
    BY <1>2, <1>4 DEF y, c

LEMMA UaPeonMoves ==
    ASSUME NEW b, Sound(b), NEW s \in Squares, NEW t \in TypesOf(b.turn), s \in b.pieces[t],
           t \in {WP, BP}
    PROVE  LET E == ua_set_peon_moves(b, s, t, nsp_table[t][s] \ Friendly(b), Enemy(b))
           IN Matches(E, set_peon_moves(b, s, t), s) /\ Tagged(E, "move") /\ Telling(E, b)
  <1> DEFINE E == ua_set_peon_moves(b, s, t, nsp_table[t][s] \ Friendly(b), Enemy(b))
             x(q) == IF q \in Enemy(b) THEN ua_capture_piece(Copy(b), q) ELSE Copy(b)
             last(q) == RowOf(q) = 7 \/ RowOf(q) = 0
             y(q) == ua_handle_contagion(ua_move_piece(x(q), t, s, q))
             e(q) == ua_add_board(IF last(q) THEN ua_promote_peons(y(q)) ELSE y(q),
                                  ua_make_move_action(s, q))
             Q == PeonSteps(b, s, t) \cup PeonCaptures(b, s, t)
             made(q) == Settle(move_piece(Capturing(b, q), t, s, q), RowOf(q) \in {0, 7})
  <1>0. t \in Types
    BY TypeFacts DEF TypesOf
  <1>1. Q \subseteq Squares /\ \A q \in Q : q \notin Friendly(b)
    BY <1>0, TableOnBoard DEF PeonSteps, PeonCaptures
  <1>2. \A q \in Squares : ColOf(q) \in Int
    BY DEF Squares, ColOf
  <1>3. E = {e(q) : q \in Q}
    <2>1. \A q : q \in PeonSteps(b, s, t) <=>
              q \in nsp_table[t][s] \ Friendly(b) /\ ColOf(q) = ColOf(s) /\ q \notin Enemy(b)
      BY DEF PeonSteps
    <2>2. \A q : q \in PeonCaptures(b, s, t) <=>
              /\ q \in nsp_table[t][s] \ Friendly(b)
              /\ ColOf(q) \in {ColOf(s) - 1, ColOf(s) + 1} /\ q \in Enemy(b)
      BY <1>0, <1>2, TableOnBoard DEF PeonCaptures
    <2> DEFINE finish(z, q) ==
            LET w == ua_handle_contagion(ua_move_piece(z, t, s, q))
            IN ua_add_board(IF last(q) THEN ua_promote_peons(w) ELSE w,
                            ua_make_move_action(s, q))
    <2>3. E = {finish(Copy(b), q) : q \in PeonSteps(b, s, t)}
                \cup {finish(ua_capture_piece(Copy(b), q), q) : q \in PeonCaptures(b, s, t)}
      BY <2>1, <2>2 DEF ua_set_peon_moves
    <2>4. \A q \in PeonSteps(b, s, t) : e(q) = finish(Copy(b), q)
      BY <2>1
    <2>5. \A q \in PeonCaptures(b, s, t) : e(q) = finish(ua_capture_piece(Copy(b), q), q)
      BY <2>2
    <2> HIDE DEF finish, e, E
    <2> QED
      BY <2>3, <2>4, <2>5
  <1>4. set_peon_moves(b, s, t) = {made(q) : q \in Q}
    BY DEF set_peon_moves, PeonSteps, PeonCaptures, Capturing
  <1>5. \A q \in Q : /\ e(q).board = made(q) /\ e(q).action = <<"move", s, q>>
                     /\ Tale(TypeAt(b), e(q).events, TypeAt(e(q).board))
    <2> SUFFICES ASSUME NEW q \in Q
                 PROVE  /\ e(q).board = made(q) /\ e(q).action = <<"move", s, q>>
                        /\ Tale(TypeAt(b), e(q).events, TypeAt(e(q).board))
      OBVIOUS
    <2> DEFINE m == move_piece(Capturing(b, q), t, s, q)
    <2>1. Follows(TypeAt(b), Copy(b), b)
      BY FollowsStart
    <2>2. Follows(TypeAt(b), ua_move_piece(x(q), t, s, q), m) /\ Sound(m)
      BY <1>1, <2>1, UaMoved
    <2>3. last(q) \in BOOLEAN /\ (last(q) <=> RowOf(q) \in {0, 7})
      OBVIOUS
    <2> HIDE DEF x, m, last
    <2>4. /\ e(q).board = Settle(m, last(q)) /\ e(q).action = ua_make_move_action(s, q)
          /\ Tale(TypeAt(b), e(q).events, TypeAt(e(q).board))
      BY <2>2, <2>3, UaSettle
    <2> QED
      BY <2>3, <2>4 DEF m, ua_make_move_action
  <1> HIDE DEF E, e, made, Q
  <1>6. {z.board : z \in E} = set_peon_moves(b, s, t)
    BY <1>3, <1>4, <1>5
  <1>7. \A z \in E : z.action[1] = "move" /\ z.action[2] = s
    BY <1>3, <1>5
  <1>8. \A z, w \in E : z.action = w.action => z = w
    <2>1. \A q, r \in Q : <<"move", s, q>> = <<"move", s, r>> => q = r
      OBVIOUS
    <2> QED
      BY <1>3, <1>5, <2>1
  <1>9. \A z \in E : Tale(TypeAt(b), z.events, TypeAt(z.board))
    BY <1>3, <1>5
  <1> QED
    BY <1>6, <1>7, <1>8, <1>9 DEF Matches, Tagged, Telling, E

LEMMA UaPieceMoves ==
    ASSUME NEW b, Sound(b), NEW s \in Squares, NEW t \in TypesOf(b.turn), s \in b.pieces[t]
    PROVE  LET P == PseudoMoves(b, s, t)
               E == ua_set_piece_moves(b, s, t, P, Enemy(b))
           IN Matches(E, set_piece_moves(b, s, t, P), s) /\ Tagged(E, "move") /\ Telling(E, b)
  <1> DEFINE P == PseudoMoves(b, s, t)
             E == ua_set_piece_moves(b, s, t, P, Enemy(b))
             announce(q) ==
                CASE t \in {WF, BF} -> ua_push_action_event(Copy(b),
                                           ua_make_move_action(s, q), "catapult_move")
                  [] t \in {WC, BC} -> ua_push_action_event(Copy(b),
                                           ua_make_move_action(s, q), "canon_move")
                  [] OTHER -> Copy(b)
             y(q) == IF q \in Enemy(b) THEN ua_capture_piece(announce(q), q) ELSE announce(q)
             e(q) == ua_add_board(ua_handle_contagion(ua_move_piece(y(q), t, s, q)),
                                  ua_make_move_action(s, q))
             made(q) == Settle(move_piece(Capturing(b, q), t, s, q), FALSE)
  <1>1. P \subseteq Squares /\ \A q \in P : q \notin Friendly(b)
    BY PseudoMovesOnBoard, TypeFacts DEF TypesOf
  <1> HIDE DEF P
  <1>3. E = {e(q) : q \in P}
    BY DEF ua_set_piece_moves
  <1>4. set_piece_moves(b, s, t, P) = {made(q) : q \in P}
    BY DEF set_piece_moves, Capturing
  <1>5. \A q \in P : /\ e(q).board = made(q) /\ e(q).action = <<"move", s, q>>
                     /\ Tale(TypeAt(b), e(q).events, TypeAt(e(q).board))
    <2> SUFFICES ASSUME NEW q \in P
                 PROVE  /\ e(q).board = made(q) /\ e(q).action = <<"move", s, q>>
                        /\ Tale(TypeAt(b), e(q).events, TypeAt(e(q).board))
      OBVIOUS
    <2> DEFINE m == move_piece(Capturing(b, q), t, s, q)
    <2>1. Follows(TypeAt(b), announce(q), b)
      BY FollowsStart
    <2> HIDE DEF announce
    <2>2. Follows(TypeAt(b), ua_move_piece(y(q), t, s, q), m) /\ Sound(m)
      BY <1>1, <2>1, UaMoved
    <2> DEFINE z == ua_move_piece(y(q), t, s, q)
    <2>3. Follows(TypeAt(b), z, m) /\ Sound(m)
      BY <2>2
    <2> HIDE DEF z, m
    <2>4. LET w == ua_handle_contagion(z)
              f == ua_add_board(IF FALSE THEN ua_promote_peons(w) ELSE w,
                                ua_make_move_action(s, q))
          IN /\ f.board = Settle(m, FALSE) /\ f.action = ua_make_move_action(s, q)
             /\ Tale(TypeAt(b), f.events, TypeAt(f.board))
      BY <2>3, UaSettle
    <2> QED
      BY <2>4 DEF m, z, ua_make_move_action
  <1> HIDE DEF E, e, made
  <1>6. {z.board : z \in E} = set_piece_moves(b, s, t, P)
    BY <1>3, <1>4, <1>5
  <1>7. \A z \in E : z.action[1] = "move" /\ z.action[2] = s
    BY <1>3, <1>5
  <1>8. \A z, w \in E : z.action = w.action => z = w
    <2>1. \A q, r \in P : <<"move", s, q>> = <<"move", s, r>> => q = r
      OBVIOUS
    <2> QED
      BY <1>3, <1>5, <2>1
  <1>9. \A z \in E : Tale(TypeAt(b), z.events, TypeAt(z.board))
    BY <1>3, <1>5
  <1> QED
    BY <1>6, <1>7, <1>8, <1>9 DEF Matches, Tagged, Telling, E, P

LEMMA UaShots ==
    ASSUME NEW b, Sound(b), NEW s \in Squares
    PROVE  LET E == ua_set_canon_shots(b, s, Friendly(b), Enemy(b))
           IN Matches(E, set_canon_shots(b, s), s) /\ Tagged(E, "shoot") /\ Telling(E, b)
  <1> DEFINE E == ua_set_canon_shots(b, s, Friendly(b), Enemy(b))
             D == {d \in Diagonals : Victims(b, s, d) # {}}
             shot(d) == ua_make_shoot_action(s, DirectionLabel(d))
             x(d) == ua_push_action_event(Copy(b), shot(d), "canon_shot")
             y(d) == ua_capture_victims(x(d), Victims(b, s, d))
             e(d) == ua_add_board(ua_handle_contagion(y(d)), shot(d))
             made(d) == Settle(CaptureAll(b, Victims(b, s, d)), FALSE)
  <1>1. \A d : Victims(b, s, d) \subseteq Squares
    BY BoardFields DEF Victims, Sound, Friendly, Enemy
  <1>2. E = {e(d) : d \in D}
    BY DEF ua_set_canon_shots, Victims, ShotPath
  <1>3. set_canon_shots(b, s) = {made(d) : d \in D}
    BY DEF set_canon_shots
  <1>4. \A d \in D : /\ e(d).board = made(d) /\ e(d).action = <<"shoot", s, DirectionLabel(d)>>
                     /\ Tale(TypeAt(b), e(d).events, TypeAt(e(d).board))
    <2> SUFFICES ASSUME NEW d \in D
                 PROVE  /\ e(d).board = made(d)
                        /\ e(d).action = <<"shoot", s, DirectionLabel(d)>>
                        /\ Tale(TypeAt(b), e(d).events, TypeAt(e(d).board))
      OBVIOUS
    <2> DEFINE V == Victims(b, s, d)
               m == CaptureAll(b, V)
               z == y(d)
    <2>1. Follows(TypeAt(b), x(d), b)
      BY FollowsStart
    <2>2. V \in SUBSET Squares
      BY <1>1
    <2> HIDE DEF x, V
    <2>3. Follows(TypeAt(b), z, m) /\ Sound(m)
      BY <2>1, <2>2, FollowsVictims, CaptureSound DEF V
    <2> HIDE DEF z, m, shot
    <2>4. LET w == ua_handle_contagion(z)
              f == ua_add_board(IF FALSE THEN ua_promote_peons(w) ELSE w, shot(d))
          IN /\ f.board = Settle(m, FALSE) /\ f.action = shot(d)
             /\ Tale(TypeAt(b), f.events, TypeAt(f.board))
      BY <2>3, UaSettle
    <2> QED
      BY <2>4 DEF m, z, V, shot, ua_make_shoot_action
  <1>5. \A c, d \in Diagonals : DirectionLabel(c) = DirectionLabel(d) => c = d
    BY DEF Diagonals, DirectionLabel
  <1> HIDE DEF E, e, made
  <1>6. {z.board : z \in E} = set_canon_shots(b, s)
    BY <1>2, <1>3, <1>4
  <1>7. \A z \in E : z.action[1] = "shoot" /\ z.action[2] = s
    BY <1>2, <1>4
  <1>8. \A z, w \in E : z.action = w.action => z = w
    <2>1. \A k, l : <<"shoot", s, k>> = <<"shoot", s, l>> => k = l
      OBVIOUS
    <2>2. \A c, d \in D : <<"shoot", s, DirectionLabel(c)>> = <<"shoot", s, DirectionLabel(d)>>
              => c = d
      BY <1>5, <2>1
    <2> QED
      BY <1>2, <1>4, <2>2
  <1>9. \A z \in E : Tale(TypeAt(b), z.events, TypeAt(z.board))
    BY <1>2, <1>4
  <1> QED
    BY <1>6, <1>7, <1>8, <1>9 DEF Matches, Tagged, Telling, E

LEMMA UaFlings ==
    ASSUME NEW b, Sound(b), NEW s \in Squares, NEW t \in TypesOf(b.turn), t \in {WF, BF}
    PROVE  LET E == ua_set_catapult_flings(b, s, t, Friendly(b), Enemy(b))
           IN Matches(E, set_catapult_flings(b, s, t), s) /\ Tagged(E, "fling") /\ Telling(E, b)
  <1> DEFINE E == ua_set_catapult_flings(b, s, t, Friendly(b), Enemy(b))
             own == IF t = WF THEN WhiteTypes ELSE BlackTypes
             flung(f) == CHOOSE u \in own :
                        f \in b.pieces[u] /\ \A v \in own : f \in b.pieces[v] => u <= v
             action(f, q) == ua_make_fling_action(s, f, q)
             x(f, q) == ua_push_action_event(Copy(b), action(f, q), "catapult_fling")
             y(f, q) == IF q \in Enemy(b)
                        THEN ua_capture_piece(ua_capture_piece(x(f, q), q), f)
                        ELSE ua_move_piece(x(f, q), flung(f), f, q)
             z(f, q) == ua_handle_contagion(y(f, q))
             e(f, q) == ua_add_board(IF flung(f) \in {WP, BP} THEN ua_promote_peons(z(f, q))
                                     ELSE z(f, q), action(f, q))
             P == {p \in Payloads(b, s, t) \X Squares : p[2] \in FlingTargets(b, s, p[1])}
  <1>0. /\ b \in Chezzboard /\ b.turn \in {"w", "b"}
        /\ Friendly(b) \subseteq Squares /\ Enemy(b) \subseteq Squares
    BY BoardFields DEF Sound, Friendly, Enemy
  <1>a. own = TypesOf(b.turn) /\ own \subseteq Types
        /\ (t = WF <=> b.turn = "w")
    BY <1>0, TypeFacts DEF TypesOf, WF, BF, WhiteTypes, BlackTypes
  <1>b. \A f : FlingTargets(b, s, f) \subseteq Squares \ Friendly(b)
    BY AttacksOnBoard DEF FlingTargets, FlingPath
  <1>c. Payloads(b, s, t) \subseteq Friendly(b)
    BY DEF Payloads
  <1>d. /\ \A f \in Payloads(b, s, t) : \A q \in FlingTargets(b, s, f) :
               <<f, q>> \in P /\ <<f, q>>[1] = f /\ <<f, q>>[2] = q
        /\ \A p \in P : p[1] \in Payloads(b, s, t) /\ p[2] \in FlingTargets(b, s, p[1])
    BY <1>b
  (* The payload has one type, however it is looked for.                   *)
  <1>1. \A f \in Payloads(b, s, t) :
            /\ flung(f) \in own /\ f \in b.pieces[flung(f)]
            /\ \A v \in Types : IsFirstType(b, f, v) <=> v = flung(f)
    <2> SUFFICES ASSUME NEW f \in Payloads(b, s, t)
                 PROVE  /\ flung(f) \in own /\ f \in b.pieces[flung(f)]
                        /\ \A v \in Types : IsFirstType(b, f, v) <=> v = flung(f)
      OBVIOUS
    <2> HIDE DEF own
    <2>1. PICK u \in own : f \in b.pieces[u]
      BY <1>0, <1>a, <1>c DEF Sound, Tells, Friendly, TypesOf
    <2>2. \A v \in Types : f \in b.pieces[v] => v = u
      BY <1>a, <2>1, <1>0, <1>c DEF Sound, Once
    <2>3. u <= u /\ ~ (u < u) /\ \A v \in own : v \in Int
      BY <1>a, <2>1 DEF Types
    <2>4. flung(f) = u
      BY <1>a, <2>1, <2>2, <2>3
    <2>5. \A v \in Types : IsFirstType(b, f, v) <=> v = u
      BY <1>a, <2>1, <2>2, <2>3 DEF IsFirstType, Types
    <2> QED
      BY <2>1, <2>4, <2>5
  <1>2. E = {e(p[1], p[2]) : p \in P}
    <2> DEFINE adjacent == (nsp_table[t][s] \ Enemy(b)) \cap Friendly(b)
               dx(f) == ColOf(s) - ColOf(f)
               dy(f) == RowOf(s) - RowOf(f)
               blockers(f) == nsp_table[t][s]
                           \ {SquareAt(RowOf(s) + dy(f), ColOf(s) + dx(f))}
               path(f) == (IF dx(f) # 0 /\ dy(f) # 0 THEN bishop_attacks(s, blockers(f))
                           ELSE rook_attacks(s, blockers(f))) \ blockers(f)
               king == IF t = WF THEN b.pieces[BK] ELSE b.pieces[WK]
    <2>1. E = UNION {{e(f, q) : q \in (path(f) \ Friendly(b)) \ king} : f \in adjacent}
      BY DEF ua_set_catapult_flings
    <2>2. adjacent = Payloads(b, s, t)
      BY DEF Payloads
    <2>3. nsp_table[t][s] = nsp_table[WF][s]
      BY TableRows
    <2>4. \A f : path(f) = FlingPath(s, f)
      BY <2>3 DEF FlingPath
    <2>5. king = b.pieces[IF b.turn = "w" THEN BK ELSE WK]
      BY <1>a
    <2>6. \A f : (path(f) \ Friendly(b)) \ king = FlingTargets(b, s, f)
      BY <2>4, <2>5 DEF FlingTargets
    <2> HIDE DEF E, e, adjacent, path, king
    <2>7. E = UNION {{e(f, q) : q \in FlingTargets(b, s, f)} : f \in Payloads(b, s, t)}
      BY <2>1, <2>2, <2>6
    <2> HIDE DEF P
    <2>8. \A c : c \in E <=> \E f \in Payloads(b, s, t) : \E q \in FlingTargets(b, s, f) :
                                c = e(f, q)
      BY <2>7
    <2>9. \A f \in Payloads(b, s, t) : \A q \in FlingTargets(b, s, f) :
              \E p \in P : e(f, q) = e(p[1], p[2])
      <3> SUFFICES ASSUME NEW f \in Payloads(b, s, t), NEW q \in FlingTargets(b, s, f)
                   PROVE  \E p \in P : e(f, q) = e(p[1], p[2])
        OBVIOUS
      <3>1. <<f, q>> \in P /\ e(f, q) = e(<<f, q>>[1], <<f, q>>[2])
        BY <1>d
      <3> QED
        BY <3>1
    <2> QED
      BY <1>d, <2>8, <2>9
  <1> DEFINE made(f, q) == Fling(b, f, flung(f), q)
  <1>3. set_catapult_flings(b, s, t) = {made(p[1], p[2]) : p \in P}
    <2> HIDE DEF flung
    <2>1. \A f \in Payloads(b, s, t) : flung(f) \in Types
      BY <1>1, <1>a
    <2>2. \A c : c \in set_catapult_flings(b, s, t) <=>
              \E f \in Payloads(b, s, t) : \E u \in Types : \E q \in FlingTargets(b, s, f) :
                  IsFirstType(b, f, u) /\ c = Fling(b, f, u, q)
      BY DEF set_catapult_flings
    <2>3. \A c : c \in set_catapult_flings(b, s, t) <=>
              \E f \in Payloads(b, s, t) : \E q \in FlingTargets(b, s, f) :
                  c = Fling(b, f, flung(f), q)
      BY <1>1, <2>1, <2>2
    <2> HIDE DEF P, made
    <2>4. \A f \in Payloads(b, s, t) : \A q \in FlingTargets(b, s, f) :
              \E p \in P : made(f, q) = made(p[1], p[2])
      <3> SUFFICES ASSUME NEW f \in Payloads(b, s, t), NEW q \in FlingTargets(b, s, f)
                   PROVE  \E p \in P : made(f, q) = made(p[1], p[2])
        OBVIOUS
      <3>1. <<f, q>> \in P /\ made(f, q) = made(<<f, q>>[1], <<f, q>>[2])
        BY <1>d
      <3> QED
        BY <3>1
    <2>5. \A c : c \in set_catapult_flings(b, s, t) <=>
              \E f \in Payloads(b, s, t) : \E q \in FlingTargets(b, s, f) : c = made(f, q)
      BY <2>3 DEF made
    <2> QED
      BY <1>d, <2>4, <2>5
  <1>4. \A p \in P : /\ e(p[1], p[2]).board = made(p[1], p[2])
                     /\ e(p[1], p[2]).action = <<"fling", s, p[1], p[2]>>
                     /\ Tale(TypeAt(b), e(p[1], p[2]).events, TypeAt(e(p[1], p[2]).board))
    <2> SUFFICES ASSUME NEW f \in Payloads(b, s, t), NEW q \in FlingTargets(b, s, f)
                 PROVE  /\ e(f, q).board = made(f, q)
                        /\ e(f, q).action = <<"fling", s, f, q>>
                        /\ Tale(TypeAt(b), e(f, q).events, TypeAt(e(f, q).board))
      OBVIOUS
    <2> DEFINE u == flung(f)
               m == IF q \in Enemy(b) THEN capture_piece(capture_piece(b, q), f)
                    ELSE move_piece(b, u, f, q)
    <2>1. u \in TypesOf(b.turn) /\ f \in b.pieces[u]
      BY <1>1, <1>a
    <2>2. f \in Squares /\ q \in Squares /\ q \notin Friendly(b)
      BY <1>0, <1>b, <1>c
    <2>3. Follows(TypeAt(b), x(f, q), b)
      BY FollowsStart
    <2> DEFINE z0 == x(f, q)
               w == y(f, q)
    <2> HIDE DEF x, u
    <2>4. Follows(TypeAt(b), w, m) /\ Sound(m)
      <3>1. CASE q \in Enemy(b)
        <4>1. /\ Follows(TypeAt(b), ua_capture_piece(z0, q), capture_piece(b, q))
              /\ Sound(capture_piece(b, q))
          BY <2>2, <2>3, FollowsCapture
        <4>2. /\ Follows(TypeAt(b), ua_capture_piece(ua_capture_piece(z0, q), f),
                         capture_piece(capture_piece(b, q), f))
              /\ Sound(capture_piece(capture_piece(b, q), f))
          BY <2>2, <4>1, FollowsCapture
        <4> QED
          BY <3>1, <4>2
      <3>2. CASE q \notin Enemy(b)
        <4>1. /\ Follows(TypeAt(b), ua_move_piece(IF q \in Enemy(b) THEN ua_capture_piece(z0, q) ELSE z0,
                                       u, f, q),
                         move_piece(Capturing(b, q), u, f, q))
              /\ Sound(move_piece(Capturing(b, q), u, f, q))
          BY <2>1, <2>2, <2>3, UaMoved
        <4> QED
          BY <3>2, <4>1 DEF Capturing, u
      <3> QED
        BY <3>1, <3>2
    <2>5. made(f, q) = Settle(m, u \in {WP, BP})
      BY DEF Fling, u
    <2> DEFINE promotes == u \in {WP, BP}
    <2>6. promotes \in BOOLEAN
      OBVIOUS
    <2>7. e(f, q) = ua_add_board(IF promotes THEN ua_promote_peons(ua_handle_contagion(w))
                                 ELSE ua_handle_contagion(w), action(f, q))
      BY DEF u
    <2> HIDE DEF w, m, promotes, e, made
    <2>8. /\ e(f, q).board = Settle(m, promotes) /\ e(f, q).action = action(f, q)
          /\ Tale(TypeAt(b), e(f, q).events, TypeAt(e(f, q).board))
      BY <2>4, <2>6, <2>7, UaSettle
    <2> QED
      BY <2>5, <2>8 DEF promotes, ua_make_fling_action
  <1> HIDE DEF E, e, made
  <1>6. {c.board : c \in E} = set_catapult_flings(b, s, t)
    BY <1>2, <1>3, <1>4
  <1>7. \A c \in E : c.action[1] = "fling" /\ c.action[2] = s
    BY <1>2, <1>4
  <1>8. \A c, d \in E : c.action = d.action => c = d
    <2>1. \A p, r \in P : <<"fling", s, p[1], p[2]>> = <<"fling", s, r[1], r[2]>> =>
                              p[1] = r[1] /\ p[2] = r[2]
      OBVIOUS
    <2> QED
      BY <1>2, <1>4, <2>1
  <1>9. \A c \in E : Tale(TypeAt(b), c.events, TypeAt(c.board))
    BY <1>2, <1>4
  <1> QED
    BY <1>6, <1>7, <1>8, <1>9 DEF Matches, Tagged, Telling, E

-----------------------------------------------------------------------------
(* All pieces together.                                                    *)
LEMMA UaEntries ==
    ASSUME NEW b, Sound(b), NEW s \in Squares, NEW t \in TypesOf(b.turn), s \in b.pieces[t]
    PROVE  LET E == ua_entries_of(b, s, t, Friendly(b), Enemy(b))
           IN Matches(E, BoardsOf(b, s, t), s) /\ Telling(E, b)
  <1> DEFINE E == ua_entries_of(b, s, t, Friendly(b), Enemy(b))
             nsp == nsp_table[t][s] \ Friendly(b)
             P == PseudoMoves(b, s, t)
             moves(Q) == ua_set_piece_moves(b, s, t, Q, Enemy(b))
             peons == ua_set_peon_moves(b, s, t, nsp, Enemy(b))
             flings == ua_set_catapult_flings(b, s, t, Friendly(b), Enemy(b))
             shots == ua_set_canon_shots(b, s, Friendly(b), Enemy(b))
  <1>0. t \in Types
    BY TypeFacts DEF TypesOf
  <1>1. /\ Matches(moves(P), set_piece_moves(b, s, t, P), s) /\ Tagged(moves(P), "move")
        /\ Telling(moves(P), b)
    BY UaPieceMoves
  <1>2. "move" # "fling" /\ "move" # "shoot"
    OBVIOUS
  <1>3. CASE t \in {WP, BP}
    <2>1. E = peons
      BY <1>3 DEF ua_entries_of, WP, BP, WB, BB, WR, BR, WQ, BQ, WF, BF, WC, BC
    <2>2. BoardsOf(b, s, t) = set_peon_moves(b, s, t)
      BY <1>3 DEF BoardsOf, WP, BP, WF, BF, WC, BC
    <2>3. Matches(peons, set_peon_moves(b, s, t), s) /\ Telling(peons, b)
      BY <1>3, UaPeonMoves
    <2> QED
      BY <2>1, <2>2, <2>3
  <1>4. CASE t \in {WF, BF}
    <2>1. P = nsp \ Enemy(b)
      BY <1>4 DEF PseudoMoves, WB, BB, WR, BR, WQ, BQ, WF, BF, WC, BC
    <2>2. E = moves(P) \cup flings
      BY <1>4, <2>1 DEF ua_entries_of, WP, BP, WB, BB, WR, BR, WQ, BQ, WF, BF, WC, BC
    <2>3. BoardsOf(b, s, t) = set_piece_moves(b, s, t, P) \cup set_catapult_flings(b, s, t)
      BY <1>4 DEF BoardsOf, WP, BP, WF, BF, WC, BC
    <2>4. /\ Matches(flings, set_catapult_flings(b, s, t), s) /\ Tagged(flings, "fling")
          /\ Telling(flings, b)
      BY <1>4, UaFlings
    <2> HIDE DEF E, P, moves, flings
    <2>5. Matches(E, BoardsOf(b, s, t), s)
      BY <1>1, <1>2, <2>2, <2>3, <2>4, MatchUnion
    <2>6. Telling(E, b)
      BY <1>1, <2>2, <2>4 DEF Telling
    <2> QED
      BY <2>5, <2>6 DEF E
  <1>5. CASE t \in {WC, BC}
    <2>1. P = nsp \ Enemy(b)
      BY <1>5 DEF PseudoMoves, WB, BB, WR, BR, WQ, BQ, WF, BF, WC, BC
    <2>2. E = moves(P) \cup shots
      BY <1>5, <2>1 DEF ua_entries_of, WP, BP, WB, BB, WR, BR, WQ, BQ, WF, BF, WC, BC
    <2>3. BoardsOf(b, s, t) = set_piece_moves(b, s, t, P) \cup set_canon_shots(b, s)
      BY <1>5 DEF BoardsOf, WP, BP, WF, BF, WC, BC
    <2>4. /\ Matches(shots, set_canon_shots(b, s), s) /\ Tagged(shots, "shoot")
          /\ Telling(shots, b)
      BY UaShots
    <2> HIDE DEF E, P, moves, shots
    <2>5. Matches(E, BoardsOf(b, s, t), s)
      BY <1>1, <1>2, <2>2, <2>3, <2>4, MatchUnion
    <2>6. Telling(E, b)
      BY <1>1, <2>2, <2>4 DEF Telling
    <2> QED
      BY <2>5, <2>6 DEF E
  <1>6. CASE t \notin {WP, BP, WF, BF, WC, BC}
    <2>1. BoardsOf(b, s, t) = set_piece_moves(b, s, t, P)
      BY <1>6 DEF BoardsOf
    <2>2. CASE t \in {WB, BB, WR, BR, WQ, BQ}
      <3> DEFINE sp == (CASE t \in {WB, BB} -> bishop_attacks(s, b.all)
                          [] t \in {WR, BR} -> rook_attacks(s, b.all)
                          [] OTHER -> queen_attacks(s, b.all)) \ Friendly(b)
      <3>1. P = sp
        BY <2>2 DEF PseudoMoves, queen_attacks, WB, BB, WR, BR, WQ, BQ, WF, BF, WC, BC
      <3>2. E = moves(sp)
        BY <1>6, <2>2 DEF ua_entries_of
      <3> QED
        BY <1>1, <2>1, <3>1, <3>2
    <2>3. CASE t \notin {WB, BB, WR, BR, WQ, BQ}
      <3>1. P = nsp
        BY <1>6, <2>3 DEF PseudoMoves
      <3>2. E = moves(nsp)
        BY <1>6, <2>3 DEF ua_entries_of
      <3> QED
        BY <1>1, <2>1, <3>1, <3>2
    <2> QED
      BY <2>2, <2>3
  <1> QED
    BY <1>3, <1>4, <1>5, <1>6

LEMMA UaGenerator ==
    ASSUME NEW b, Sound(b)
    PROVE  /\ {e.board : e \in ua_gen_chezz_boards(b)} = gen_chezz_boards(b)
           /\ \A e, f \in ua_gen_chezz_boards(b) : e.action = f.action => e = f
           /\ Telling(ua_gen_chezz_boards(b), b)
  <1> DEFINE E == ua_gen_chezz_boards(b)
             of(s, t) == ua_entries_of(b, s, t, Friendly(b), Enemy(b))
             mover(s, t) == s \in Friendly(b) /\ t \in TypesOf(b.turn) /\ s \in b.pieces[t]
  <1>1. \A e : e \in E <=> \E s, t : mover(s, t) /\ e \in of(s, t)
    <2>1. E = UNION {UNION {of(s, t) : t \in {u \in TypesOf(b.turn) : s \in b.pieces[u]}} :
                         s \in Friendly(b)}
      BY DEF ua_gen_chezz_boards, Friendly, Enemy
    <2> HIDE DEF E, of
    <2> QED
      BY <2>1
  <1>2. \A c : c \in gen_chezz_boards(b) <=> \E s, t : mover(s, t) /\ c \in BoardsOf(b, s, t)
    <2>1. \A m : m \in Movers(b) <=>
              m \in Friendly(b) \X TypesOf(b.turn) /\ m[1] \in b.pieces[m[2]]
      BY DEF Movers
    <2>2. \A s, t : mover(s, t) <=> <<s, t>> \in Movers(b)
      BY <2>1
    <2>3. \A m \in Movers(b) : mover(m[1], m[2])
      BY <2>1
    <2>4. \A s, t : <<s, t>>[1] = s /\ <<s, t>>[2] = t
      OBVIOUS
    <2>5. \A c : c \in gen_chezz_boards(b) <=>
              \E m \in Movers(b) : c \in BoardsOf(b, m[1], m[2])
      BY DEF gen_chezz_boards
    <2> HIDE DEF mover
    <2>6. ASSUME NEW s, NEW t, mover(s, t), NEW c \in BoardsOf(b, s, t)
          PROVE  \E m \in Movers(b) : c \in BoardsOf(b, m[1], m[2])
      <3>1. <<s, t>> \in Movers(b) /\ c \in BoardsOf(b, <<s, t>>[1], <<s, t>>[2])
        BY <2>2, <2>6
      <3> QED
        BY <3>1
    <2> QED
      BY <2>3, <2>5, <2>6
  <1>3. \A s, t : mover(s, t) => Matches(of(s, t), BoardsOf(b, s, t), s) /\ Telling(of(s, t), b)
    BY UaEntries, BoardFields DEF Friendly, Sound
  <1>4. \A s, t, u : mover(s, t) /\ mover(s, u) => t = u
    BY BoardFields, TypeFacts DEF Friendly, Sound, Once, TypesOf
  <1> HIDE DEF E, of, mover
  <1>5. {e.board : e \in E} = gen_chezz_boards(b)
    <2>1. \A s, t : mover(s, t) => {e.board : e \in of(s, t)} = BoardsOf(b, s, t)
      BY <1>3 DEF Matches
    <2> QED
      BY <1>1, <1>2, <2>1
  <1>6. ASSUME NEW e \in E, NEW f \in E, e.action = f.action PROVE e = f
    <2>1. PICK s, t : mover(s, t) /\ e \in of(s, t)
      BY <1>1
    <2>2. PICK r, u : mover(r, u) /\ f \in of(r, u)
      BY <1>1
    <2>3. e.action[2] = s /\ f.action[2] = r
      BY <1>3, <2>1, <2>2 DEF Matches
    <2>4. s = r /\ t = u
      BY <1>4, <1>6, <2>1, <2>2, <2>3
    <2> QED
      BY <1>3, <1>6, <2>1, <2>2, <2>4 DEF Matches
  <1>7. Telling(E, b)
    BY <1>1, <1>3 DEF Telling
  <1> QED
    BY <1>5, <1>6, <1>7 DEF E

(***************************************************************************)
(* In games of any length from any consistent boards: the player is        *)
(* offered exactly the boards the search plays, though user_actions.c      *)
(* repeats gen_valid_boards.c line by line, and no two of the entries the  *)
(* session looks an action up in have the same key.                        *)
(***************************************************************************)
THEOREM BothGeneratorsAgree == Spec => []ActionsMatchGenerator
  <1>1. BoardGood => ActionsMatchGenerator
    BY UaGenerator DEF BoardGood, Good, ActionsMatchGenerator
  <1> QED
    BY <1>1, AlwaysGood, PTL

(***************************************************************************)
(* The events user_actions.c pushes beside each board, which the session   *)
(* keeps with the move as the game's history, tell the move: replayed on   *)
(* the board before it, each fits what stands on its squares, and the last *)
(* leaves the board of the entry.  In games of any length from any         *)
(* consistent boards, however many pieces a shot or contagion takes.       *)
(***************************************************************************)
THEOREM HistoryTellsTheGame == Spec => []EventsTellTheMove
  <1>1. BoardGood => EventsTellTheMove
    <2> SUFFICES ASSUME BoardGood, NEW e \in ua_gen_chezz_boards(board)
                 PROVE  /\ \A i \in 1 .. Len(e.events) :
                               EventFits(Shown(board, SubSeq(e.events, 1, i - 1)), e.events[i])
                        /\ Shown(board, e.events) = TypeAt(e.board)
      BY DEF EventsTellTheMove
    <2>1. Tale(TypeAt(board), e.events, TypeAt(e.board))
      BY UaGenerator DEF BoardGood, Good, Telling
    <2> QED
      BY <2>1, TaleIsShown
  <1> QED
    BY <1>1, AlwaysGood, PTL

-----------------------------------------------------------------------------
(* The same board with either side to move.                                *)
LEMMA EitherToMove ==
    ASSUME NEW b, Good(b), NEW turn \in {"w", "b"}
    PROVE  LET m == ToMove(b, turn)
           IN /\ Good(m) /\ Sound(m) /\ m.turn = turn
              /\ m.pieces = b.pieces /\ m.white = b.white /\ m.black = b.black
              /\ m.all = b.all /\ At(m) = At(b)
  <1> DEFINE m == ToMove(b, turn)
  <1>1. b \in Chezzboard
    BY DEF Good, Sound
  <1>2. /\ m \in Chezzboard /\ m.turn = turn
        /\ m.pieces = b.pieces /\ m.white = b.white /\ m.black = b.black /\ m.all = b.all
    BY <1>1 DEF ToMove, Chezzboard
  <1> HIDE DEF m
  <1>3. Sound(m)
    BY <1>2 DEF Good, Sound
  <1>4. Good(m)
    BY <1>2, <1>3 DEF Good, NoPeonOnLastRow
  <1>5. At(m) = At(b)
    BY <1>2 DEF At
  <1> QED
    BY <1>2, <1>3, <1>4, <1>5 DEF m

LEMMA PieceIs ==
    ASSUME NEW b, Sound(b), NEW types, types \subseteq Types, NEW p \in PiecesOf(b, types)
    PROVE  /\ p[1] \in Squares /\ p[2] \in types /\ p[2] \in Types /\ p[1] \in b.pieces[p[2]]
           /\ p = <<p[1], p[2]>>
  BY DEF PiecesOf

-----------------------------------------------------------------------------
(* Mobility.  The square ahead of a peon is the one of its column.         *)
LEMMA PeonAhead ==
    ASSUME NEW s \in Squares, NEW q \in Squares, NEW d \in {-1, 1}
    PROVE  /\ q = s + 8 * d <=> RowOf(q) = RowOf(s) + d /\ ColOf(q) = ColOf(s)
           /\ q \in gen_peon_mask(s, d) /\ q # s + 8 * d <=>
                  RowOf(q) = RowOf(s) + d /\ ColOf(q) - ColOf(s) \in {-1, 1}
  <1>1. /\ RowOf(s) \in 0 .. 7 /\ ColOf(s) \in 0 .. 7 /\ s = 8 * RowOf(s) + ColOf(s)
        /\ RowOf(q) \in 0 .. 7 /\ ColOf(q) \in 0 .. 7 /\ q = 8 * RowOf(q) + ColOf(q)
    BY ByCoordinates
  <1>2. q \in gen_peon_mask(s, d) <=>
            RowOf(q) = RowOf(s) + d /\ ColOf(q) - ColOf(s) \in -1 .. 1
    BY PeonMask
  <1>3. q = s + 8 * d <=> RowOf(q) = RowOf(s) + d /\ ColOf(q) = ColOf(s)
    BY <1>1
  <1> QED
    BY <1>1, <1>2, <1>3

LEMMA PeonMobility ==
    ASSUME NEW b, Sound(b), NEW t \in TypesOf(b.turn), t \in {WP, BP}, NEW s \in b.pieces[t]
    PROVE  LET d == IF b.turn = "w" THEN 1 ELSE -1
           IN (((nsp_table[t][s] \ {s + 8 * d}) \cap Enemy(b)) \ Friendly(b))
                  \cup (({s + 8 * d} \cap Squares) \ b.all)
              = PeonSteps(b, s, t) \cup PeonCaptures(b, s, t)
  <1> DEFINE d == IF b.turn = "w" THEN 1 ELSE -1
             legal == (((nsp_table[t][s] \ {s + 8 * d}) \cap Enemy(b)) \ Friendly(b))
                          \cup (({s + 8 * d} \cap Squares) \ b.all)
             targets == PeonSteps(b, s, t) \cup PeonCaptures(b, s, t)
  <1>1. s \in Squares /\ b.turn \in {"w", "b"} /\ b.all = Friendly(b) \cup Enemy(b)
    BY MoverFacts, AtPiece
  <1>2. d \in {-1, 1} /\ nsp_table[t][s] = gen_peon_mask(s, d)
    <2>1. CASE b.turn = "w"
      <3>1. t = WP
        BY <2>1 DEF TypesOf, WhiteTypes, WP, BP
      <3> QED
        BY <1>1, <2>1, <3>1, TableRows
    <2>2. CASE b.turn = "b"
      <3>1. t = BP
        BY <2>2 DEF TypesOf, BlackTypes, WP, BP
      <3> QED
        BY <1>1, <2>2, <3>1, TableRows
    <2> QED
      BY <1>1, <2>1, <2>2
  <1>3. legal \subseteq Squares /\ targets \subseteq Squares
    <2>1. Enemy(b) \subseteq Squares
      BY MoverFacts
    <2>2. nsp_table[t][s] \subseteq Squares
      BY <1>1, MoverFacts, TableOnBoard
    <2> QED
      BY <2>1, <2>2 DEF PeonSteps, PeonCaptures
  <1> HIDE DEF d
  <1>4. ASSUME NEW q \in Squares PROVE q \in legal <=> q \in targets
    <2>1. /\ q = s + 8 * d <=> RowOf(q) = RowOf(s) + d /\ ColOf(q) = ColOf(s)
          /\ q \in nsp_table[t][s] /\ q # s + 8 * d <=>
                 RowOf(q) = RowOf(s) + d /\ ColOf(q) - ColOf(s) \in {-1, 1}
          /\ q \in nsp_table[t][s] <=>
                 RowOf(q) = RowOf(s) + d /\ ColOf(q) - ColOf(s) \in -1 .. 1
      BY <1>1, <1>2, PeonAhead, PeonMask
    <2>2. ColOf(q) \in Int /\ ColOf(s) \in Int
      BY <1>1, ByCoordinates
    <2> QED
      BY <1>1, <2>1, <2>2 DEF PeonSteps, PeonCaptures
  <1> QED
    BY <1>3, <1>4 DEF d

LEMMA WhiteMobility ==
    ASSUME NEW b, Sound(b), b.turn = "w", NEW p \in PiecesOf(b, WhiteTypes)
    PROVE  white_legal_moves(b, p) =
               IF p[2] \in {WP, BP} THEN PeonSteps(b, p[1], p[2]) \cup PeonCaptures(b, p[1], p[2])
               ELSE PseudoMoves(b, p[1], p[2])
  <1> DEFINE s == p[1]
             t == p[2]
  <1>1. /\ s \in Squares /\ t \in TypesOf(b.turn) /\ s \in b.pieces[t]
        /\ t \in {WP, WN, WB, WR, WQ, WK, WZ, WF, WC}
    BY PieceIs, TypeFacts DEF TypesOf
  <1>2. b.all = Friendly(b) \cup Enemy(b) /\ Friendly(b) = b.white /\ Enemy(b) = b.black
    BY MoverFacts DEF Friendly, Enemy
  <1> HIDE DEF s, t
  <1>3. CASE t = WP
    <2>1. mobility_attack_mask(b, p) = nsp_table[t][s] \ {s + 8}
      BY <1>3 DEF mobility_attack_mask, s, t, WP, BP, WN, BN, WB, BB, WR, BR, WQ,
                  BQ, WK, BK, WZ, BZ, WF, BF, WC, BC
    <2>2. white_legal_moves(b, p) = ((mobility_attack_mask(b, p) \cap b.black) \ b.white)
                                       \cup (({s + 8} \cap Squares) \ b.all)
      BY <1>3 DEF white_legal_moves, s, t, WP, BP, WN, BN, WB, BB, WR, BR, WQ, BQ,
                  WK, BK, WZ, BZ, WF, BF, WC, BC
    <2>3. s + 8 = s + 8 * (IF b.turn = "w" THEN 1 ELSE -1)
      BY <1>1 DEF Squares
    <2> QED
      BY <1>1, <1>2, <1>3, <2>1, <2>2, <2>3, PeonMobility DEF s, t
  <1>4. CASE t \in {WC, WF}
    <2>1. white_legal_moves(b, p) = nsp_table[t][s] \ b.all
      BY <1>4 DEF white_legal_moves, s, t,
                  WP, BP, WN, BN, WB, BB, WR, BR, WQ, BQ, WK, BK, WZ, BZ, WF, BF, WC, BC
    <2>2. PseudoMoves(b, s, t) = (nsp_table[t][s] \ Enemy(b)) \ Friendly(b)
      BY <1>4 DEF PseudoMoves, WP, BP, WN, BN, WB, BB, WR, BR, WQ, BQ, WK, BK, WZ,
                  BZ, WF, BF, WC, BC
    <2>3. t \notin {WP, BP}
      BY <1>4 DEF WP, BP, WN, BN, WB, BB, WR, BR, WQ, BQ, WK, BK, WZ, BZ, WF, BF, WC, BC
    <2> QED
      BY <1>2, <2>1, <2>2, <2>3 DEF s, t
  <1>5. CASE t \in {WN, WK, WZ, WB, WR, WQ}
    <2>1. white_legal_moves(b, p) = mobility_attack_mask(b, p) \ b.white
      BY <1>5 DEF white_legal_moves, s, t, WP, BP, WN, BN, WB, BB, WR, BR, WQ, BQ,
                  WK, BK, WZ, BZ, WF, BF, WC, BC
    <2>2. t \notin {WP, BP}
      BY <1>5 DEF WP, BP, WN, BN, WB, BB, WR, BR, WQ, BQ, WK, BK, WZ, BZ, WF, BF, WC, BC
    <2>3. PseudoMoves(b, s, t) = mobility_attack_mask(b, p) \ Friendly(b)
      BY <1>5 DEF PseudoMoves, mobility_attack_mask, queen_attacks, s, t, WP, BP,
                  WN, BN, WB, BB, WR, BR, WQ, BQ, WK, BK, WZ, BZ, WF, BF, WC, BC
    <2> QED
      BY <1>2, <2>1, <2>2, <2>3 DEF s, t
  <1> QED
    BY <1>1, <1>3, <1>4, <1>5

LEMMA BlackMobility ==
    ASSUME NEW b, Sound(b), b.turn = "b", NEW p \in PiecesOf(b, BlackTypes)
    PROVE  black_legal_moves(b, p) =
               IF p[2] \in {WP, BP} THEN PeonSteps(b, p[1], p[2]) \cup PeonCaptures(b, p[1], p[2])
               ELSE PseudoMoves(b, p[1], p[2])
  <1> DEFINE s == p[1]
             t == p[2]
  <1>1. /\ s \in Squares /\ t \in TypesOf(b.turn) /\ s \in b.pieces[t]
        /\ t \in {BP, BN, BB, BR, BQ, BK, BZ, BF, BC}
    BY PieceIs, TypeFacts DEF TypesOf
  <1>2. b.all = Friendly(b) \cup Enemy(b) /\ Friendly(b) = b.black /\ Enemy(b) = b.white
    BY MoverFacts DEF Friendly, Enemy
  <1> HIDE DEF s, t
  <1>3. CASE t = BP
    <2>1. mobility_attack_mask(b, p) = nsp_table[t][s] \ {s - 8}
      BY <1>3 DEF mobility_attack_mask, s, t, WP, BP, WN, BN, WB, BB, WR, BR, WQ,
                  BQ, WK, BK, WZ, BZ, WF, BF, WC, BC
    <2>2. black_legal_moves(b, p) = ((mobility_attack_mask(b, p) \cap b.white) \ b.black)
                                       \cup (({s - 8} \cap Squares) \ b.all)
      BY <1>3 DEF black_legal_moves, s, t, WP, BP, WN, BN, WB, BB, WR, BR, WQ, BQ,
                  WK, BK, WZ, BZ, WF, BF, WC, BC
    <2>3. s - 8 = s + 8 * (IF b.turn = "w" THEN 1 ELSE -1)
      BY <1>1 DEF Squares
    <2> QED
      BY <1>1, <1>2, <1>3, <2>1, <2>2, <2>3, PeonMobility DEF s, t
  <1>4. CASE t \in {BC, BF}
    <2>1. black_legal_moves(b, p) = nsp_table[t][s] \ b.all
      BY <1>4 DEF black_legal_moves, s, t,
                  WP, BP, WN, BN, WB, BB, WR, BR, WQ, BQ, WK, BK, WZ, BZ, WF, BF, WC, BC
    <2>2. PseudoMoves(b, s, t) = (nsp_table[t][s] \ Enemy(b)) \ Friendly(b)
      BY <1>4 DEF PseudoMoves, WP, BP, WN, BN, WB, BB, WR, BR, WQ, BQ, WK, BK, WZ,
                  BZ, WF, BF, WC, BC
    <2>3. t \notin {WP, BP}
      BY <1>4 DEF WP, BP, WN, BN, WB, BB, WR, BR, WQ, BQ, WK, BK, WZ, BZ, WF, BF, WC, BC
    <2> QED
      BY <1>2, <2>1, <2>2, <2>3 DEF s, t
  <1>5. CASE t \in {BN, BK, BZ, BB, BR, BQ}
    <2>1. black_legal_moves(b, p) = mobility_attack_mask(b, p) \ b.black
      BY <1>5 DEF black_legal_moves, s, t, WP, BP, WN, BN, WB, BB, WR, BR, WQ, BQ,
                  WK, BK, WZ, BZ, WF, BF, WC, BC
    <2>2. t \notin {WP, BP}
      BY <1>5 DEF WP, BP, WN, BN, WB, BB, WR, BR, WQ, BQ, WK, BK, WZ, BZ, WF, BF, WC, BC
    <2>3. PseudoMoves(b, s, t) = mobility_attack_mask(b, p) \ Friendly(b)
      BY <1>5 DEF PseudoMoves, mobility_attack_mask, queen_attacks, s, t, WP, BP,
                  WN, BN, WB, BB, WR, BR, WQ, BQ, WK, BK, WZ, BZ, WF, BF, WC, BC
    <2> QED
      BY <1>2, <2>1, <2>2, <2>3 DEF s, t
  <1> QED
    BY <1>1, <1>3, <1>4, <1>5

-----------------------------------------------------------------------------
(* The threats of the safety score.  An enemy in the attack mask of a      *)
(* piece is one it may take by moving, or stands in the fire of a canon,   *)
(* or is where a catapult may send a neighbour.                            *)
LEMMA AttackMasks ==
    ASSUME NEW b, NEW s \in Squares, NEW t \in Types
    PROVE  /\ t = WP => AttackMask(b, <<s, t>>) = nsp_table[t][s] \ {s + 8}
           /\ t = BP => AttackMask(b, <<s, t>>) = nsp_table[t][s] \ {s - 8}
           /\ t \in {WR, BR} => AttackMask(b, <<s, t>>) = rook_attacks(s, b.all)
           /\ t \in {WB, BB} => AttackMask(b, <<s, t>>) = bishop_attacks(s, b.all)
           /\ t \in {WQ, BQ} => AttackMask(b, <<s, t>>) = queen_attacks(s, b.all)
           /\ t \in {WC, BC} => AttackMask(b, <<s, t>>) = bishop_attacks(s, {})
           /\ t \in {WF, BF} => AttackMask(b, <<s, t>>) = FlingerMask(b, t, s)
           /\ t \in {WK, BK} => AttackMask(b, <<s, t>>) = {}
           /\ t \in {WN, BN, WZ, BZ} => AttackMask(b, <<s, t>>) = nsp_table[t][s]
  BY DEF AttackMask, WP, BP, WN, BN, WB, BB, WR, BR, WQ, BQ, WK, BK, WZ, BZ, WF,
         BF, WC, BC

(* What a piece that is no canon and no catapult threatens it may take.    *)
LEMMA ThreatIsMove ==
    ASSUME NEW b, Sound(b), NEW t \in TypesOf(b.turn), t \notin {WK, BK, WF, BF, WC, BC},
           NEW s \in b.pieces[t], NEW q \in Enemy(b)
    PROVE  q \in AttackMask(b, <<s, t>>) <=> Rules!MayGo(At(b), s, q)
  <1>1. /\ s \in Squares /\ t \in Types /\ q \in Squares /\ q \notin Friendly(b)
        /\ b.turn \in {"w", "b"}
    BY MoverFacts, AtPiece
  <1>2. CASE t \in {WP, BP}
    <2>1. q \in PeonSteps(b, s, t) \cup PeonCaptures(b, s, t) <=> Rules!MayGo(At(b), s, q)
      BY <1>1, <1>2, PeonGoes
    <2> DEFINE d == IF b.turn = "w" THEN 1 ELSE -1
    <2>2. AttackMask(b, <<s, t>>) = gen_peon_mask(s, d) \ {s + 8 * d}
      <3>1. CASE b.turn = "w"
        <4>1. t = WP
          BY <1>2, <3>1 DEF TypesOf, WhiteTypes, WP, BP
        <4>2. s + 8 = s + 8 * d
          BY <1>1, <3>1 DEF Squares
        <4> QED
          BY <1>1, <3>1, <4>1, <4>2, AttackMasks, TableRows
      <3>2. CASE b.turn = "b"
        <4>1. t = BP
          BY <1>2, <3>2 DEF TypesOf, BlackTypes, WP, BP
        <4>2. s - 8 = s + 8 * d
          BY <1>1, <3>2 DEF Squares
        <4> QED
          BY <1>1, <3>2, <4>1, <4>2, AttackMasks, TableRows
      <3> QED
        BY <1>1, <3>1, <3>2
    <2>3. nsp_table[t][s] = gen_peon_mask(s, d)
      <3>1. CASE b.turn = "w"
        <4>1. t = WP
          BY <1>2, <3>1 DEF TypesOf, WhiteTypes, WP, BP
        <4> QED
          BY <1>1, <3>1, <4>1, TableRows
      <3>2. CASE b.turn = "b"
        <4>1. t = BP
          BY <1>2, <3>2 DEF TypesOf, BlackTypes, WP, BP
        <4> QED
          BY <1>1, <3>2, <4>1, TableRows
      <3> QED
        BY <1>1, <3>1, <3>2
    <2>4. d \in {-1, 1}
      OBVIOUS
    <2> HIDE DEF d
    <2>5. /\ q \in gen_peon_mask(s, d) /\ q # s + 8 * d <=>
                 RowOf(q) = RowOf(s) + d /\ ColOf(q) - ColOf(s) \in {-1, 1}
          /\ q \in gen_peon_mask(s, d) <=>
                 RowOf(q) = RowOf(s) + d /\ ColOf(q) - ColOf(s) \in -1 .. 1
      BY <1>1, <2>4, PeonAhead, PeonMask
    <2>6. ColOf(q) \in Int /\ ColOf(s) \in Int
      BY <1>1, ByCoordinates
    <2>7. q \in PeonSteps(b, s, t) \cup PeonCaptures(b, s, t) <=>
              q \in gen_peon_mask(s, d) /\ ColOf(q) - ColOf(s) \in {-1, 1}
      BY <1>1, <2>3 DEF PeonSteps, PeonCaptures
    <2> QED
      BY <2>1, <2>2, <2>5, <2>6, <2>7
  <1>3. CASE t \notin {WP, BP}
    <2>1. t \in {WN, BN, WB, BB, WR, BR, WQ, BQ, WZ, BZ}
      BY <1>1, <1>3, TypeFacts
    <2>2. q \in PseudoMoves(b, s, t) <=> Rules!MayGo(At(b), s, q)
      BY <1>1, <1>3, PieceGoes
    <2>3. PseudoMoves(b, s, t) = AttackMask(b, <<s, t>>) \ Friendly(b)
      BY <2>1 DEF AttackMask, PseudoMoves, queen_attacks,
                  WP, BP, WN, BN, WB, BB, WR, BR, WQ, BQ, WK, BK, WZ, BZ, WF, BF, WC, BC
    <2> QED
      BY <1>1, <2>2, <2>3
  <1> QED
    BY <1>2, <1>3

(* What a canon threatens is in its fire.                                  *)
LEMMA OpenDiagonal ==
    ASSUME NEW s \in Squares, NEW q \in Squares
    PROVE  q \in bishop_attacks(s, {}) <=> Rules!Diagonal(s, q)
  <1> DEFINE a == [x \in Squares |-> Rules!Empty]
  <1>1. Marks(a, {})
    BY DEF Marks
  <1>2. Rules!Clear(a, s, q)
    BY RulesSquares DEF Rules!Clear
  <1> QED
    BY <1>1, <1>2, WalkIsClear

LEMMA ThreatIsShot ==
    ASSUME NEW s \in Squares, NEW q \in Squares
    PROVE  q \in bishop_attacks(s, {}) <=> \E e \in Rules!Corners : Rules!InFire(s, e, q)
  <1>1. /\ RowOf(s) \in 0 .. 7 /\ ColOf(s) \in 0 .. 7
        /\ RowOf(q) \in 0 .. 7 /\ ColOf(q) \in 0 .. 7
    BY ByCoordinates
  <1>2. ASSUME Rules!Diagonal(s, q) PROVE Rules!Dir(s, q) \in Rules!Corners
    <2>1. /\ s # q /\ Rules!Diff(RowOf(s), RowOf(q)) = Rules!Diff(ColOf(s), ColOf(q))
          /\ RowOf(s) # RowOf(q) \/ ColOf(s) # ColOf(q)
      BY <1>2, LineIs
    <2>2. RowOf(s) # RowOf(q) /\ ColOf(s) # ColOf(q)
      BY <1>1, <2>1 DEF Rules!Diff
    <2>3. /\ Rules!Sign(RowOf(q) - RowOf(s)) \in {-1, 1}
          /\ Rules!Sign(ColOf(q) - ColOf(s)) \in {-1, 1}
      BY <1>1, <2>2, DiffSign
    <2> QED
      BY <2>3, DirIs DEF Rules!Corners
  <1> QED
    BY <1>2, OpenDiagonal DEF Rules!InFire

(* Where a catapult may send a neighbour that stands on f.                 *)
LEMMA ThreatIsFling ==
    ASSUME NEW b, Sound(b), NEW t \in TypesOf(b.turn), t \in {WF, BF},
           NEW s \in b.pieces[t], NEW q \in Enemy(b)
    PROVE  q \in AttackMask(b, <<s, t>>) <=>
               \E f \in Squares : Rules!MayFling(At(b), s, f, q)
  <1>1. /\ s \in Squares /\ t \in Types /\ q \in Squares /\ q \notin Friendly(b)
        /\ b.turn \in {"w", "b"} /\ Friendly(b) \subseteq Squares
    BY MoverFacts, AtPiece
  <1>2. AttackMask(b, <<s, t>>) = FlingerMask(b, t, s)
    BY <1>1, AttackMasks
  <1>3. t \in WhiteTypes <=> b.turn = "w"
    BY <1>1, TypeFacts DEF TypesOf
  <1>4. \A f \in Squares : f \in Flingable(b, t, s) <=> f \in Payloads(b, s, t)
    <2>1. (IF t \in WhiteTypes THEN b.white ELSE b.black) = Friendly(b)
      BY <1>1, <1>3 DEF Friendly
    <2>2. \A f : ~(f \in Friendly(b) /\ f \in Enemy(b))
      BY MoverFacts
    <2> QED
      BY <2>1, <2>2 DEF Flingable, Payloads
  <1>5. \A f : q \in Landings(b, t, s, f) <=> q \in FlingTargets(b, s, f)
    BY <1>1, <1>3 DEF Landings, FlingTargets
  <1>6. \A f : f \in Flingable(b, t, s) => f \in Squares /\ f \in Friendly(b)
    BY <1>1, <1>3 DEF Flingable, Friendly
  <1>7. q \in FlingerMask(b, t, s) <=>
            \E f \in Squares : f \in Payloads(b, s, t) /\ q \in FlingTargets(b, s, f)
    BY <1>4, <1>5, <1>6 DEF FlingerMask
  <1>8. \A f \in Squares : Rules!MayFling(At(b), s, f, q) <=>
            f \in Payloads(b, s, t) /\ q \in FlingTargets(b, s, f)
    <2>1. \A f : f \in Payloads(b, s, t) => f \in Friendly(b)
      BY DEF Payloads
    <2> QED
      BY <1>1, <2>1, MayFlingIs
  <1> QED
    BY <1>2, <1>7, <1>8

-----------------------------------------------------------------------------
(* What follows a turn changes a square into a zombie of the mover, or not *)
(* at all, and never one with a king.                                      *)
LEMMA AftermathIs ==
    ASSUME NEW a, NEW c, NEW x \in Squares
    PROVE  LET z == [color |-> c, kind |-> "zombie"]
           IN /\ Rules!Aftermath(a, c)[x] = a[x] \/ Rules!Aftermath(a, c)[x] = z
              /\ a[x].kind = "king" => Rules!Aftermath(a, c)[x] = a[x]
  <1> DEFINE z == [color |-> c, kind |-> "zombie"]
             ill == Rules!Infected(a, c)
             spread == [s \in Rules!Squares |-> IF s \in ill THEN z ELSE a[s]]
             after == Rules!Aftermath(a, c)
  <1>1. x \in Rules!Squares
    BY RulesSquares
  <1>2. after = Rules!Rise(spread, c)
    BY Zenon DEF Rules!Aftermath
  <1>3. spread[x] = IF x \in ill THEN z ELSE a[x]
    BY <1>1
  <1>4. x \in ill => a[x].kind # "king"
    BY DEF Rules!Infected
  <1> HIDE DEF spread, ill
  <1>5. after[x] = IF spread[x] = [color |-> c, kind |-> "peon"] /\ Rules!Row(x) = Rules!LastRow(c)
                   THEN z ELSE spread[x]
    BY <1>1, <1>2 DEF Rules!Rise
  <1>6. CASE a[x].kind = "king"
    <2>1. spread[x] = a[x]
      BY <1>3, <1>4, <1>6
    <2>2. spread[x] # [color |-> c, kind |-> "peon"]
      BY <1>6, <2>1
    <2> QED
      BY <1>5, <2>1, <2>2
  <1>7. CASE a[x].kind # "king"
    BY <1>3, <1>5, <1>7
  <1> QED
    BY <1>6, <1>7

LEMMA AfterIs ==
    ASSUME NEW b, Sound(b), NEW a, NEW x \in Squares, NEW t \in Types
    PROVE  /\ After(b, a)[x] = Piece(t) /\ KindOf(t) # "zombie" => a[x] = Piece(t)
           /\ After(b, a)[x] = Piece(t) /\ t \in TypesOf(Opponent(b.turn)) => a[x] = Piece(t)
           /\ a[x] = Piece(t) /\ KindOf(t) = "king" => After(b, a)[x] = Piece(t)
  <1> DEFINE z == [color |-> b.turn, kind |-> "zombie"]
  <1>1. /\ After(b, a)[x] = a[x] \/ After(b, a)[x] = z
        /\ a[x].kind = "king" => After(b, a)[x] = a[x]
    BY AftermathIs DEF After
  <1>2. Piece(t).kind = KindOf(t)
    BY PieceFacts
  <1>3. t \in TypesOf(Opponent(b.turn)) => Piece(t).color # b.turn
    BY MoverFacts
  <1>4. z.kind = "zombie" /\ z.color = b.turn
    OBVIOUS
  <1> HIDE DEF z
  <1> QED
    BY <1>1, <1>2, <1>3, <1>4

(* What stands on a square after a move, a fling and a shot.               *)
LEMMA AfterMoveIs ==
    ASSUME NEW b, NEW s \in Squares, NEW q \in Squares, NEW x \in Squares
    PROVE  Rules!AfterMove(At(b), s, q)[x] =
               IF x = s THEN Rules!Empty ELSE IF x = q THEN At(b)[s] ELSE At(b)[x]
  <1> DEFINE a == At(b)
  <1>1. a = [y \in Squares |-> a[y]]
    BY AtShape
  <1> HIDE DEF a
  <1>2. [a EXCEPT ![q] = a[s], ![s] = Rules!Empty][x] =
            IF x = s THEN Rules!Empty ELSE IF x = q THEN a[s] ELSE a[x]
    BY <1>1
  <1> QED
    BY <1>2 DEF Rules!AfterMove, a

LEMMA AfterFlingIs ==
    ASSUME NEW b, NEW f \in Squares, NEW q \in Squares, NEW x \in Squares
    PROVE  Rules!AfterFling(At(b), f, q)[x] =
               IF x = f THEN Rules!Empty
               ELSE IF x = q THEN (IF At(b)[q] = Rules!Empty THEN At(b)[f] ELSE Rules!Empty)
               ELSE At(b)[x]
  <1> DEFINE a == At(b)
  <1>1. CASE At(b)[q] = Rules!Empty
    BY <1>1, AfterMoveIs DEF Rules!AfterFling
  <1>2. CASE At(b)[q] # Rules!Empty
    <2>1. a = [y \in Squares |-> a[y]]
      BY AtShape
    <2>2. Rules!AfterFling(a, f, q) = [a EXCEPT ![q] = Rules!Empty, ![f] = Rules!Empty]
      BY <1>2 DEF Rules!AfterFling
    <2> HIDE DEF a
    <2>3. [a EXCEPT ![q] = Rules!Empty, ![f] = Rules!Empty][x] =
              IF x = f THEN Rules!Empty ELSE IF x = q THEN Rules!Empty ELSE a[x]
      BY <2>1
    <2> QED
      BY <1>2, <2>2, <2>3 DEF a
  <1> QED
    BY <1>1, <1>2

LEMMA AfterShotIs ==
    ASSUME NEW b, NEW k, NEW e, NEW x \in Squares
    PROVE  Rules!AfterShot(At(b), k, e)[x] =
               IF Rules!InFire(k, e, x) THEN Rules!Empty ELSE At(b)[x]
  BY RulesSquares DEF Rules!AfterShot

-----------------------------------------------------------------------------
(* A threat carried out: on some board the enemy is gone.                  *)
LEMMA ListedGood ==
    ASSUME NEW b, Good(b), NEW t \in TypesOf(b.turn), NEW s \in b.pieces[t],
           NEW x \in BoardsOf(b, s, t)
    PROVE  Good(x)
  <1>1. Sound(b) /\ s \in Squares /\ t \in Types
    BY MoverFacts, AtPiece DEF Good
  <1> QED
    BY <1>1, BoardsOfIs, PeonMovesGood, PieceMovesGood, FlingsGood, ShotsGood

LEMMA EnemyGone ==
    ASSUME NEW b, Good(b), NEW t \in TypesOf(b.turn), NEW s \in b.pieces[t],
           NEW u \in TypesOf(Opponent(b.turn)), NEW q \in Squares,
           NEW x \in BoardsOf(b, s, t), NEW a, At(x) = After(b, a), a[q] # Piece(u)
    PROVE  q \notin x.pieces[u]
  <1>1. Sound(b) /\ Sound(x)
    BY ListedGood DEF Good
  <1>2. u \in Types
    BY <1>1, MoverFacts
  <1>3. At(x)[q] # Piece(u)
    BY <1>1, <1>2, AfterIs
  <1> QED
    BY <1>1, <1>2, <1>3, AtIs

LEMMA ThreatCarriedOut ==
    ASSUME NEW b, Good(b), NEW t \in TypesOf(b.turn), NEW s \in b.pieces[t],
           NEW u \in TypesOf(Opponent(b.turn)), NEW q \in b.pieces[u],
           q \in AttackMask(b, <<s, t>>)
    PROVE  \E x \in BoardsOf(b, s, t) : q \notin x.pieces[u]
  <1>1. /\ Sound(b) /\ s \in Squares /\ t \in Types /\ u \in Types /\ q \in Squares
        /\ q \in Enemy(b) /\ At(b)[q] = Piece(u) /\ At(b)[s] = Piece(t)
        /\ Piece(t) # Piece(u) /\ Piece(u) # Rules!Empty
    BY MoverFacts, AtPiece, PieceFacts DEF Good
  <1>2. CASE t \in {WF, BF}
    <2>1. PICK f \in Squares : Rules!MayFling(At(b), s, f, q)
      BY <1>1, <1>2, ThreatIsFling
    <2>2. PICK x \in set_catapult_flings(b, s, t) :
              At(x) = After(b, Rules!AfterFling(At(b), f, q))
      BY <1>2, <2>1, FlingsListed, <1>1
    <2>3. x \in BoardsOf(b, s, t)
      BY <1>1, <1>2, <2>2, BoardsOfIs
    <2>4. Rules!AfterFling(At(b), f, q)[q] # Piece(u)
      BY <1>1, AfterFlingIs
    <2> QED
      BY <1>1, <2>2, <2>3, <2>4, EnemyGone
  <1>3. CASE t \in {WC, BC}
    <2>1. q \in bishop_attacks(s, {})
      BY <1>1, <1>3, AttackMasks
    <2>2. PICK e \in Rules!Corners : Rules!InFire(s, e, q)
      BY <1>1, <2>1, ThreatIsShot
    <2>3. Rules!AfterShot(At(b), s, e)[q] # Piece(u)
      BY <1>1, <2>2, AfterShotIs
    <2>4. PICK x \in set_canon_shots(b, s) : At(x) = After(b, Rules!AfterShot(At(b), s, e))
      BY <1>1, <2>3, ShotsListed
    <2>5. x \in BoardsOf(b, s, t)
      BY <1>1, <1>3, <2>4, BoardsOfIs
    <2> QED
      BY <1>1, <2>3, <2>4, <2>5, EnemyGone
  <1>4. CASE t \notin {WF, BF, WC, BC}
    <2>1. t \notin {WK, BK}
      BY <1>1, AttackMasks
    <2>2. Rules!MayGo(At(b), s, q)
      BY <1>1, <1>4, <2>1, ThreatIsMove
    <2>3. Rules!AfterMove(At(b), s, q)[q] # Piece(u)
      BY <1>1, AfterMoveIs
    <2>4. \E x \in BoardsOf(b, s, t) : At(x) = After(b, Rules!AfterMove(At(b), s, q))
      <3>1. CASE t \in {WP, BP}
        BY <1>1, <2>2, <3>1, PeonsListed, BoardsOfIs
      <3>2. CASE t \notin {WP, BP}
        BY <1>1, <2>2, <3>2, PiecesListed, BoardsOfIs
      <3> QED
        BY <3>1, <3>2
    <2> QED
      BY <1>1, <2>3, <2>4, EnemyGone
  <1> QED
    BY <1>2, <1>3, <1>4

-----------------------------------------------------------------------------
(* Check.  Of these types is_king_in_check looks at the first piece only;  *)
(* a game starts with one of each (and stays so: nothing but zombies is    *)
(* ever made).                                                             *)
FirstOnly == {WB, BB, WR, BR, WQ, BQ, WK, BK, WC, BC}
OneOfEach(b) == \A t \in FirstOnly : \A x, y \in b.pieces[t] : x = y

LEMMA LsbOfOne ==
    ASSUME NEW b, Sound(b), OneOfEach(b), NEW t \in Types, t \in FirstOnly
    PROVE  Lsb(b.pieces[t]) = b.pieces[t]
  <1>1. \A s \in b.pieces[t] : s \in Int
    BY AtPiece DEF Squares
  <1>2. \A x, y \in b.pieces[t] : x = y
    BY DEF OneOfEach
  <1>3. \A x, y \in b.pieces[t] : x <= y
    BY <1>1, <1>2
  <1> QED
    BY <1>3 DEF Lsb

(* The piece of type t on s can end the piece on q, by moving or shooting. *)
Hits(b, t, s, q) ==
    \/ Rules!MayGo(At(b), s, q)
    \/ t \in {WC, BC} /\ Rules!Diagonal(s, q)

HitsKing(b, K) ==
    \E t \in TypesOf(b.turn) : \E s \in b.pieces[t] : \E q \in b.pieces[K] : Hits(b, t, s, q)

LEMMA HitIs ==
    ASSUME NEW b, Sound(b), NEW t \in TypesOf(b.turn), NEW s \in b.pieces[t], NEW q \in Enemy(b)
    PROVE  /\ t \in {WC, BC} => (Hits(b, t, s, q) <=> q \in bishop_attacks(s, {}))
           /\ t \in {WN, BN} => (Hits(b, t, s, q) <=> q \in nsp_table[BN][s])
           /\ t \in {WB, BB} => (Hits(b, t, s, q) <=> q \in bishop_attacks(s, b.all))
           /\ t \in {WR, BR} => (Hits(b, t, s, q) <=> q \in rook_attacks(s, b.all))
           /\ t \in {WQ, BQ} => (Hits(b, t, s, q) <=> q \in queen_attacks(s, b.all))
           /\ t \in {WZ, BZ} => (Hits(b, t, s, q) <=> q \in nsp_table[WZ][s])
           /\ t = WP => (Hits(b, t, s, q) <=> q \in nsp_table[WP][s] \ {s + 8})
           /\ t = BP => (Hits(b, t, s, q) <=> q \in nsp_table[BP][s] \ {s - 8})
           /\ t \in {WK, BK} => (Hits(b, t, s, q) <=> q \in nsp_table[WK][s])
           /\ t \in {WF, BF} => ~Hits(b, t, s, q)
  <1>1. s \in Squares /\ t \in Types /\ q \in Squares /\ q \notin Friendly(b)
    BY MoverFacts, AtPiece
  <1>2. CASE t \notin {WK, BK, WF, BF, WC, BC}
    <2>1. Hits(b, t, s, q) <=> q \in AttackMask(b, <<s, t>>)
      BY <1>2, ThreatIsMove DEF Hits
    <2>2. /\ t \in {WN, BN} => nsp_table[t][s] = nsp_table[BN][s]
          /\ t \in {WZ, BZ} => nsp_table[t][s] = nsp_table[WZ][s]
      BY <1>1, TableRows
    <2> QED
      BY <1>1, <1>2, <2>1, <2>2, AttackMasks
  <1>3. CASE t \in {WC, BC}
    <2>1. t \notin {WN, BN, WB, BB, WR, BR, WQ, BQ, WZ, BZ, WP, BP, WK, BK, WF, BF}
      BY <1>3 DEF WP, BP, WN, BN, WB, BB, WR, BR, WQ, BQ, WK, BK, WZ, BZ, WF, BF, WC, BC
    <2>2. ~ Rules!MayGo(At(b), s, q)
      <3>1. q \notin PseudoMoves(b, s, t)
        BY <1>3 DEF PseudoMoves, WB, BB, WR, BR, WQ, BQ, WF, BF, WC, BC
      <3> QED
        BY <1>1, <2>1, <3>1, PieceGoes
    <2> QED
      BY <1>1, <1>3, <2>1, <2>2, OpenDiagonal DEF Hits
  <1>4. CASE t \in {WF, BF}
    <2>1. t \notin {WN, BN, WB, BB, WR, BR, WQ, BQ, WZ, BZ, WP, BP, WK, BK, WC, BC}
      BY <1>4 DEF WP, BP, WN, BN, WB, BB, WR, BR, WQ, BQ, WK, BK, WZ, BZ, WF, BF, WC, BC
    <2>2. ~ Rules!MayGo(At(b), s, q)
      <3>1. q \notin PseudoMoves(b, s, t)
        BY <1>4 DEF PseudoMoves, WB, BB, WR, BR, WQ, BQ, WF, BF, WC, BC
      <3> QED
        BY <1>1, <2>1, <3>1, PieceGoes
    <2> QED
      BY <1>4, <2>1, <2>2 DEF Hits
  <1>5. CASE t \in {WK, BK}
    <2>1. t \notin {WN, BN, WB, BB, WR, BR, WQ, BQ, WZ, BZ, WP, BP, WF, BF, WC, BC}
      BY <1>5 DEF WP, BP, WN, BN, WB, BB, WR, BR, WQ, BQ, WK, BK, WZ, BZ, WF, BF, WC, BC
    <2>2. PseudoMoves(b, s, t) = nsp_table[t][s] \ Friendly(b)
      BY <2>1 DEF PseudoMoves
    <2>3. q \in nsp_table[t][s] <=> Rules!MayGo(At(b), s, q)
      BY <1>1, <2>1, <2>2, PieceGoes
    <2>4. nsp_table[t][s] = nsp_table[WK][s]
      BY <1>1, <1>5, TableRows
    <2> QED
      BY <1>5, <2>1, <2>3, <2>4 DEF Hits
  <1> QED
    BY <1>2, <1>3, <1>4, <1>5

LEMMA WhiteChecks ==
    ASSUME NEW b, Sound(b), OneOfEach(b), b.turn = "w"
    PROVE  is_king_in_check(b, -1) <=> HitsKing(b, BK)
  <1> DEFINE hits(t, s) == \E q \in b.pieces[BK] : Hits(b, t, s, q)
  <1>0. /\ TypesOf(b.turn) = {WP, WN, WB, WR, WQ, WK, WZ, WF, WC}
        /\ BK \in TypesOf(Opponent(b.turn)) /\ BK \in Types
    BY TypeFacts DEF TypesOf, Opponent
  <1>1. b.pieces[BK] \subseteq Enemy(b) /\ b.pieces[BK] \subseteq Squares
    BY <1>0, MoverFacts, AtPiece
  <1>2. /\ Lsb(b.pieces[WC]) = b.pieces[WC] /\ Lsb(b.pieces[WB]) = b.pieces[WB]
        /\ Lsb(b.pieces[WR]) = b.pieces[WR] /\ Lsb(b.pieces[WQ]) = b.pieces[WQ]
        /\ Lsb(b.pieces[WK]) = b.pieces[WK]
    <2>1. \A t \in {WC, WB, WR, WQ, WK} : t \in Types /\ t \in FirstOnly
      BY <1>0, MoverFacts DEF FirstOnly
    <2>2. \A t \in {WC, WB, WR, WQ, WK} : Lsb(b.pieces[t]) = b.pieces[t]
      BY <2>1, LsbOfOne
    <2> QED
      BY <2>2
  <1>3. is_king_in_check(b, -1) <=>
            \/ \E s \in b.pieces[WC] : bishop_attacks(s, {}) \cap b.pieces[BK] # {}
            \/ \E s \in b.pieces[WN] : nsp_table[BN][s] \cap b.pieces[BK] # {}
            \/ \E s \in b.pieces[WB] : bishop_attacks(s, b.all) \cap b.pieces[BK] # {}
            \/ \E s \in b.pieces[WR] : rook_attacks(s, b.all) \cap b.pieces[BK] # {}
            \/ \E s \in b.pieces[WQ] : queen_attacks(s, b.all) \cap b.pieces[BK] # {}
            \/ \E s \in b.pieces[WZ] : nsp_table[WZ][s] \cap b.pieces[BK] # {}
            \/ \E s \in b.pieces[WP] :
                   (nsp_table[WP][s] \ {s + 8}) \cap b.pieces[BK] # {}
            \/ \E s \in b.pieces[WK] : nsp_table[WK][s] \cap b.pieces[BK] # {}
    BY <1>2 DEF is_king_in_check
  <1>4. \A t \in TypesOf(b.turn) : \A s \in b.pieces[t] :
            /\ t = WC => (hits(t, s) <=> bishop_attacks(s, {}) \cap b.pieces[BK] # {})
            /\ t = WN => (hits(t, s) <=> nsp_table[BN][s] \cap b.pieces[BK] # {})
            /\ t = WB => (hits(t, s) <=> bishop_attacks(s, b.all) \cap b.pieces[BK] # {})
            /\ t = WR => (hits(t, s) <=> rook_attacks(s, b.all) \cap b.pieces[BK] # {})
            /\ t = WQ => (hits(t, s) <=> queen_attacks(s, b.all) \cap b.pieces[BK] # {})
            /\ t = WZ => (hits(t, s) <=> nsp_table[WZ][s] \cap b.pieces[BK] # {})
            /\ t = WP => (hits(t, s) <=>
                   (nsp_table[WP][s] \ {s + 8}) \cap b.pieces[BK] # {})
            /\ t = WK => (hits(t, s) <=> nsp_table[WK][s] \cap b.pieces[BK] # {})
            /\ t = WF => ~hits(t, s)
    BY <1>1, HitIs
  <1> HIDE DEF hits
  <1>5. is_king_in_check(b, -1) <=>
            \E t \in TypesOf(b.turn) : \E s \in b.pieces[t] : hits(t, s)
    BY <1>0, <1>3, <1>4
  <1> QED
    BY <1>5 DEF hits, HitsKing

LEMMA BlackChecks ==
    ASSUME NEW b, Sound(b), OneOfEach(b), b.turn = "b"
    PROVE  is_king_in_check(b, 1) <=> HitsKing(b, WK)
  <1> DEFINE hits(t, s) == \E q \in b.pieces[WK] : Hits(b, t, s, q)
  <1>0. /\ TypesOf(b.turn) = {BP, BN, BB, BR, BQ, BK, BZ, BF, BC}
        /\ WK \in TypesOf(Opponent(b.turn)) /\ WK \in Types
    BY TypeFacts DEF TypesOf, Opponent
  <1>1. b.pieces[WK] \subseteq Enemy(b) /\ b.pieces[WK] \subseteq Squares
    BY <1>0, MoverFacts, AtPiece
  <1>2. /\ Lsb(b.pieces[BC]) = b.pieces[BC] /\ Lsb(b.pieces[BB]) = b.pieces[BB]
        /\ Lsb(b.pieces[BR]) = b.pieces[BR] /\ Lsb(b.pieces[BQ]) = b.pieces[BQ]
        /\ Lsb(b.pieces[BK]) = b.pieces[BK]
    <2>1. \A t \in {BC, BB, BR, BQ, BK} : t \in Types /\ t \in FirstOnly
      BY <1>0, MoverFacts DEF FirstOnly
    <2>2. \A t \in {BC, BB, BR, BQ, BK} : Lsb(b.pieces[t]) = b.pieces[t]
      BY <2>1, LsbOfOne
    <2> QED
      BY <2>2
  <1>3. is_king_in_check(b, 1) <=>
            \/ \E s \in b.pieces[BC] : bishop_attacks(s, {}) \cap b.pieces[WK] # {}
            \/ \E s \in b.pieces[BN] : nsp_table[BN][s] \cap b.pieces[WK] # {}
            \/ \E s \in b.pieces[BB] : bishop_attacks(s, b.all) \cap b.pieces[WK] # {}
            \/ \E s \in b.pieces[BR] : rook_attacks(s, b.all) \cap b.pieces[WK] # {}
            \/ \E s \in b.pieces[BQ] : queen_attacks(s, b.all) \cap b.pieces[WK] # {}
            \/ \E s \in b.pieces[BZ] : nsp_table[WZ][s] \cap b.pieces[WK] # {}
            \/ \E s \in b.pieces[BP] :
                   (nsp_table[BP][s] \ {s - 8}) \cap b.pieces[WK] # {}
            \/ \E s \in b.pieces[BK] : nsp_table[WK][s] \cap b.pieces[WK] # {}
    BY <1>2 DEF is_king_in_check
  <1>4. \A t \in TypesOf(b.turn) : \A s \in b.pieces[t] :
            /\ t = BC => (hits(t, s) <=> bishop_attacks(s, {}) \cap b.pieces[WK] # {})
            /\ t = BN => (hits(t, s) <=> nsp_table[BN][s] \cap b.pieces[WK] # {})
            /\ t = BB => (hits(t, s) <=> bishop_attacks(s, b.all) \cap b.pieces[WK] # {})
            /\ t = BR => (hits(t, s) <=> rook_attacks(s, b.all) \cap b.pieces[WK] # {})
            /\ t = BQ => (hits(t, s) <=> queen_attacks(s, b.all) \cap b.pieces[WK] # {})
            /\ t = BZ => (hits(t, s) <=> nsp_table[WZ][s] \cap b.pieces[WK] # {})
            /\ t = BP => (hits(t, s) <=>
                   (nsp_table[BP][s] \ {s - 8}) \cap b.pieces[WK] # {})
            /\ t = BK => (hits(t, s) <=> nsp_table[WK][s] \cap b.pieces[WK] # {})
            /\ t = BF => ~hits(t, s)
    BY <1>1, HitIs
  <1> HIDE DEF hits
  <1>5. is_king_in_check(b, 1) <=>
            \E t \in TypesOf(b.turn) : \E s \in b.pieces[t] : hits(t, s)
    BY <1>0, <1>3, <1>4
  <1> QED
    BY <1>5 DEF hits, HitsKing

(* The test for check asks whether a piece can end the king.               *)
LEMMA CheckIsHit ==
    ASSUME NEW b, Sound(b), OneOfEach(b)
    PROVE  is_king_in_check(b, SideOf(Opponent(b.turn))) <=>
               HitsKing(b, IF b.turn = "w" THEN BK ELSE WK)
  <1>1. b.turn \in {"w", "b"}
    BY MoverFacts
  <1>2. CASE b.turn = "w"
    <2>1. SideOf(Opponent(b.turn)) = -1
      BY <1>2 DEF SideOf, Opponent
    <2> QED
      BY <1>2, <2>1, WhiteChecks
  <1>3. CASE b.turn = "b"
    <2>1. SideOf(Opponent(b.turn)) = 1
      BY <1>3 DEF SideOf, Opponent
    <2> QED
      BY <1>3, <2>1, BlackChecks
  <1> QED
    BY <1>1, <1>2, <1>3

-----------------------------------------------------------------------------
(* A list of boards, as positions.                                         *)
LEMMA ListedIs ==
    ASSUME NEW b, Good(b), NEW x \in gen_chezz_boards(b)
    PROVE  Good(x) /\ Sound(x) /\ (IsMove(b, At(x)) \/ IsFling(b, At(x)) \/ IsShot(b, At(x)))
  <1>1. Sound(b)
    BY DEF Good
  <1>2. PICK m \in Movers(b) : x \in BoardsOf(b, m[1], m[2])
    BY DEF gen_chezz_boards
  <1>3. Good(x)
    BY <1>1, <1>2, MoversAre, ListedGood
  <1>4. At(x) \in Rules!Successors(At(b), b.turn)
    BY EachIsAllowed
  <1> QED
    BY <1>1, <1>3, <1>4, SuccessorsAre DEF Good

(* A fling spares kings, and no turn ends a king but by moving onto it or  *)
(* shooting at it.                                                         *)
LEMMA KingEndsByHit ==
    ASSUME NEW b, Good(b), NEW K \in TypesOf(Opponent(b.turn)), KindOf(K) = "king",
           NEW q \in b.pieces[K], NEW x \in gen_chezz_boards(b), q \notin x.pieces[K]
    PROVE  \E t \in TypesOf(b.turn) : \E s \in b.pieces[t] : Hits(b, t, s, q)
  <1>1. /\ Sound(b) /\ K \in Types /\ q \in Squares /\ At(b)[q] = Piece(K)
        /\ Piece(K).kind = "king" /\ Piece(K) # Rules!Empty
        /\ q \notin Friendly(b) /\ Friendly(b) \subseteq Squares
    BY MoverFacts, AtPiece, PieceFacts DEF Good
  <1>2. Sound(x) /\ (IsMove(b, At(x)) \/ IsFling(b, At(x)) \/ IsShot(b, At(x)))
    BY ListedIs
  <1>3. At(x)[q] # Piece(K)
    BY <1>1, <1>2, AtIs
  <1>4. \A a : At(x) = After(b, a) => a[q] # Piece(K)
    BY <1>1, <1>3, AfterIs
  <1>5. CASE IsMove(b, At(x))
    <2>1. PICK s \in Friendly(b), r \in Squares :
              Rules!MayGo(At(b), s, r) /\ At(x) = After(b, Rules!AfterMove(At(b), s, r))
      BY <1>5 DEF IsMove
    <2>2. q = r
      BY <1>1, <1>4, <2>1, AfterMoveIs
    <2>3. PICK t \in TypesOf(b.turn) : s \in b.pieces[t]
      BY <1>1, MoverOf
    <2> QED
      BY <2>1, <2>2, <2>3 DEF Hits
  <1>6. CASE IsFling(b, At(x))
    <2>1. PICK k \in Friendly(b), f \in Friendly(b), r \in Squares :
              Rules!MayFling(At(b), k, f, r) /\ At(x) = After(b, Rules!AfterFling(At(b), f, r))
      BY <1>6 DEF IsFling
    <2>2. At(b)[r].kind # "king"
      BY <2>1 DEF Rules!MayFling
    <2>3. q # r /\ q # f
      BY <1>1, <2>2
    <2>4. Rules!AfterFling(At(b), f, r)[q] = Piece(K)
      BY <1>1, <2>3, AfterFlingIs
    <2> QED
      BY <1>4, <2>1, <2>4
  <1>7. CASE IsShot(b, At(x))
    <2>1. PICK k \in Friendly(b), e \in Rules!Corners :
              At(b)[k].kind = "canon" /\ At(x) = After(b, Rules!AfterShot(At(b), k, e))
      BY <1>7 DEF IsShot
    <2>2. Rules!InFire(k, e, q)
      BY <1>1, <1>4, <2>1, AfterShotIs
    <2>3. PICK t \in TypesOf(b.turn) : k \in b.pieces[t] /\ At(b)[k].kind = KindOf(t)
      BY <1>1, MoverOf
    <2>4. t \in {WC, BC}
      BY <1>1, <2>1, <2>3, MoverFacts, TypeOfKind
    <2> QED
      BY <2>2, <2>3, <2>4 DEF Hits, Rules!InFire
  <1> QED
    BY <1>2, <1>5, <1>6, <1>7

(* And a hit ends it.                                                      *)
LEMMA HitEndsKing ==
    ASSUME NEW b, Good(b), NEW K \in TypesOf(Opponent(b.turn)), KindOf(K) = "king",
           NEW q \in b.pieces[K], NEW t \in TypesOf(b.turn), NEW s \in b.pieces[t],
           Hits(b, t, s, q), \A y \in b.pieces[K] : y = q
    PROVE  \E x \in gen_chezz_boards(b) : x.pieces[K] = {}
  <1>1. /\ Sound(b) /\ K \in Types /\ q \in Squares /\ At(b)[q] = Piece(K)
        /\ Piece(K).color = Opponent(b.turn) /\ Piece(K) # Rules!Empty /\ KindOf(K) # "zombie"
        /\ s \in Squares /\ t \in Types /\ s \in Friendly(b)
        /\ At(b)[s] = Piece(t) /\ Piece(t) # Piece(K) /\ Opponent(b.turn) # b.turn
        /\ Piece(t).color = b.turn /\ At(b)[s].kind = KindOf(t)
    BY MoverFacts, AtPiece, PieceFacts DEF Good
  <1>2. SUFFICES ASSUME NEW a, After(b, a) \in Rules!Successors(At(b), b.turn),
                        \A y \in Squares : a[y] = Piece(K) => At(b)[y] = Piece(K) /\ y # q
                 PROVE  \E x \in gen_chezz_boards(b) : x.pieces[K] = {}
    <2>1. CASE Rules!MayGo(At(b), s, q)
      <3> DEFINE a == Rules!AfterMove(At(b), s, q)
      <3>1. IsMove(b, After(b, a))
        BY <1>1, <2>1 DEF IsMove
      <3>2. After(b, a) \in Rules!Successors(At(b), b.turn)
        BY <1>1, <3>1, SuccessorsAre
      <3>3. \A y \in Squares : a[y] = Piece(K) => At(b)[y] = Piece(K) /\ y # q
        BY <1>1, AfterMoveIs
      <3> QED
        BY <1>2, <3>2, <3>3
    <2>2. CASE t \in {WC, BC} /\ Rules!Diagonal(s, q)
      <3>1. PICK e \in Rules!Corners : Rules!InFire(s, e, q)
        BY <1>1, <2>2, OpenDiagonal, ThreatIsShot
      <3> DEFINE a == Rules!AfterShot(At(b), s, e)
      <3>2. \A y \in Squares : a[y] = Piece(K) => At(b)[y] = Piece(K) /\ y # q
        BY <1>1, <3>1, AfterShotIs
      <3>3. a # At(b)
        BY <1>1, <3>2
      <3>4. At(b)[s].kind = "canon"
        BY <1>1, <2>2, Kinds
      <3> HIDE DEF a
      <3>5. IsShot(b, After(b, a))
        BY <1>1, <3>1, <3>3, <3>4 DEF IsShot, a
      <3>6. After(b, a) \in Rules!Successors(At(b), b.turn)
        BY <1>1, <3>5, SuccessorsAre
      <3> QED
        BY <1>2, <3>2, <3>6
    <2> QED
      BY <2>1, <2>2 DEF Hits
  <1>3. PICK x \in gen_chezz_boards(b) : At(x) = After(b, a)
    BY <1>2, EachIsListed
  <1>4. Sound(x)
    BY ListedIs
  <1>5. ASSUME NEW y \in x.pieces[K] PROVE FALSE
    <2>1. y \in Squares /\ At(x)[y] = Piece(K)
      BY <1>1, <1>4, AtPiece
    <2>2. a[y] = Piece(K)
      BY <1>1, <1>3, <2>1, AfterIs
    <2>3. At(b)[y] = Piece(K) /\ y # q
      BY <1>2, <2>1, <2>2
    <2>4. y \in b.pieces[K]
      BY <1>1, <2>1, <2>3, AtIs
    <2> QED
      BY <2>3, <2>4
  <1> QED
    BY <1>3, <1>5

LEMMA CheckExact ==
    ASSUME NEW b, Good(b), OneOfEach(b), NEW K \in FirstOnly,
           K = IF b.turn = "w" THEN BK ELSE WK, b.pieces[K] # {}
    PROVE  is_king_in_check(b, SideOf(Opponent(b.turn))) <=>
               \E x \in gen_chezz_boards(b) : x.pieces[K] = {}
  <1>1. Sound(b) /\ b.turn \in {"w", "b"}
    BY MoverFacts DEF Good
  <1>2. K \in TypesOf(Opponent(b.turn)) /\ KindOf(K) = "king"
    BY <1>1, TypeFacts, Kinds DEF TypesOf, Opponent
  <1>3. is_king_in_check(b, SideOf(Opponent(b.turn))) <=> HitsKing(b, K)
    BY <1>1, CheckIsHit
  <1>4. PICK q \in b.pieces[K] : \A y \in b.pieces[K] : y = q
    BY DEF OneOfEach
  <1>5. HitsKing(b, K) => \E x \in gen_chezz_boards(b) : x.pieces[K] = {}
    BY <1>2, <1>4, HitEndsKing DEF HitsKing
  <1>6. ASSUME NEW x \in gen_chezz_boards(b), x.pieces[K] = {} PROVE HitsKing(b, K)
    <2>1. q \notin x.pieces[K]
      BY <1>6
    <2> QED
      BY <1>2, <2>1, KingEndsByHit DEF HitsKing
  <1> QED
    BY <1>3, <1>5, <1>6

-----------------------------------------------------------------------------
(* No turn makes a second piece of these types.                            *)
LEMMA OneStays ==
    ASSUME NEW b, Good(b), OneOfEach(b), NEW x \in gen_chezz_boards(b)
    PROVE  OneOfEach(x)
  <1> SUFFICES ASSUME NEW t \in FirstOnly, NEW y \in x.pieces[t], NEW z \in x.pieces[t]
               PROVE  y = z
    BY DEF OneOfEach
  <1>1. t \in Types /\ KindOf(t) # "zombie"
    BY TypeFacts, Kinds DEF FirstOnly
  <1>2. Sound(b) /\ Sound(x) /\ (IsMove(b, At(x)) \/ IsFling(b, At(x)) \/ IsShot(b, At(x)))
    BY ListedIs DEF Good
  <1>3. /\ y \in Squares /\ z \in Squares /\ At(x)[y] = Piece(t) /\ At(x)[z] = Piece(t)
        /\ Friendly(b) \subseteq Squares /\ Piece(t) # Rules!Empty
    BY <1>1, <1>2, AtPiece, MoverFacts, PieceFacts
  <1>4. \A p \in Squares : \A q \in Squares :
            At(b)[p] = Piece(t) /\ At(b)[q] = Piece(t) => p = q
    BY <1>1, <1>2, AtIs DEF OneOfEach
  <1>5. \A a : At(x) = After(b, a) => a[y] = Piece(t) /\ a[z] = Piece(t)
    BY <1>1, <1>2, <1>3, AfterIs
  <1>6. CASE IsMove(b, At(x))
    <2>1. PICK s \in Friendly(b), r \in Squares :
              Rules!MayGo(At(b), s, r) /\ At(x) = After(b, Rules!AfterMove(At(b), s, r))
      BY <1>6 DEF IsMove
    <2>2. s \in Squares
      BY <1>3
    <2> QED
      BY <1>3, <1>4, <1>5, <2>1, <2>2, AfterMoveIs
  <1>7. CASE IsFling(b, At(x))
    <2>1. PICK f \in Friendly(b), r \in Squares :
              At(x) = After(b, Rules!AfterFling(At(b), f, r))
      BY <1>7 DEF IsFling
    <2>2. f \in Squares
      BY <1>3
    <2> QED
      BY <1>3, <1>4, <1>5, <2>1, <2>2, AfterFlingIs
  <1>8. CASE IsShot(b, At(x))
    <2>1. PICK k \in Friendly(b), e \in Rules!Corners :
              At(x) = After(b, Rules!AfterShot(At(b), k, e))
      BY <1>8 DEF IsShot
    <2> QED
      BY <1>3, <1>4, <1>5, <2>1, AfterShotIs
  <1> QED
    BY <1>2, <1>6, <1>7, <1>8

-----------------------------------------------------------------------------
(***************************************************************************)
(* The text of a board (ChezzWire): printed as a list, read by a fold.     *)
(***************************************************************************)

(* One row of the text: the square and the type that print as it.          *)
RowFor(s, t) == [square |-> <<ColOf(s), RowOf(s)>>, piece |-> piece_lookup[t]]

LEMMA LookupIs ==
    ASSUME NEW t \in Types
    PROVE  /\ get_piece_index(piece_lookup[t]) = t
           /\ piece_lookup[t][1] = IF t \in WhiteTypes THEN "w" ELSE "b"
  <1> DEFINE color(u) == IF u \in WhiteTypes THEN "w" ELSE "b"
             letters == <<"P", "N", "B", "R", "Q", "K", "Z", "F", "C">>
             half(u) == (u \div 2) + 1
  <1>1. \A u \in Types : piece_lookup[u] = <<color(u), letters[half(u)]>>
    BY DEF piece_lookup
  <1>2. \A i, j \in 1 .. 9 : letters[i] = letters[j] => i = j
    OBVIOUS
  <1>3. \A u \in Types : half(u) \in 1 .. 9
    BY DEF Types
  <1>4. \A u, v \in Types : half(u) = half(v) /\ color(u) = color(v) => u = v
    BY DEF Types, WhiteTypes
  <1> HIDE DEF color, letters, half
  <1>5. \A u, v \in Types : piece_lookup[u] = piece_lookup[v] => u = v
    <2>1. \A x, y, z, w : <<x, y>> = <<z, w>> => x = z /\ y = w
      OBVIOUS
    <2> QED
      BY <1>1, <1>2, <1>3, <1>4, <2>1
  <1>6. piece_lookup[t][1] = color(t)
    BY <1>1
  <1>7. get_piece_index(piece_lookup[t]) = t
    BY <1>5 DEF get_piece_index
  <1> QED
    BY <1>6, <1>7 DEF color

Put(b, s, t, told) ==
    [b EXCEPT !.pieces[t] = @ \cup {s},
              !.white = IF t \in WhiteTypes THEN @ \cup {s} ELSE @,
              !.black = IF t \in WhiteTypes THEN @ ELSE @ \cup {s},
              !.all = IF told THEN @ \cup {s} ELSE @]

LEMMA RowIsRead ==
    ASSUME NEW b \in Chezzboard, NEW s \in Squares, NEW t \in Types
    PROVE  /\ add_row(b, RowFor(s, t)) = Put(b, s, t, TRUE)
           /\ read_row(b, RowFor(s, t)) = Put(b, s, t, FALSE)
           /\ \A told \in BOOLEAN : Put(b, s, t, told) \in Chezzboard
  <1> DEFINE row == RowFor(s, t)
  <1>1. square_to_index(row.square) = s
    <2>1. square_to_index(row.square) = RowOf(s) * 8 + ColOf(s)
      BY DEF RowFor, square_to_index
    <2>2. RowOf(s) * 8 + ColOf(s) = s
      BY DEF RowOf, ColOf, Squares
    <2> QED
      BY <2>1, <2>2
  <1>2. row.piece = piece_lookup[t]
    BY DEF RowFor
  <1>3. /\ get_piece_index(row.piece) = t /\ t >= 0
        /\ row.piece[1] = "w" <=> t \in WhiteTypes
        /\ row.piece[1] = "b" <=> t \notin WhiteTypes
    BY <1>2, LookupIs DEF Types
  <1> HIDE DEF row
  <1>4. add_row(b, row) =
            [b EXCEPT !.pieces[t] = @ \cup {s},
                      !.white = IF t \in WhiteTypes THEN @ \cup {s} ELSE @,
                      !.black = IF t \in WhiteTypes THEN @ ELSE @ \cup {s},
                      !.all = @ \cup {s}]
    BY <1>1, <1>3 DEF add_row
  <1>5. read_row(b, row) =
            [b EXCEPT !.pieces[t] = @ \cup {s},
                      !.white = IF t \in WhiteTypes THEN @ \cup {s} ELSE @,
                      !.black = IF t \in WhiteTypes THEN @ ELSE @ \cup {s}]
    BY <1>1, <1>3 DEF read_row
  <1>6. read_row(b, row) = Put(b, s, t, FALSE)
    BY <1>5 DEF Put, Chezzboard
  <1>7. add_row(b, row) = Put(b, s, t, TRUE)
    BY <1>4 DEF Put
  <1>8. \A told \in BOOLEAN : Put(b, s, t, told) \in Chezzboard
    BY DEF Put, Chezzboard
  <1> QED
    BY <1>6, <1>7, <1>8 DEF row

(* The board after some rows.                                              *)
Standing(b) == {p \in Squares \X Types : p[1] \in b.pieces[p[2]]}

Read(placed, k, s, t) == \E j \in 1 .. k : placed[j] = <<s, t>>

SoFar(b, placed, k, told) ==
    [turn |-> b.turn, num_moves |-> b.num_moves,
     pieces |-> [t \in Types |-> {s \in Squares : Read(placed, k, s, t)}],
     white |-> {s \in Squares : \E t \in WhiteTypes : Read(placed, k, s, t)},
     black |-> {s \in Squares : \E t \in BlackTypes : Read(placed, k, s, t)},
     all |-> {s \in Squares : told /\ \E t \in Types : Read(placed, k, s, t)}]

LEMMA SoFarIsBoard ==
    ASSUME NEW b \in Chezzboard, NEW placed, NEW k, NEW told
    PROVE  SoFar(b, placed, k, told) \in Chezzboard
  BY DEF SoFar, Chezzboard

LEMMA SameBoard ==
    ASSUME NEW b \in Chezzboard, NEW c \in Chezzboard,
           b.turn = c.turn, b.num_moves = c.num_moves, \A t \in Types : b.pieces[t] = c.pieces[t],
           b.white = c.white, b.black = c.black, b.all = c.all
    PROVE  b = c
  <1>1. b.pieces = c.pieces
    BY BoardFields
  <1> QED
    BY <1>1 DEF Chezzboard

LEMMA SoFarStarts ==
    ASSUME NEW b \in Chezzboard, NEW placed, NEW told
    PROVE  SoFar(b, placed, 0, told) =
               [empty_board EXCEPT !.turn = b.turn, !.num_moves = b.num_moves]
  <1> DEFINE start == [empty_board EXCEPT !.turn = b.turn, !.num_moves = b.num_moves]
             c == SoFar(b, placed, 0, told)
  <1>1. \A s, t : ~ Read(placed, 0, s, t)
    BY DEF Read
  <1>2. /\ c \in Chezzboard /\ c.turn = b.turn /\ c.num_moves = b.num_moves
        /\ \A t \in Types : c.pieces[t] = {}
        /\ c.white = {} /\ c.black = {} /\ c.all = {}
    BY <1>1, SoFarIsBoard DEF SoFar
  <1>3. /\ empty_board \in Chezzboard
        /\ \A t \in Types : empty_board.pieces[t] = {}
        /\ empty_board.white = {} /\ empty_board.black = {} /\ empty_board.all = {}
    BY DEF empty_board, Chezzboard
  <1>4. /\ start \in Chezzboard /\ start.turn = b.turn /\ start.num_moves = b.num_moves
        /\ start.pieces = empty_board.pieces
        /\ start.white = {} /\ start.black = {} /\ start.all = {}
    BY <1>3 DEF Chezzboard
  <1> HIDE DEF c, start
  <1>5. c = start
    BY <1>2, <1>3, <1>4, SameBoard
  <1> QED
    BY <1>5 DEF c, start

LEMMA SoFarSteps ==
    ASSUME NEW b \in Chezzboard, NEW n \in Nat, NEW placed \in [1 .. n -> Standing(b)],
           NEW k \in 1 .. n, NEW told \in BOOLEAN
    PROVE  SoFar(b, placed, k, told) =
               Put(SoFar(b, placed, k - 1, told), placed[k][1], placed[k][2], told)
  <1> DEFINE q == placed[k][1]
             u == placed[k][2]
             r == SoFar(b, placed, k - 1, told)
             c == SoFar(b, placed, k, told)
             d == Put(r, q, u, told)
  <1>1. q \in Squares /\ u \in Types /\ placed[k] = <<q, u>>
    BY DEF Standing
  <1>2. ASSUME NEW s, NEW t
        PROVE  Read(placed, k, s, t) <=> Read(placed, k - 1, s, t) \/ (s = q /\ t = u)
    <2>1. \A j : j \in 1 .. k <=> j \in 1 .. k - 1 \/ j = k
      OBVIOUS
    <2>2. placed[k] = <<s, t>> <=> s = q /\ t = u
      BY <1>1
    <2> HIDE DEF q, u
    <2> QED
      BY <2>1, <2>2 DEF Read
  <1>3. /\ r \in Chezzboard /\ r.turn = b.turn /\ r.num_moves = b.num_moves
        /\ \A t \in Types : r.pieces[t] = {s \in Squares : Read(placed, k - 1, s, t)}
        /\ r.white = {s \in Squares : \E t \in WhiteTypes : Read(placed, k - 1, s, t)}
        /\ r.black = {s \in Squares : \E t \in BlackTypes : Read(placed, k - 1, s, t)}
        /\ r.all = {s \in Squares : told /\ \E t \in Types : Read(placed, k - 1, s, t)}
    BY SoFarIsBoard DEF SoFar
  <1>4. /\ c \in Chezzboard /\ c.turn = b.turn /\ c.num_moves = b.num_moves
        /\ \A t \in Types : c.pieces[t] = {s \in Squares : Read(placed, k, s, t)}
        /\ c.white = {s \in Squares : \E t \in WhiteTypes : Read(placed, k, s, t)}
        /\ c.black = {s \in Squares : \E t \in BlackTypes : Read(placed, k, s, t)}
        /\ c.all = {s \in Squares : told /\ \E t \in Types : Read(placed, k, s, t)}
    BY SoFarIsBoard DEF SoFar
  <1> HIDE DEF q, u, r, c
  <1>5. d \in Chezzboard
    BY <1>1, <1>3, RowIsRead
  <1>6. /\ d.turn = r.turn /\ d.num_moves = r.num_moves
        /\ \A t \in Types : d.pieces[t] = IF t = u THEN r.pieces[t] \cup {q} ELSE r.pieces[t]
        /\ d.white = IF u \in WhiteTypes THEN r.white \cup {q} ELSE r.white
        /\ d.black = IF u \in WhiteTypes THEN r.black ELSE r.black \cup {q}
        /\ d.all = IF told THEN r.all \cup {q} ELSE r.all
    BY <1>1, <1>3 DEF Put, Chezzboard
  <1> HIDE DEF d
  <1>7. \A t \in Types : c.pieces[t] = d.pieces[t]
    <2> SUFFICES ASSUME NEW t \in Types PROVE c.pieces[t] = d.pieces[t]
      OBVIOUS
    <2>1. /\ c.pieces[t] = {s \in Squares : Read(placed, k, s, t)}
          /\ r.pieces[t] = {s \in Squares : Read(placed, k - 1, s, t)}
          /\ d.pieces[t] = IF t = u THEN r.pieces[t] \cup {q} ELSE r.pieces[t]
      BY <1>3, <1>4, <1>6
    <2> QED
      BY <1>1, <1>2, <2>1
  <1>8. c.white = d.white
    BY <1>1, <1>2, <1>3, <1>4, <1>6
  <1>9. c.black = d.black
    BY <1>1, <1>2, <1>3, <1>4, <1>6, TypeFacts
  <1>10. c.all = d.all
    BY <1>1, <1>2, <1>3, <1>4, <1>6
  <1>11. c = d
    BY <1>3, <1>4, <1>5, <1>6, <1>7, <1>8, <1>9, <1>10, SameBoard
  <1> QED
    BY <1>11 DEF c, d, q, u, r

LEMMA SoFarEnds ==
    ASSUME NEW b, Sound(b), NEW n \in Nat, NEW placed \in [1 .. n -> Standing(b)],
           \A p \in Standing(b) : \E i \in 1 .. n : placed[i] = p, NEW told \in BOOLEAN
    PROVE  SoFar(b, placed, n, told) = [b EXCEPT !.all = IF told THEN @ ELSE {}]
  <1>1. \A s \in Squares : \A t \in Types : Read(placed, n, s, t) <=> s \in b.pieces[t]
    <2> SUFFICES ASSUME NEW s \in Squares, NEW t \in Types
                 PROVE  Read(placed, n, s, t) <=> s \in b.pieces[t]
      OBVIOUS
    <2>1. s \in b.pieces[t] <=> <<s, t>> \in Standing(b)
      BY DEF Standing
    <2> QED
      BY <2>1 DEF Read
  <1>2. /\ b \in Chezzboard /\ b.pieces \in [Types -> SUBSET Squares]
        /\ b.white \subseteq Squares /\ b.black \subseteq Squares /\ b.all = b.white \cup b.black
    BY BoardFields DEF Sound
  <1>3. [t \in Types |-> {s \in Squares : Read(placed, n, s, t)}] = b.pieces
    BY <1>1, <1>2
  <1>4. {s \in Squares : \E t \in WhiteTypes : Read(placed, n, s, t)} = b.white
    BY <1>1, <1>2, TypeFacts DEF Sound, Tells
  <1>5. {s \in Squares : \E t \in BlackTypes : Read(placed, n, s, t)} = b.black
    BY <1>1, <1>2, TypeFacts DEF Sound, Tells
  <1>6. {s \in Squares : told /\ \E t \in Types : Read(placed, n, s, t)} =
            IF told THEN b.all ELSE {}
    BY <1>1, <1>2, TypeFacts DEF Sound, Tells
  <1>7. SoFar(b, placed, n, told) =
            [turn |-> b.turn, num_moves |-> b.num_moves, pieces |-> b.pieces,
             white |-> b.white, black |-> b.black, all |-> IF told THEN b.all ELSE {}]
    BY <1>3, <1>4, <1>5, <1>6 DEF SoFar
  <1> DEFINE all == IF told THEN b.all ELSE {}
  <1>8. [b EXCEPT !.all = IF told THEN @ ELSE {}] = [b EXCEPT !.all = all]
    OBVIOUS
  <1> HIDE DEF all
  <1>9. [b EXCEPT !.all = all] =
            [turn |-> b.turn, num_moves |-> b.num_moves, pieces |-> b.pieces,
             white |-> b.white, black |-> b.black, all |-> all]
    BY <1>2 DEF Chezzboard
  <1> QED
    BY <1>7, <1>8, <1>9 DEF all

-----------------------------------------------------------------------------
(* The rows the engine prints list what stands on the board.               *)
Prints(text, b, n, placed) ==
    /\ placed \in [1 .. n -> Standing(b)]
    /\ \A p \in Standing(b) : \E i \in 1 .. n : placed[i] = p
    /\ text.turn = b.turn /\ text.num_moves = b.num_moves
    /\ DOMAIN text.rows = 1 .. n
    /\ \A i \in 1 .. n : text.rows[i] = RowFor(placed[i][1], placed[i][2])

LEMMA TextIs ==
    ASSUME NEW b, Sound(b)
    PROVE  \E n \in Nat : \E placed : Prints(to_string_buf(b), b, n, placed)
  <1> DEFINE square(p) == <<ColOf(p[1]), RowOf(p[1])>>
             standing == {p \in Squares \X Types : p[1] \in b.pieces[p[2]]}
             rank(p) == ColOf(p[1]) * 8 * 18 + RowOf(p[1]) * 18 + p[2]
             before(p) == {q \in standing : rank(q) < rank(p)}
             N == Cardinality(standing)
             chosen(i) == CHOOSE p \in standing : Cardinality(before(p)) = i - 1
             placed == [i \in 1 .. N |-> chosen(i)]
             rankf == [p \in standing |-> rank(p)]
  <1>1. to_string_buf(b) =
            [turn |-> b.turn, num_moves |-> b.num_moves,
             rows |-> [i \in DOMAIN placed |->
                 [square |-> square(placed[i]), piece |-> piece_lookup[placed[i][2]]]]]
    BY DEF to_string_buf
  <1>2. standing = Standing(b)
    BY DEF Standing
  <1>3. IsFiniteSet(standing)
    <2>1. IsFiniteSet(Squares) /\ IsFiniteSet(Types)
      <3>1. \A a, c \in Int : IsFiniteSet(a .. c)
        BY FS_Interval
      <3>2. 0 \in Int /\ 17 \in Int
        OBVIOUS
      <3>3. IsFiniteSet(0 .. 17)
        BY <3>1, <3>2, Zenon
      <3> QED
        BY <3>3, SquaresFinite DEF Types
    <2>2. IsFiniteSet(Squares \X Types)
      BY <2>1, FS_Product
    <2>3. standing \in SUBSET (Squares \X Types)
      OBVIOUS
    <2> HIDE DEF standing
    <2> QED
      BY <2>2, <2>3, FS_Subset
  <1>4. \A p \in standing : rank(p) \in Int
    BY DEF Squares, Types, ColOf, RowOf
  <1>5. \A p, q \in standing : rank(p) = rank(q) => p = q
    <2> SUFFICES ASSUME NEW p \in standing, NEW q \in standing, rank(p) = rank(q)
                 PROVE  p = q
      OBVIOUS
    <2> DEFINE x == ColOf(p[1])
               y == RowOf(p[1])
               t == p[2]
               z == ColOf(q[1])
               w == RowOf(q[1])
               u == q[2]
    <2>1. /\ p[1] \in Squares /\ q[1] \in Squares /\ t \in 0 .. 17 /\ u \in 0 .. 17
          /\ p = <<p[1], t>> /\ q = <<q[1], u>>
      BY DEF Types
    <2>2. /\ x \in 0 .. 7 /\ y \in 0 .. 7 /\ z \in 0 .. 7 /\ w \in 0 .. 7
          /\ p[1] = 8 * y + x /\ q[1] = 8 * w + z
      BY <2>1, ByCoordinates
    <2>3. x * 8 * 18 + y * 18 + t = z * 8 * 18 + w * 18 + u
      OBVIOUS
    <2> HIDE DEF x, y, t, z, w, u
    <2>4. x = z /\ y = w /\ t = u
      BY <2>1, <2>2, <2>3
    <2> QED
      BY <2>1, <2>2, <2>4
  <1>6. \A p \in standing : {r \in standing : rankf[r] < rankf[p]} = before(p)
    <2> HIDE DEF rank, standing
    <2> QED
      OBVIOUS
  <1>7. rankf \in [standing -> Int] /\ \A p, q \in standing : rankf[p] = rankf[q] => p = q
    <2> HIDE DEF rank, standing
    <2> QED
      BY <1>4, <1>5
  <1>8. RankedBy(placed, standing, rankf)
    <2>1. ASSUME NEW i \in 1 .. N, NEW t \in standing,
                 Cardinality({r \in standing : rankf[r] < rankf[t]}) = i - 1
          PROVE  /\ placed[i] \in standing
                 /\ Cardinality({r \in standing : rankf[r] < rankf[placed[i]]}) = i - 1
      <3> DEFINE Has(p) == Cardinality(before(p)) = i - 1
      <3>1. placed[i] = CHOOSE p \in standing : Has(p)
        OBVIOUS
      <3>2. Has(t)
        <4> HIDE DEF before, rankf, standing
        <4> QED
          BY <1>6, <2>1
      <3> HIDE DEF Has, placed, standing, before, rankf
      <3>3. placed[i] \in standing /\ Has(placed[i])
        BY <3>1, <3>2
      <3> QED
        BY <1>6, <3>3 DEF Has
    <2>2. placed = [i \in 1 .. N |-> placed[i]]
      <3> HIDE DEF chosen, N
      <3> QED
        OBVIOUS
    <2> HIDE DEF placed, standing, rankf
    <2> QED
      BY <2>1, <2>2 DEF RankedBy
  <1> HIDE DEF rankf, rank, before, standing, chosen
  <1>9. Listing(placed, standing)
    <2> HIDE DEF placed
    <2> QED
      BY <1>3, <1>7, <1>8, Ranked
  <1> HIDE DEF placed
  <1>10. PICK n \in Nat : /\ placed \in [1 .. n -> standing]
                          /\ \A p \in standing : \E i \in 1 .. n : placed[i] = p
    BY <1>9 DEF Listing
  <1>11. DOMAIN placed = 1 .. n
    BY <1>10
  <1> DEFINE text == to_string_buf(b)
  <1>12. /\ text.turn = b.turn /\ text.num_moves = b.num_moves /\ DOMAIN text.rows = 1 .. n
         /\ \A i \in 1 .. n : text.rows[i] = RowFor(placed[i][1], placed[i][2])
    BY <1>1, <1>11 DEF RowFor
  <1> HIDE DEF text
  <1>13. Prints(text, b, n, placed)
    BY <1>2, <1>10, <1>12 DEF Prints
  <1> QED
    BY <1>13 DEF text

(* Reading them is a fold that puts them back one by one.                  *)
LEMMA PutsFold ==
    ASSUME NEW b \in Chezzboard, NEW n \in Nat, NEW placed \in [1 .. n -> Standing(b)],
           NEW told \in BOOLEAN
    PROVE  \E g \in [SUBSET (1 .. n) -> Chezzboard] : \A S \in SUBSET (1 .. n) :
               /\ S = {} => g[S] = SoFar(b, placed, 0, told)
               /\ S # {} => /\ Max(S) \in 1 .. n /\ g[S \ {Max(S)}] \in Chezzboard
                            /\ g[S] = Put(g[S \ {Max(S)}], placed[Max(S)][1],
                                          placed[Max(S)][2], told)
  <1> DEFINE base == SoFar(b, placed, 0, told)
             F == [p \in Chezzboard \X (1 .. n) |->
                      Put(p[1], placed[p[2]][1], placed[p[2]][2], told)]
  <1>1. \A i \in 1 .. n : placed[i][1] \in Squares /\ placed[i][2] \in Types
    BY DEF Standing
  <1>2. F \in [Chezzboard \X (1 .. n) -> Chezzboard]
    BY <1>1, RowIsRead
  <1>3. \A a \in Chezzboard : \A i \in 1 .. n :
            F[<<a, i>>] = Put(a, placed[i][1], placed[i][2], told)
    OBVIOUS
  <1>4. base \in Chezzboard
    BY SoFarIsBoard
  <1> HIDE DEF F, base
  <1>5. PICK g \in [SUBSET (1 .. n) -> Chezzboard] : \A S \in SUBSET (1 .. n) :
             g[S] = IF S = {} THEN base ELSE F[<<g[S \ {Max(S)}], Max(S)>>]
    <2>1. FoldsDown(n, Chezzboard, base, F)
      BY <1>2, <1>4, FoldExists
    <2> QED
      BY <2>1 DEF FoldsDown
  <1>6. ASSUME NEW S \in SUBSET (1 .. n), S # {}
        PROVE  /\ Max(S) \in 1 .. n /\ g[S \ {Max(S)}] \in Chezzboard
               /\ g[S] = Put(g[S \ {Max(S)}], placed[Max(S)][1], placed[Max(S)][2], told)
    <2>1. Max(S) \in 1 .. n
      BY <1>6, TopIs
    <2>2. g[S \ {Max(S)}] \in Chezzboard
      BY <1>5
    <2> QED
      BY <1>3, <1>5, <1>6, <2>1, <2>2
  <1>7. \A S \in SUBSET (1 .. n) : S = {} => g[S] = base
    BY <1>5
  <1> QED
    BY <1>6, <1>7 DEF base

LEMMA PutsBack ==
    ASSUME NEW b, Sound(b), NEW n \in Nat, NEW placed \in [1 .. n -> Standing(b)],
           \A p \in Standing(b) : \E i \in 1 .. n : placed[i] = p, NEW told \in BOOLEAN,
           NEW G, G[{}] = SoFar(b, placed, 0, told),
           \A k \in 1 .. n : G[1 .. k - 1] \in Chezzboard =>
               G[1 .. k] = Put(G[1 .. k - 1], placed[k][1], placed[k][2], told)
    PROVE  G[1 .. n] = [b EXCEPT !.all = IF told THEN @ ELSE {}]
  <1> DEFINE h == [k \in 0 .. n |-> SoFar(b, placed, k, told)]
  <1>1. b \in Chezzboard
    BY DEF Sound
  <1>2. \A k \in 0 .. n : h[k] = SoFar(b, placed, k, told) /\ h[k] \in Chezzboard
    BY <1>1, SoFarIsBoard
  <1>3. h[0] = SoFar(b, placed, 0, told) /\ h[n] = SoFar(b, placed, n, told)
    OBVIOUS
  <1> HIDE DEF h
  <1>4. ASSUME NEW k \in 1 .. n, G[1 .. k - 1] = h[k - 1]
        PROVE  G[1 .. k] = h[k]
    <2>1. k \in 0 .. n /\ k - 1 \in 0 .. n
      OBVIOUS
    <2>2. h[k] = Put(h[k - 1], placed[k][1], placed[k][2], told)
      <3>1. SoFar(b, placed, k, told) = Put(SoFar(b, placed, k - 1, told), placed[k][1],
                                            placed[k][2], told)
        BY <1>1, SoFarSteps
      <3> QED
        BY <1>2, <2>1, <3>1
    <2> QED
      BY <1>2, <1>4, <2>1, <2>2
  <1>5. G[1 .. n] = h[n]
    BY <1>3, <1>4, FoldChain
  <1> QED
    BY <1>3, <1>5, SoFarEnds

LEMMA StringReads ==
    ASSUME NEW b, Sound(b), NEW n \in Nat, NEW placed, NEW text, Prints(text, b, n, placed)
    PROVE  load_board_from_string(text) = b
  <1> DEFINE s == text.rows
             base == [empty_board EXCEPT
                         !.turn = IF text.turn \in {"b", "B"} THEN "b" ELSE "w",
                         !.num_moves = text.num_moves]
             Is(g) == g = [S \in SUBSET (DOMAIN s) |->
                               IF S = {} THEN base ELSE add_row(g[S \ {Max(S)}], s[Max(S)])]
             G == CHOOSE g : Is(g)
  <1>1. load_board_from_string(text) = G[DOMAIN s]
    BY DEF load_board_from_string, FoldLeft, MapThenFoldSet
  <1>2. /\ b \in Chezzboard /\ b.turn \in {"w", "b"} /\ placed \in [1 .. n -> Standing(b)]
        /\ \A p \in Standing(b) : \E i \in 1 .. n : placed[i] = p
        /\ DOMAIN s = 1 .. n
        /\ \A i \in 1 .. n : s[i] = RowFor(placed[i][1], placed[i][2])
        /\ \A i \in 1 .. n : placed[i][1] \in Squares /\ placed[i][2] \in Types
    BY BoardFields DEF Sound, Prints, Standing
  <1>3. base = SoFar(b, placed, 0, TRUE)
    <2>1. text.turn = b.turn /\ text.num_moves = b.num_moves
      BY DEF Prints
    <2>2. (IF text.turn \in {"b", "B"} THEN "b" ELSE "w") = b.turn
      BY <1>2, <2>1
    <2>3. base = [empty_board EXCEPT !.turn = b.turn, !.num_moves = b.num_moves]
      BY <2>1, <2>2
    <2> HIDE DEF base
    <2> QED
      BY <1>2, <2>3, SoFarStarts
  <1> HIDE DEF s, base
  <1>4. \A a \in Chezzboard : \A i \in 1 .. n :
            add_row(a, s[i]) = Put(a, placed[i][1], placed[i][2], TRUE)
    BY <1>2, RowIsRead
  <1>5. \E g : Is(g)
    <2>1. PICK g \in [SUBSET (1 .. n) -> Chezzboard] : \A S \in SUBSET (1 .. n) :
               /\ S = {} => g[S] = SoFar(b, placed, 0, TRUE)
               /\ S # {} => /\ Max(S) \in 1 .. n /\ g[S \ {Max(S)}] \in Chezzboard
                            /\ g[S] = Put(g[S \ {Max(S)}], placed[Max(S)][1],
                                          placed[Max(S)][2], TRUE)
      BY <1>2, PutsFold
    <2> DEFINE f == [S \in SUBSET (1 .. n) |->
                         IF S = {} THEN base ELSE add_row(g[S \ {Max(S)}], s[Max(S)])]
    <2>2. \A S \in SUBSET (1 .. n) : g[S] = f[S]
      BY <1>3, <1>4, <2>1
    <2>3. g = f
      BY <2>2
    <2>4. Is(g)
      BY <1>2, <2>3
    <2> QED
      BY <2>4
  <1> HIDE DEF Is
  <1>6. Is(G)
    BY <1>5
  <1> HIDE DEF G
  <1>7. G[{}] = SoFar(b, placed, 0, TRUE)
    <2>1. {} \in SUBSET DOMAIN s
      OBVIOUS
    <2> QED
      BY <1>3, <1>6, <2>1 DEF Is
  <1>8. ASSUME NEW k \in 1 .. n, G[1 .. k - 1] \in Chezzboard
        PROVE  G[1 .. k] = Put(G[1 .. k - 1], placed[k][1], placed[k][2], TRUE)
    <2>1. /\ 1 .. k \in SUBSET DOMAIN s /\ 1 .. k # {}
          /\ Max(1 .. k) = k /\ (1 .. k) \ {k} = 1 .. k - 1
      BY <1>2, PrefixIs
    <2>2. G[1 .. k] = add_row(G[(1 .. k) \ {Max(1 .. k)}], s[Max(1 .. k)])
      BY <1>6, <2>1 DEF Is
    <2> QED
      BY <1>4, <1>8, <2>1, <2>2
  <1>9. G[1 .. n] = [b EXCEPT !.all = IF TRUE THEN @ ELSE {}]
    <2>1. PICK told \in BOOLEAN : told = TRUE
      OBVIOUS
    <2>2. G[{}] = SoFar(b, placed, 0, told)
      BY <1>7, <2>1
    <2>3. \A k \in 1 .. n : G[1 .. k - 1] \in Chezzboard =>
              G[1 .. k] = Put(G[1 .. k - 1], placed[k][1], placed[k][2], told)
      BY <1>8, <2>1
    <2>4. G[1 .. n] = [b EXCEPT !.all = IF told THEN @ ELSE {}]
      BY <1>2, <2>2, <2>3, PutsBack
    <2> QED
      BY <1>2, <2>1, <2>4
  <1>10. [b EXCEPT !.all = IF TRUE THEN @ ELSE {}] = b
    BY <1>2 DEF Chezzboard
  <1> QED
    BY <1>1, <1>2, <1>9, <1>10

LEMMA StdinReads ==
    ASSUME NEW b, Sound(b), NEW n \in Nat, NEW placed, NEW text, Prints(text, b, n, placed)
    PROVE  load_board_from_stdin(text) = b
  <1> DEFINE s == text.rows
             base == [empty_board EXCEPT !.turn = text.turn, !.num_moves = text.num_moves]
             Is(g) == g = [S \in SUBSET (DOMAIN s) |->
                               IF S = {} THEN base ELSE read_row(g[S \ {Max(S)}], s[Max(S)])]
             G == CHOOSE g : Is(g)
             read == G[DOMAIN s]
  <1>1. load_board_from_stdin(text) = [read EXCEPT !.all = read.white \cup read.black]
    BY DEF load_board_from_stdin, FoldLeft, MapThenFoldSet
  <1>2. /\ b \in Chezzboard /\ b.turn \in {"w", "b"} /\ placed \in [1 .. n -> Standing(b)]
        /\ \A p \in Standing(b) : \E i \in 1 .. n : placed[i] = p
        /\ DOMAIN s = 1 .. n
        /\ \A i \in 1 .. n : s[i] = RowFor(placed[i][1], placed[i][2])
        /\ \A i \in 1 .. n : placed[i][1] \in Squares /\ placed[i][2] \in Types
    BY BoardFields DEF Sound, Prints, Standing
  <1>3. base = SoFar(b, placed, 0, FALSE)
    <2>1. text.turn = b.turn /\ text.num_moves = b.num_moves
      BY DEF Prints
    <2>2. SoFar(b, placed, 0, FALSE) =
              [empty_board EXCEPT !.turn = b.turn, !.num_moves = b.num_moves]
      BY <1>2, SoFarStarts
    <2> QED
      BY <2>1, <2>2
  <1> HIDE DEF s, base
  <1>4. \A a \in Chezzboard : \A i \in 1 .. n :
            read_row(a, s[i]) = Put(a, placed[i][1], placed[i][2], FALSE)
    BY <1>2, RowIsRead
  <1>5. \E g : Is(g)
    <2>1. PICK g \in [SUBSET (1 .. n) -> Chezzboard] : \A S \in SUBSET (1 .. n) :
               /\ S = {} => g[S] = SoFar(b, placed, 0, FALSE)
               /\ S # {} => /\ Max(S) \in 1 .. n /\ g[S \ {Max(S)}] \in Chezzboard
                            /\ g[S] = Put(g[S \ {Max(S)}], placed[Max(S)][1],
                                          placed[Max(S)][2], FALSE)
      BY <1>2, PutsFold
    <2> DEFINE f == [S \in SUBSET (1 .. n) |->
                         IF S = {} THEN base ELSE read_row(g[S \ {Max(S)}], s[Max(S)])]
    <2>2. \A S \in SUBSET (1 .. n) : g[S] = f[S]
      BY <1>3, <1>4, <2>1
    <2>3. g = f
      BY <2>2
    <2>4. Is(g)
      BY <1>2, <2>3
    <2> QED
      BY <2>4
  <1> HIDE DEF Is
  <1>6. Is(G)
    BY <1>5
  <1> HIDE DEF G
  <1>7. G[{}] = SoFar(b, placed, 0, FALSE)
    <2>1. {} \in SUBSET DOMAIN s
      OBVIOUS
    <2> QED
      BY <1>3, <1>6, <2>1 DEF Is
  <1>8. ASSUME NEW k \in 1 .. n, G[1 .. k - 1] \in Chezzboard
        PROVE  G[1 .. k] = Put(G[1 .. k - 1], placed[k][1], placed[k][2], FALSE)
    <2>1. /\ 1 .. k \in SUBSET DOMAIN s /\ 1 .. k # {}
          /\ Max(1 .. k) = k /\ (1 .. k) \ {k} = 1 .. k - 1
      BY <1>2, PrefixIs
    <2>2. G[1 .. k] = read_row(G[(1 .. k) \ {Max(1 .. k)}], s[Max(1 .. k)])
      BY <1>6, <2>1 DEF Is
    <2> QED
      BY <1>4, <1>8, <2>1, <2>2
  <1>9. read = [b EXCEPT !.all = IF FALSE THEN @ ELSE {}]
    <2>1. PICK told \in BOOLEAN : told = FALSE
      OBVIOUS
    <2>2. G[{}] = SoFar(b, placed, 0, told)
      BY <1>7, <2>1
    <2>3. \A k \in 1 .. n : G[1 .. k - 1] \in Chezzboard =>
              G[1 .. k] = Put(G[1 .. k - 1], placed[k][1], placed[k][2], told)
      BY <1>8, <2>1
    <2>4. G[1 .. n] = [b EXCEPT !.all = IF told THEN @ ELSE {}]
      BY <1>2, <2>2, <2>3, PutsBack
    <2> QED
      BY <1>2, <2>1, <2>4
  <1>10. read = [b EXCEPT !.all = {}]
    BY <1>9
  <1> HIDE DEF read
  <1>11. [read EXCEPT !.all = read.white \cup read.black] = b
    BY <1>2, <1>10 DEF Chezzboard, Sound
  <1> QED
    BY <1>1, <1>11

(***************************************************************************)
(* What the engine prints it reads back (engine_api.c, main.c), in games   *)
(* of any length from any consistent boards: through either reader the     *)
(* printed board comes back with its turn, its eighteen piece sets and its *)
(* three combined ones, so that the moves of a game lose nothing between   *)
(* two calls of the engine.                                                *)
(***************************************************************************)
THEOREM PrintedBoardIsReadBack == Spec => []ReadsWhatItPrints
  <1>1. BoardGood => ReadsWhatItPrints
    <2> SUFFICES ASSUME BoardGood PROVE ReadsWhatItPrints
      OBVIOUS
    <2>1. Sound(board)
      BY DEF BoardGood, Good
    <2>2. PICK n \in Nat : \E placed : Prints(to_string_buf(board), board, n, placed)
      BY <2>1, TextIs
    <2> QED
      BY <2>1, <2>2, StringReads, StdinReads DEF ReadsWhatItPrints
  <1> QED
    BY <1>1, AlwaysGood, PTL

-----------------------------------------------------------------------------
(* The theorems.                                                           *)

(***************************************************************************)
(* In games of any length from any consistent boards: for every piece, the *)
(* moves mobility counts (mobility_eval.c, with its own masks, once per    *)
(* colour) are those the generator makes.                                  *)
(***************************************************************************)
THEOREM MobilityIsExact == Spec => []MobilityCountsMoves
  <1>1. BoardGood => MobilityCountsMoves
    <2> SUFFICES ASSUME BoardGood, NEW turn \in {"w", "b"},
                        NEW p \in PiecesOf(ToMove(board, turn), TypesOf(turn))
                 PROVE  LET b == ToMove(board, turn)
                        IN (IF turn = "w" THEN white_legal_moves(b, p)
                            ELSE black_legal_moves(b, p)) =
                           (IF p[2] \in {WP, BP}
                            THEN PeonSteps(b, p[1], p[2]) \cup PeonCaptures(b, p[1], p[2])
                            ELSE PseudoMoves(b, p[1], p[2]))
      BY DEF MobilityCountsMoves
    <2> DEFINE b == ToMove(board, turn)
    <2>1. Sound(b) /\ b.turn = turn
      BY EitherToMove DEF BoardGood
    <2> HIDE DEF b
    <2>2. CASE turn = "w"
      BY <2>1, <2>2, WhiteMobility DEF b, TypesOf
    <2>3. CASE turn = "b"
      BY <2>1, <2>3, BlackMobility DEF b, TypesOf
    <2> QED
      BY <2>2, <2>3
  <1> QED
    BY <1>1, AlwaysGood, PTL

(***************************************************************************)
(* Whatever the safety score calls an attack on an enemy                   *)
(* (piece_safety_eval.c) the generator can carry out: one of the boards it *)
(* makes for that piece has the enemy gone from where it stood.  Flings    *)
(* and shots included, in games of any length from any consistent boards.  *)
(***************************************************************************)
THEOREM ThreatsCanBeCarriedOut == Spec => []ThreatsAreReal
  <1>1. BoardGood => ThreatsAreReal
    <2> SUFFICES ASSUME BoardGood, NEW turn \in {"w", "b"},
                        NEW p \in PiecesOf(ToMove(board, turn), TypesOf(turn)),
                        NEW e \in PiecesOf(ToMove(board, turn), TypesOf(Opponent(turn))),
                        e[1] \in AttackMask(ToMove(board, turn), p)
                 PROVE  \E c \in BoardsOf(ToMove(board, turn), p[1], p[2]) :
                            e[1] \notin c.pieces[e[2]]
      BY DEF ThreatsAreReal
    <2> DEFINE b == ToMove(board, turn)
    <2>1. Good(b) /\ Sound(b) /\ b.turn = turn
      BY EitherToMove DEF BoardGood
    <2> HIDE DEF b
    <2>2. TypesOf(turn) \subseteq Types /\ TypesOf(Opponent(turn)) \subseteq Types
      BY <2>1, MoverFacts
    <2>3. /\ p[2] \in TypesOf(b.turn) /\ p[1] \in b.pieces[p[2]] /\ p = <<p[1], p[2]>>
          /\ e[2] \in TypesOf(Opponent(b.turn)) /\ e[1] \in b.pieces[e[2]]
      BY <2>1, <2>2, PieceIs DEF b
    <2>4. e[1] \in AttackMask(b, <<p[1], p[2]>>)
      BY <2>3 DEF b
    <2> QED
      BY <2>1, <2>3, <2>4, ThreatCarriedOut DEF b
  <1> QED
    BY <1>1, AlwaysGood, PTL

(* The invariant for the test for check.                                   *)
AlwaysOne == BoardGood /\ OneOfEach(board)

LEMMA AlwaysOneInvariant ==
    (\A b \in StartBoards : OneOfEach(b)) => (Spec => []AlwaysOne)
  <1>1. (\A b \in StartBoards : OneOfEach(b)) /\ Init => AlwaysOne
    BY InitGood DEF Init, AlwaysOne
  <1>2. AlwaysOne /\ [Next]_board => AlwaysOne'
    <2> SUFFICES ASSUME AlwaysOne, [Next]_board PROVE OneOfEach(board')
      BY NextGood DEF AlwaysOne
    <2>1. CASE Next
      BY <2>1, NextIsListed, OneStays DEF AlwaysOne, BoardGood, Good
    <2>2. CASE UNCHANGED board
      BY <2>2 DEF AlwaysOne
    <2> QED
      BY <2>1, <2>2
  <1> QED
    BY <1>1, <1>2, PTL DEF Spec

(***************************************************************************)
(* The test for check (king_safety_eval.c), which looks at one piece of    *)
(* some types only, is exact in every game that starts with at most one of *)
(* each, as the program's do (chezz/runtime/bootstrap.py): a king is in    *)
(* check when and only when the other side, to move, could end it.         *)
(***************************************************************************)
THEOREM CheckTestIsExact ==
    (\A b \in StartBoards : OneOfEach(b)) => (Spec => []CheckIsExact)
  <1>1. AlwaysOne => CheckIsExact
    <2> SUFFICES ASSUME AlwaysOne, BothKingsStand, NEW turn \in {"w", "b"}
                 PROVE  is_king_in_check(board, SideOf(turn)) <=>
                            \E x \in gen_chezz_boards(ToMove(board, Opponent(turn))) :
                                ~is_king_alive(x, SideOf(turn))
      BY DEF CheckIsExact
    <2> DEFINE b == ToMove(board, Opponent(turn))
               K == IF turn = "w" THEN WK ELSE BK
    <2>1. Opponent(turn) \in {"w", "b"} /\ Opponent(Opponent(turn)) = turn
      BY DEF Opponent
    <2>2. /\ Good(b) /\ b.turn = Opponent(turn)
          /\ b.pieces = board.pieces /\ b.all = board.all
      BY <2>1, EitherToMove DEF AlwaysOne, BoardGood
    <2> HIDE DEF b
    <2>3. OneOfEach(b) /\ b.pieces[K] # {} /\ K \in FirstOnly
      BY <2>2 DEF AlwaysOne, OneOfEach, BothKingsStand, FirstOnly
    <2>4. K = IF b.turn = "w" THEN BK ELSE WK
      BY <2>2 DEF Opponent
    <2> HIDE DEF K
    <2>5. is_king_in_check(b, SideOf(turn)) <=>
              \E x \in gen_chezz_boards(b) : x.pieces[K] = {}
      BY <2>1, <2>2, <2>3, <2>4, CheckExact
    <2>6. is_king_in_check(b, SideOf(turn)) <=> is_king_in_check(board, SideOf(turn))
      BY <2>2 DEF is_king_in_check
    <2>7. \A x : is_king_alive(x, SideOf(turn)) <=> x.pieces[K] # {}
      BY DEF is_king_alive, SideOf, K
    <2> QED
      BY <2>5, <2>6, <2>7 DEF b
  <1> QED
    BY <1>1, AlwaysOneInvariant, PTL

-----------------------------------------------------------------------------
(* How the attack tables are made.  What the masks drop does not matter.   *)
LEMMA MaskSuffices ==
    ASSUME NEW s \in Squares, NEW B
    PROVE  /\ gen_bishop_attacks(s, B \cap gen_bishop_mask(s)) = gen_bishop_attacks(s, B)
           /\ gen_rook_attacks(s, B \cap gen_rook_mask(s)) = gen_rook_attacks(s, B)
  <1>1. bishop_attacks(s, B) = gen_bishop_attacks(s, B)
    BY BishopMaskSuffices
  <1>2. rook_attacks(s, B) = gen_rook_attacks(s, B)
    BY RookMaskSuffices
  <1> QED
    BY <1>1, <1>2 DEF bishop_attacks, rook_attacks, bishop_magics, rook_magics

(* A square next to s on a line is attacked whatever stands elsewhere, and *)
(* every square has one: so no attacks are empty, and an empty entry of    *)
(* the table is a free one.                                                *)
LEMMA NextIsClear ==
    ASSUME NEW s \in Squares, NEW q \in Squares, NEW d \in Directions,
           ColOf(q) = ColOf(s) + d[1], RowOf(q) = RowOf(s) + d[2]
    PROVE  q \in Ray[s][d] /\ Between[s][q] = {}
  <1>1. \A x \in Squares : RowOf(x) \in Int /\ ColOf(x) \in Int
    BY DEF Squares, RowOf, ColOf
  <1>2. \A e \in Directions :
            /\ e[1] \in {-1, 0, 1} /\ e[2] \in {-1, 0, 1} /\ ~ (e[1] = 0 /\ e[2] = 0)
            /\ Reverse8(e) \in Directions
            /\ Reverse8(e)[1] = -e[1] /\ Reverse8(e)[2] = -e[2]
    BY DEF Directions, Diagonals, Straights, Reverse8
  <1>3. \A z \in Squares : \A e \in Directions : \A x :
            x \in Ray[z][e] <=> x \in Squares /\ \E k \in 1 .. 7 :
                ColOf(x) = ColOf(z) + k * e[1] /\ RowOf(x) = RowOf(z) + k * e[2]
    BY DEF Ray
  <1>4. q \in Ray[s][d]
    <2>1. 1 \in 1 .. 7 /\ 1 * d[1] = d[1] /\ 1 * d[2] = d[2]
      BY <1>2
    <2> QED
      BY <1>3, <2>1
  <1>5. ASSUME NEW e \in Directions, NEW x \in Ray[s][e], x \in Ray[q][Reverse8(e)]
        PROVE  FALSE
    <2>1. PICK k \in 1 .. 7 : ColOf(x) = ColOf(s) + k * e[1] /\ RowOf(x) = RowOf(s) + k * e[2]
      BY <1>3
    <2>2. PICK j \in 1 .. 7 : /\ ColOf(x) = ColOf(q) + j * Reverse8(e)[1]
                              /\ RowOf(x) = RowOf(q) + j * Reverse8(e)[2]
      BY <1>2, <1>3, <1>5
    <2>3. x \in Squares
      BY <1>3
    <2>4. \A n \in 1 .. 7 : n * (-1) = -n /\ n * 0 = 0 /\ n * 1 = n
      OBVIOUS
    <2>5. CASE e[1] # 0
      <3>1. e[1] \in {-1, 1} /\ Reverse8(e)[1] = -e[1] /\ d[1] \in {-1, 0, 1}
        BY <1>2, <2>5
      <3> QED
        BY <1>1, <2>1, <2>2, <2>3, <2>4, <3>1
    <2>6. CASE e[2] # 0
      <3>1. e[2] \in {-1, 1} /\ Reverse8(e)[2] = -e[2] /\ d[2] \in {-1, 0, 1}
        BY <1>2, <2>6
      <3> QED
        BY <1>1, <2>1, <2>2, <2>3, <2>4, <3>1
    <2> QED
      BY <1>2, <2>5, <2>6
  <1>6. Between[s][q] = {}
    BY <1>5 DEF Between
  <1> QED
    BY <1>4, <1>6

LEMMA HasNeighbours ==
    ASSUME NEW s \in Squares
    PROVE  /\ \E d \in Diagonals : \E q \in Squares :
                  ColOf(q) = ColOf(s) + d[1] /\ RowOf(q) = RowOf(s) + d[2]
           /\ \E d \in Straights : \E q \in Squares :
                  ColOf(q) = ColOf(s) + d[1] /\ RowOf(q) = RowOf(s) + d[2]
  <1> DEFINE dx == IF ColOf(s) < 7 THEN 1 ELSE -1
             dy == IF RowOf(s) < 7 THEN 1 ELSE -1
  <1>1. /\ ColOf(s) \in 0 .. 7 /\ RowOf(s) \in 0 .. 7 /\ s = 8 * RowOf(s) + ColOf(s)
        /\ dx \in {-1, 1} /\ dy \in {-1, 1}
        /\ ColOf(s) + dx \in 0 .. 7 /\ RowOf(s) + dy \in 0 .. 7
    BY DEF Squares, RowOf, ColOf
  <1>2. \A row, col \in 0 .. 7 : /\ 8 * row + col \in Squares
                                 /\ RowOf(8 * row + col) = row /\ ColOf(8 * row + col) = col
    BY DEF Squares, RowOf, ColOf
  <1> HIDE DEF dx, dy
  <1>3. <<dx, dy>> \in Diagonals /\ <<dx, 0>> \in Straights
    BY <1>1 DEF Diagonals, Straights
  <1>4. \E q \in Squares : ColOf(q) = ColOf(s) + dx /\ RowOf(q) = RowOf(s) + dy
    BY <1>1, <1>2
  <1>5. \E q \in Squares : ColOf(q) = ColOf(s) + dx /\ RowOf(q) = RowOf(s) + 0
    BY <1>1, <1>2
  <1> QED
    BY <1>3, <1>4, <1>5

LEMMA NeverEmpty ==
    ASSUME NEW s \in Squares, NEW B
    PROVE  gen_bishop_attacks(s, B) # {} /\ gen_rook_attacks(s, B) # {}
  <1>1. \A dirs \in SUBSET Directions : \A d \in dirs : \A q \in Squares :
            ColOf(q) = ColOf(s) + d[1] /\ RowOf(q) = RowOf(s) + d[2] => q \in Walk(s, dirs, B)
    BY NextIsClear DEF Walk
  <1>2. Diagonals \in SUBSET Directions /\ Straights \in SUBSET Directions
    BY DEF Directions
  <1> QED
    BY <1>1, <1>2, HasNeighbours DEF gen_bishop_attacks, gen_rook_attacks

-----------------------------------------------------------------------------
(***************************************************************************)
(* The sets of blockers: the table of relevant bits has as many as the     *)
(* mask has squares, and the bits of a number, spread over them, give      *)
(* every subset.                                                           *)
(***************************************************************************)
LEMMA PowersOfTwo ==
    /\ 2 ^ 0 = 1 /\ 2 ^ 1 = 2 /\ 2 ^ 2 = 4 /\ 2 ^ 3 = 8 /\ 2 ^ 4 = 16 /\ 2 ^ 5 = 32
    /\ 2 ^ 6 = 64 /\ 2 ^ 7 = 128 /\ 2 ^ 8 = 256 /\ 2 ^ 9 = 512 /\ 2 ^ 10 = 1024
    /\ 2 ^ 11 = 2048 /\ 2 ^ 12 = 4096
  OBVIOUS

LEMMA Doubles ==
    \A k \in 0 .. 11 : 2 ^ k \in Nat /\ 2 ^ (k + 1) \in Nat /\ 2 ^ (k + 1) = 2 * (2 ^ k)
  <1> SUFFICES ASSUME NEW k \in 0 .. 11
               PROVE  2 ^ k \in Nat /\ 2 ^ (k + 1) \in Nat /\ 2 ^ (k + 1) = 2 * (2 ^ k)
    OBVIOUS
  <1>1. CASE k = 0
    <2>1. k + 1 = 1
      BY <1>1
    <2>2. 2 ^ k = 1 /\ 2 ^ (k + 1) = 2
      BY <1>1, <2>1, PowersOfTwo
    <2> QED
      BY <2>2
  <1>2. CASE k = 1
    <2>1. k + 1 = 2
      BY <1>2
    <2>2. 2 ^ k = 2 /\ 2 ^ (k + 1) = 4
      BY <1>2, <2>1, PowersOfTwo
    <2> QED
      BY <2>2
  <1>3. CASE k = 2
    <2>1. k + 1 = 3
      BY <1>3
    <2>2. 2 ^ k = 4 /\ 2 ^ (k + 1) = 8
      BY <1>3, <2>1, PowersOfTwo
    <2> QED
      BY <2>2
  <1>4. CASE k = 3
    <2>1. k + 1 = 4
      BY <1>4
    <2>2. 2 ^ k = 8 /\ 2 ^ (k + 1) = 16
      BY <1>4, <2>1, PowersOfTwo
    <2> QED
      BY <2>2
  <1>5. CASE k = 4
    <2>1. k + 1 = 5
      BY <1>5
    <2>2. 2 ^ k = 16 /\ 2 ^ (k + 1) = 32
      BY <1>5, <2>1, PowersOfTwo
    <2> QED
      BY <2>2
  <1>6. CASE k = 5
    <2>1. k + 1 = 6
      BY <1>6
    <2>2. 2 ^ k = 32 /\ 2 ^ (k + 1) = 64
      BY <1>6, <2>1, PowersOfTwo
    <2> QED
      BY <2>2
  <1>7. CASE k = 6
    <2>1. k + 1 = 7
      BY <1>7
    <2>2. 2 ^ k = 64 /\ 2 ^ (k + 1) = 128
      BY <1>7, <2>1, PowersOfTwo
    <2> QED
      BY <2>2
  <1>8. CASE k = 7
    <2>1. k + 1 = 8
      BY <1>8
    <2>2. 2 ^ k = 128 /\ 2 ^ (k + 1) = 256
      BY <1>8, <2>1, PowersOfTwo
    <2> QED
      BY <2>2
  <1>9. CASE k = 8
    <2>1. k + 1 = 9
      BY <1>9
    <2>2. 2 ^ k = 256 /\ 2 ^ (k + 1) = 512
      BY <1>9, <2>1, PowersOfTwo
    <2> QED
      BY <2>2
  <1>10. CASE k = 9
    <2>1. k + 1 = 10
      BY <1>10
    <2>2. 2 ^ k = 512 /\ 2 ^ (k + 1) = 1024
      BY <1>10, <2>1, PowersOfTwo
    <2> QED
      BY <2>2
  <1>11. CASE k = 10
    <2>1. k + 1 = 11
      BY <1>11
    <2>2. 2 ^ k = 1024 /\ 2 ^ (k + 1) = 2048
      BY <1>11, <2>1, PowersOfTwo
    <2> QED
      BY <2>2
  <1>12. CASE k = 11
    <2>1. k + 1 = 12
      BY <1>12
    <2>2. 2 ^ k = 2048 /\ 2 ^ (k + 1) = 4096
      BY <1>12, <2>1, PowersOfTwo
    <2> QED
      BY <2>2
  <1>13. k \in {0, 1, 2, 3, 4, 5, 6, 7, 8, 9, 10, 11}
    OBVIOUS
  <1> QED
    BY <1>1, <1>2, <1>3, <1>4, <1>5, <1>6, <1>7, <1>8, <1>9, <1>10, <1>11, <1>12, <1>13

(* Dividing by two and then k times more.                                  *)
LEMMA Halves ==
    ASSUME NEW x \in Nat, NEW b \in {0, 1}, NEW k \in 0 .. 11
    PROVE  (2 * x + b) \div 2 ^ (k + 1) = x \div 2 ^ k
  <1>1. CASE k = 0
    <2>1. 2 ^ k = 1 /\ 2 ^ (k + 1) = 2
      BY <1>1, PowersOfTwo
    <2>2. (2 * x + b) \div 2 = x \div 1
      OBVIOUS
    <2> QED
      BY <2>1, <2>2
  <1>2. CASE k = 1
    <2>1. 2 ^ k = 2 /\ 2 ^ (k + 1) = 4
      BY <1>2, PowersOfTwo
    <2>2. (2 * x + b) \div 4 = x \div 2
      OBVIOUS
    <2> QED
      BY <2>1, <2>2
  <1>3. CASE k = 2
    <2>1. 2 ^ k = 4 /\ 2 ^ (k + 1) = 8
      BY <1>3, PowersOfTwo
    <2>2. (2 * x + b) \div 8 = x \div 4
      OBVIOUS
    <2> QED
      BY <2>1, <2>2
  <1>4. CASE k = 3
    <2>1. 2 ^ k = 8 /\ 2 ^ (k + 1) = 16
      BY <1>4, PowersOfTwo
    <2>2. (2 * x + b) \div 16 = x \div 8
      OBVIOUS
    <2> QED
      BY <2>1, <2>2
  <1>5. CASE k = 4
    <2>1. 2 ^ k = 16 /\ 2 ^ (k + 1) = 32
      BY <1>5, PowersOfTwo
    <2>2. (2 * x + b) \div 32 = x \div 16
      OBVIOUS
    <2> QED
      BY <2>1, <2>2
  <1>6. CASE k = 5
    <2>1. 2 ^ k = 32 /\ 2 ^ (k + 1) = 64
      BY <1>6, PowersOfTwo
    <2>2. (2 * x + b) \div 64 = x \div 32
      OBVIOUS
    <2> QED
      BY <2>1, <2>2
  <1>7. CASE k = 6
    <2>1. 2 ^ k = 64 /\ 2 ^ (k + 1) = 128
      BY <1>7, PowersOfTwo
    <2>2. (2 * x + b) \div 128 = x \div 64
      OBVIOUS
    <2> QED
      BY <2>1, <2>2
  <1>8. CASE k = 7
    <2>1. 2 ^ k = 128 /\ 2 ^ (k + 1) = 256
      BY <1>8, PowersOfTwo
    <2>2. (2 * x + b) \div 256 = x \div 128
      OBVIOUS
    <2> QED
      BY <2>1, <2>2
  <1>9. CASE k = 8
    <2>1. 2 ^ k = 256 /\ 2 ^ (k + 1) = 512
      BY <1>9, PowersOfTwo
    <2>2. (2 * x + b) \div 512 = x \div 256
      OBVIOUS
    <2> QED
      BY <2>1, <2>2
  <1>10. CASE k = 9
    <2>1. 2 ^ k = 512 /\ 2 ^ (k + 1) = 1024
      BY <1>10, PowersOfTwo
    <2>2. (2 * x + b) \div 1024 = x \div 512
      OBVIOUS
    <2> QED
      BY <2>1, <2>2
  <1>11. CASE k = 10
    <2>1. 2 ^ k = 1024 /\ 2 ^ (k + 1) = 2048
      BY <1>11, PowersOfTwo
    <2>2. (2 * x + b) \div 2048 = x \div 1024
      OBVIOUS
    <2> QED
      BY <2>1, <2>2
  <1>12. CASE k = 11
    <2>1. 2 ^ k = 2048 /\ 2 ^ (k + 1) = 4096
      BY <1>12, PowersOfTwo
    <2>2. (2 * x + b) \div 4096 = x \div 2048
      OBVIOUS
    <2> QED
      BY <2>1, <2>2
  <1>13. k \in {0, 1, 2, 3, 4, 5, 6, 7, 8, 9, 10, 11}
    OBVIOUS
  <1> QED
    BY <1>1, <1>2, <1>3, <1>4, <1>5, <1>6, <1>7, <1>8, <1>9, <1>10, <1>11, <1>12, <1>13

BitSet(x, k) == (x \div 2 ^ k) % 2 = 1

(* Every set of places below n is the set of the bits of a number.         *)
Spells(n) ==
    \A P \in SUBSET (0 .. n - 1) :
        \E x \in 0 .. 2 ^ n - 1 : \A k \in 0 .. n - 1 : BitSet(x, k) <=> k \in P

LEMMA SpellsMore ==
    ASSUME NEW n \in 0 .. 11, Spells(n)
    PROVE  Spells(n + 1)
  <1> SUFFICES ASSUME NEW P \in SUBSET (0 .. (n + 1) - 1)
               PROVE  \E x \in 0 .. 2 ^ (n + 1) - 1 :
                          \A k \in 0 .. (n + 1) - 1 : BitSet(x, k) <=> k \in P
    BY DEF Spells
  <1> DEFINE Q == {k \in 0 .. n - 1 : k + 1 \in P}
             b == IF 0 \in P THEN 1 ELSE 0
  <1>1. PICK x \in 0 .. 2 ^ n - 1 : \A k \in 0 .. n - 1 : BitSet(x, k) <=> k \in Q
    BY DEF Spells
  <1> DEFINE y == 2 * x + b
  <1>2. x \in Nat /\ b \in {0, 1} /\ 2 ^ n \in Nat /\ 2 ^ (n + 1) = 2 * (2 ^ n)
    <2>1. 2 ^ n \in Nat /\ 2 ^ (n + 1) = 2 * (2 ^ n)
      BY Doubles
    <2>2. x \in Nat
      OBVIOUS
    <2>3. b \in {0, 1}
      OBVIOUS
    <2> QED
      BY <2>1, <2>2, <2>3
  <1>3. y \in 0 .. 2 ^ (n + 1) - 1
    <2> DEFINE N == 2 ^ n
    <2>1. N \in Nat /\ x \in 0 .. N - 1
      BY <1>2
    <2>2. y \in 0 .. 2 * N - 1
      <3> HIDE DEF N, b
      <3> QED
        BY <1>2, <2>1
    <2> QED
      BY <1>2, <2>2
  <1>4. \A k \in 0 .. (n + 1) - 1 : BitSet(y, k) <=> k \in P
    <2> SUFFICES ASSUME NEW k \in 0 .. n PROVE BitSet(y, k) <=> k \in P
      OBVIOUS
    <2>1. CASE k = 0
      <3>1. (2 * x + b) % 2 = b
        BY <1>2
      <3>2. (2 * x + b) \div 1 = 2 * x + b
        BY <1>2
      <3> QED
        BY <2>1, <3>1, <3>2, PowersOfTwo DEF BitSet
    <2>2. CASE k # 0
      <3>1. k - 1 \in 0 .. n - 1 /\ k - 1 \in 0 .. 11 /\ (k - 1) + 1 = k
        BY <2>2
      <3>2. y \div 2 ^ k = x \div 2 ^ (k - 1)
        BY <1>2, <3>1, Halves
      <3>3. BitSet(y, k) <=> BitSet(x, k - 1)
        BY <3>2 DEF BitSet
      <3>4. BitSet(x, k - 1) <=> k - 1 \in Q
        BY <1>1, <3>1
      <3>5. k - 1 \in Q <=> k \in P
        BY <3>1
      <3> QED
        BY <3>3, <3>4, <3>5
    <2> QED
      BY <2>1, <2>2
  <1> HIDE DEF y
  <1> QED
    BY <1>3, <1>4

LEMMA SpellsAll == \A n \in 0 .. 12 : Spells(n)
  <1>1. Spells(0)
    BY PowersOfTwo DEF Spells
  <1>2. \A n \in 0 .. 11 : Spells(n) => Spells(n + 1)
    BY SpellsMore
  <1> DEFINE S == {n \in Nat : n <= 12 => Spells(n)}
  <1>3. 0 \in S
    BY <1>1
  <1>4. ASSUME NEW n \in 0 .. 12 PROVE n \in S
    <2>1. \A k \in 0 .. n - 1 : k \in S => k + 1 \in S
      BY <1>2
    <2> HIDE DEF S
    <2> QED
      BY <1>3, <2>1, Induct
  <1> QED
    BY <1>4

(* The place of a square in a mask tells it from the others.               *)
Place(M, s) == Cardinality({q \in M : q < s})

LEMMA PlaceIs ==
    ASSUME NEW M \in SUBSET Squares
    PROVE  /\ \A s \in M : Place(M, s) \in 0 .. Cardinality(M) - 1
           /\ \A s, t \in M : Place(M, s) = Place(M, t) => s = t
  <1> DEFINE Before(s) == {q \in M : q < s}
  <1>0. IsFiniteSet(M) /\ Cardinality(M) \in Nat /\ M \subseteq Int
    BY SquaresFinite, FS_CardinalityType DEF Squares
  <1>1. \A S \in SUBSET M : IsFiniteSet(S) /\ Cardinality(S) \in Nat
    BY <1>0, FS_Subset, FS_CardinalityType
  <1>2. \A S \in SUBSET M : \A T \in SUBSET S : T # S => Cardinality(T) < Cardinality(S)
    <2> SUFFICES ASSUME NEW S \in SUBSET M, NEW T \in SUBSET S, T # S
                 PROVE  Cardinality(T) < Cardinality(S)
      OBVIOUS
    <2>1. IsFiniteSet(S) /\ Cardinality(S) \in Nat /\ Cardinality(T) \in Nat
      BY <1>1
    <2>2. Cardinality(T) <= Cardinality(S) /\ (Cardinality(S) = Cardinality(T) => S = T)
      BY <2>1, FS_Subset
    <2> QED
      BY <2>1, <2>2
  <1>3. \A s \in M : Before(s) \in SUBSET M /\ Before(s) # M
    BY <1>0
  <1>4. \A s \in M : Cardinality(Before(s)) \in Nat /\ Cardinality(Before(s)) < Cardinality(M)
    BY <1>1, <1>2, <1>3
  <1>5. \A s, t \in M : s < t => Before(s) \in SUBSET Before(t) /\ Before(s) # Before(t)
    <2> SUFFICES ASSUME NEW s \in M, NEW t \in M, s < t
                 PROVE  Before(s) \in SUBSET Before(t) /\ Before(s) # Before(t)
      OBVIOUS
    <2>1. \A q \in M : q < s => q < t
      BY <1>0
    <2>2. s \in Before(t) /\ s \notin Before(s)
      BY <1>0
    <2> QED
      BY <2>1, <2>2
  <1>6. \A s, t \in M : s < t => Cardinality(Before(s)) < Cardinality(Before(t))
    BY <1>2, <1>3, <1>5
  <1>7. \A s, t \in M : s # t => Place(M, s) # Place(M, t)
    <2> SUFFICES ASSUME NEW s \in M, NEW t \in M, s # t PROVE Place(M, s) # Place(M, t)
      OBVIOUS
    <2>1. s < t \/ t < s
      BY <1>0
    <2>2. Place(M, s) \in Nat /\ Place(M, t) \in Nat
      BY <1>4 DEF Place
    <2>3. Place(M, s) < Place(M, t) \/ Place(M, t) < Place(M, s)
      BY <1>6, <2>1 DEF Place
    <2> QED
      BY <2>2, <2>3
  <1> QED
    BY <1>0, <1>4, <1>7 DEF Place

LEMMA EveryBlockers ==
    ASSUME NEW M \in SUBSET Squares, NEW n \in 0 .. 12, Cardinality(M) = n
    PROVE  {gen_blocker_config(x, n, M) : x \in 0 .. 2 ^ n - 1} = SUBSET M
  <1>1. \A x : gen_blocker_config(x, n, M)
                  = {s \in M : Place(M, s) < n /\ BitSet(x, Place(M, s))}
    BY DEF gen_blocker_config, Place, BitSet
  <1>2. ASSUME NEW S \in SUBSET M
        PROVE  \E x \in 0 .. 2 ^ n - 1 : gen_blocker_config(x, n, M) = S
    <2> DEFINE P == {Place(M, s) : s \in S}
    <2>1. P \in SUBSET (0 .. n - 1)
      BY PlaceIs
    <2>2. PICK x \in 0 .. 2 ^ n - 1 : \A k \in 0 .. n - 1 : BitSet(x, k) <=> k \in P
      <3> HIDE DEF P
      <3> QED
        BY <2>1, SpellsAll DEF Spells
    <2>3. \A s \in M : Place(M, s) \in 0 .. n - 1 /\ (Place(M, s) \in P <=> s \in S)
      BY PlaceIs
    <2> HIDE DEF P
    <2>4. \A s \in M : (Place(M, s) < n /\ BitSet(x, Place(M, s))) <=> s \in S
      BY <2>2, <2>3
    <2>5. gen_blocker_config(x, n, M) = S
      BY <1>1, <2>4
    <2> QED
      BY <2>5
  <1> DEFINE C == {gen_blocker_config(x, n, M) : x \in 0 .. 2 ^ n - 1}
  <1>3. \A x : gen_blocker_config(x, n, M) \in SUBSET M
    BY <1>1
  <1>4. \A S \in C : S \in SUBSET M
    BY <1>3
  <1>5. \A S \in SUBSET M : S \in C
    BY <1>2
  <1>6. C = SUBSET M
    <2> HIDE DEF C
    <2> QED
      BY <1>4, <1>5
  <1> QED
    BY <1>6

(* Two sets that a function pairs off, and an interval with a number out.  *)
LEMMA PairedOff ==
    ASSUME NEW S, NEW T, IsFiniteSet(S), NEW f \in [S -> T],
           \A x, y \in S : f[x] = f[y] => x = y,
           \A y \in T : \E x \in S : f[x] = y
    PROVE  Cardinality(T) = Cardinality(S)
  <1>1. f \in Bijection(S, T)
    BY DEF Bijection, Injection, Surjection, IsInjective
  <1>2. ExistsBijection(S, T)
    BY <1>1 DEF ExistsBijection
  <1> QED
    BY <1>2, FS_Bijection

LEMMA AllBut ==
    ASSUME NEW a \in Int, NEW b \in Int, NEW x \in Int
    PROVE  Cardinality((a .. b) \ {x}) =
               IF a > b THEN 0 ELSE IF x \in a .. b THEN b - a ELSE b - a + 1
  <1>1. IsFiniteSet(a .. b) /\ Cardinality(a .. b) = IF a > b THEN 0 ELSE b - a + 1
    BY FS_Interval
  <1>2. Cardinality((a .. b) \ {x})
            = IF x \in a .. b THEN Cardinality(a .. b) - 1 ELSE Cardinality(a .. b)
    BY <1>1, FS_RemoveElement
  <1> QED
    BY <1>1, <1>2

(* Squares told apart by their row, or by their column, are as many as the *)
(* rows, or columns, they lie on.                                          *)
LEMMA OnePerRow ==
    ASSUME NEW S \in SUBSET Squares, NEW A,
           \A q \in S : RowOf(q) \in A, \A k \in A : \E q \in S : RowOf(q) = k,
           \A q, t \in S : RowOf(q) = RowOf(t) => q = t
    PROVE  Cardinality(S) = Cardinality(A)
  <1> DEFINE f == [q \in S |-> RowOf(q)]
  <1>1. /\ f \in [S -> A]
        /\ \A x, y \in S : f[x] = f[y] => x = y
        /\ \A y \in A : \E x \in S : f[x] = y
    OBVIOUS
  <1> HIDE DEF f
  <1> QED
    BY <1>1, SquaresFinite, PairedOff

LEMMA OnePerColumn ==
    ASSUME NEW S \in SUBSET Squares, NEW A,
           \A q \in S : ColOf(q) \in A, \A k \in A : \E q \in S : ColOf(q) = k,
           \A q, t \in S : ColOf(q) = ColOf(t) => q = t
    PROVE  Cardinality(S) = Cardinality(A)
  <1> DEFINE f == [q \in S |-> ColOf(q)]
  <1>1. /\ f \in [S -> A]
        /\ \A x, y \in S : f[x] = f[y] => x = y
        /\ \A y \in A : \E x \in S : f[x] = y
    OBVIOUS
  <1> HIDE DEF f
  <1> QED
    BY <1>1, SquaresFinite, PairedOff

LEMMA SquareOf ==
    /\ \A row, col \in 0 .. 7 : \E q \in Squares : RowOf(q) = row /\ ColOf(q) = col
    /\ \A q, t \in Squares : RowOf(q) = RowOf(t) /\ ColOf(q) = ColOf(t) => q = t
  <1>1. \A row, col \in 0 .. 7 : /\ 8 * row + col \in Squares
                                 /\ RowOf(8 * row + col) = row /\ ColOf(8 * row + col) = col
    BY DEF Squares, RowOf, ColOf
  <1>2. \A q \in Squares : q = 8 * RowOf(q) + ColOf(q)
    BY DEF Squares, RowOf, ColOf
  <1> QED
    BY <1>1, <1>2

(* The squares on the lines through s, by their coordinates.               *)
LEMMA StraightLines ==
    ASSUME NEW s \in Squares, NEW q
    PROVE  q \in UNION {Ray[s][d] : d \in Straights} <=>
               /\ q \in Squares /\ q # s
               /\ ColOf(q) = ColOf(s) \/ RowOf(q) = RowOf(s)
  <1>1. CASE q \in Squares
    <2>1. \A d \in Straights : q \in Ray[s][d] <=>
              \E k \in 1 .. 7 : Goes(s, q, k, d[1], d[2])
      BY <1>1, RayGoes, Steps
    <2>2. /\ RowOf(s) \in 0 .. 7 /\ ColOf(s) \in 0 .. 7
          /\ RowOf(q) \in 0 .. 7 /\ ColOf(q) \in 0 .. 7
      BY <1>1, Coordinates
    <2>3. q # s <=> RowOf(q) # RowOf(s) \/ ColOf(q) # ColOf(s)
      BY <1>1, SquareOf
    <2>4. ASSUME NEW d \in Straights, q \in Ray[s][d]
          PROVE  q # s /\ (ColOf(q) = ColOf(s) \/ RowOf(q) = RowOf(s))
      <3>1. PICK k \in 1 .. 7 : Goes(s, q, k, d[1], d[2])
        BY <2>1, <2>4
      <3>2. (d[1] = 0 /\ d[2] \in {-1, 1}) \/ (d[2] = 0 /\ d[1] \in {-1, 1})
        BY Steps
      <3> QED
        BY <2>2, <2>3, <3>1, <3>2 DEF Goes, Along
    <2>5. ASSUME q # s, ColOf(q) = ColOf(s) \/ RowOf(q) = RowOf(s)
          PROVE  \E d \in Straights : q \in Ray[s][d]
      <3>1. /\ <<0, 1>> \in Straights /\ <<0, -1>> \in Straights
            /\ <<1, 0>> \in Straights /\ <<-1, 0>> \in Straights
        BY DEF Straights
      <3>2. CASE RowOf(q) > RowOf(s) /\ ColOf(q) = ColOf(s)
        <4>1. RowOf(q) - RowOf(s) \in 1 .. 7 /\ Goes(s, q, RowOf(q) - RowOf(s), 0, 1)
          BY <2>2, <3>2 DEF Goes, Along
        <4>2. q \in Ray[s][<<0, 1>>]
          BY <2>1, <3>1, <4>1
        <4> QED
          BY <3>1, <4>2
      <3>3. CASE RowOf(q) < RowOf(s) /\ ColOf(q) = ColOf(s)
        <4>1. RowOf(s) - RowOf(q) \in 1 .. 7 /\ Goes(s, q, RowOf(s) - RowOf(q), 0, -1)
          BY <2>2, <3>3 DEF Goes, Along
        <4>2. q \in Ray[s][<<0, -1>>]
          BY <2>1, <3>1, <4>1
        <4> QED
          BY <3>1, <4>2
      <3>4. CASE ColOf(q) > ColOf(s) /\ RowOf(q) = RowOf(s)
        <4>1. ColOf(q) - ColOf(s) \in 1 .. 7 /\ Goes(s, q, ColOf(q) - ColOf(s), 1, 0)
          BY <2>2, <3>4 DEF Goes, Along
        <4>2. q \in Ray[s][<<1, 0>>]
          BY <2>1, <3>1, <4>1
        <4> QED
          BY <3>1, <4>2
      <3>5. CASE ColOf(q) < ColOf(s) /\ RowOf(q) = RowOf(s)
        <4>1. ColOf(s) - ColOf(q) \in 1 .. 7 /\ Goes(s, q, ColOf(s) - ColOf(q), -1, 0)
          BY <2>2, <3>5 DEF Goes, Along
        <4>2. q \in Ray[s][<<-1, 0>>]
          BY <2>1, <3>1, <4>1
        <4> QED
          BY <3>1, <4>2
      <3> QED
        BY <2>2, <2>3, <2>5, <3>2, <3>3, <3>4, <3>5
    <2> QED
      BY <1>1, <2>4, <2>5
  <1>2. CASE q \notin Squares
    <2>1. \A d \in Straights : q \notin Ray[s][d]
      BY <1>2, RayDef, Steps
    <2> QED
      BY <1>2, <2>1
  <1> QED
    BY <1>1, <1>2

LEMMA DiagonalLines ==
    ASSUME NEW s \in Squares, NEW q
    PROVE  q \in UNION {Ray[s][d] : d \in Diagonals} <=>
               /\ q \in Squares /\ RowOf(q) # RowOf(s)
               /\ \/ RowOf(q) - RowOf(s) = ColOf(q) - ColOf(s)
                  \/ RowOf(q) - RowOf(s) = ColOf(s) - ColOf(q)
  <1>1. CASE q \in Squares
    <2>1. \A d \in Diagonals : q \in Ray[s][d] <=>
              \E k \in 1 .. 7 : Goes(s, q, k, d[1], d[2])
      BY <1>1, RayGoes, Steps
    <2>2. /\ RowOf(s) \in 0 .. 7 /\ ColOf(s) \in 0 .. 7
          /\ RowOf(q) \in 0 .. 7 /\ ColOf(q) \in 0 .. 7
      BY <1>1, Coordinates
    <2>4. ASSUME NEW d \in Diagonals, q \in Ray[s][d]
          PROVE  /\ RowOf(q) # RowOf(s)
                 /\ \/ RowOf(q) - RowOf(s) = ColOf(q) - ColOf(s)
                    \/ RowOf(q) - RowOf(s) = ColOf(s) - ColOf(q)
      <3>1. PICK k \in 1 .. 7 : Goes(s, q, k, d[1], d[2])
        BY <2>1, <2>4
      <3>2. d[1] \in {-1, 1} /\ d[2] \in {-1, 1}
        BY Steps
      <3> QED
        BY <2>2, <3>1, <3>2 DEF Goes, Along
    <2>5. ASSUME RowOf(q) # RowOf(s),
                 \/ RowOf(q) - RowOf(s) = ColOf(q) - ColOf(s)
                 \/ RowOf(q) - RowOf(s) = ColOf(s) - ColOf(q)
          PROVE  \E d \in Diagonals : q \in Ray[s][d]
      <3>1. /\ <<1, 1>> \in Diagonals /\ <<1, -1>> \in Diagonals
            /\ <<-1, 1>> \in Diagonals /\ <<-1, -1>> \in Diagonals
        BY DEF Diagonals
      <3>2. CASE RowOf(q) > RowOf(s) /\ RowOf(q) - RowOf(s) = ColOf(q) - ColOf(s)
        <4>1. RowOf(q) - RowOf(s) \in 1 .. 7 /\ Goes(s, q, RowOf(q) - RowOf(s), 1, 1)
          BY <2>2, <3>2 DEF Goes, Along
        <4>2. q \in Ray[s][<<1, 1>>]
          BY <2>1, <3>1, <4>1
        <4> QED
          BY <3>1, <4>2
      <3>3. CASE RowOf(q) < RowOf(s) /\ RowOf(q) - RowOf(s) = ColOf(q) - ColOf(s)
        <4>1. RowOf(s) - RowOf(q) \in 1 .. 7 /\ Goes(s, q, RowOf(s) - RowOf(q), -1, -1)
          BY <2>2, <3>3 DEF Goes, Along
        <4>2. q \in Ray[s][<<-1, -1>>]
          BY <2>1, <3>1, <4>1
        <4> QED
          BY <3>1, <4>2
      <3>4. CASE RowOf(q) > RowOf(s) /\ RowOf(q) - RowOf(s) = ColOf(s) - ColOf(q)
        <4>1. RowOf(q) - RowOf(s) \in 1 .. 7 /\ Goes(s, q, RowOf(q) - RowOf(s), -1, 1)
          BY <2>2, <3>4 DEF Goes, Along
        <4>2. q \in Ray[s][<<-1, 1>>]
          BY <2>1, <3>1, <4>1
        <4> QED
          BY <3>1, <4>2
      <3>5. CASE RowOf(q) < RowOf(s) /\ RowOf(q) - RowOf(s) = ColOf(s) - ColOf(q)
        <4>1. RowOf(s) - RowOf(q) \in 1 .. 7 /\ Goes(s, q, RowOf(s) - RowOf(q), 1, -1)
          BY <2>2, <3>5 DEF Goes, Along
        <4>2. q \in Ray[s][<<1, -1>>]
          BY <2>1, <3>1, <4>1
        <4> QED
          BY <3>1, <4>2
      <3> QED
        BY <2>2, <2>5, <3>2, <3>3, <3>4, <3>5
    <2> QED
      BY <1>1, <2>4, <2>5
  <1>2. CASE q \notin Squares
    <2>1. \A d \in Diagonals : q \notin Ray[s][d]
      BY <1>2, RayDef, Steps
    <2> QED
      BY <1>2, <2>1
  <1> QED
    BY <1>1, <1>2

(* The squares of a rook's mask: those of its row and those of its column. *)
LEMMA RookCount ==
    ASSUME NEW s \in Squares
    PROVE  /\ Cardinality(gen_rook_mask(s)) = ROOK_RELEVANT_BITS[s]
           /\ ROOK_RELEVANT_BITS[s] \in {10, 11, 12}
  <1> DEFINE r == RowOf(s)
             c == ColOf(s)
             across == {q \in Squares : RowOf(q) = r /\ ColOf(q) \in (1 .. 6) \ {c}}
             along == {q \in Squares : ColOf(q) = c /\ RowOf(q) \in (1 .. 6) \ {r}}
  <1>1. r \in 0 .. 7 /\ c \in 0 .. 7
    BY Coordinates
  <1>2. gen_rook_mask(s) = across \cup along
    <2>1. \A q : q \in gen_rook_mask(s) <=>
              /\ q \in Squares /\ q # s /\ (ColOf(q) = c \/ RowOf(q) = r)
              /\ ColOf(q) = c => RowOf(q) \in 1 .. 6
              /\ RowOf(q) = r => ColOf(q) \in 1 .. 6
      BY StraightLines DEF gen_rook_mask
    <2>2. \A q \in Squares : q # s <=> RowOf(q) # r \/ ColOf(q) # c
      BY SquareOf
    <2>3. \A q : q \in gen_rook_mask(s) <=> q \in across \/ q \in along
      <3> HIDE DEF r, c
      <3> QED
        BY <2>1, <2>2
    <2> QED
      BY <2>3
  <1>3. Cardinality(across) = Cardinality((1 .. 6) \ {c})
    <2>1. \A k \in (1 .. 6) \ {c} : \E q \in across : ColOf(q) = k
      BY <1>1, SquareOf
    <2>2. \A q, t \in across : ColOf(q) = ColOf(t) => q = t
      BY SquareOf
    <2>3. across \in SUBSET Squares /\ \A q \in across : ColOf(q) \in (1 .. 6) \ {c}
      OBVIOUS
    <2> HIDE DEF across, c
    <2> QED
      BY <2>1, <2>2, <2>3, OnePerColumn
  <1>4. Cardinality(along) = Cardinality((1 .. 6) \ {r})
    <2>1. \A k \in (1 .. 6) \ {r} : \E q \in along : RowOf(q) = k
      BY <1>1, SquareOf
    <2>2. \A q, t \in along : RowOf(q) = RowOf(t) => q = t
      BY SquareOf
    <2>3. along \in SUBSET Squares /\ \A q \in along : RowOf(q) \in (1 .. 6) \ {r}
      OBVIOUS
    <2> HIDE DEF along, r
    <2> QED
      BY <2>1, <2>2, <2>3, OnePerRow
  <1>5. across \cap along = {} /\ across \in SUBSET Squares /\ along \in SUBSET Squares
    OBVIOUS
  <1>6. \A x \in 0 .. 7 : Cardinality((1 .. 6) \ {x}) = IF x \in {0, 7} THEN 6 ELSE 5
    <2> SUFFICES ASSUME NEW x \in 0 .. 7
                 PROVE  Cardinality((1 .. 6) \ {x}) = IF x \in {0, 7} THEN 6 ELSE 5
      OBVIOUS
    <2>1. x \in Int /\ 1 \in Int /\ 6 \in Int
      OBVIOUS
    <2>2. Cardinality((1 .. 6) \ {x}) = IF 1 > 6 THEN 0 ELSE IF x \in 1 .. 6 THEN 6 - 1 ELSE 6 - 1 + 1
      BY <2>1, AllBut
    <2> QED
      BY <2>2
  <1>7. Cardinality(gen_rook_mask(s)) = Cardinality(across) + Cardinality(along)
    <2> HIDE DEF across, along
    <2>1. IsFiniteSet(across) /\ IsFiniteSet(along)
      BY <1>5, SquaresFinite
    <2>2. /\ Cardinality(across \cup along)
                = Cardinality(across) + Cardinality(along) - Cardinality(across \cap along)
          /\ Cardinality(across) \in Nat /\ Cardinality(along) \in Nat
      BY <2>1, FS_Union, FS_CardinalityType
    <2>3. Cardinality(across \cap along) = 0
      BY <1>5, FS_EmptySet
    <2> QED
      BY <1>2, <2>2, <2>3
  <1>8. /\ r \in {0, 7} /\ c \in {0, 7} => ROOK_RELEVANT_BITS[s] = 12
        /\ r \in {0, 7} /\ c \notin {0, 7} => ROOK_RELEVANT_BITS[s] = 11
        /\ r \notin {0, 7} /\ c \in {0, 7} => ROOK_RELEVANT_BITS[s] = 11
        /\ r \notin {0, 7} /\ c \notin {0, 7} => ROOK_RELEVANT_BITS[s] = 10
    <2> DEFINE E == {x \in {"row", "col"} :
                        IF x = "row" THEN RowOf(s) \in {0, 7} ELSE ColOf(s) \in {0, 7}}
    <2>1. ROOK_RELEVANT_BITS[s] = 10 + Cardinality(E)
      BY DEF ROOK_RELEVANT_BITS
    <2>2. /\ r \in {0, 7} /\ c \in {0, 7} => E = {"row"} \cup {"col"}
          /\ r \in {0, 7} /\ c \notin {0, 7} => E = {"row"}
          /\ r \notin {0, 7} /\ c \in {0, 7} => E = {"col"}
          /\ r \notin {0, 7} /\ c \notin {0, 7} => E = {}
      OBVIOUS
    <2>3. /\ Cardinality({"row"}) = 1 /\ Cardinality({"col"}) = 1 /\ Cardinality({}) = 0
          /\ IsFiniteSet({"row"})
      BY FS_Singleton, FS_EmptySet
    <2>4. Cardinality({"row"} \cup {"col"}) = 2
      <3>1. Cardinality({"row"} \cup {"col"})
                = IF "col" \in {"row"} THEN Cardinality({"row"}) ELSE Cardinality({"row"}) + 1
        BY <2>3, FS_AddElement
      <3> QED
        BY <2>3, <3>1
    <2> HIDE DEF E, r, c
    <2> QED
      BY <2>1, <2>2, <2>3, <2>4
  <1> HIDE DEF across, along, r, c
  <1>9. /\ Cardinality(across) = IF c \in {0, 7} THEN 6 ELSE 5
        /\ Cardinality(along) = IF r \in {0, 7} THEN 6 ELSE 5
    BY <1>1, <1>3, <1>4, <1>6
  <1> QED
    BY <1>7, <1>8, <1>9

LEMMA RingIs ==
    ASSUME NEW s \in Squares
    PROVE  LET r == RowOf(s)
               c == ColOf(s)
           IN /\ Ring(s) \in {r, 7 - r, c, 7 - c}
              /\ Ring(s) <= r /\ Ring(s) <= 7 - r /\ Ring(s) <= c /\ Ring(s) <= 7 - c
  <1> DEFINE r == RowOf(s)
             c == ColOf(s)
             S == {r, 7 - r, c, 7 - c}
  <1>1. r \in 0 .. 7 /\ c \in 0 .. 7
    BY Coordinates
  <1>2. S \in SUBSET Nat /\ S # {}
    BY <1>1
  <1>3. \E x \in S : \A y \in S : x <= y
    <2> HIDE DEF S
    <2> QED
      BY <1>2, Least
  <1>4. Ring(s) = Min(S)
    BY DEF Ring
  <1>5. Min(S) \in S /\ \A y \in S : Min(S) <= y
    <2> HIDE DEF S
    <2> QED
      BY <1>3 DEF Min
  <1> QED
    BY <1>4, <1>5

(* The squares of a bishop's mask: those of its two diagonals.             *)
LEMMA BishopCount ==
    ASSUME NEW s \in Squares
    PROVE  /\ Cardinality(gen_bishop_mask(s)) = BISHOP_RELEVANT_BITS[s]
           /\ BISHOP_RELEVANT_BITS[s] \in {5, 6, 7, 9}
  <1> DEFINE r == RowOf(s)
             c == ColOf(s)
             lo(x) == IF x < 0 THEN 1 ELSE 1 + x
             hi(x) == IF x < 0 THEN 6 + x ELSE 6
             up == {q \in Squares : /\ RowOf(q) \in (lo(r - c) .. hi(r - c)) \ {r}
                                    /\ RowOf(q) - ColOf(q) = r - c}
             down == {q \in Squares : /\ RowOf(q) \in (lo(r + c - 7) .. hi(r + c - 7)) \ {r}
                                      /\ RowOf(q) + ColOf(q) = r + c}
  <1>1. r \in 0 .. 7 /\ c \in 0 .. 7
    BY Coordinates
  <1>2. gen_bishop_mask(s) = up \cup down
    <2>1. \A q : q \in gen_bishop_mask(s) <=>
              /\ q \in Squares /\ RowOf(q) # r /\ RowOf(q) \in 1 .. 6 /\ ColOf(q) \in 1 .. 6
              /\ RowOf(q) - r = ColOf(q) - c \/ RowOf(q) - r = c - ColOf(q)
      BY DiagonalLines DEF gen_bishop_mask
    <2>2. \A q : q \in gen_bishop_mask(s) <=> q \in up \/ q \in down
      <3>1. \A q \in Squares : RowOf(q) \in 0 .. 7 /\ ColOf(q) \in 0 .. 7
        BY Coordinates
      <3> HIDE DEF r, c
      <3> QED
        BY <1>1, <2>1, <3>1
    <2> QED
      BY <2>2
  <1>3. Cardinality(up) = Cardinality((lo(r - c) .. hi(r - c)) \ {r})
    <2> DEFINE A == (lo(r - c) .. hi(r - c)) \ {r}
    <2>1. \A k \in A : \E q \in up : RowOf(q) = k
      <3> SUFFICES ASSUME NEW k \in A PROVE \E q \in up : RowOf(q) = k
        OBVIOUS
      <3>1. k \in 0 .. 7 /\ k - (r - c) \in 0 .. 7
        BY <1>1
      <3>2. PICK q \in Squares : RowOf(q) = k /\ ColOf(q) = k - (r - c)
        BY <3>1, SquareOf
      <3>3. RowOf(q) - ColOf(q) = r - c
        BY <1>1, <3>1, <3>2
      <3> QED
        BY <3>2, <3>3
    <2>2. \A q, t \in up : RowOf(q) = RowOf(t) => q = t
      <3>1. \A q \in Squares : RowOf(q) \in 0 .. 7 /\ ColOf(q) \in 0 .. 7
        BY Coordinates
      <3>2. \A q, t \in up : RowOf(q) = RowOf(t) => ColOf(q) = ColOf(t)
        BY <1>1, <3>1
      <3> QED
        BY <3>2, SquareOf
    <2>3. up \in SUBSET Squares /\ \A q \in up : RowOf(q) \in A
      OBVIOUS
    <2> HIDE DEF up, A
    <2>4. Cardinality(up) = Cardinality(A)
      BY <2>1, <2>2, <2>3, OnePerRow
    <2> QED
      BY <2>4 DEF A
  <1>4. Cardinality(down) = Cardinality((lo(r + c - 7) .. hi(r + c - 7)) \ {r})
    <2> DEFINE A == (lo(r + c - 7) .. hi(r + c - 7)) \ {r}
    <2>1. \A k \in A : \E q \in down : RowOf(q) = k
      <3> SUFFICES ASSUME NEW k \in A PROVE \E q \in down : RowOf(q) = k
        OBVIOUS
      <3>1. k \in 0 .. 7 /\ (r + c) - k \in 0 .. 7
        BY <1>1
      <3>2. PICK q \in Squares : RowOf(q) = k /\ ColOf(q) = (r + c) - k
        BY <3>1, SquareOf
      <3>3. RowOf(q) + ColOf(q) = r + c
        BY <1>1, <3>1, <3>2
      <3> QED
        BY <3>2, <3>3
    <2>2. \A q, t \in down : RowOf(q) = RowOf(t) => q = t
      <3>1. \A q \in Squares : RowOf(q) \in 0 .. 7 /\ ColOf(q) \in 0 .. 7
        BY Coordinates
      <3>2. \A q, t \in down : RowOf(q) = RowOf(t) => ColOf(q) = ColOf(t)
        BY <1>1, <3>1
      <3> QED
        BY <3>2, SquareOf
    <2>3. down \in SUBSET Squares /\ \A q \in down : RowOf(q) \in A
      OBVIOUS
    <2> HIDE DEF down, A
    <2>4. Cardinality(down) = Cardinality(A)
      BY <2>1, <2>2, <2>3, OnePerRow
    <2> QED
      BY <2>4 DEF A
  <1>5. up \cap down = {} /\ up \in SUBSET Squares /\ down \in SUBSET Squares
    <2>1. \A q \in Squares : RowOf(q) \in 0 .. 7 /\ ColOf(q) \in 0 .. 7
      BY Coordinates
    <2>2. \A q : q \in up /\ q \in down => FALSE
      BY <1>1, <2>1
    <2> QED
      BY <2>2
  <1> DEFINE size(a, b) == IF a > b THEN 0 ELSE IF r \in a .. b THEN b - a ELSE b - a + 1
  <1>6. \A x \in Int : Cardinality((lo(x) .. hi(x)) \ {r}) = size(lo(x), hi(x))
    <2> SUFFICES ASSUME NEW x \in Int
                 PROVE  Cardinality((lo(x) .. hi(x)) \ {r}) = size(lo(x), hi(x))
      OBVIOUS
    <2>1. lo(x) \in Int /\ hi(x) \in Int /\ r \in Int
      BY <1>1
    <2> HIDE DEF lo, hi, r
    <2> QED
      BY <2>1, AllBut
  <1>7. Cardinality(gen_bishop_mask(s)) = Cardinality(up) + Cardinality(down)
    <2> HIDE DEF up, down
    <2>1. IsFiniteSet(up) /\ IsFiniteSet(down)
      BY <1>5, SquaresFinite
    <2>2. /\ Cardinality(up \cup down)
                = Cardinality(up) + Cardinality(down) - Cardinality(up \cap down)
          /\ Cardinality(up) \in Nat /\ Cardinality(down) \in Nat
      BY <2>1, FS_Union, FS_CardinalityType
    <2>3. Cardinality(up \cap down) = 0
      BY <1>5, FS_EmptySet
    <2> QED
      BY <1>2, <2>2, <2>3
  <1>8. Cardinality(gen_bishop_mask(s))
            = size(lo(r - c), hi(r - c)) + size(lo(r + c - 7), hi(r + c - 7))
    <2>1. r - c \in Int /\ r + c - 7 \in Int
      BY <1>1
    <2>2. Cardinality(up) = size(lo(r - c), hi(r - c))
      BY <1>3, <1>6, <2>1
    <2>3. Cardinality(down) = size(lo(r + c - 7), hi(r + c - 7))
      BY <1>4, <1>6, <2>1
    <2> HIDE DEF size, lo, hi, up, down
    <2> QED
      BY <1>7, <2>2, <2>3
  <1>9. BISHOP_RELEVANT_BITS[s] = IF s \in {0, 7, 56, 63} THEN 6
            ELSE IF Ring(s) < 2 THEN 5 ELSE IF Ring(s) = 2 THEN 7 ELSE 9
    <2>1. Ring(s) \in {0, 1, 2, 3}
      <3>1. LET x == Ring(s) IN x \in {r, 7 - r, c, 7 - c} /\ x <= r /\ x <= 7 - r
        BY RingIs
      <3> HIDE DEF r, c
      <3> QED
        BY <1>1, <3>1
    <2>2. /\ <<5, 5, 7, 9>>[1] = 5 /\ <<5, 5, 7, 9>>[2] = 5
          /\ <<5, 5, 7, 9>>[3] = 7 /\ <<5, 5, 7, 9>>[4] = 9
      OBVIOUS
    <2>3. <<5, 5, 7, 9>>[Ring(s) + 1] = IF Ring(s) < 2 THEN 5 ELSE IF Ring(s) = 2 THEN 7 ELSE 9
      <3>1. CASE Ring(s) = 0
        BY <3>1, <2>2
      <3>2. CASE Ring(s) = 1
        BY <3>2, <2>2
      <3>3. CASE Ring(s) = 2
        BY <3>3, <2>2
      <3>4. CASE Ring(s) = 3
        BY <3>4, <2>2
      <3> QED
        BY <2>1, <3>1, <3>2, <3>3, <3>4
    <2> QED
      BY <2>3 DEF BISHOP_RELEVANT_BITS
  <1>10. s \in {0, 7, 56, 63} <=> r \in {0, 7} /\ c \in {0, 7}
    <2>1. s = 8 * r + c
      BY DEF Squares, RowOf, ColOf
    <2> HIDE DEF r, c
    <2> QED
      BY <1>1, <2>1
  <1>11. /\ Ring(s) \in {r, 7 - r, c, 7 - c}
         /\ Ring(s) <= r /\ Ring(s) <= 7 - r /\ Ring(s) <= c /\ Ring(s) <= 7 - c
    BY RingIs
  <1> HIDE DEF r, c, up, down
  <1>12. size(lo(r - c), hi(r - c)) + size(lo(r + c - 7), hi(r + c - 7))
            = IF r \in {0, 7} /\ c \in {0, 7} THEN 6
              ELSE IF Ring(s) < 2 THEN 5 ELSE IF Ring(s) = 2 THEN 7 ELSE 9
    BY <1>1, <1>11
  <1> HIDE DEF size, lo, hi
  <1> QED
    BY <1>8, <1>9, <1>10, <1>12

-----------------------------------------------------------------------------
(* The terms of the search, for the pair p: none depends on the state.     *)
EntriesOf(p) == 0 .. 2 ^ BitsOf(p) - 1
Config(p, n) == gen_blocker_config(n, BitsOf(p), MaskOf(p))
Entry(p, number, n) == Index(number, Config(p, n), MaskOf(p), BitsOf(p))
AttacksOf(p, blockers) ==
    IF p[1] = "bishop" THEN gen_bishop_attacks(p[2], blockers)
    ELSE gen_rook_attacks(p[2], blockers)

Enumerates(p) == {Config(p, n) : n \in EntriesOf(p)} = SUBSET MaskOf(p)

LEMMA TermsAre ==
    /\ relevant_bits = BitsOf(job) /\ relevant_mask = MaskOf(job)
    /\ num_blockers = 2 ^ BitsOf(job) /\ Entries = EntriesOf(job)
    /\ blocker = Config(job, config)
    /\ \A B : Attacks(B) = AttacksOf(job, B)
  BY DEF relevant_bits, relevant_mask, num_blockers, Entries, EntriesOf, blocker, Config,
         Attacks, AttacksOf, Slider, Square

LEMMA PairFacts ==
    ASSUME NEW p \in Searched
    PROVE  /\ \A B : AttacksOf(p, B) \in SUBSET Squares /\ AttacksOf(p, B) # {}
           /\ \A B : AttacksOf(p, B \cap MaskOf(p)) = AttacksOf(p, B)
           /\ \A n : Config(p, n) \in SUBSET MaskOf(p)
           /\ MaskOf(p) \in SUBSET Squares
           /\ \A m \in Magics : \A n : Entry(p, m, n) \in EntriesOf(p)
  <1>1. p[1] \in {"bishop", "rook"} /\ p[2] \in Squares
    BY SearchAssumption
  <1>2. \A dirs \in SUBSET Directions : \A B : Walk(p[2], dirs, B) \in SUBSET Squares
    BY <1>1 DEF Walk, Ray
  <1>3. Diagonals \in SUBSET Directions /\ Straights \in SUBSET Directions
    BY DEF Directions
  <1>4. \A B : AttacksOf(p, B) \in SUBSET Squares
    BY <1>2, <1>3 DEF AttacksOf, gen_bishop_attacks, gen_rook_attacks
  <1>5. \A B : AttacksOf(p, B) # {}
    BY <1>1, NeverEmpty DEF AttacksOf
  <1>6. \A B : AttacksOf(p, B \cap MaskOf(p)) = AttacksOf(p, B)
    BY <1>1, MaskSuffices DEF AttacksOf, MaskOf
  <1>7. \A n : Config(p, n) \in SUBSET MaskOf(p)
    BY DEF Config, gen_blocker_config
  <1>8. MaskOf(p) \in SUBSET Squares
    BY <1>1, <1>3 DEF MaskOf, gen_bishop_mask, gen_rook_mask, Ray
  <1>9. \A m \in Magics : \A n : Entry(p, m, n) \in EntriesOf(p)
    BY <1>7, HashAssumption DEF Entry, EntriesOf
  <1> QED
    BY <1>4, <1>5, <1>6, <1>7, <1>8, <1>9

(* The table of relevant bits counts the squares of the mask, and every    *)
(* set of them is one of the program's blocker configurations.             *)
LEMMA BitsAreCounts ==
    ASSUME NEW p \in Searched
    PROVE  /\ Cardinality(MaskOf(p)) = BitsOf(p) /\ BitsOf(p) \in 0 .. 12
           /\ 2 ^ BitsOf(p) <= IF p[1] = "bishop" THEN 512 ELSE 4096
           /\ Enumerates(p)
  <1>1. p[1] \in {"bishop", "rook"} /\ p[2] \in Squares
    BY SearchAssumption
  <1>2. /\ Cardinality(MaskOf(p)) = BitsOf(p)
        /\ p[1] = "bishop" => BitsOf(p) \in {5, 6, 7, 9}
        /\ p[1] # "bishop" => BitsOf(p) \in {10, 11, 12}
    BY <1>1, RookCount, BishopCount DEF MaskOf, BitsOf
  <1> DEFINE n == BitsOf(p)
  <1>3. n \in 0 .. 12
    BY <1>2
  <1>4. 2 ^ n <= IF p[1] = "bishop" THEN 512 ELSE 4096
    <2>1. n = 5 => 2 ^ n = 32
      <3> SUFFICES ASSUME n = 5 PROVE 2 ^ n = 32
        OBVIOUS
      <3> HIDE DEF n
      <3> QED
        BY PowersOfTwo
    <2>2. n = 6 => 2 ^ n = 64
      <3> SUFFICES ASSUME n = 6 PROVE 2 ^ n = 64
        OBVIOUS
      <3> HIDE DEF n
      <3> QED
        BY PowersOfTwo
    <2>3. n = 7 => 2 ^ n = 128
      <3> SUFFICES ASSUME n = 7 PROVE 2 ^ n = 128
        OBVIOUS
      <3> HIDE DEF n
      <3> QED
        BY PowersOfTwo
    <2>4. n = 9 => 2 ^ n = 512
      <3> SUFFICES ASSUME n = 9 PROVE 2 ^ n = 512
        OBVIOUS
      <3> HIDE DEF n
      <3> QED
        BY PowersOfTwo
    <2>5. n = 10 => 2 ^ n = 1024
      <3> SUFFICES ASSUME n = 10 PROVE 2 ^ n = 1024
        OBVIOUS
      <3> HIDE DEF n
      <3> QED
        BY PowersOfTwo
    <2>6. n = 11 => 2 ^ n = 2048
      <3> SUFFICES ASSUME n = 11 PROVE 2 ^ n = 2048
        OBVIOUS
      <3> HIDE DEF n
      <3> QED
        BY PowersOfTwo
    <2>7. n = 12 => 2 ^ n = 4096
      <3> SUFFICES ASSUME n = 12 PROVE 2 ^ n = 4096
        OBVIOUS
      <3> HIDE DEF n
      <3> QED
        BY PowersOfTwo
    <2> QED
      BY <1>2, <2>1, <2>2, <2>3, <2>4, <2>5, <2>6, <2>7
  <1>5. MaskOf(p) \in SUBSET Squares
    BY PairFacts
  <1>6. {gen_blocker_config(x, n, MaskOf(p)) : x \in 0 .. 2 ^ n - 1} = SUBSET MaskOf(p)
    BY <1>2, <1>3, <1>5, EveryBlockers
  <1> QED
    BY <1>2, <1>3, <1>4, <1>6 DEF Enumerates, EntriesOf, Config

(***************************************************************************)
(* For every square of either slider, the relevant bits typed in           *)
(* (gen_sp_tables.c) are as many as the squares of the mask that           *)
(* gen_bishop_mask or gen_rook_mask makes, so that the numbers the search  *)
(* and compute_magic_attack_tables count through give every set of         *)
(* blockers, and they fit the array of sp.h.                               *)
(***************************************************************************)
THEOREM MasksAreEnumerated == TablesSpec => []EnumeratesBlockers
  <1> DEFINE Known == job \in Searched
  <1>1. TablesInit => Known
    BY DEF TablesInit
  <1>2. Known /\ [TablesNext]_vars => Known'
    BY DEF TablesNext, StartSearch, PickMagic, GiveUp, TestConfig, KeepMagic, FillEntry,
           ExportTable, vars
  <1>3. Known => EnumeratesBlockers
    <2> SUFFICES ASSUME job \in Searched PROVE EnumeratesBlockers
      OBVIOUS
    <2>1. PICK p : p = job
      OBVIOUS
    <2>2. p \in Searched
      BY <2>1
    <2>3. /\ Enumerates(p)
          /\ 2 ^ BitsOf(p) <= IF p[1] = "bishop" THEN 512 ELSE 4096
      BY <2>2, BitsAreCounts
    <2>4. {gen_blocker_config(n, relevant_bits, relevant_mask) : n \in Entries} = SUBSET relevant_mask
      BY <2>1, <2>3, TermsAre DEF Enumerates, Config
    <2>5. num_blockers <= MAX_ATTACKS
      BY <2>1, <2>3, TermsAre DEF MAX_ATTACKS, Slider
    <2> QED
      BY <2>4, <2>5 DEF EnumeratesBlockers
  <1> QED
    BY <1>1, <1>2, <1>3, PTL DEF TablesSpec

-----------------------------------------------------------------------------
(***************************************************************************)
(* The invariant.  While a number is tried, the entries of the sets tried  *)
(* hold their attacks; when it is kept, sets that share an entry share     *)
(* their attacks; then the table is filled to match, and is exported so.   *)
(***************************************************************************)
Filled(p, table, number, k) ==
    /\ table \in [EntriesOf(p) -> SUBSET Squares]
    /\ \A n \in 0 .. k - 1 : table[Entry(p, number, n)] = AttacksOf(p, Config(p, n))

Agrees(p, number) ==
    \A n, k \in EntriesOf(p) : Entry(p, number, n) = Entry(p, number, k) =>
        AttacksOf(p, Config(p, n)) = AttacksOf(p, Config(p, k))

Tables(p) == [mask : {MaskOf(p)}, bits : {BitsOf(p)}, number : Magics,
              attack_table : [EntriesOf(p) -> SUBSET Squares]]

Complete(p, T) ==
    /\ T \in Tables(p)
    /\ \A n \in EntriesOf(p) : T.attack_table[Entry(p, T.number, n)] = AttacksOf(p, Config(p, n))

Picking(p) == pc = "pick" => used \in [EntriesOf(p) -> SUBSET Squares]
Testing(p) == pc = "test" => magic \in Magics /\ config \in Nat /\ Filled(p, used, magic, config)
Filling(p) ==
    pc = "fill" => /\ magics \in Tables(p) /\ Agrees(p, magics.number)
                   /\ config \in Nat /\ 2 ^ BitsOf(p) \in Nat
                   /\ Filled(p, magics.attack_table, magics.number, config)
Ready(p) == pc = "ready" => Complete(p, compiled)

TablesTrue(p) ==
    p \in Searched /\ Enumerates(p) /\ Picking(p) /\ Testing(p) /\ Filling(p) /\ Ready(p)

TablesInv == TablesTrue(job)

LEMMA InitTables == TablesInit => TablesInv
  <1> SUFFICES ASSUME TablesInit PROVE TablesTrue(job)
    BY DEF TablesInv
  <1>1. Enumerates(job)
    <2>1. \A p \in Searched : Enumerates(p)
      BY BitsAreCounts
    <2> QED
      BY <2>1 DEF TablesInit
  <1> QED
    BY <1>1 DEF TablesInit, TablesTrue, Picking, Testing, Filling, Ready

LEMMA StepTables ==
    ASSUME NEW p, job = p, TablesTrue(p), [TablesNext]_vars
    PROVE  /\ job' = p
           /\ Picking(p)' /\ Testing(p)' /\ Filling(p)' /\ Ready(p)'
  <1>0. /\ relevant_bits = BitsOf(p) /\ relevant_mask = MaskOf(p)
        /\ num_blockers = 2 ^ BitsOf(p) /\ Entries = EntriesOf(p)
        /\ blocker = Config(p, config)
        /\ \A B : Attacks(B) = AttacksOf(p, B)
    BY TermsAre
  <1>1. /\ p \in Searched /\ Picking(p) /\ Testing(p) /\ Filling(p) /\ Ready(p)
        /\ \A B : AttacksOf(p, B) \in SUBSET Squares /\ AttacksOf(p, B) # {}
        /\ \A m \in Magics : \A n : Entry(p, m, n) \in EntriesOf(p)
    BY PairFacts DEF TablesTrue
  <1>2. EntriesOf(p) = 0 .. 2 ^ BitsOf(p) - 1
    BY DEF EntriesOf
  <1>3. empty_table \in [EntriesOf(p) -> SUBSET Squares]
    BY <1>0 DEF empty_table
  <1>4. CASE StartSearch
    BY <1>1, <1>3, <1>4 DEF StartSearch, Picking, Testing, Filling, Ready
  <1>5. CASE PickMagic
    <2>1. pc' = "test" /\ magic' \in Magics /\ config' = 0 /\ used' = empty_table
          /\ job' = job
      BY <1>5 DEF PickMagic
    <2>2. Filled(p, used', magic', config')
      BY <1>3, <2>1 DEF Filled
    <2> QED
      BY <1>1, <2>1, <2>2 DEF Picking, Testing, Filling, Ready, Filled
  <1>6. CASE GiveUp
    <2>1. pc = "pick" /\ pc' \in {"pick", "exit"} /\ UNCHANGED <<job, used>>
      BY <1>6 DEF GiveUp
    <2> QED
      BY <1>1, <2>1 DEF Picking, Testing, Filling, Ready
  <1>7. CASE TestConfig
    <2> DEFINE h == Entry(p, magic, config)
               A == AttacksOf(p, Config(p, config))
    <2>0. /\ pc = "test" /\ config < 2 ^ BitsOf(p) /\ UNCHANGED <<job, magic, magics>>
          /\ IF used[h] # {} /\ used[h] # A
             THEN pc' = "pick" /\ UNCHANGED <<used, config>>
             ELSE used' = [used EXCEPT ![h] = A] /\ config' = config + 1 /\ pc' = pc
      BY <1>0, <1>7 DEF TestConfig, Entry
    <2>1. magic \in Magics /\ config \in Nat /\ Filled(p, used, magic, config)
      BY <1>1, <2>0 DEF Testing
    <2>2. h \in EntriesOf(p) /\ A \in SUBSET Squares
      BY <1>1, <2>1
    <2>3. \A n \in 0 .. config - 1 : Entry(p, magic, n) \in EntriesOf(p)
                                /\ AttacksOf(p, Config(p, n)) # {}
      BY <1>1, <2>1
    <2> HIDE DEF h, A
    <2>4. CASE used[h] # {} /\ used[h] # A
      BY <1>1, <2>0, <2>1, <2>4 DEF Picking, Testing, Filling, Ready, Filled
    <2>5. CASE ~ (used[h] # {} /\ used[h] # A)
      <3>1. used' = [used EXCEPT ![h] = A] /\ config' = config + 1 /\ pc' = "test"
        BY <2>0, <2>5
      <3>2. used' \in [EntriesOf(p) -> SUBSET Squares]
        BY <2>1, <2>2, <3>1 DEF Filled
      <3>3. ASSUME NEW n \in 0 .. config
            PROVE  used'[Entry(p, magic, n)] = AttacksOf(p, Config(p, n))
        <4>1. CASE n = config
          BY <2>1, <2>2, <3>1, <4>1 DEF Filled, h, A
        <4>2. CASE n # config
          <5>1. n \in 0 .. config - 1
            BY <2>1, <4>2
          <5>2. used[Entry(p, magic, n)] = AttacksOf(p, Config(p, n))
            BY <2>1, <5>1 DEF Filled
          <5>3. CASE Entry(p, magic, n) = h
            <6>1. used[h] = A
              BY <2>3, <2>5, <5>1, <5>2, <5>3
            <6> QED
              BY <2>1, <2>2, <3>1, <5>2, <5>3, <6>1 DEF Filled
          <5>4. CASE Entry(p, magic, n) # h
            BY <2>1, <2>2, <2>3, <3>1, <5>1, <5>2, <5>4 DEF Filled
          <5> QED
            BY <5>3, <5>4
        <4> QED
          BY <4>1, <4>2
      <3>4. config + 1 \in Nat /\ (config + 1) - 1 = config
        BY <2>1
      <3>5. Filled(p, used', magic, config + 1)
        BY <3>2, <3>3, <3>4 DEF Filled
      <3> QED
        BY <1>1, <2>0, <2>1, <3>1, <3>4, <3>5 DEF Picking, Testing, Filling, Ready, Filled
    <2> QED
      BY <2>4, <2>5
  <1>8. CASE KeepMagic
    <2>0. /\ pc = "test" /\ config = 2 ^ BitsOf(p) /\ UNCHANGED job
          /\ magics' = [mask |-> MaskOf(p), bits |-> BitsOf(p), number |-> magic,
                        attack_table |-> empty_table]
          /\ config' = 0 /\ pc' = "fill"
      BY <1>0, <1>8 DEF KeepMagic
    <2>1. magic \in Magics /\ config \in Nat /\ Filled(p, used, magic, config)
      BY <1>1, <2>0 DEF Testing
    <2>2. \A n \in EntriesOf(p) : used[Entry(p, magic, n)] = AttacksOf(p, Config(p, n))
      BY <1>2, <2>0, <2>1 DEF Filled
    <2>3. Agrees(p, magic)
      <3> SUFFICES ASSUME NEW n \in EntriesOf(p), NEW k \in EntriesOf(p),
                          Entry(p, magic, n) = Entry(p, magic, k)
                   PROVE  AttacksOf(p, Config(p, n)) = AttacksOf(p, Config(p, k))
        BY DEF Agrees
      <3> QED
        BY <2>2
    <2>4. /\ magics' \in Tables(p) /\ magics'.number = magic
          /\ magics'.attack_table = empty_table
      BY <1>3, <2>0, <2>1 DEF Tables
    <2>5. Filled(p, magics'.attack_table, magics'.number, 0)
      BY <1>3, <2>4 DEF Filled
    <2> QED
      BY <1>1, <2>0, <2>1, <2>3, <2>4, <2>5
         DEF Picking, Testing, Filling, Ready, Agrees, Filled
  <1>9. CASE FillEntry
    <2> DEFINE T == magics.attack_table
               h == Entry(p, magics.number, config)
               A == AttacksOf(p, Config(p, config))
    <2>0. /\ pc = "fill" /\ pc' = pc /\ config < 2 ^ magics.bits /\ config' = config + 1
          /\ UNCHANGED job
      BY <1>9 DEF FillEntry
    <2>1. /\ magics \in Tables(p) /\ Agrees(p, magics.number) /\ config \in Nat
          /\ 2 ^ BitsOf(p) \in Nat /\ Filled(p, T, magics.number, config)
      BY <1>1, <2>0 DEF Filling
    <2>2. /\ magics.mask = MaskOf(p) /\ magics.bits = BitsOf(p) /\ magics.number \in Magics
          /\ T \in [EntriesOf(p) -> SUBSET Squares]
      BY <2>1 DEF Tables
    <2>3. magics' = [magics EXCEPT !.attack_table[h] = A]
      BY <1>0, <1>9, <2>2 DEF FillEntry, Entry
    <2>4. h \in EntriesOf(p) /\ A \in SUBSET Squares /\ config \in EntriesOf(p)
      BY <1>1, <1>2, <2>0, <2>1, <2>2
    <2> DEFINE U == [T EXCEPT ![h] = A]
    <2>5. U \in [EntriesOf(p) -> SUBSET Squares]
      BY <2>2, <2>4
    <2>6. magics' = [magics EXCEPT !.attack_table = U]
      BY <2>3
    <2>7. ASSUME NEW n \in 0 .. config
          PROVE  U[Entry(p, magics.number, n)] = AttacksOf(p, Config(p, n))
      <3>1. n \in EntriesOf(p) /\ Entry(p, magics.number, n) \in EntriesOf(p)
        BY <1>1, <1>2, <2>0, <2>1, <2>2
      <3>2. CASE Entry(p, magics.number, n) = h
        BY <2>1, <2>2, <2>4, <3>1, <3>2 DEF Agrees
      <3>3. CASE Entry(p, magics.number, n) # h
        <4>1. n # config
          BY <3>3
        <4>2. n \in 0 .. config - 1
          BY <2>1, <4>1
        <4>3. T[Entry(p, magics.number, n)] = AttacksOf(p, Config(p, n))
          BY <2>1, <4>2 DEF Filled
        <4> QED
          BY <2>2, <2>4, <3>1, <3>3, <4>3
      <3> QED
        BY <3>2, <3>3
    <2> HIDE DEF U, T, h, A
    <2>8. magics' \in Tables(p) /\ magics'.number = magics.number /\ magics'.attack_table = U
      BY <2>1, <2>5, <2>6 DEF Tables
    <2>9. config + 1 \in Nat /\ (config + 1) - 1 = config
      BY <2>1
    <2>10. Filled(p, U, magics.number, config + 1)
      BY <2>5, <2>7, <2>9 DEF Filled
    <2> QED
      BY <1>1, <2>0, <2>1, <2>8, <2>9, <2>10
         DEF Picking, Testing, Filling, Ready, Agrees, Filled
  <1>10. CASE ExportTable
    <2>0. /\ pc = "fill" /\ config = 2 ^ magics.bits /\ compiled' = magics /\ pc' = "ready"
          /\ UNCHANGED <<job, magics>>
      BY <1>10 DEF ExportTable
    <2>1. /\ magics \in Tables(p) /\ config \in Nat
          /\ Filled(p, magics.attack_table, magics.number, config)
      BY <1>1, <2>0 DEF Filling
    <2>2. magics.bits = BitsOf(p)
      BY <2>1 DEF Tables
    <2>3. Complete(p, magics)
      BY <1>2, <2>0, <2>1, <2>2 DEF Complete, Filled
    <2> QED
      BY <2>0, <2>3 DEF Picking, Testing, Filling, Ready, Complete
  <1>11. CASE UNCHANGED vars
    BY <1>1, <1>11 DEF vars, Picking, Testing, Filling, Ready, Complete, Agrees, Filled
  <1> QED
    BY <1>4, <1>5, <1>6, <1>7, <1>8, <1>9, <1>10, <1>11 DEF TablesNext

LEMMA NextTables == TablesInv /\ [TablesNext]_vars => TablesInv'
  <1> SUFFICES ASSUME TablesInv, [TablesNext]_vars PROVE TablesInv'
    OBVIOUS
  <1>1. PICK p : job = p
    OBVIOUS
  <1>2. TablesTrue(p)
    BY <1>1 DEF TablesInv
  <1>3. job' = p /\ Picking(p)' /\ Testing(p)' /\ Filling(p)' /\ Ready(p)'
    BY <1>1, <1>2, StepTables
  <1>4. TablesTrue(p)'
    BY <1>2, <1>3 DEF TablesTrue
  <1> QED
    BY <1>3, <1>4 DEF TablesInv

(***************************************************************************)
(* For any hash, and whichever number the search keeps after however many  *)
(* failures: once the table is exported and compiled in, a lookup with any *)
(* blockers on the board finds the walk to the first of them               *)
(* (gen_sp_tables.c, get_sp_attacks.c).                                    *)
(***************************************************************************)
THEOREM TablesHoldWalks == TablesSpec => []LookupsAreWalks
  <1>1. TablesInv => LookupsAreWalks
    <2> SUFFICES ASSUME TablesInv, pc = "ready",
                        NEW inside \in SUBSET relevant_mask, NEW beyond
                 PROVE  LET blockers == inside \cup ((beyond \ relevant_mask) \ {Square})
                        IN Lookup(blockers) = Attacks(blockers)
      BY DEF LookupsAreWalks
    <2> DEFINE blockers == inside \cup ((beyond \ relevant_mask) \ {Square})
               p == job
    <2>1. TablesTrue(p)
      BY DEF TablesInv
    <2>2. Complete(p, compiled) /\ Enumerates(p) /\ p \in Searched
      BY <2>1 DEF TablesTrue, Ready
    <2>3. /\ compiled.mask = MaskOf(p) /\ compiled.bits = BitsOf(p)
          /\ \A n \in EntriesOf(p) :
                 compiled.attack_table[Entry(p, compiled.number, n)] = AttacksOf(p, Config(p, n))
      BY <2>2 DEF Complete, Tables
    <2>4. relevant_mask = MaskOf(p) /\ Attacks(blockers) = AttacksOf(p, blockers)
      BY TermsAre
    <2>5. blockers \cap MaskOf(p) = inside
      BY <2>4
    <2>6. PICK n \in EntriesOf(p) : inside = Config(p, n)
      BY <2>2, <2>4 DEF Enumerates
    <2> HIDE DEF blockers
    <2>7. Lookup(blockers) = compiled.attack_table[Entry(p, compiled.number, n)]
      BY <2>3, <2>5, <2>6 DEF Lookup, Entry
    <2>8. Lookup(blockers) = AttacksOf(p, inside)
      BY <2>3, <2>6, <2>7
    <2>9. AttacksOf(p, inside) = AttacksOf(p, blockers)
      BY <2>2, <2>5, PairFacts
    <2> QED
      BY <2>4, <2>8, <2>9 DEF blockers
  <1> QED
    BY <1>1, InitTables, NextTables, PTL DEF TablesSpec
=============================================================================
