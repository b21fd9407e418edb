----------------------------- MODULE ChezzRules -----------------------------
(***************************************************************************)
(* The rules of Chezz, as a game on a board of squares: what the bitboard  *)
(* generator of ChezzMoves has to implement.  Each square holds a piece of *)
(* a colour and a kind, or nothing; a turn moves a piece, flings one over  *)
(* a catapult or fires a canon, and then zombies spread and peons on their *)
(* last row rise as zombies.                                               *)
(*                                                                         *)
(* Nothing here is split the way the code is: there are no types per       *)
(* colour, no combined sets to keep in step, no tables of attacks, and     *)
(* every turn promotes.                                                    *)
(***************************************************************************)
EXTENDS Integers

CONSTANT Starts   \* the positions a game may start from, as [at, turn]

VARIABLES at,     \* what stands on each square
          turn    \* the colour to move, "w" or "b"

Empty == [color |-> "none", kind |-> "none"]

Squares == 0 .. 63
Row(s) == s \div 8
Col(s) == s % 8
Diff(a, b) == IF a < b THEN b - a ELSE a - b
Sign(n) == IF n > 0 THEN 1 ELSE IF n < 0 THEN -1 ELSE 0
Dir(s, q) == <<Sign(Row(q) - Row(s)), Sign(Col(q) - Col(s))>>

Other(c) == IF c = "w" THEN "b" ELSE "w"
Ahead(c) == IF c = "w" THEN 1 ELSE -1
LastRow(c) == IF c = "w" THEN 7 ELSE 0

-----------------------------------------------------------------------------
Neighbours(s, q) == s # q /\ Diff(Row(s), Row(q)) <= 1 /\ Diff(Col(s), Col(q)) <= 1
Beside(s, q) == Diff(Row(s), Row(q)) + Diff(Col(s), Col(q)) = 1
Straight(s, q) == s # q /\ (Row(s) = Row(q) \/ Col(s) = Col(q))
Diagonal(s, q) == s # q /\ Diff(Row(s), Row(q)) = Diff(Col(s), Col(q))
Jump(s, q) == {Diff(Row(s), Row(q)), Diff(Col(s), Col(q))} = {1, 2}

(* x lies between s and q, which are on one line.                          *)
Inside(s, x, q) ==
    /\ x # s /\ x # q
    /\ Straight(s, x) \/ Diagonal(s, x)
    /\ Dir(s, x) = Dir(s, q) /\ Dir(x, q) = Dir(s, q)
    /\ Straight(x, q) \/ Diagonal(x, q)

Clear(a, s, q) == \A x \in Squares : Inside(s, x, q) => a[x] = Empty

(* The squares the piece on s may go to by itself.                         *)
MayGo(a, s, q) ==
    LET c == a[s].color
        captures == a[q].color = Other(c)
        k == a[s].kind
    IN /\ a[q].color # c
       /\ \/ /\ k = "peon" /\ Row(q) = Row(s) + Ahead(c)
             /\ \/ Col(q) = Col(s) /\ ~captures
                \/ Diff(Col(q), Col(s)) = 1 /\ captures
          \/ k = "knight" /\ Jump(s, q)
          \/ k = "bishop" /\ Diagonal(s, q) /\ Clear(a, s, q)
          \/ k = "rook" /\ Straight(s, q) /\ Clear(a, s, q)
          \/ k = "queen" /\ (Diagonal(s, q) \/ Straight(s, q)) /\ Clear(a, s, q)
          \/ k = "king" /\ Neighbours(s, q)
          \/ k = "zombie" /\ Beside(s, q)
          \/ k = "catapult" /\ Neighbours(s, q) /\ ~captures
          \/ k = "canon" /\ Beside(s, q) /\ ~captures

(* The piece on f goes over the catapult on k and lands anywhere beyond it *)
(* on their line: on an empty square, or on an enemy that is not the king. *)
MayFling(a, k, f, q) ==
    LET c == a[k].color
    IN /\ a[k].kind = "catapult" /\ Neighbours(k, f) /\ a[f].color = c
       /\ Straight(k, q) \/ Diagonal(k, q)
       /\ Dir(k, q) = Dir(f, k)
       /\ a[q].color # c
       /\ a[q].kind # "king"

InFire(k, d, q) == Diagonal(k, q) /\ Dir(k, q) = d

-----------------------------------------------------------------------------
Infected(a, c) ==
    {q \in Squares : /\ a[q].color = Other(c)
                     /\ a[q].kind \notin {"king", "zombie"}
                     /\ \E z \in Squares : /\ Beside(z, q)
                                           /\ a[z] = [color |-> c, kind |-> "zombie"]}

Rise(a, c) ==
    [s \in Squares |-> IF a[s] = [color |-> c, kind |-> "peon"] /\ Row(s) = LastRow(c)
                       THEN [color |-> c, kind |-> "zombie"] ELSE a[s]]

(* What follows every turn of c.                                           *)
Aftermath(a, c) ==
    LET ill == Infected(a, c)
    IN Rise([s \in Squares |-> IF s \in ill THEN [color |-> c, kind |-> "zombie"]
                               ELSE a[s]], c)

AfterMove(a, s, q) == [a EXCEPT ![q] = a[s], ![s] = Empty]

AfterFling(a, f, q) ==
    IF a[q] = Empty THEN AfterMove(a, f, q)
    ELSE [a EXCEPT ![q] = Empty, ![f] = Empty]

AfterShot(a, k, d) ==
    [s \in Squares |-> IF InFire(k, d, s) THEN Empty ELSE a[s]]

Own(a, c) == {s \in Squares : a[s].color = c}
Corners == {-1, 1} \X {-1, 1}

(* Every position one turn of c can make.                                  *)
Successors(a, c) ==
    LET moved == UNION {{AfterMove(a, s, q) : q \in {x \in Squares : MayGo(a, s, x)}} :
                            s \in Own(a, c)}
        catapults == {k \in Own(a, c) : a[k].kind = "catapult"}
        flung == UNION {{AfterFling(a, fl[1], fl[2]) :
                            fl \in {g \in Own(a, c) \X Squares : MayFling(a, k, g[1], g[2])}} :
                            k \in catapults}
        canons == {k \in Own(a, c) : a[k].kind = "canon"}
        fired == UNION {{AfterShot(a, k, d) :
                            d \in {e \in Corners : AfterShot(a, k, e) # a}} : k \in canons}
    IN {Aftermath(x, c) : x \in moved \cup flung \cup fired}

-----------------------------------------------------------------------------
KingsStand ==
    \A c \in {"w", "b"} : \E s \in Squares : at[s] = [color |-> c, kind |-> "king"]

Turn ==
    /\ KingsStand
    /\ turn' = Other(turn)
    /\ at' \in Successors(at, turn)

Init == [at |-> at, turn |-> turn] \in Starts
Next == Turn
Spec == Init /\ [][Next]_<<at, turn>>
=============================================================================
