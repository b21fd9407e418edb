---------------------------- MODULE PoolPhysics ----------------------------
(***************************************************************************)
(* The pool physics library (pool/engine/phylib.c) under its one caller,   *)
(* simulate_shot of pool/runtime/Physics.py: the cue ball is set rolling,  *)
(* and segment after segment carries the table to its next event until     *)
(* nothing rolls.                                                          *)
(*                                                                         *)
(* Lengths, speeds and times are whole numbers, rounded where the library  *)
(* has doubles; the unit of time is PHYLIB_SIM_RATE.  PHYLIB_VEL_EPSILON   *)
(* is the whole part of an epsilon that no speed equals.                   *)
(***************************************************************************)
EXTENDS Integers, Sequences, FiniteSets

CONSTANTS PHYLIB_BALL_RADIUS, PHYLIB_HOLE_RADIUS, PHYLIB_TABLE_LENGTH,
          PHYLIB_TABLE_WIDTH, PHYLIB_VEL_EPSILON, PHYLIB_DRAG,
          PHYLIB_MAX_TIME,
          PHYLIB_MAX_OBJECTS,
          Racks,       \* where a game may leave its balls: number -> position
          Strokes,     \* velocities the players give the cue ball
          MaxShots,    \* bound on the shots
          FollowRunaways  \* whether a shot in which drag speeds a ball up is
                          \* followed: it may have no end

ASSUME SizeAssumption ==
    /\ {PHYLIB_BALL_RADIUS, PHYLIB_HOLE_RADIUS, PHYLIB_TABLE_LENGTH, PHYLIB_TABLE_WIDTH,
        PHYLIB_VEL_EPSILON, PHYLIB_DRAG, PHYLIB_MAX_TIME} \subseteq Nat \ {0}
    /\ PHYLIB_MAX_OBJECTS \in Nat /\ PHYLIB_MAX_OBJECTS >= 10
    /\ MaxShots \in Nat /\ FollowRunaways \in BOOLEAN

ASSUME RackAssumption == Racks \subseteq Seq([x : Int, y : Int])

VARIABLES time,     \* the time of phylib_segment's loop, 0 before and after
          object,   \* table->object, as the segment at hand began
          playing,  \* whether simulate_shot runs
          shots     \* shots made so far

shots_vars == <<time, object, playing, shots>>

PHYLIB_BALL_DIAMETER == 2 * PHYLIB_BALL_RADIUS
Slots == 0 .. PHYLIB_MAX_OBJECTS - 1

-----------------------------------------------------------------------------
(* Vectors.                                                                *)
Coord(x, y) == [x |-> x, y |-> y]
Zero == Coord(0, 0)
sub(c1, c2) == Coord(c1.x - c2.x, c1.y - c2.y)
dot_product(a, b) == a.x * b.x + a.y * b.y
Abs(n) == IF n < 0 THEN -n ELSE n

(* The whole number next to n / d, for d > 0.                              *)
Divide(n, d) == (2 * n + d) \div (2 * d)
length(c) ==
    CHOOSE k \in 0 .. Abs(c.x) + Abs(c.y) :
        k * k <= dot_product(c, c) /\ dot_product(c, c) < (k + 1) * (k + 1)

(* Whether phylib_length(c) < r.                                           *)
Within(c, r) == dot_product(c, c) < r * r

-----------------------------------------------------------------------------
(* The objects; an empty slot holds NULL.                                  *)
NULL == [type |-> "NULL"]

new_still_ball(number, pos) == [type |-> "STILL_BALL", number |-> number, pos |-> pos]

new_rolling_ball(number, pos, vel, acc) ==
    [type |-> "ROLLING_BALL", number |-> number, pos |-> pos, vel |-> vel, acc |-> acc]

new_hole(pos) == [type |-> "HOLE", pos |-> pos]
new_hcushion(y) == [type |-> "HCUSHION", y |-> y]
new_vcushion(x) == [type |-> "VCUSHION", x |-> x]

IsRolling(o) == o.type = "ROLLING_BALL"
IsBall(o) == o.type \in {"STILL_BALL", "ROLLING_BALL"}

(* Two horizontal and two vertical cushions, then the six holes.           *)
new_table ==
    LET holes == <<Coord(0, 0), Coord(0, PHYLIB_TABLE_LENGTH \div 2),
                   Coord(0, PHYLIB_TABLE_LENGTH), Coord(PHYLIB_TABLE_WIDTH, 0),
                   Coord(PHYLIB_TABLE_WIDTH, PHYLIB_TABLE_LENGTH \div 2),
                   Coord(PHYLIB_TABLE_WIDTH, PHYLIB_TABLE_LENGTH)>>
    IN [i \in Slots |->
           CASE i = 0 -> new_hcushion(0)
             [] i = 1 -> new_hcushion(PHYLIB_TABLE_LENGTH)
             [] i = 2 -> new_vcushion(0)
             [] i = 3 -> new_vcushion(PHYLIB_TABLE_WIDTH)
             [] i \in 4 .. 9 -> new_hole(holes[i - 3])
             [] OTHER -> NULL]

(* Into the first empty slot; a full table leaves the object out.          *)
add_object(objects, o) ==
    LET free == {i \in Slots : objects[i] = NULL}
    IN IF free = {} THEN objects
       ELSE [objects EXCEPT ![CHOOSE i \in free : \A j \in free : i <= j] = o]

(* A fresh table with some balls added one by one: how the game sets one   *)
(* up, and how Table.roll makes one.                                       *)
TableWith(balls) ==
    LET added[n \in 0 .. Len(balls)] ==
            IF n = 0 THEN new_table ELSE add_object(added[n - 1], balls[n])
    IN added[Len(balls)]

Rolling(objects) == {i \in Slots : IsRolling(objects[i])}
rolling(objects) == Cardinality(Rolling(objects))

-----------------------------------------------------------------------------
(* Whether phylib_distance(a, b) < 0, for a rolling ball a.                *)
Touches(a, b) ==
    CASE IsBall(b)           -> Within(sub(a.pos, b.pos), PHYLIB_BALL_DIAMETER)
      [] b.type = "HOLE"     -> Within(sub(a.pos, b.pos), PHYLIB_HOLE_RADIUS)
      [] b.type = "HCUSHION" -> Abs(a.pos.y - b.y) < PHYLIB_BALL_RADIUS
      [] b.type = "VCUSHION" -> Abs(a.pos.x - b.x) < PHYLIB_BALL_RADIUS

(* A component of the velocity that would change its sign is set to zero,  *)
(* with its acceleration.                                                  *)
roll(old, t) ==
    LET moved(p, v, a) == p + v * t + Divide(a * t * t, 2)
        turned(v, a) == v * (v + a * t) < 0
        vel(v, a) == IF turned(v, a) THEN 0 ELSE v + a * t
        acc(v, a) == IF turned(v, a) THEN 0 ELSE a
    IN new_rolling_ball(old.number,
           Coord(moved(old.pos.x, old.vel.x, old.acc.x),
                 moved(old.pos.y, old.vel.y, old.acc.y)),
           Coord(vel(old.vel.x, old.acc.x), vel(old.vel.y, old.acc.y)),
           Coord(acc(old.vel.x, old.acc.x), acc(old.vel.y, old.acc.y)))

stopped(o) == IsRolling(o) /\ length(o.vel) <= PHYLIB_VEL_EPSILON
Still(o) == new_still_ball(o.number, o.pos)

handleHCushionCollision(o) == [o EXCEPT !.vel.y = -@, !.acc.y = -@]

(* Mutant of handleVCushionCollision: the other axis is turned round.      *)
VCushionTurnsY(o) == [o EXCEPT !.vel.y = -@, !.acc.y = -@]

handleVCushionCollision(o) == [o EXCEPT !.vel.x = -@, !.acc.x = -@]
upgradeStillBallToRollingBall(o) == new_rolling_ball(o.number, o.pos, Zero, Zero)

(* Drag, against the velocity.                                             *)
Drag(vel) == Coord(Divide(-vel.x * PHYLIB_DRAG, length(vel)),
                   Divide(-vel.y * PHYLIB_DRAG, length(vel)))

(* The balls exchange the part of their velocities along r, the line       *)
(* through their centers; side is 1 for the first and -1 for the second.   *)
(* A ball left too slow for drag keeps the acceleration it had.            *)
handleRollingBallCollision(o, a, b, side) ==
    LET r == sub(a.pos, b.pos)
        v_rel_r == dot_product(sub(a.vel, b.vel), r)
        along(c) == IF dot_product(r, r) = 0 THEN 0
                    ELSE Divide(v_rel_r * c, dot_product(r, r))
        vel == Coord(o.vel.x - side * along(r.x), o.vel.y - side * along(r.y))
    IN [o EXCEPT !.vel = vel,
                 !.acc = IF length(vel) > PHYLIB_VEL_EPSILON THEN Drag(vel) ELSE @]

bounce(objects, y, j) ==
    LET a == objects[y]
        b == IF objects[j].type = "STILL_BALL"
             THEN upgradeStillBallToRollingBall(objects[j]) ELSE objects[j]
    IN CASE b.type = "HCUSHION" -> [objects EXCEPT ![y] = handleHCushionCollision(a)]
         [] b.type = "VCUSHION" -> [objects EXCEPT ![y] = handleVCushionCollision(a)]
         [] b.type = "HOLE"     -> [objects EXCEPT ![y] = NULL]
         [] OTHER -> [objects EXCEPT ![y] = handleRollingBallCollision(a, a, b, 1),
                                     ![j] = handleRollingBallCollision(b, a, b, -1)]

-----------------------------------------------------------------------------
(* Every ball rolled for t from where the segment began.                   *)
Rolled(objects, t) ==
    [i \in Slots |-> IF IsRolling(objects[i]) THEN roll(objects[i], t) ELSE objects[i]]

(* What the two loops over the objects would find: pairs that touch, and,  *)
(* once a ball has been compared with all the others, that it has stopped. *)
Events(objects) ==
    {e \in Slots \X Slots :
         /\ e[2] # e[1] /\ IsRolling(objects[e[1]]) /\ objects[e[2]] # NULL
         /\ Touches(objects[e[1]], objects[e[2]])}
      \cup {<<y, PHYLIB_MAX_OBJECTS>> : y \in {i \in Slots : stopped(objects[i])}}

IsFirst(e, events) ==
    \A f \in events : e[1] < f[1] \/ (e[1] = f[1] /\ e[2] <= f[2])

(* What an event makes of the table that phylib_segment returns.           *)
AfterEvent(objects, e) ==
    IF e[2] = PHYLIB_MAX_OBJECTS THEN [objects EXCEPT ![e[1]] = Still(@)]
    ELSE bounce(objects, e[1], e[2])

-----------------------------------------------------------------------------
(* Mutant of InOrder: the last slot is not looked at.                      *)
InOrderButLast(objects) ==
    LET upto[n \in 0 .. PHYLIB_MAX_OBJECTS - 1] ==
            IF n = 0 THEN <<>>
            ELSE IF IsBall(objects[n - 1]) THEN Append(upto[n - 1], objects[n - 1])
            ELSE upto[n - 1]
    IN upto[PHYLIB_MAX_OBJECTS - 1]

(* The balls of a table in the order of their slots.                       *)
InOrder(objects) ==
    LET upto[n \in 0 .. PHYLIB_MAX_OBJECTS] ==
            IF n = 0 THEN <<>>
            ELSE IF IsBall(objects[n - 1]) THEN Append(upto[n - 1], objects[n - 1])
            ELSE upto[n - 1]
    IN upto[PHYLIB_MAX_OBJECTS]

(* Mutant of calculate_acceleration: no drag.                              *)
calculate_no_acceleration(vel) == Zero

calculate_acceleration(vel) ==
    IF length(vel) > PHYLIB_VEL_EPSILON THEN Drag(vel) ELSE Zero

(* A ball whose acceleration is not against its motion.                    *)
Runaway(o) == IsRolling(o) /\ o.acc # Zero /\ dot_product(o.vel, o.acc) >= 0
Runaways == {i \in Slots : Runaway(object[i])}

ShotsInit ==
    /\ time = 0 /\ shots = 0 /\ playing = FALSE
    /\ \E rack \in Racks :
           object = TableWith([i \in DOMAIN rack |-> new_still_ball(i - 1, rack[i])])

(* simulate_shot begins: the cue ball gets its velocity.                   *)
Shoot ==
    /\ ~playing /\ shots < MaxShots
    /\ \E i \in Slots : \E vel \in Strokes :
           /\ object[i].type = "STILL_BALL" /\ object[i].number = 0
           /\ object' = [object EXCEPT ![i] =
                             new_rolling_ball(0, @.pos, vel, calculate_acceleration(vel))]
    /\ playing' = TRUE
    /\ shots' = shots + 1
    /\ UNCHANGED time

(* phylib_segment is called, while a ball rolls.                           *)
Segment ==
    /\ time = 0 /\ rolling(object) # 0
    /\ Runaways = {} \/ FollowRunaways
    /\ time' = 1
    /\ UNCHANGED <<object, playing, shots>>

(* One turn of its loop: the first event, if there is one by now, ends the *)
(* segment, and the time limit does.                                       *)
RollOn ==
    /\ time > 0
    /\ \E new \in {Rolled(object, time)} : \E events \in {Events(new)} :
          \/ \E e \in events : /\ IsFirst(e, events)
                              /\ object' = AfterEvent(new, e) /\ time' = 0
          \/ /\ events = {} /\ time + 1 < PHYLIB_MAX_TIME
             /\ time' = time + 1 /\ UNCHANGED object
          \/ /\ events = {} /\ time + 1 >= PHYLIB_MAX_TIME
             /\ object' = new /\ time' = 0
    /\ UNCHANGED <<playing, shots>>

(* No segment any more: the end table is a fresh one with the balls left.  *)
EndShot ==
    /\ Rolling(object) = {} /\ playing
    /\ object' = TableWith(InOrder(object))
    /\ playing' = FALSE
    /\ UNCHANGED <<time, shots>>

ShotsNext == Shoot \/ Segment \/ RollOn \/ EndShot

(* simulate_shot runs its loop to the end.                                 *)
ShotsSpec == ShotsInit /\ [][ShotsNext]_shots_vars /\ WF_shots_vars(Segment \/ RollOn)

-----------------------------------------------------------------------------
Balls == {i \in Slots : IsBall(object[i])}

(* Whatever bounces, stops and pockets follow each other, a ball is never  *)
(* beyond a cushion: the simulation looks at it only once per              *)
(* PHYLIB_SIM_RATE and turns it round only where it finds it.              *)
BallsStayInside ==
    Runaways = {} =>
        \A i \in Balls : /\ object[i].pos.x \in 0 .. PHYLIB_TABLE_WIDTH
                         /\ object[i].pos.y \in 0 .. PHYLIB_TABLE_LENGTH

(* The balls of the game are those it began with less those that fell into *)
(* a hole, each once, though they are upgraded, stopped and copied to      *)
(* fresh tables whose slots can be full.                                   *)
InReach(o, h) == Within(sub(o.pos, h.pos), PHYLIB_HOLE_RADIUS)
Numbers(objects) == {objects[i].number : i \in {k \in Slots : IsBall(objects[k])}}

BallsLeaveThroughHoles ==
    [][/\ Numbers(object') \subseteq Numbers(object)
       /\ Cardinality({i \in Slots : IsBall(object'[i])}) = Cardinality(Numbers(object'))
       /\ \A n \in Numbers(object) \ Numbers(object') :
              \E i \in Rolling(object) : /\ object'[i] = NULL /\ object[i].number = n
                                        /\ \E t \in 1 .. PHYLIB_MAX_TIME : \E h \in 4 .. 9 :
                                               InReach(roll(object[i], t), object[h])]_shots_vars

(* Every shot ends: simulate_shot calls segment until nothing rolls.       *)
ShotEnds == (rolling(object) # 0) ~> (rolling(object) = 0)

(* It does so unless a collision leaves a ball that drag speeds up, or a   *)
(* ball too slow for drag in touch with something: whatever else the balls *)
(* do to each other comes to a rest.                                       *)
SlowContact ==
    \E e \in Events(object) :
        /\ e[2] # PHYLIB_MAX_OBJECTS
        /\ \A i \in {e[1], e[2]} \cap Rolling(object) :
               length(object[i].vel) <= PHYLIB_VEL_EPSILON

CleanShotEnds ==
    (rolling(object) # 0) ~> (rolling(object) = 0 \/ Runaways # {} \/ SlowContact)
=============================================================================
