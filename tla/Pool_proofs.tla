----------------------------- MODULE Pool_proofs -----------------------------
(***************************************************************************)
(* Proofs about pool: first the sessions of a game (PoolGame), for any set *)
(* of loading requests, any bank (at least one tick) and any bounds on     *)
(* time, plays, sessions, failed saves and restarts; then the physics      *)
(* (PoolPhysics), for any table, any drag and any strokes: no bounce, stop *)
(* or copy of the table loses a ball or makes two of one, and a ball       *)
(* leaves the table in reach of a hole only.                               *)
(***************************************************************************)
EXTENDS PoolGame, PoolPhysics, TLAPS, FiniteSetTheorems, FunctionTheorems,
        WellFoundedInduction

-----------------------------------------------------------------------------
(* The invariant.                                                          *)

\* A game in play: nothing has been said of its end, the clock is that of the
\* player to move, and a fired timer that still waits for the lock is one of a
\* player whose bank is used up.
InPlay(s, t) ==
  /\ s.reason = "none" /\ s.active = s.table.turn
  /\ \A i \in DOMAIN s.log : s.log[i] # "over"
  /\ \A c \in s.calling : s.bank[c] <= IF c = s.active THEN t - s.anchor ELSE 0

\* The timer of a game in play runs for what is left of the active bank.
Timed(s) ==
  s.timer.state # "none" => /\ s.timer.color = s.active
                            /\ s.timer.due = s.anchor + s.bank[s.active]

\* A game that is over: its log ends with the result, if it has one.
Told(s) ==
  /\ \A i \in DOMAIN s.log : s.log[i] = "over" => i = Len(s.log)
  /\ s.reason # "none" => s.log # <<>> /\ s.log[Len(s.log)] = "over"

Sound(s, t) ==
  /\ s \in Session
  /\ s.status = "active" => InPlay(s, t) /\ Timed(s)
  /\ s.status = "finished" => Told(s)

\* A session that is registered, or that will be, has a timer while its game is on.
Runs(s) == s.status = "active" => s.timer.state # "none"

Builds(l) == loader[l].at = "built"

SessionsSound == \A k \in DOMAIN sessions : Sound(sessions[k], now)

TimersRun ==
  /\ registered # 0 => Runs(sessions[registered])
  /\ \A l \in Loaders : Builds(l) => Runs(sessions[loader[l].session])

\* No two requests have built one session, and none of them built the registered one.
BuiltApart ==
  /\ \A l \in Loaders : Builds(l) => loader[l].session # 0 /\ loader[l].session # registered
  /\ \A l, m \in Loaders :
       Builds(l) /\ Builds(m) /\ loader[l].session = loader[m].session => l = m

IInv == TypeOK /\ db.rows # <<>> /\ SessionsSound /\ TimersRun /\ BuiltApart

-----------------------------------------------------------------------------
(* The clock.                                                              *)

LEMMA OtherColor ==
  ASSUME NEW c \in Color
  PROVE  Other(c) \in Color /\ Other(c) # c /\ \A d \in Color : d = c \/ d = Other(c)
  BY DEF Color, Other

LEMMA LessFacts ==
  ASSUME NEW ms \in Nat, NEW elapsed \in Int
  PROVE  /\ Less(ms, elapsed) \in Nat
         /\ Less(ms, elapsed) <= 0 <=> ms <= elapsed
         /\ ms > elapsed => Less(ms, elapsed) = ms - elapsed
  BY DEF Less

LEMMA NoTimerFacts ==
  ASSUME NEW s \in Session
  PROVE  /\ NoTimer(s) \in Session /\ NoTimer(s).timer.state = "none"
         /\ NoTimer(s).status = s.status /\ NoTimer(s).table = s.table
         /\ NoTimer(s).reason = s.reason /\ NoTimer(s).bank = s.bank
         /\ NoTimer(s).active = s.active /\ NoTimer(s).anchor = s.anchor
         /\ NoTimer(s).calling = s.calling /\ NoTimer(s).log = s.log
  BY DEF NoTimer, Session, Timer

LEMMA SyncedFacts ==
  ASSUME NEW s \in Session, NEW t \in Nat
  PROVE  /\ Synced(s, t) \in Session
         /\ Synced(s, t).status = s.status /\ Synced(s, t).table = s.table
         /\ Synced(s, t).reason = s.reason /\ Synced(s, t).timer = s.timer
         /\ Synced(s, t).active = s.active /\ Synced(s, t).anchor = t
         /\ Synced(s, t).calling = s.calling /\ Synced(s, t).log = s.log
         /\ Synced(s, t).bank[s.active] = Less(s.bank[s.active], t - s.anchor)
         /\ \A c \in Color : c # s.active => Synced(s, t).bank[c] = s.bank[c]
  <1>1. s.active \in Color /\ s.bank \in [Color -> Nat] /\ s.anchor \in Nat
    BY DEF Session
  <1>2. s.bank[s.active] \in Nat /\ t - s.anchor \in Int
    BY <1>1
  <1>3. Less(s.bank[s.active], t - s.anchor) \in Nat
    BY <1>2, LessFacts
  <1> QED
    BY <1>1, <1>3 DEF Synced, Session

LEMMA TickedFacts ==
  ASSUME NEW s \in Session, NEW t \in Nat
  PROVE  /\ Ticked(s, t) \in Session
         /\ Ticked(s, t).status = s.status /\ Ticked(s, t).table = s.table
         /\ Ticked(s, t).reason = s.reason /\ Ticked(s, t).timer = s.timer
         /\ Ticked(s, t).active = Other(s.active) /\ Ticked(s, t).anchor = t
         /\ Ticked(s, t).calling = s.calling /\ Ticked(s, t).log = s.log
         /\ Ticked(s, t).bank = Synced(s, t).bank
  <1>1. Other(s.active) \in Color
    BY OtherColor DEF Session
  <1> DEFINE v == Synced(s, t)
  <1>2. /\ v \in Session /\ v.status = s.status /\ v.table = s.table /\ v.reason = s.reason
        /\ v.timer = s.timer /\ v.active = s.active /\ v.anchor = t
        /\ v.calling = s.calling /\ v.log = s.log
    BY SyncedFacts
  <1>3. Ticked(s, t) = [v EXCEPT !.active = Other(@)]
    BY DEF Ticked
  <1> HIDE DEF v
  <1>4. /\ [v EXCEPT !.active = Other(@)] \in Session
        /\ [v EXCEPT !.active = Other(@)].bank = v.bank
    BY <1>1, <1>2 DEF Session
  <1>5. Ticked(s, t).bank = Synced(s, t).bank
    BY <1>3, <1>4 DEF v
  <1> QED
    BY <1>1, <1>2, <1>3, <1>4, <1>5 DEF Session

LEMMA FiredFacts ==
  ASSUME NEW s \in Session
  PROVE  /\ Fired(s) \in Session
         /\ Fired(s).timer = [s.timer EXCEPT !.state = "fired"]
         /\ Fired(s).status = s.status /\ Fired(s).table = s.table
         /\ Fired(s).reason = s.reason /\ Fired(s).bank = s.bank
         /\ Fired(s).active = s.active /\ Fired(s).anchor = s.anchor
         /\ Fired(s).calling = s.calling \cup {s.timer.color} /\ Fired(s).log = s.log
  BY DEF Fired, Session, Timer

-----------------------------------------------------------------------------
(* What an operation does to a session.                                    *)

Result == [s : Session, queued : Seq(Job), saved : Seq(Job)]

LEMMA DidFacts ==
  ASSUME NEW s \in Session
  PROVE  Did(s) \in Result /\ Did(s).s = s /\ Did(s).queued = <<>> /\ Did(s).saved = <<>>
  BY DEF Did, Result

LEMMA JobOfFacts ==
  ASSUME NEW s \in Session
  PROVE  JobOf(s) \in Job
  BY DEF JobOf, Job, Session

LEMMA LogAppend ==
  ASSUME NEW q \in Seq({"shot", "over"}), NEW x \in {"shot", "over"}
  PROVE  /\ Append(q, x) \in Seq({"shot", "over"})
         /\ Append(q, x) # <<>> /\ Append(q, x)[Len(Append(q, x))] = x
         /\ Len(Append(q, x)) = Len(q) + 1 /\ Len(q) \in Nat
         /\ DOMAIN Append(q, x) = 1..Len(q) + 1 /\ DOMAIN q = 1..Len(q)
         /\ \A i \in 1..Len(q) : Append(q, x)[i] = q[i]
  OBVIOUS

\* A timer's thread, or a request that finds the bank used up, ends the game of
\* the player to move and no other.
LEMMA ExpireFacts ==
  ASSUME NEW s \in Session, NEW c \in Color,
         s.status = "active" => \A i \in DOMAIN s.log : s.log[i] # "over"
  PROVE  /\ Expire(s, c) \in Result
         /\ s.status = "active" /\ s.table.turn = c =>
              LET u == Expire(s, c).s IN
              /\ u.status = "finished" /\ Told(u) /\ u.reason = "time"
              /\ u.table.turn = c /\ u.table.winner = Other(c)
         /\ ~(s.status = "active" /\ s.table.turn = c) => Expire(s, c) = Did(s)
  <1>1. CASE ~(s.status = "active" /\ s.table.turn = c)
    BY <1>1, DidFacts DEF Expire
  <1>2. CASE s.status = "active" /\ s.table.turn = c
    <2> DEFINE table == [s.table EXCEPT !.over = TRUE, !.winner = Other(c)]
               u == [NoTimer(s) EXCEPT !.status = "finished", !.table = table, !.reason = "time",
                                       !.bank[c] = 0, !.log = Append(@, "over")]
    <2>1. Expire(s, c) = [Did(u) EXCEPT !.saved = <<JobOf(u)>>]
      BY <1>2 DEF Expire
    <2>2. table \in Table /\ table.turn = c /\ table.winner = Other(c)
      <3>1. s.table \in Table
        BY DEF Session
      <3> QED
        BY <3>1, <1>2, OtherColor DEF Table
    <2> HIDE DEF table
    <2>3. s.log \in Seq({"shot", "over"})
      BY DEF Session
    <2>4. /\ u \in Session /\ u.status = "finished" /\ u.table = table /\ u.reason = "time"
          /\ u.log = Append(s.log, "over")
      <3> DEFINE v == NoTimer(s)
      <3>1. v \in Session /\ v.log = s.log
        BY NoTimerFacts
      <3>2. Append(s.log, "over") \in Seq({"shot", "over"})
        BY <2>3, LogAppend
      <3>3. u = [v EXCEPT !.status = "finished", !.table = table, !.reason = "time",
                          !.bank[c] = 0, !.log = Append(@, "over")]
        OBVIOUS
      <3> HIDE DEF v, u
      <3> QED
        BY <2>2, <3>1, <3>2, <3>3 DEF Session, Reason
    <2> HIDE DEF u
    <2>5. Told(u)
      BY <1>2, <2>3, <2>4, LogAppend DEF Told
    <2>6. [Did(u) EXCEPT !.saved = <<JobOf(u)>>] \in Result
      <3>1. <<JobOf(u)>> \in Seq(Job)
        BY <2>4, JobOfFacts
      <3> QED
        BY <2>4, <3>1, DidFacts DEF Result
    <2>7. Expire(s, c).s = u
      BY <2>1, <2>4, DidFacts DEF Did
    <2> QED
      BY <1>2, <2>1, <2>2, <2>4, <2>5, <2>6, <2>7
  <1> QED
    BY <1>1, <1>2

\* What a step may do to a session: a result stays, a player loses on time only
\* with the bank used up, and a game that goes on keeps its timer.
Stays(s, u) ==
  s.status = "finished" => u.status = "finished" /\ u.table = s.table /\ u.reason = s.reason

Forfeits(s, u, t) ==
  (s.reason = "none" /\ u.reason = "time") =>
    /\ u.table.winner # u.table.turn
    /\ s.bank[u.table.turn] <= IF u.table.turn = s.active THEN t - s.anchor ELSE 0

Passes(s, u, t) ==
  Sound(u, t) /\ Stays(s, u) /\ Forfeits(s, u, t) /\ (Runs(s) => Runs(u))

\* A game whose clock has just been handed to the player to move, or left there.
Ready(s, t) == s \in Session /\ s.status = "active" /\ InPlay(s, t)

LEMMA ScheduleFacts ==
  ASSUME NEW t \in Nat, NEW s, Ready(s, t)
  PROVE  /\ Schedule(s, t) \in Result
         /\ Sound(Schedule(s, t).s, t) /\ Runs(Schedule(s, t).s)
         /\ Schedule(s, t).s.reason = "time" =>
              LET u == Schedule(s, t).s IN
              /\ u.table.turn = s.active /\ u.table.winner # u.table.turn
              /\ s.bank[s.active] <= t - s.anchor
  <1> DEFINE v == NoTimer(Synced(s, t))
             a == s.active
  <1>1. /\ s \in Session /\ s.status = "active" /\ InPlay(s, t) /\ a \in Color
        /\ s.bank[a] \in Nat /\ t - s.anchor \in Int /\ s.bank \in [Color -> Nat]
    BY DEF Ready, Session
  <1>2. /\ v \in Session /\ v.status = "active" /\ v.table = s.table /\ v.reason = "none"
        /\ v.active = a /\ v.anchor = t /\ v.calling = s.calling /\ v.log = s.log
        /\ v.bank[a] = Less(s.bank[a], t - s.anchor)
        /\ \A c \in Color : c # a => v.bank[c] = s.bank[c]
    <2> DEFINE w == Synced(s, t)
    <2>1. /\ w \in Session /\ w.status = "active" /\ w.table = s.table /\ w.reason = "none"
          /\ w.active = a /\ w.anchor = t /\ w.calling = s.calling /\ w.log = s.log
          /\ w.bank[a] = Less(s.bank[a], t - s.anchor)
          /\ \A c \in Color : c # a => w.bank[c] = s.bank[c]
      BY <1>1, SyncedFacts DEF InPlay
    <2> HIDE DEF w
    <2>2. v = NoTimer(w)
      BY DEF w
    <2> HIDE DEF v
    <2> QED
      BY <2>1, <2>2, NoTimerFacts
  <1> HIDE DEF v
  <1>3. s.table.turn = a /\ \A i \in DOMAIN v.log : v.log[i] # "over"
    BY <1>1, <1>2 DEF InPlay
  <1>4. CASE v.bank[a] <= 0
    <2>1. Schedule(s, t) = Expire(v, a)
      BY <1>4 DEF Schedule, v
    <2>2. s.bank[a] <= t - s.anchor
      BY <1>1, <1>2, <1>4, LessFacts
    <2>3. /\ Expire(v, a) \in Result
          /\ LET u == Expire(v, a).s IN
             /\ u.status = "finished" /\ Told(u) /\ u.reason = "time"
             /\ u.table.turn = a /\ u.table.winner = Other(a)
      BY <1>1, <1>2, <1>3, ExpireFacts
    <2>4. Sound(Expire(v, a).s, t) /\ Runs(Expire(v, a).s)
      BY <2>3 DEF Sound, Runs, Result
    <2> QED
      BY <1>1, <2>1, <2>2, <2>3, <2>4, OtherColor
  <1>5. CASE ~(v.bank[a] <= 0)
    <2> DEFINE timer == [state |-> "armed", color |-> a, due |-> t + v.bank[a]]
               u == [v EXCEPT !.timer = timer]
    <2>1. Schedule(s, t) = Did(u)
      BY <1>2, <1>5 DEF Schedule, v
    <2>2. v.bank[a] \in Nat
      BY <1>1, <1>2, LessFacts
    <2>3. timer \in Timer /\ timer.state = "armed" /\ timer.color = a /\ timer.due = t + v.bank[a]
      BY <1>1, <2>2 DEF Timer
    <2> HIDE DEF timer
    <2>4. /\ u \in Session /\ u.timer = timer /\ u.status = "active" /\ u.table = s.table
          /\ u.reason = "none" /\ u.active = a /\ u.anchor = t /\ u.calling = s.calling
          /\ u.log = s.log /\ u.bank = v.bank
      BY <1>2, <2>3 DEF Session
    <2> HIDE DEF u
    <2>5. ASSUME NEW c \in s.calling
          PROVE  u.bank[c] <= IF c = u.active THEN t - u.anchor ELSE 0
      <3>1. c \in Color
        BY <1>1 DEF Session
      <3>2. c # a
        BY <1>1, <1>2, <1>5, LessFacts DEF InPlay
      <3> QED
        BY <1>1, <1>2, <2>4, <3>1, <3>2 DEF InPlay
    <2>6. InPlay(u, t) /\ Timed(u) /\ Runs(u)
      BY <1>2, <1>3, <2>3, <2>4, <2>5 DEF InPlay, Timed, Runs
    <2> QED
      BY <2>1, <2>4, <2>6, DidFacts DEF Sound
  <1> QED
    BY <1>4, <1>5

\* A session that has been looked at: over, or with bank left and a timer that
\* is still right.
Looked(s, u, t) ==
  /\ Ready(u, t) /\ Timed(u) /\ s.status = "active"
  /\ u.table = s.table /\ u.active = s.active /\ u.anchor = t
  /\ u.timer = s.timer
  /\ s.bank[s.active] - (t - s.anchor) = u.bank[s.active]
  /\ \A c \in Color : c # s.active => u.bank[c] = s.bank[c]

LEMMA ResolveFacts ==
  ASSUME NEW t \in Nat, NEW s, Sound(s, t)
  PROVE  /\ Resolve(s, t) \in Result
         /\ Passes(s, Resolve(s, t).s, t)
         /\ Resolve(s, t).s.status = "active" => Looked(s, Resolve(s, t).s, t)
  <1> DEFINE v == Synced(s, t)
             a == s.active
  <1>1. /\ s \in Session /\ s.status \in {"active", "finished"} /\ a \in Color
        /\ s.bank \in [Color -> Nat] /\ s.bank[a] \in Nat /\ t - s.anchor \in Int
        /\ s.anchor \in Int
    BY DEF Sound, Session
  <1>2. CASE s.status # "active"
    <2>1. Resolve(s, t) = Did(s)
      BY <1>2 DEF Resolve
    <2>2. Passes(s, s, t)
      BY <1>2 DEF Passes, Stays, Forfeits
    <2> QED
      BY <1>1, <1>2, <2>1, <2>2, DidFacts
  <1>3. CASE s.status = "active"
    <2>1. /\ v \in Session /\ v.status = "active" /\ v.table = s.table /\ v.reason = s.reason
          /\ v.timer = s.timer /\ v.active = a /\ v.anchor = t /\ v.calling = s.calling
          /\ v.log = s.log /\ v.bank[a] = Less(s.bank[a], t - s.anchor)
          /\ \A c \in Color : c # a => v.bank[c] = s.bank[c]
      BY <1>1, <1>3, SyncedFacts
    <2> HIDE DEF v
    <2>2. /\ s.reason = "none" /\ s.table.turn = a /\ \A i \in DOMAIN v.log : v.log[i] # "over"
      BY <1>3, <2>1 DEF Sound, InPlay
    <2>3. /\ v.bank[a] \in Nat /\ v.bank[a] <= 0 <=> s.bank[a] <= t - s.anchor
          /\ s.bank[a] > t - s.anchor => v.bank[a] = s.bank[a] - (t - s.anchor)
      BY <1>1, <2>1, LessFacts
    <2>4. CASE v.bank[a] > 0
      <3>1. Resolve(s, t) = Did(v)
        BY <1>3, <2>4 DEF Resolve, v
      <3>2. v.bank[a] = s.bank[a] - (t - s.anchor) /\ s.bank[a] > t - s.anchor
        BY <1>1, <2>4, <2>3
      <3>3. ASSUME NEW c \in v.calling
            PROVE  v.bank[c] <= IF c = v.active THEN t - v.anchor ELSE 0
        <4>1. c \in Color /\ c \in s.calling /\ c # a
          BY <1>1, <1>3, <2>1, <3>2 DEF Session, Sound, InPlay
        <4> QED
          BY <1>3, <2>1, <4>1 DEF Sound, InPlay
      <3>4. InPlay(v, t)
        BY <2>1, <2>2, <3>3 DEF InPlay
      <3>5. Timed(v)
        BY <1>1, <1>3, <2>1, <3>2 DEF Timed, Sound
      <3>6. Looked(s, v, t)
        BY <1>3, <2>1, <3>2, <3>4, <3>5 DEF Looked, Ready
      <3>7. Passes(s, v, t)
        BY <1>3, <2>1, <2>2, <3>4, <3>5 DEF Passes, Sound, Stays, Forfeits, Runs
      <3> QED
        BY <2>1, <3>1, <3>6, <3>7, DidFacts
    <2>5. CASE ~(v.bank[a] > 0)
      <3>1. Resolve(s, t) = Expire(v, a)
        BY <1>3, <2>1, <2>5 DEF Resolve, v
      <3>2. /\ Expire(v, a) \in Result
            /\ LET u == Expire(v, a).s IN
               /\ u.status = "finished" /\ Told(u) /\ u.reason = "time"
               /\ u.table.turn = a /\ u.table.winner = Other(a)
        BY <1>1, <2>1, <2>2, ExpireFacts
      <3>3. s.bank[a] <= t - s.anchor
        BY <1>1, <2>5, <2>3
      <3>4. Passes(s, Expire(v, a).s, t)
        BY <1>1, <1>3, <3>2, <3>3, OtherColor DEF Passes, Sound, Stays, Forfeits, Runs, Result
      <3> QED
        BY <3>1, <3>2, <3>4
    <2> QED
      BY <2>4, <2>5
  <1> QED
    BY <1>2, <1>3

\* What a look takes from a bank counts against it.
LEMMA ForfeitAfterLook ==
  ASSUME NEW n \in Nat, NEW t \in Nat, NEW s, NEW r, s \in Session, Looked(s, r, n),
         NEW u \in Session, Forfeits(r, u, t)
  PROVE  Forfeits(s, u, t)
  <1> SUFFICES ASSUME u.reason = "time"
               PROVE  /\ u.table.winner # u.table.turn
                      /\ s.bank[u.table.turn] <= IF u.table.turn = s.active THEN t - s.anchor ELSE 0
    BY DEF Forfeits
  <1> DEFINE c == u.table.turn
             a == s.active
  <1>1. r.reason = "none" /\ r.active = a /\ r.anchor = n /\ c \in Color
    BY DEF Looked, Ready, InPlay, Session, Table
  <1>2. /\ u.table.winner # c
        /\ r.bank[c] <= IF c = a THEN t - n ELSE 0
    BY <1>1 DEF Forfeits
  <1>3. /\ s.bank[a] - (n - s.anchor) = r.bank[a]
        /\ c # a => r.bank[c] = s.bank[c]
    BY <1>1 DEF Looked
  <1>4. s.bank[a] \in Nat /\ s.anchor \in Nat
    BY DEF Session
  <1> QED
    BY <1>2, <1>3, <1>4

-----------------------------------------------------------------------------
(* Plays.                                                                  *)

\* A play, a resignation or a draw that ends the game.
LEMMA CommitEnds ==
  ASSUME NEW t \in Nat, NEW s \in Session, NEW table \in Table, table.over,
         \A i \in DOMAIN s.log : s.log[i] # "over", s.reason # "time"
  PROVE  /\ CommitTable(s, table, t) \in Result
         /\ CommitTable(s, table, t).s.status = "finished"
         /\ CommitTable(s, table, t).s.reason # "time"
         /\ Sound(CommitTable(s, table, t).s, t)
  <1> DEFINE log == Append(s.log, "shot")
             shown == [s EXCEPT !.table = table, !.log = Append(@, "shot")]
             quiet == NoTimer(shown)
             reason == IF s.reason = "none" THEN "played" ELSE s.reason
             u == [quiet EXCEPT !.status = "finished", !.log = Append(@, "over"),
                                !.reason = IF @ = "none" THEN "played" ELSE @]
  <1>1. /\ s.log \in Seq({"shot", "over"}) /\ log \in Seq({"shot", "over"})
        /\ Append(log, "over") \in Seq({"shot", "over"})
    BY LogAppend DEF Session
  <1>2. shown \in Session /\ shown.log = log /\ shown.reason = s.reason
    BY <1>1 DEF Session
  <1>3. CommitTable(s, table, t) = [Did(u) EXCEPT !.saved = <<JobOf(shown)>>]
    BY DEF CommitTable
  <1> HIDE DEF shown
  <1>4. quiet \in Session /\ quiet.log = log /\ quiet.reason = s.reason
    BY <1>2, NoTimerFacts
  <1> HIDE DEF quiet, log
  <1>5. reason \in Reason /\ reason # "time"
    BY DEF Session, Reason
  <1>6. u = [quiet EXCEPT !.status = "finished", !.log = Append(log, "over"), !.reason = reason]
    BY <1>4
  <1> HIDE DEF u, reason
  <1>7. /\ u \in Session /\ u.status = "finished" /\ u.log = Append(log, "over")
        /\ u.reason = reason
    BY <1>1, <1>4, <1>5, <1>6 DEF Session
  <1>8. \A i \in DOMAIN log : log[i] # "over"
    BY <1>1, LogAppend DEF log
  <1>9. Told(u)
    BY <1>1, <1>7, <1>8, LogAppend DEF Told
  <1>10. [Did(u) EXCEPT !.saved = <<JobOf(shown)>>] \in Result
    <2>1. <<JobOf(shown)>> \in Seq(Job)
      BY <1>2, JobOfFacts
    <2> QED
      BY <1>7, <2>1, DidFacts DEF Result
  <1>11. [Did(u) EXCEPT !.saved = <<JobOf(shown)>>].s = u
    BY <1>7, DidFacts DEF Did
  <1> QED
    BY <1>3, <1>5, <1>7, <1>9, <1>10, <1>11 DEF Sound

\* A play after which the game goes on, unless it has run the clock out.
LEMMA CommitGoesOn ==
  ASSUME NEW t \in Nat, NEW s \in Session, NEW table \in Table, ~table.over,
         Ready([s EXCEPT !.table = table], t)
  PROVE  /\ CommitTable(s, table, t) \in Result
         /\ Sound(CommitTable(s, table, t).s, t) /\ Runs(CommitTable(s, table, t).s)
         /\ Forfeits(s, CommitTable(s, table, t).s, t)
  <1> DEFINE shown == [s EXCEPT !.table = table, !.log = Append(@, "shot")]
             did == Schedule(shown, t)
  <1>1. /\ s.log \in Seq({"shot", "over"}) /\ Append(s.log, "shot") \in Seq({"shot", "over"})
        /\ \A i \in DOMAIN s.log : s.log[i] # "over"
        /\ s.reason = "none" /\ s.active = table.turn /\ s.status = "active"
        /\ \A c \in s.calling : s.bank[c] <= IF c = s.active THEN t - s.anchor ELSE 0
    BY LogAppend DEF Session, Ready, InPlay
  <1>2. \A i \in DOMAIN Append(s.log, "shot") : Append(s.log, "shot")[i] # "over"
    BY <1>1, LogAppend
  <1>3. /\ shown \in Session /\ shown.log = Append(s.log, "shot") /\ shown.reason = "none"
        /\ shown.active = s.active /\ shown.table = table /\ shown.status = "active"
        /\ shown.calling = s.calling /\ shown.bank = s.bank /\ shown.anchor = s.anchor
    BY <1>1 DEF Session
  <1>4. CommitTable(s, table, t) = [did EXCEPT !.queued = <<JobOf(shown)>>]
    BY DEF CommitTable
  <1> HIDE DEF shown
  <1>5. Ready(shown, t)
    BY <1>1, <1>2, <1>3 DEF Ready, InPlay
  <1>6. /\ did \in Result /\ Sound(did.s, t) /\ Runs(did.s)
        /\ did.s.reason = "time" =>
             /\ did.s.table.turn = s.active /\ did.s.table.winner # did.s.table.turn
             /\ s.bank[s.active] <= t - s.anchor
    BY <1>3, <1>5, ScheduleFacts
  <1> HIDE DEF did
  <1>7. <<JobOf(shown)>> \in Seq(Job)
    BY <1>3, JobOfFacts
  <1>8. /\ [did EXCEPT !.queued = <<JobOf(shown)>>] \in Result
        /\ [did EXCEPT !.queued = <<JobOf(shown)>>].s = did.s
    BY <1>6, <1>7 DEF Result
  <1>9. Forfeits(s, did.s, t)
    BY <1>6 DEF Forfeits
  <1> QED
    BY <1>4, <1>6, <1>8, <1>9

LEMMA AfterFacts ==
  ASSUME NEW table \in Table, NEW outcome \in Outcome
  PROVE  /\ After(table, outcome) \in Table
         /\ After(table, outcome).turn \in {table.turn, Other(table.turn)}
  <1>1. table.turn \in Color /\ Other(table.turn) \in Color
    BY OtherColor DEF Table
  <1>2. CASE outcome = "stays"
    BY <1>1, <1>2 DEF After, Table
  <1>3. CASE outcome = "passes"
    BY <1>1, <1>3 DEF After, Table
  <1>4. CASE outcome = "scratch"
    BY <1>1, <1>4 DEF After, Table
  <1>5. CASE outcome = "wins"
    BY <1>1, <1>5 DEF After, Table
  <1>6. CASE outcome = "loses"
    BY <1>1, <1>6 DEF After, Table
  <1> QED
    BY <1>2, <1>3, <1>4, <1>5, <1>6 DEF Outcome

\* A play of a session in play: what it leaves, and whom it forfeits.
Plays(s, did, t) ==
  did \in Result /\ Sound(did.s, t) /\ Runs(did.s) /\ Forfeits(s, did.s, t)

LEMMA ShotFacts ==
  ASSUME NEW t \in Nat, NEW s, Ready(s, t), NEW outcome \in Outcome
  PROVE  Plays(s, Shot(s, outcome, t), t)
  <1> DEFINE table == After(s.table, outcome)
             a == s.active
  <1>1. /\ s \in Session /\ s.status = "active" /\ InPlay(s, t) /\ a \in Color
        /\ s.table \in Table /\ s.bank \in [Color -> Nat] /\ s.anchor \in Nat
        /\ s.calling \subseteq Color
    BY DEF Ready, Session
  <1>2. /\ table \in Table /\ table.turn \in {s.table.turn, Other(s.table.turn)}
        /\ s.table.turn = a /\ s.reason = "none"
        /\ \A i \in DOMAIN s.log : s.log[i] # "over"
    BY <1>1, AfterFacts DEF InPlay
  <1>3. Shot(s, outcome, t) = CommitTable(IF table.turn # s.table.turn THEN Ticked(s, t) ELSE s, table, t)
    BY DEF Shot
  <1> HIDE DEF table
  <1>4. CASE table.turn = s.table.turn
    <2>1. Shot(s, outcome, t) = CommitTable(s, table, t)
      BY <1>3, <1>4
    <2>2. CASE table.over
      BY <1>1, <1>2, <2>1, <2>2, CommitEnds DEF Plays, Runs, Forfeits
    <2>3. CASE ~table.over
      <3>1. Ready([s EXCEPT !.table = table], t)
        BY <1>1, <1>2, <1>4 DEF Ready, InPlay, Session
      <3> QED
        BY <1>1, <1>2, <2>1, <2>3, <3>1, CommitGoesOn DEF Plays
    <2> QED
      BY <2>2, <2>3
  <1>5. CASE table.turn # s.table.turn
    <2> DEFINE v == Ticked(s, t)
    <2>1. Shot(s, outcome, t) = CommitTable(v, table, t) /\ table.turn = Other(a)
      BY <1>2, <1>3, <1>5
    <2>2. /\ v \in Session /\ v.status = "active" /\ v.reason = "none" /\ v.active = Other(a)
          /\ v.anchor = t /\ v.calling = s.calling /\ v.log = s.log
          /\ v.bank = Synced(s, t).bank
      BY <1>1, <1>2, TickedFacts
    <2>3. /\ v.bank[a] = Less(s.bank[a], t - s.anchor)
          /\ \A c \in Color : c # a => v.bank[c] = s.bank[c]
      BY <1>1, <2>2, SyncedFacts
    <2> HIDE DEF v
    <2>4. Other(a) \in Color /\ Other(a) # a /\ \A c \in Color : c = a \/ c = Other(a)
      BY <1>1, OtherColor
    <2>5. CASE table.over
      BY <1>2, <2>1, <2>2, <2>5, CommitEnds DEF Plays, Runs, Forfeits
    <2>6. CASE ~table.over
      <3>1. ASSUME NEW c \in s.calling
            PROVE  v.bank[c] <= IF c = Other(a) THEN t - t ELSE 0
        <4>1. CASE c = a
          <5>1. s.bank[a] <= t - s.anchor /\ s.bank[a] \in Nat /\ t - s.anchor \in Int
            BY <1>1, <4>1 DEF InPlay
          <5>2. v.bank[a] <= 0
            BY <2>3, <5>1, LessFacts
          <5> QED
            BY <2>4, <4>1, <5>2
        <4>2. CASE c # a
          <5>1. s.bank[c] <= 0 /\ v.bank[c] = s.bank[c]
            BY <1>1, <2>3, <4>2 DEF InPlay
          <5> QED
            BY <5>1
        <4> QED
          BY <4>1, <4>2
      <3> DEFINE w == [v EXCEPT !.table = table]
      <3>2. /\ w \in Session /\ w.status = "active" /\ w.reason = "none" /\ w.table = table
            /\ w.active = Other(a) /\ w.anchor = t /\ w.calling = s.calling /\ w.log = s.log
            /\ w.bank = v.bank
        BY <1>2, <2>2 DEF Session
      <3> HIDE DEF w
      <3>3. Ready(w, t)
        BY <1>2, <2>1, <3>1, <3>2 DEF Ready, InPlay
      <3>4. /\ CommitTable(v, table, t) \in Result
            /\ Sound(CommitTable(v, table, t).s, t) /\ Runs(CommitTable(v, table, t).s)
            /\ Forfeits(v, CommitTable(v, table, t).s, t)
        BY <1>2, <2>2, <2>6, <3>3, CommitGoesOn DEF w
      <3> DEFINE u == CommitTable(v, table, t).s
      <3>5. u \in Session /\ u.table.turn \in Color
        BY <3>4 DEF Result, Session, Table
      <3> HIDE DEF u
      <3>6. Forfeits(v, u, t)
        BY <3>4 DEF u
      <3>7. ASSUME u.reason = "time"
            PROVE  /\ u.table.winner # u.table.turn
                   /\ s.bank[u.table.turn] <= IF u.table.turn = a THEN t - s.anchor ELSE 0
        <4>1. /\ u.table.winner # u.table.turn
              /\ v.bank[u.table.turn] <= IF u.table.turn = Other(a) THEN t - t ELSE 0
          BY <2>2, <3>6, <3>7 DEF Forfeits
        <4>2. v.bank[u.table.turn] <= 0
          BY <4>1
        <4>3. CASE u.table.turn = a
          <5>1. s.bank[a] \in Nat /\ t - s.anchor \in Int
            BY <1>1
          <5>2. v.bank[a] <= 0 <=> s.bank[a] <= t - s.anchor
            BY <2>3, <5>1, LessFacts
          <5> QED
            BY <4>1, <4>2, <4>3, <5>2
        <4>4. CASE u.table.turn # a
          BY <2>3, <3>5, <4>1, <4>2, <4>4
        <4> QED
          BY <4>3, <4>4
      <3>8. Forfeits(s, u, t)
        BY <3>7 DEF Forfeits
      <3> QED
        BY <2>1, <3>4, <3>8 DEF Plays, u
    <2> QED
      BY <2>5, <2>6
  <1> QED
    BY <1>4, <1>5

\* The timer of a session in play runs out while the physics of a shot is done.
LEMMA FiredReady ==
  ASSUME NEW n \in Nat, NEW t \in Nat, n <= t, NEW s, Ready(s, n), Timed(s), s.anchor = n,
         s.timer.state = "armed", t >= s.timer.due
  PROVE  Ready(Fired(s), t) /\ Fired(s).bank = s.bank /\ Fired(s).active = s.active
         /\ Fired(s).anchor = s.anchor /\ Fired(s).reason = s.reason
  <1> DEFINE f == Fired(s)
  <1>1. /\ s \in Session /\ InPlay(s, n) /\ s.active \in Color /\ s.bank \in [Color -> Nat]
        /\ s.status = "active" /\ s.calling \subseteq Color
    BY DEF Ready, Session
  <1>2. /\ f \in Session /\ f.status = "active" /\ f.table = s.table /\ f.reason = s.reason
        /\ f.bank = s.bank /\ f.active = s.active /\ f.anchor = n
        /\ f.calling = s.calling \cup {s.active} /\ f.log = s.log
    BY <1>1, FiredFacts DEF Timed
  <1> HIDE DEF f
  <1>3. s.bank[s.active] \in Nat /\ s.timer.due = n + s.bank[s.active]
    BY <1>1 DEF Timed
  <1>4. s.bank[s.active] <= t - n
    BY <1>3
  <1>5. ASSUME NEW c \in f.calling
        PROVE  f.bank[c] <= IF c = f.active THEN t - f.anchor ELSE 0
    <2>1. CASE c = s.active
      BY <1>2, <1>4, <2>1
    <2>2. CASE c # s.active
      BY <1>1, <1>2, <2>2 DEF InPlay
    <2> QED
      BY <2>1, <2>2
  <1>6. Ready(f, t)
    BY <1>1, <1>2, <1>5 DEF Ready, InPlay
  <1> QED
    BY <1>2, <1>6 DEF f

\* Time goes by.
LEMMA LaterSound ==
  ASSUME NEW n \in Nat, NEW t \in Nat, n <= t, NEW s, Sound(s, n)
  PROVE  Sound(s, t)
  <1>1. s \in Session /\ s.anchor \in Nat /\ s.bank \in [Color -> Nat] /\ s.calling \subseteq Color
    BY DEF Sound, Session
  <1>2. ASSUME InPlay(s, n)
        PROVE  InPlay(s, t)
    <2>1. ASSUME NEW c \in s.calling
          PROVE  s.bank[c] <= IF c = s.active THEN t - s.anchor ELSE 0
      <3>1. s.bank[c] \in Nat /\ s.bank[c] <= IF c = s.active THEN n - s.anchor ELSE 0
        BY <1>1, <1>2 DEF InPlay
      <3> QED
        BY <1>1, <3>1
    <2> QED
      BY <1>2, <2>1 DEF InPlay
  <1> QED
    BY <1>2 DEF Sound

\* surrender, agree_draw
LEMMA EndedFacts ==
  ASSUME NEW t \in Nat, NEW s, Ready(s, t), NEW winner \in Color \cup {"none"},
         NEW reason \in {"surrender", "draw"}
  PROVE  Plays(s, Ended(s, winner, reason, t), t)
  <1> DEFINE quiet == NoTimer(s)
             v == [quiet EXCEPT !.reason = reason]
             table == [s.table EXCEPT !.over = TRUE, !.winner = winner]
  <1>1. /\ s \in Session /\ s.table \in Table /\ \A i \in DOMAIN s.log : s.log[i] # "over"
    BY DEF Ready, InPlay, Session
  <1>2. table \in Table /\ table.over
    BY <1>1 DEF Table
  <1>3. Ended(s, winner, reason, t) = CommitTable(v, table, t)
    BY DEF Ended
  <1>4. quiet \in Session /\ quiet.log = s.log
    BY <1>1, NoTimerFacts
  <1> HIDE DEF table, quiet
  <1>5. v \in Session /\ v.log = s.log /\ v.reason = reason
    BY <1>4 DEF Session, Reason
  <1> HIDE DEF v
  <1> QED
    BY <1>1, <1>2, <1>3, <1>5, CommitEnds DEF Plays, Runs, Forfeits

LEMMA PlaceFacts ==
  ASSUME NEW t \in Nat, NEW s, Ready(s, t)
  PROVE  Plays(s, CommitTable(s, s.table, t), t)
  <1>1. /\ s \in Session /\ s.table \in Table /\ \A i \in DOMAIN s.log : s.log[i] # "over"
        /\ s.reason = "none"
    BY DEF Ready, InPlay, Session
  <1>2. CASE s.table.over
    BY <1>1, <1>2, CommitEnds DEF Plays, Runs, Forfeits
  <1>3. CASE ~s.table.over
    <2>1. [s EXCEPT !.table = s.table] = s
      BY <1>1 DEF Session
    <2> QED
      BY <1>1, <1>3, <2>1, CommitGoesOn DEF Plays
  <1> QED
    BY <1>2, <1>3

\* A session built from the database has its clock looked at and its timer set.
LEMMA BuiltFacts ==
  ASSUME NEW t \in Nat, NEW status \in {"active", "finished"}, NEW row \in Row
  PROVE  /\ Built(status, row, t) \in Result
         /\ Sound(Built(status, row, t).s, t) /\ Runs(Built(status, row, t).s)
  <1> DEFINE s == [status |-> IF row.table.over THEN "finished" ELSE status,
                   table  |-> row.table, reason |-> "none", bank |-> row.bank,
                   active |-> row.table.turn, anchor |-> row.at,
                   timer  |-> [state |-> "none", color |-> "w", due |-> 0], calling |-> {},
                   log    |-> <<>>]
             did == Resolve(s, t)
  <1>1. Built(status, row, t) =
          IF s.status = "active" /\ did.s.status = "active" THEN Schedule(did.s, t) ELSE did
    BY DEF Built
  <1>2. /\ row.table \in Table /\ row.table.turn \in Color /\ row.bank \in [Color -> Nat]
        /\ row.at \in Nat
    BY DEF Row, Table
  <1>3. [state |-> "none", color |-> "w", due |-> 0] \in Timer
    BY DEF Timer, Color
  <1>4. <<>> \in Seq({"shot", "over"}) /\ DOMAIN <<>> = {}
    OBVIOUS
  <1>5. /\ s \in Session /\ s.reason = "none" /\ s.active = s.table.turn /\ s.log = <<>>
        /\ s.calling = {} /\ s.timer.state = "none"
    BY <1>2, <1>3, <1>4 DEF Session, Reason
  <1> HIDE DEF s
  <1>6. Sound(s, t)
    BY <1>4, <1>5 DEF Sound, InPlay, Timed, Told
  <1>7. /\ did \in Result /\ Passes(s, did.s, t)
        /\ did.s.status = "active" => Looked(s, did.s, t)
    BY <1>6, ResolveFacts
  <1> HIDE DEF did
  <1>8. CASE did.s.status = "active"
    <2>1. Ready(did.s, t) /\ s.status = "active"
      BY <1>7, <1>8 DEF Looked
    <2> QED
      BY <1>1, <1>8, <2>1, ScheduleFacts
  <1>9. CASE did.s.status # "active"
    BY <1>1, <1>7, <1>9 DEF Passes, Runs
  <1> QED
    BY <1>8, <1>9

-----------------------------------------------------------------------------
(* Steps.                                                                  *)

Database == [status : {"active", "finished"}, rows : Seq(Row)]

\* What a step does to the sessions, as the two action properties say it.
Lasts ==
  \A k \in DOMAIN sessions :
    (k \in DOMAIN sessions' /\ sessions[k].status = "finished") =>
      /\ sessions'[k].status = "finished"
      /\ sessions'[k].table  = sessions[k].table
      /\ sessions'[k].reason = sessions[k].reason

Due ==
  \A k \in DOMAIN sessions \cap DOMAIN sessions' :
    LET s == sessions[k]
        t == sessions'[k] IN
    (s.reason = "none" /\ t.reason = "time") =>
      /\ t.table.winner # t.table.turn
      /\ s.bank[t.table.turn] <= IF t.table.turn = s.active THEN now' - s.anchor ELSE 0

Good == IInv' /\ Lasts /\ Due

LEMMA CommittedFacts ==
  ASSUME NEW d \in Database, NEW job \in Job, now' \in Nat
  PROVE  Committed(d, job) \in Database /\ Committed(d, job).rows # <<>>
  <1> DEFINE row == [table |-> job.table, bank |-> job.bank, at |-> now']
  <1>1. row \in Row
    BY DEF Row, Job
  <1>2. d.rows \in Seq(Row)
    BY DEF Database
  <1> HIDE DEF row
  <1>3. Append(d.rows, row) \in Seq(Row) /\ Append(d.rows, row) # <<>>
    <2>1. Append(d.rows, row) \in Seq(Row) /\ Len(d.rows) \in Nat
      BY <1>1, <1>2
    <2>2. Len(Append(d.rows, row)) = Len(d.rows) + 1
      BY <1>2
    <2> QED
      BY <2>1, <2>2
  <1>4. Committed(d, job) = [status |-> IF job.table.over THEN "finished" ELSE "active",
                             rows |-> Append(d.rows, row)]
    BY DEF Committed, row
  <1> QED
    BY <1>3, <1>4 DEF Database

LEMMA SaveNowFacts ==
  ASSUME TypeOK, db.rows # <<>>, NEW saved \in Seq(Job), SaveNow(saved), now' \in Nat
  PROVE  db' \in Database /\ db'.rows # <<>> /\ fails' \in 0..MaxFails
  <1>1. db \in Database /\ fails \in 0..MaxFails
    BY DEF TypeOK, Database
  <1>2. saved # <<>> => Head(saved) \in Job
    OBVIOUS
  <1>3. CASE db' = (IF saved = <<>> THEN db ELSE Committed(db, Head(saved))) /\ UNCHANGED fails
    BY <1>1, <1>2, <1>3, CommittedFacts
  <1>4. CASE fails < MaxFails /\ fails' = fails + 1 /\ UNCHANGED db
    BY <1>1, <1>4, PoolGameAssumption
  <1> QED
    BY <1>3, <1>4 DEF SaveNow

LEMMA ApplyFacts ==
  ASSUME TypeOK, db.rows # <<>>, NEW k, NEW did \in Result, Apply(k, did), now' \in Nat
  PROVE  /\ db' \in Database /\ db'.rows # <<>> /\ fails' \in 0..MaxFails
         /\ queue' \in Seq(Job)
  <1>1. queue \in Seq(Job) /\ did.queued \in Seq(Job) /\ did.saved \in Seq(Job)
        /\ db \in Database /\ fails \in 0..MaxFails
    BY DEF TypeOK, Result, Database
  <1>2. CASE queue' = queue \o did.queued /\ SaveNow(did.saved)
    BY <1>1, <1>2, SaveNowFacts
  <1>3. CASE /\ did.queued # <<>> /\ did.saved # <<>>
             /\ db' = Committed(Committed(db, Head(did.queued)), Head(did.saved))
             /\ UNCHANGED <<queue, fails>>
    <2>1. Head(did.queued) \in Job /\ Head(did.saved) \in Job
      BY <1>1, <1>3
    <2>2. Committed(db, Head(did.queued)) \in Database
      BY <1>1, <2>1, CommittedFacts
    <2> QED
      BY <1>1, <1>3, <2>1, <2>2, CommittedFacts
  <1> QED
    BY <1>2, <1>3 DEF Apply

\* The other sessions, when one has changed.
LEMMA SessionStep ==
  ASSUME IInv, NEW k \in DOMAIN sessions, NEW u, Passes(sessions[k], u, now'),
         sessions' = [sessions EXCEPT ![k] = u],
         now' \in now..MaxTime, UNCHANGED <<registered, loader, crashes>>,
         resigning' \in {"none", "ended", "ensured"}, played' \in 0..MaxPlays,
         queue' \in Seq(Job), db' \in Database, db'.rows # <<>>, fails' \in 0..MaxFails
  PROVE  Good
  <1>1. /\ now \in Nat /\ now' \in Nat /\ now <= now' /\ now' \in 0..MaxTime
        /\ sessions \in Seq(Session) /\ DOMAIN sessions = 1..Len(sessions)
    BY PoolGameAssumption DEF IInv, TypeOK
  <1>2. u \in Session
    BY DEF Passes, Sound
  <1>3. /\ sessions' \in Seq(Session) /\ Len(sessions') = Len(sessions)
        /\ DOMAIN sessions' = DOMAIN sessions /\ sessions'[k] = u
        /\ \A j \in DOMAIN sessions : j # k => sessions'[j] = sessions[j]
    BY <1>1, <1>2
  <1>4. TypeOK'
    BY <1>1, <1>3 DEF IInv, TypeOK, Database
  <1>5. SessionsSound'
    <2> SUFFICES ASSUME NEW j \in DOMAIN sessions
                 PROVE  Sound(sessions'[j], now')
      BY <1>3 DEF SessionsSound
    <2>1. CASE j = k
      BY <1>3, <2>1 DEF Passes
    <2>2. CASE j # k
      BY <1>1, <1>3, <2>2, LaterSound DEF IInv, SessionsSound
    <2> QED
      BY <2>1, <2>2
  <1>6. ASSUME NEW j \in DOMAIN sessions, Runs(sessions[j])
        PROVE  Runs(sessions'[j])
    BY <1>3, <1>6 DEF Passes
  <1>7. TimersRun'
    <2>1. registered # 0 => registered \in DOMAIN sessions /\ Runs(sessions[registered])
      BY <1>1 DEF IInv, TypeOK, TimersRun
    <2>2. \A l \in Loaders : Builds(l) => /\ loader[l].session \in DOMAIN sessions
                                          /\ Runs(sessions[loader[l].session])
      BY <1>1 DEF IInv, TypeOK, TimersRun, BuiltApart
    <2> QED
      BY <1>6, <2>1, <2>2 DEF TimersRun, Builds
  <1>8. BuiltApart'
    BY DEF IInv, BuiltApart, Builds
  <1>9. Lasts
    BY <1>3 DEF Lasts, Passes, Stays
  <1>10. Due
    BY <1>3 DEF Due, Passes, Forfeits
  <1> QED
    BY <1>4, <1>5, <1>7, <1>8, <1>9, <1>10 DEF Good, IInv

\* The sessions do not change.
LEMMA OtherStep ==
  ASSUME IInv, UNCHANGED <<sessions, registered, loader, crashes>>, now' \in now..MaxTime,
         resigning' \in {"none", "ended", "ensured"}, played' \in 0..MaxPlays,
         queue' \in Seq(Job), db' \in Database, db'.rows # <<>>, fails' \in 0..MaxFails
  PROVE  Good
  <1>1. /\ now \in Nat /\ now' \in Nat /\ now <= now' /\ now' \in 0..MaxTime
    BY PoolGameAssumption DEF IInv, TypeOK
  <1>2. TypeOK'
    BY <1>1 DEF IInv, TypeOK, Database
  <1>3. SessionsSound'
    BY <1>1, LaterSound DEF IInv, SessionsSound
  <1>4. TimersRun' /\ BuiltApart'
    BY DEF IInv, TimersRun, BuiltApart, Builds
  <1>5. Lasts /\ Due
    BY DEF Lasts, Due
  <1> QED
    BY <1>2, <1>3, <1>4, <1>5 DEF Good, IInv

LEMMA TickStep ==
  ASSUME IInv, Tick
  PROVE  Good
  <1>1. now' \in now..MaxTime
    BY PoolGameAssumption DEF Tick, IInv, TypeOK
  <1> QED
    BY <1>1, OtherStep DEF Tick, IInv, TypeOK, Database

LEMMA WorkerStep ==
  ASSUME IInv, WorkerSaves
  PROVE  Good
  <1>1. PICK i \in 1..2 :
          /\ i <= Len(queue)
          /\ queue' = SubSeq(queue, 1, i - 1) \o SubSeq(queue, i + 1, Len(queue))
          /\ now' = now
          /\ SaveNow(<<queue[i]>>)
          /\ UNCHANGED <<sessions, registered, loader, resigning, played, crashes>>
    BY DEF WorkerSaves
  <1>2. queue \in Seq(Job) /\ now \in Nat /\ now \in 0..MaxTime
    BY DEF IInv, TypeOK
  <1>3. queue[i] \in Job /\ <<queue[i]>> \in Seq(Job)
    BY <1>1, <1>2
  <1>4. SubSeq(queue, 1, i - 1) \in Seq(Job) /\ SubSeq(queue, i + 1, Len(queue)) \in Seq(Job)
    BY <1>1, <1>2
  <1>5. queue' \in Seq(Job)
    BY <1>1, <1>4
  <1>6. db' \in Database /\ db'.rows # <<>> /\ fails' \in 0..MaxFails
    BY <1>1, <1>2, <1>3, SaveNowFacts DEF IInv
  <1>7. now' \in now..MaxTime
    BY <1>1, <1>2, PoolGameAssumption
  <1>8. resigning' \in {"none", "ended", "ensured"} /\ played' \in 0..MaxPlays
    BY <1>1 DEF IInv, TypeOK
  <1> QED
    BY <1>1, <1>5, <1>6, <1>7, <1>8, OtherStep

LEMMA EnsureStep ==
  ASSUME IInv, EnsureFinishedRow
  PROVE  Good
  <1>1. db \in Database /\ db.rows # <<>> /\ now' \in now..MaxTime
    BY PoolGameAssumption DEF IInv, TypeOK, Database, EnsureFinishedRow
  <1>2. db' \in Database /\ db'.rows # <<>>
    BY <1>1 DEF EnsureFinishedRow, Database
  <1> QED
    BY <1>1, <1>2, OtherStep DEF EnsureFinishedRow, IInv, TypeOK

LEMMA FiresStep ==
  ASSUME IInv, NEW k \in DOMAIN sessions, TimerFires(k)
  PROVE  Good
  <1> DEFINE s == sessions[k]
             u == Fired(s)
  <1>1. /\ s.timer.state = "armed" /\ now >= s.timer.due /\ now' = now
        /\ sessions' = [sessions EXCEPT ![k] = u]
    BY DEF TimerFires
  <1>2. /\ Sound(s, now) /\ s \in Session /\ s.timer \in Timer /\ s.calling \subseteq Color
        /\ s.bank \in [Color -> Nat] /\ s.anchor \in Nat /\ s.active \in Color
    BY DEF IInv, SessionsSound, Sound, Session
  <1>3. now \in Nat /\ now' \in now..MaxTime
    BY <1>1, PoolGameAssumption DEF IInv, TypeOK
  <1>4. /\ u \in Session /\ u.timer = [s.timer EXCEPT !.state = "fired"] /\ u.status = s.status
        /\ u.table = s.table /\ u.reason = s.reason /\ u.bank = s.bank /\ u.active = s.active
        /\ u.anchor = s.anchor /\ u.calling = s.calling \cup {s.timer.color} /\ u.log = s.log
    BY <1>2, FiredFacts
  <1> HIDE DEF u, s
  <1>5. u.timer.state = "fired" /\ u.timer.color = s.timer.color /\ u.timer.due = s.timer.due
    BY <1>2, <1>4 DEF Timer
  <1>6. ASSUME s.status = "active"
        PROVE  InPlay(u, now) /\ Timed(u)
    <2>1. InPlay(s, now) /\ Timed(s)
      BY <1>2, <1>6 DEF Sound
    <2>2. s.timer.color = s.active /\ s.timer.due = s.anchor + s.bank[s.active]
      BY <1>1, <2>1 DEF Timed
    <2>3. s.bank[s.active] \in Nat
      BY <1>2
    <2>4. s.bank[s.active] <= now - s.anchor
      BY <1>1, <1>2, <1>3, <2>2, <2>3
    <2>5. ASSUME NEW c \in u.calling
          PROVE  u.bank[c] <= IF c = u.active THEN now - u.anchor ELSE 0
      BY <1>4, <2>1, <2>2, <2>4 DEF InPlay
    <2> QED
      BY <1>4, <1>5, <2>1, <2>2, <2>5 DEF InPlay, Timed
  <1>7. ASSUME s.status = "finished"
        PROVE  Told(u)
    BY <1>2, <1>4, <1>7 DEF Sound, Told
  <1>8. Sound(u, now)
    BY <1>4, <1>6, <1>7 DEF Sound
  <1>9. Passes(s, u, now')
    BY <1>1, <1>4, <1>5, <1>8 DEF Passes, Stays, Forfeits, Runs
  <1>10. sessions' = [sessions EXCEPT ![k] = u] /\ Passes(sessions[k], u, now')
    BY <1>1, <1>9 DEF s
  <1>11. /\ UNCHANGED <<registered, loader, crashes>>
         /\ resigning' \in {"none", "ended", "ensured"} /\ played' \in 0..MaxPlays
         /\ queue' \in Seq(Job) /\ db' \in Database /\ db'.rows # <<>> /\ fails' \in 0..MaxFails
    BY DEF TimerFires, IInv, TypeOK, Database
  <1> QED
    BY <1>3, <1>10, <1>11, SessionStep

LEMMA CallbackStep ==
  ASSUME IInv, NEW k \in DOMAIN sessions, Callback(k)
  PROVE  Good
  <1> DEFINE s == sessions[k]
  <1>1. PICK c \in s.calling :
          /\ now' = now
          /\ Apply(k, Expire([s EXCEPT !.calling = @ \ {c}], c))
          /\ UNCHANGED <<registered, loader, resigning, played, crashes>>
    BY DEF Callback
  <1> DEFINE v   == [s EXCEPT !.calling = @ \ {c}]
             did == Expire(v, c)
             u   == did.s
  <1>2. /\ Sound(s, now) /\ s \in Session /\ c \in Color /\ s.bank \in [Color -> Nat]
        /\ s.status \in {"active", "finished"}
    BY DEF IInv, SessionsSound, Sound, Session
  <1>3. now \in Nat /\ now' \in Nat /\ now' \in now..MaxTime
    BY <1>1, PoolGameAssumption DEF IInv, TypeOK
  <1>4. /\ v \in Session /\ v.timer = s.timer /\ v.status = s.status
        /\ v.table = s.table /\ v.reason = s.reason /\ v.bank = s.bank /\ v.active = s.active
        /\ v.anchor = s.anchor /\ v.calling = s.calling \ {c} /\ v.log = s.log
    BY <1>2 DEF Session
  <1>5. sessions' = [sessions EXCEPT ![k] = u] /\ Apply(k, did)
    BY <1>1 DEF Apply
  <1> HIDE DEF s, v, did
  <1>6. s.status = "active" => \A i \in DOMAIN v.log : v.log[i] # "over"
    BY <1>2, <1>4 DEF Sound, InPlay
  <1>7. did \in Result /\ Passes(s, u, now)
    <2>1. CASE ~(v.status = "active" /\ v.table.turn = c)
      <3>1. did = Did(v)
        BY <1>2, <1>4, <1>6, <2>1, ExpireFacts DEF did
      <3>2. Sound(v, now)
        BY <1>2, <1>4 DEF Sound, InPlay, Timed, Told
      <3> QED
        BY <1>4, <3>1, <3>2, DidFacts DEF Passes, Stays, Forfeits, Runs
    <2>2. CASE v.status = "active" /\ v.table.turn = c
      <3>1. /\ did \in Result /\ u.status = "finished" /\ Told(u)
            /\ u.table.turn = c /\ u.table.winner = Other(c)
        BY <1>2, <1>4, <1>6, <2>2, ExpireFacts DEF did
      <3>2. s.bank[c] <= IF c = s.active THEN now - s.anchor ELSE 0
        BY <1>1, <1>2, <1>4, <2>2 DEF Sound, InPlay, s
      <3>3. Sound(u, now)
        BY <3>1 DEF Sound, Result
      <3> QED
        BY <1>2, <1>4, <2>2, <3>1, <3>2, <3>3, OtherColor DEF Passes, Stays, Forfeits, Runs
    <2> QED
      BY <2>1, <2>2
  <1>8. db' \in Database /\ db'.rows # <<>> /\ fails' \in 0..MaxFails /\ queue' \in Seq(Job)
    BY <1>3, <1>5, <1>7, ApplyFacts DEF IInv
  <1>9. /\ UNCHANGED <<registered, loader, crashes>>
        /\ resigning' \in {"none", "ended", "ensured"} /\ played' \in 0..MaxPlays
    BY <1>1 DEF IInv, TypeOK
  <1>10. Passes(sessions[k], u, now')
    BY <1>1, <1>7 DEF s
  <1> HIDE DEF u
  <1> QED
    BY <1>3, <1>5, <1>8, <1>9, <1>10, SessionStep

\* The registered session, looked at by a request that is let through.
LEMMA MayPlayFacts ==
  ASSUME IInv, NEW k \in DOMAIN sessions, MayPlay(k)
  PROVE  /\ sessions[k] \in Session /\ sessions[k].status = "active"
         /\ Looked(sessions[k], Resolve(sessions[k], now).s, now)
  <1>1. Sound(sessions[k], now) /\ now \in Nat
    BY DEF IInv, SessionsSound, TypeOK
  <1> QED
    BY <1>1, ResolveFacts DEF MayPlay, Sound

LEMMA RefreshStep ==
  ASSUME IInv, NEW k \in DOMAIN sessions, Refresh(k)
  PROVE  Good
  <1> DEFINE did == Resolve(sessions[k], now)
  <1>1. /\ now' = now /\ Apply(k, did) /\ sessions' = [sessions EXCEPT ![k] = did.s]
        /\ UNCHANGED <<registered, loader, resigning, played, crashes>>
    BY DEF Refresh, Apply
  <1>2. now \in Nat /\ now' \in Nat /\ now' \in now..MaxTime
    BY <1>1, PoolGameAssumption DEF IInv, TypeOK
  <1>3. did \in Result /\ Passes(sessions[k], did.s, now')
    BY <1>1, <1>2, ResolveFacts DEF IInv, SessionsSound
  <1> HIDE DEF did
  <1>4. db' \in Database /\ db'.rows # <<>> /\ fails' \in 0..MaxFails /\ queue' \in Seq(Job)
    BY <1>1, <1>2, <1>3, ApplyFacts DEF IInv
  <1>5. resigning' \in {"none", "ended", "ensured"} /\ played' \in 0..MaxPlays
    BY <1>1 DEF IInv, TypeOK
  <1> QED
    BY <1>1, <1>2, <1>3, <1>4, <1>5, SessionStep

\* A play of a session that has been looked at.
LEMMA PlayStep ==
  ASSUME IInv, NEW k \in DOMAIN sessions, MayPlay(k), now' \in now..MaxTime,
         NEW s, NEW did, Plays(s, did, now'), Apply(k, did),
         s.reason = "none", s.active = Resolve(sessions[k], now).s.active,
         s.bank = Resolve(sessions[k], now).s.bank, s.anchor = Resolve(sessions[k], now).s.anchor,
         UNCHANGED <<registered, loader, crashes>>,
         resigning' \in {"none", "ended", "ensured"}, played' \in 0..MaxPlays
  PROVE  Good
  <1> DEFINE r == Resolve(sessions[k], now).s
             u == did.s
  <1>1. now \in Nat /\ now' \in Nat
    BY PoolGameAssumption DEF IInv, TypeOK
  <1>2. sessions[k] \in Session /\ sessions[k].status = "active" /\ Looked(sessions[k], r, now)
    BY MayPlayFacts
  <1>3. did \in Result /\ Sound(u, now') /\ Runs(u) /\ Forfeits(s, u, now') /\ u \in Session
    BY DEF Plays, Result
  <1> HIDE DEF r, u
  <1>4. r.reason = "none"
    BY <1>2 DEF Looked, Ready, InPlay
  <1>5. Forfeits(r, u, now')
    BY <1>3, <1>4 DEF Forfeits, r
  <1>6. Forfeits(sessions[k], u, now')
    BY <1>1, <1>2, <1>3, <1>5, ForfeitAfterLook
  <1>7. Passes(sessions[k], u, now')
    BY <1>2, <1>3, <1>6 DEF Passes, Stays
  <1>8. db' \in Database /\ db'.rows # <<>> /\ fails' \in 0..MaxFails /\ queue' \in Seq(Job)
    BY <1>1, <1>3, ApplyFacts DEF IInv
  <1>9. sessions' = [sessions EXCEPT ![k] = u]
    BY DEF Apply, u
  <1> QED
    BY <1>7, <1>8, <1>9, SessionStep

LEMMA SubmitShotStep ==
  ASSUME IInv, NEW k \in DOMAIN sessions, SubmitShot(k)
  PROVE  Good
  <1> DEFINE s == Resolve(sessions[k], now).s
  <1>1. PICK outcome \in Outcome, d \in 0..MaxShot :
          /\ MayPlay(k) /\ played < MaxPlays /\ now + d <= MaxTime
          /\ now' = now + d
          /\ played' = played + 1
          /\ \/ Apply(k, Shot(s, outcome, now'))
             \/ /\ s.timer.state = "armed" /\ now' >= s.timer.due
                /\ Apply(k, Shot(Fired(s), outcome, now'))
          /\ UNCHANGED <<registered, loader, resigning, crashes>>
    BY DEF SubmitShot
  <1>2. now \in Nat /\ now' \in Nat /\ now <= now' /\ now' \in now..MaxTime /\ MaxShot \in Nat
    BY <1>1, PoolGameAssumption DEF IInv, TypeOK
  <1>3. Looked(sessions[k], s, now)
    BY <1>1, MayPlayFacts
  <1>4. resigning' \in {"none", "ended", "ensured"} /\ played' \in 0..MaxPlays
    BY <1>1, PoolGameAssumption DEF IInv, TypeOK
  <1>5. /\ Ready(s, now) /\ Timed(s) /\ s.anchor = now /\ s.reason = "none"
        /\ s \in Session /\ s.status = "active"
    BY <1>3 DEF Looked, Ready, InPlay
  <1>6. CASE Apply(k, Shot(s, outcome, now'))
    <2>1. Sound(s, now)
      BY <1>5 DEF Sound, Ready
    <2>2. Ready(s, now')
      BY <1>2, <1>5, <2>1, LaterSound DEF Sound, Ready
    <2>3. Plays(s, Shot(s, outcome, now'), now')
      BY <1>2, <2>2, ShotFacts
    <2> QED
      BY <1>1, <1>2, <1>4, <1>5, <1>6, <2>3, PlayStep
  <1>7. CASE /\ s.timer.state = "armed" /\ now' >= s.timer.due
             /\ Apply(k, Shot(Fired(s), outcome, now'))
    <2>1. /\ Ready(Fired(s), now') /\ Fired(s).bank = s.bank /\ Fired(s).active = s.active
          /\ Fired(s).anchor = s.anchor /\ Fired(s).reason = s.reason
      BY <1>2, <1>5, <1>7, FiredReady
    <2>2. Plays(Fired(s), Shot(Fired(s), outcome, now'), now')
      BY <1>2, <2>1, ShotFacts
    <2> QED
      BY <1>1, <1>2, <1>4, <1>5, <1>7, <2>1, <2>2, PlayStep
  <1> QED
    BY <1>1, <1>6, <1>7

LEMMA PlaceCueStep ==
  ASSUME IInv, NEW k \in DOMAIN sessions, PlaceCue(k)
  PROVE  Good
  <1> DEFINE s == Resolve(sessions[k], now).s
  <1>1. /\ MayPlay(k) /\ played < MaxPlays /\ now' = now /\ played' = played + 1
        /\ Apply(k, CommitTable(s, s.table, now'))
        /\ UNCHANGED <<registered, loader, resigning, crashes>>
    BY DEF PlaceCue
  <1>2. now \in Nat /\ now' \in Nat /\ now' \in now..MaxTime
    BY <1>1, PoolGameAssumption DEF IInv, TypeOK
  <1>3. resigning' \in {"none", "ended", "ensured"} /\ played' \in 0..MaxPlays
    BY <1>1, PoolGameAssumption DEF IInv, TypeOK
  <1>4. Ready(s, now') /\ s.reason = "none"
    BY <1>1, MayPlayFacts DEF Looked, Ready, InPlay
  <1>5. Plays(s, CommitTable(s, s.table, now'), now')
    BY <1>2, <1>4, PlaceFacts
  <1> QED
    BY <1>1, <1>2, <1>3, <1>4, <1>5, PlayStep

LEMMA SurrenderStep ==
  ASSUME IInv, NEW k \in DOMAIN sessions, Surrender(k)
  PROVE  Good
  <1> DEFINE s == Resolve(sessions[k], now).s
  <1>1. PICK c \in Color :
          /\ MayPlay(k) /\ played < MaxPlays /\ now' = now /\ played' = played + 1
          /\ Apply(k, Ended(s, Other(c), "surrender", now'))
          /\ resigning' = "ended" /\ UNCHANGED <<registered, loader, crashes>>
    BY DEF Surrender
  <1>2. now \in Nat /\ now' \in Nat /\ now' \in now..MaxTime
    BY <1>1, PoolGameAssumption DEF IInv, TypeOK
  <1>3. resigning' \in {"none", "ended", "ensured"} /\ played' \in 0..MaxPlays
    BY <1>1, PoolGameAssumption DEF IInv, TypeOK
  <1>4. Ready(s, now') /\ s.reason = "none"
    BY <1>1, MayPlayFacts DEF Looked, Ready, InPlay
  <1>5. Other(c) \in Color
    BY OtherColor
  <1>6. Plays(s, Ended(s, Other(c), "surrender", now'), now')
    BY <1>2, <1>4, <1>5, EndedFacts
  <1> QED
    BY <1>1, <1>2, <1>3, <1>4, <1>6, PlayStep

LEMMA AgreeDrawStep ==
  ASSUME IInv, NEW k \in DOMAIN sessions, AgreeDraw(k)
  PROVE  Good
  <1> DEFINE s == Resolve(sessions[k], now).s
  <1>1. /\ MayPlay(k) /\ played < MaxPlays /\ now' = now /\ played' = played + 1
        /\ Apply(k, Ended(s, "none", "draw", now'))
        /\ UNCHANGED <<registered, loader, resigning, crashes>>
    BY DEF AgreeDraw
  <1>2. now \in Nat /\ now' \in Nat /\ now' \in now..MaxTime
    BY <1>1, PoolGameAssumption DEF IInv, TypeOK
  <1>3. resigning' \in {"none", "ended", "ensured"} /\ played' \in 0..MaxPlays
    BY <1>1, PoolGameAssumption DEF IInv, TypeOK
  <1>4. Ready(s, now') /\ s.reason = "none"
    BY <1>1, MayPlayFacts DEF Looked, Ready, InPlay
  <1>5. Plays(s, Ended(s, "none", "draw", now'), now')
    BY <1>2, <1>4, EndedFacts
  <1> QED
    BY <1>1, <1>2, <1>3, <1>4, <1>5, PlayStep

\* A session that leaves the registry loses its timer, and no request holds it.
LEMMA UnregisterStep ==
  ASSUME IInv, Unregister, resigning' \in {"none", "ended", "ensured"}
  PROVE  Good
  <1>1. /\ now \in Nat /\ now' = now /\ sessions \in Seq(Session)
        /\ DOMAIN sessions = 1..Len(sessions) /\ registered \in 0..Len(sessions)
        /\ registered' = 0 /\ loader' = loader
    BY DEF IInv, TypeOK, Unregister
  <1>2. CASE registered = 0
    <2>1. UNCHANGED <<sessions, registered, loader, queue, db, now, played, fails, crashes>>
      BY <1>1, <1>2 DEF Unregister
    <2>2. now' \in now..MaxTime
      BY <1>1, PoolGameAssumption DEF IInv, TypeOK
    <2>3. /\ played' \in 0..MaxPlays /\ queue' \in Seq(Job) /\ db' \in Database
          /\ db'.rows # <<>> /\ fails' \in 0..MaxFails
      BY <2>1 DEF IInv, TypeOK, Database
    <2> QED
      BY <2>1, <2>2, <2>3, OtherStep
  <1>3. CASE registered # 0
    <2> DEFINE s == sessions[registered]
               u == NoTimer(s)
    <2>1. /\ registered \in DOMAIN sessions /\ s \in Session /\ Sound(s, now)
          /\ sessions' = [sessions EXCEPT ![registered] = u]
      BY <1>1, <1>3 DEF Unregister, IInv, SessionsSound
    <2>2. /\ u \in Session /\ u.timer.state = "none" /\ u.status = s.status
          /\ u.table = s.table /\ u.reason = s.reason /\ u.bank = s.bank /\ u.active = s.active
          /\ u.anchor = s.anchor /\ u.calling = s.calling /\ u.log = s.log
      BY <2>1, NoTimerFacts
    <2> HIDE DEF u
    <2>3. Sound(u, now)
      BY <2>1, <2>2 DEF Sound, InPlay, Timed, Told
    <2>4. /\ sessions' \in Seq(Session) /\ Len(sessions') = Len(sessions)
          /\ DOMAIN sessions' = DOMAIN sessions /\ sessions'[registered] = u
          /\ \A j \in DOMAIN sessions : j # registered => sessions'[j] = sessions[j]
      BY <1>1, <2>1, <2>2
    <2>5. TypeOK'
      BY <1>1, <2>4 DEF IInv, TypeOK, Unregister
    <2>6. SessionsSound'
      <3> SUFFICES ASSUME NEW j \in DOMAIN sessions
                   PROVE  Sound(sessions'[j], now)
        BY <1>1, <2>4 DEF SessionsSound
      <3> QED
        BY <2>3, <2>4 DEF IInv, SessionsSound
    <2>7. \A l \in Loaders : Builds(l) => /\ loader[l].session \in DOMAIN sessions
                                          /\ loader[l].session # registered
      BY <1>1 DEF IInv, TypeOK, BuiltApart
    <2>8. TimersRun'
      BY <1>1, <2>4, <2>7 DEF IInv, TimersRun, Builds
    <2>9. BuiltApart'
      BY <1>1 DEF IInv, BuiltApart, Builds
    <2>10. Lasts /\ Due
      BY <2>2, <2>4 DEF Lasts, Due
    <2>11. db'.rows # <<>>
      BY DEF IInv, Unregister
    <2> QED
      BY <2>5, <2>6, <2>8, <2>9, <2>10, <2>11 DEF Good, IInv
  <1> QED
    BY <1>2, <1>3

LEMMA LoadRowStep ==
  ASSUME IInv, NEW l \in Loaders, LoadRow(l)
  PROVE  Good
  <1>1. /\ now' = now /\ sessions' = sessions /\ registered' = registered
        /\ \A m \in Loaders : loader'[m].at = "built" => m # l /\ loader'[m] = loader[m]
        /\ \A m \in Loaders : loader'[m].at # "built" \/ Builds(m)
    BY DEF LoadRow, IInv, TypeOK, Builds
  <1>2. TypeOK'
    BY DEF IInv, TypeOK, LoadRow
  <1>3. SessionsSound'
    BY <1>1 DEF IInv, SessionsSound
  <1>4. TimersRun' /\ BuiltApart'
    BY <1>1 DEF IInv, TimersRun, BuiltApart, Builds
  <1>5. Lasts /\ Due /\ db'.rows # <<>>
    BY <1>1 DEF Lasts, Due, IInv, LoadRow
  <1> QED
    BY <1>2, <1>3, <1>4, <1>5 DEF Good, IInv

LEMMA JoinStep ==
  ASSUME IInv, NEW l \in Loaders, Join(l)
  PROVE  Good
  <1>1. /\ now' = now /\ sessions' = sessions /\ Builds(l)
        /\ registered' = IF registered = 0 THEN loader[l].session ELSE registered
        /\ \A m \in Loaders : loader'[m].at = "built" => m # l /\ loader'[m] = loader[m]
    BY DEF Join, IInv, TypeOK, Builds
  <1>2. TypeOK'
    <2>1. registered' \in 0..Len(sessions)
      BY <1>1 DEF IInv, TypeOK
    <2> QED
      BY <1>1, <2>1 DEF IInv, TypeOK, Join
  <1>3. SessionsSound'
    BY <1>1 DEF IInv, SessionsSound
  <1>4. TimersRun'
    BY <1>1 DEF IInv, TimersRun, Builds
  <1>5. BuiltApart'
    BY <1>1 DEF IInv, BuiltApart, Builds
  <1>6. Lasts /\ Due /\ db'.rows # <<>>
    BY <1>1 DEF Lasts, Due, IInv, Join
  <1> QED
    BY <1>2, <1>3, <1>4, <1>5, <1>6 DEF Good, IInv

LEMMA BuildStep ==
  ASSUME IInv, NEW l \in Loaders, Build(l)
  PROVE  Good
  <1> DEFINE did == Built(loader[l].status, db.rows[Len(db.rows)], now)
             n == Len(sessions) + 1
             u == did.s
  <1>1. /\ loader[l].at = "row" /\ Len(sessions) < MaxSessions /\ now' = now
        /\ sessions' = Append(sessions, u) /\ SaveNow(did.saved)
        /\ loader' = [loader EXCEPT ![l] = [@ EXCEPT !.at = "built", !.session = n]]
        /\ UNCHANGED <<registered, resigning, queue, played, crashes>>
    BY DEF Build
  <1>2. /\ now \in Nat /\ sessions \in Seq(Session) /\ Len(sessions) \in Nat
        /\ DOMAIN sessions = 1..Len(sessions) /\ registered \in 0..Len(sessions)
        /\ loader[l].status \in {"active", "finished"}
        /\ db.rows \in Seq(Row) /\ db.rows # <<>>
    BY DEF IInv, TypeOK
  <1>3. db.rows[Len(db.rows)] \in Row
    BY <1>2
  <1>4. did \in Result /\ Sound(u, now) /\ Runs(u) /\ u \in Session /\ did.saved \in Seq(Job)
    BY <1>2, <1>3, BuiltFacts DEF Result
  <1> HIDE DEF did, u
  <1>5. db' \in Database /\ db'.rows # <<>> /\ fails' \in 0..MaxFails
    BY <1>1, <1>2, <1>4, SaveNowFacts DEF IInv
  <1>6. /\ sessions' \in Seq(Session) /\ Len(sessions') = n /\ DOMAIN sessions' = 1..n
        /\ sessions'[n] = u /\ \A j \in 1..Len(sessions) : sessions'[j] = sessions[j]
    BY <1>1, <1>2, <1>4
  <1>7. /\ loader \in [Loaders -> [at : {"idle", "row", "built"}, status : {"active", "finished"},
                                   session : 0..Len(sessions)]]
        /\ 0..Len(sessions) \subseteq 0..n /\ n \in 0..n
    BY <1>2 DEF IInv, TypeOK
  <1>8. loader' \in [Loaders -> [at : {"idle", "row", "built"}, status : {"active", "finished"},
                                 session : 0..n]]
    BY <1>1, <1>7
  <1>9. /\ loader'[l].session = n
        /\ \A m \in Loaders : m # l => loader'[m] = loader[m]
        /\ \A m \in Loaders : m # l => loader[m].session \in 0..Len(sessions)
    BY <1>1, <1>7
  <1>10. TypeOK'
    BY <1>1, <1>2, <1>5, <1>6, <1>8, PoolGameAssumption DEF IInv, TypeOK, Database
  <1>11. SessionsSound'
    <2> SUFFICES ASSUME NEW j \in 1..n
                 PROVE  Sound(sessions'[j], now)
      BY <1>1, <1>6 DEF SessionsSound
    <2>1. CASE j = n
      BY <1>4, <1>6, <2>1
    <2>2. CASE j # n
      <3>1. j \in 1..Len(sessions)
        BY <1>2, <2>2
      <3> QED
        BY <1>2, <1>6, <3>1 DEF IInv, SessionsSound
    <2> QED
      BY <2>1, <2>2
  <1>12. TimersRun'
    <2>1. registered' # 0 => Runs(sessions'[registered'])
      BY <1>1, <1>2, <1>6 DEF IInv, TimersRun
    <2>2. ASSUME NEW m \in Loaders, loader'[m].at = "built"
          PROVE  Runs(sessions'[loader'[m].session])
      <3>1. CASE m = l
        BY <1>4, <1>6, <1>9, <3>1
      <3>2. CASE m # l
        <4>1. Builds(m) /\ loader'[m] = loader[m] /\ loader[m].session \in 1..Len(sessions)
          BY <1>2, <1>9, <2>2, <3>2 DEF Builds, IInv, BuiltApart
        <4> QED
          BY <1>6, <4>1 DEF IInv, TimersRun
      <3> QED
        BY <3>1, <3>2
    <2> QED
      BY <2>1, <2>2 DEF TimersRun, Builds
  <1>13. BuiltApart'
    <2>1. ASSUME NEW m \in Loaders, loader'[m].at = "built"
          PROVE  loader'[m].session # 0 /\ loader'[m].session # registered
      <3>1. CASE m = l
        BY <1>2, <1>9, <3>1
      <3>2. CASE m # l
        BY <1>9, <2>1, <3>2 DEF Builds, IInv, BuiltApart
      <3> QED
        BY <3>1, <3>2
    <2>2. ASSUME NEW m \in Loaders, NEW o \in Loaders, loader'[m].at = "built",
                 loader'[o].at = "built", loader'[m].session = loader'[o].session
          PROVE  m = o
      <3>1. n \notin 0..Len(sessions)
        BY <1>2
      <3>2. CASE m = l \/ o = l
        BY <1>9, <2>2, <3>1, <3>2
      <3>3. CASE m # l /\ o # l
        BY <1>9, <2>2, <3>3 DEF Builds, IInv, BuiltApart
      <3> QED
        BY <3>2, <3>3
    <2>3. registered' = registered
      BY <1>1
    <2> QED
      BY <2>1, <2>2, <2>3 DEF BuiltApart, Builds
  <1>14. Lasts /\ Due
    <2>1. \A j \in DOMAIN sessions : j \in DOMAIN sessions' /\ sessions'[j] = sessions[j]
      BY <1>2, <1>6
    <2> QED
      BY <2>1 DEF Lasts, Due
  <1> QED
    BY <1>5, <1>10, <1>11, <1>12, <1>13, <1>14 DEF Good, IInv

LEMMA CrashStep ==
  ASSUME IInv, Crash
  PROVE  Good
  <1>1. /\ sessions' = <<>> /\ registered' = 0 /\ queue' = <<>> /\ resigning' = "none"
        /\ crashes < MaxCrashes /\ crashes' = crashes + 1
        /\ loader' = [l \in Loaders |-> [at |-> "idle", status |-> "active", session |-> 0]]
        /\ UNCHANGED <<db, now, played, fails>>
    BY DEF Crash
  <1>2. /\ sessions' \in Seq(Session) /\ Len(sessions') = 0 /\ DOMAIN sessions' = {}
        /\ queue' \in Seq(Job)
    BY <1>1
  <1>3. 0 \in 0..0
    OBVIOUS
  <1>4. TypeOK'
    BY <1>1, <1>2, <1>3, PoolGameAssumption DEF IInv, TypeOK
  <1>5. SessionsSound' /\ TimersRun' /\ BuiltApart'
    BY <1>1, <1>2 DEF SessionsSound, TimersRun, BuiltApart, Builds
  <1>6. Lasts /\ Due /\ db'.rows # <<>>
    BY <1>1, <1>2 DEF Lasts, Due, IInv
  <1> QED
    BY <1>4, <1>5, <1>6 DEF Good, IInv

LEMMA InitIInv ==
  ASSUME Init
  PROVE  IInv
  <1>1. PICK c \in Color :
          LET row == [table |-> Opening(c), bank |-> [d \in Color |-> Bank], at |-> 0] IN
          /\ sessions = <<Built("active", row, 0).s>>
          /\ registered = 1
          /\ db = [status |-> "active", rows |-> <<row>>]
          /\ loader = [l \in Loaders |-> [at |-> "idle", status |-> "active", session |-> 0]]
          /\ resigning = "none" /\ queue = <<>>
          /\ now = 0 /\ played = 0 /\ fails = 0 /\ crashes = 0
    BY DEF Init
  <1> DEFINE row == [table |-> Opening(c), bank |-> [d \in Color |-> Bank], at |-> 0]
             s == Built("active", row, 0).s
  <1>2. row \in Row
    BY PoolGameAssumption DEF Row, Table, Opening
  <1>3. sessions = <<s>> /\ registered = 1 /\ db = [status |-> "active", rows |-> <<row>>]
    BY <1>1
  <1> HIDE DEF row
  <1>4. s \in Session /\ Sound(s, 0) /\ Runs(s)
    BY <1>2, BuiltFacts DEF Sound
  <1> HIDE DEF s
  <1>5. <<row>> \in Seq(Row) /\ <<row>> # <<>>
    BY <1>2
  <1>6. <<s>> \in Seq(Session) /\ Len(<<s>>) = 1 /\ DOMAIN <<s>> = {1} /\ <<s>>[1] = s
    BY <1>4
  <1>7. TypeOK
    BY <1>1, <1>3, <1>5, <1>6, PoolGameAssumption DEF TypeOK
  <1>8. SessionsSound /\ TimersRun /\ BuiltApart
    BY <1>1, <1>3, <1>4, <1>6 DEF SessionsSound, TimersRun, BuiltApart, Builds
  <1> QED
    BY <1>3, <1>5, <1>7, <1>8 DEF IInv

LEMMA NextGood ==
  ASSUME IInv, [Next]_vars
  PROVE  Good
  <1>1. CASE Tick
    BY <1>1, TickStep
  <1>2. CASE WorkerSaves
    BY <1>2, WorkerStep
  <1>3. CASE EnsureFinishedRow
    BY <1>3, EnsureStep
  <1>4. CASE EvictResigned
    BY <1>4, UnregisterStep DEF EvictResigned
  <1>5. CASE EvictIdle
    BY <1>5, UnregisterStep DEF EvictIdle, IInv, TypeOK
  <1>6. CASE Crash
    BY <1>6, CrashStep
  <1>7. CASE \E k \in DOMAIN sessions :
               \/ TimerFires(k) \/ Callback(k) \/ Refresh(k)
               \/ SubmitShot(k) \/ PlaceCue(k) \/ Surrender(k) \/ AgreeDraw(k)
    BY <1>7, FiresStep, CallbackStep, RefreshStep, SubmitShotStep, PlaceCueStep, SurrenderStep,
       AgreeDrawStep
  <1>8. CASE \E l \in Loaders : LoadRow(l) \/ Build(l) \/ Join(l)
    BY <1>8, LoadRowStep, BuildStep, JoinStep
  <1>9. CASE UNCHANGED vars
    <2>1. now' \in now..MaxTime
      BY <1>9, PoolGameAssumption DEF vars, IInv, TypeOK
    <2> QED
      BY <1>9, <2>1, OtherStep DEF vars, IInv, TypeOK, Database
  <1> QED
    BY <1>1, <1>2, <1>3, <1>4, <1>5, <1>6, <1>7, <1>8, <1>9 DEF Next

LEMMA Invariance == Spec => []IInv
  <1>1. Init => IInv
    BY InitIInv
  <1>2. IInv /\ [Next]_vars => IInv'
    BY NextGood DEF Good
  <1> QED
    BY <1>1, <1>2, PTL DEF Spec

-----------------------------------------------------------------------------
(* The theorems.                                                           *)

\* Sessions, clocks, jobs, rows and requests keep their types and their bounds
\* (sessions.py, clock.py, session_registry.py).
THEOREM TypeCorrect == Spec => []TypeOK
  <1>1. IInv => TypeOK
    BY DEF IInv
  <1> QED
    BY <1>1, Invariance, PTL

\* Every session, registered or not, runs the clock of the player to move, and
\* the registered one has a timer for what is left of it.
THEOREM ClockIsTheMovers == Spec => []ClockFollowsTurn
  <1>1. IInv => ClockFollowsTurn
    <2> SUFFICES ASSUME IInv, NEW k \in DOMAIN sessions, sessions[k].status = "active"
                 PROVE  LET s == sessions[k] IN
                        /\ s.active = s.table.turn
                        /\ s.timer.state = "none" => k # registered
                        /\ s.timer.state # "none" => /\ s.timer.color = s.active
                                                     /\ s.timer.due = s.anchor + s.bank[s.active]
      BY DEF ClockFollowsTurn
    <2>1. InPlay(sessions[k], now) /\ Timed(sessions[k])
      BY DEF IInv, SessionsSound, Sound
    <2>2. k \in Nat \ {0}
      BY DEF IInv, TypeOK
    <2>3. k = registered => Runs(sessions[k])
      BY <2>2 DEF IInv, TimersRun
    <2> QED
      BY <2>1, <2>3 DEF InPlay, Timed, Runs
  <1> QED
    BY <1>1, Invariance, PTL

\* A session announces the end of its game once, after everything else, and
\* exactly when it has a reason for it.
THEOREM EndIsToldOnce == Spec => []GameOverOnce
  <1>1. IInv => GameOverOnce
    <2> SUFFICES ASSUME IInv, NEW k \in DOMAIN sessions
                 PROVE  LET s == sessions[k] IN
                        /\ \A i \in DOMAIN s.log :
                             s.log[i] = "over" => i = Len(s.log) /\ s.status = "finished"
                        /\ s.reason # "none" => s.log # <<>> /\ s.log[Len(s.log)] = "over"
      BY DEF GameOverOnce, Sessions
    <2>1. Sound(sessions[k], now) /\ sessions[k].status \in {"active", "finished"}
      BY DEF IInv, SessionsSound, Sound, Session
    <2> QED
      BY <2>1 DEF Sound, InPlay, Told
  <1> QED
    BY <1>1, Invariance, PTL

\* No step changes the result of a session whose game is over.
THEOREM ResultIsFinal == Spec => ResultStays
  <1>1. IInv /\ [Next]_vars => Lasts
    BY NextGood DEF Good
  <1>2. IInv /\ [Next]_vars =>
          [\A k \in DOMAIN sessions :
             (k \in DOMAIN sessions' /\ sessions[k].status = "finished") =>
               /\ sessions'[k].status = "finished"
               /\ sessions'[k].table  = sessions[k].table
               /\ sessions'[k].reason = sessions[k].reason]_vars
    BY <1>1 DEF Lasts
  <1> QED
    BY <1>2, Invariance, PTL DEF Spec, ResultStays

\* Whoever loses on time is the player to move, and had no time left.
THEOREM NobodyForfeitsEarly == Spec => ForfeitIsDue
  <1>1. IInv /\ [Next]_vars => Due
    BY NextGood DEF Good
  <1>2. IInv /\ [Next]_vars =>
          [\A k \in DOMAIN sessions \cap DOMAIN sessions' :
             LET s == sessions[k]
                 t == sessions'[k] IN
             (s.reason = "none" /\ t.reason = "time") =>
               /\ t.table.winner # t.table.turn
               /\ s.bank[t.table.turn] <= IF t.table.turn = s.active THEN now' - s.anchor ELSE 0]_vars
    BY <1>1 DEF Due
  <1> QED
    BY <1>2, Invariance, PTL DEF Spec, ForfeitIsDue

-----------------------------------------------------------------------------
(***************************************************************************)
(* Induction over numbers as a statement about sets: the provers cannot    *)
(* instantiate a theorem that takes a predicate, but the finite sets are   *)
(* well founded, so a set of numbers has a least element.                  *)
(***************************************************************************)
LEMMA Least ==
    ASSUME NEW S \in SUBSET Nat, S # {}
    PROVE  \E m \in S : \A k \in S : m <= k
  <1>1. PICK n : n \in S
    OBVIOUS
  <1> DEFINE T == {0 .. k : k \in {l \in S : l <= n}}
  <1>2. IsWellFoundedOn(StrictSubsetOrdering(0 .. n), SUBSET (0 .. n))
    <2>1. IsFiniteSet(0 .. n)
      BY <1>1, FS_Interval
    <2>2. FiniteSubsetsOf(0 .. n) = SUBSET (0 .. n)
      BY <2>1, FS_FiniteSubsetsOfFinite
    <2>3. IsWellFoundedOn(StrictSubsetOrdering(0 .. n), FiniteSubsetsOf(0 .. n))
      BY FS_StrictSubsetOrderingWellFounded
    <2> QED
      BY <2>2, <2>3
  <1>3. T \subseteq SUBSET (0 .. n) /\ T # {}
    BY <1>1
  <1>4. PICK X \in T : \A Y \in T : <<Y, X>> \notin StrictSubsetOrdering(0 .. n)
    <2> HIDE DEF T
    <2> QED
      BY <1>2, <1>3, WFMin
  <1>5. PICK m \in S : X = 0 .. m /\ m <= n
    BY <1>4
  <1>6. ASSUME NEW k \in S, k < m
        PROVE  FALSE
    <2>1. 0 .. k \in T
      <3>1. k \in {l \in S : l <= n}
        BY <1>1, <1>5, <1>6
      <3> QED
        BY <3>1
    <2>2. <<0 .. k, X>> \in StrictSubsetOrdering(0 .. n)
      <3>1. 0 .. k \subseteq X /\ m \in X /\ m \notin 0 .. k
        BY <1>5, <1>6
      <3>2. X \subseteq 0 .. n
        BY <1>3, <1>4
      <3> QED
        BY <3>1, <3>2 DEF StrictSubsetOrdering
    <2> QED
      BY <1>4, <2>1, <2>2
  <1> QED
    BY <1>5, <1>6

(* What 0 has and every number hands on, n has.                            *)
LEMMA Induct ==
    ASSUME NEW n \in Nat, NEW S, 0 \in S, \A k \in 0 .. n - 1 : k \in S => k + 1 \in S
    PROVE  n \in S
  <1> SUFFICES ASSUME n \notin S PROVE FALSE
    OBVIOUS
  <1> DEFINE T == {k \in Nat : k \notin S /\ k <= n}
  <1>1. PICK m \in T : \A k \in T : m <= k
    <2>1. T \in SUBSET Nat /\ T # {}
      OBVIOUS
    <2> QED
      BY <2>1, Least
  <1>2. m # 0
    BY <1>1
  <1>3. m - 1 \in Nat /\ m - 1 \notin T
    BY <1>1, <1>2
  <1> QED
    BY <1>1, <1>2, <1>3

-----------------------------------------------------------------------------
(***************************************************************************)
(* The invariant: the first ten slots are the cushions and the holes, the  *)
(* others are empty or hold balls, no two of one number.                   *)
(***************************************************************************)
IsShaped(o) ==
    \/ o = new_still_ball(o.number, o.pos)
    \/ o = new_rolling_ball(o.number, o.pos, o.vel, o.acc)

Furnished(objects) ==
    /\ objects = [i \in Slots |-> objects[i]]
    /\ \A i \in 0 .. 9 : objects[i] = new_table[i]
    /\ \A i \in Slots : i >= 10 => objects[i] = NULL \/ IsShaped(objects[i])

EachOnce(objects) ==
    \A i, j \in Slots :
        IsBall(objects[i]) /\ IsBall(objects[j]) /\ objects[i].number = objects[j].number
            => i = j

WellSet(objects) == Furnished(objects) /\ EachOnce(objects)

TableGood == WellSet(object) /\ time \in 0 .. PHYLIB_MAX_TIME

-----------------------------------------------------------------------------
(* The objects.                                                            *)
LEMMA SlotFacts ==
    /\ PHYLIB_MAX_OBJECTS \in Nat /\ PHYLIB_MAX_OBJECTS >= 10
    /\ 0 .. 9 \subseteq Slots /\ PHYLIB_MAX_OBJECTS \notin Slots
    /\ \A i \in Slots : i \in Nat /\ (i \in 0 .. 9 \/ i >= 10)
  BY SizeAssumption DEF Slots

LEMMA NewTable ==
    /\ \A i \in 0 .. 9 :
           /\ new_table[i].type \in {"HCUSHION", "VCUSHION", "HOLE"}
           /\ new_table[i].type = "HOLE" => i \in 4 .. 9
    /\ \A i \in Slots : i >= 10 => new_table[i] = NULL
    /\ new_table = [i \in Slots |-> new_table[i]]
  <1>1. \A i \in Slots : /\ i = 0 => new_table[i].type = "HCUSHION"
                         /\ i = 1 => new_table[i].type = "HCUSHION"
                         /\ i = 2 => new_table[i].type = "VCUSHION"
                         /\ i = 3 => new_table[i].type = "VCUSHION"
                         /\ i \in 4 .. 9 => new_table[i].type = "HOLE"
                         /\ i >= 10 => new_table[i] = NULL
    BY SlotFacts DEF new_table, new_hcushion, new_vcushion, new_hole
  <1>2. new_table = [i \in Slots |-> new_table[i]]
    BY DEF new_table
  <1> QED
    BY <1>1, <1>2, SlotFacts

LEMMA ShapedIs ==
    ASSUME NEW o, IsShaped(o)
    PROVE  IsBall(o) /\ o # NULL /\ o.type # "HOLE"
  BY DEF IsShaped, IsBall, NULL, new_still_ball, new_rolling_ball

LEMMA NullIs == ~IsBall(NULL) /\ ~IsRolling(NULL)
  BY DEF NULL, IsBall, IsRolling

LEMMA FurnitureIs ==
    ASSUME NEW i \in 0 .. 9
    PROVE  /\ ~IsBall(new_table[i]) /\ ~IsRolling(new_table[i]) /\ new_table[i] # NULL
           /\ new_table[i].type = "HOLE" => i \in 4 .. 9
           /\ new_table[i].type \in {"HCUSHION", "VCUSHION", "HOLE"}
  BY NewTable DEF IsBall, IsRolling, NULL

LEMMA BallIs ==
    ASSUME NEW objects, Furnished(objects), NEW i \in Slots, IsBall(objects[i])
    PROVE  i >= 10 /\ IsShaped(objects[i])
  BY SlotFacts, FurnitureIs, NullIs DEF Furnished

LEMMA RollingIs ==
    ASSUME NEW objects, Furnished(objects), NEW i \in Slots, IsRolling(objects[i])
    PROVE  /\ i >= 10 /\ IsBall(objects[i])
           /\ objects[i] = new_rolling_ball(objects[i].number, objects[i].pos,
                                            objects[i].vel, objects[i].acc)
  <1>1. IsBall(objects[i])
    BY DEF IsBall, IsRolling
  <1>2. i >= 10 /\ IsShaped(objects[i])
    BY <1>1, BallIs
  <1> QED
    BY <1>1, <1>2 DEF IsShaped, IsRolling, new_still_ball

-----------------------------------------------------------------------------
(* Each ball that is in a slot afterwards was there before, and the other  *)
(* slots are as they were: what rolling and an event do to a table.        *)
Remains(old, new) ==
    /\ IsBall(old) /\ IsShaped(new) /\ new.number = old.number

LEMMA NoneAdded ==
    ASSUME NEW objects, WellSet(objects), NEW later,
           later = [i \in Slots |-> later[i]],
           \A i \in Slots : \/ later[i] = objects[i]
                            \/ Remains(objects[i], later[i])
                            \/ IsBall(objects[i]) /\ later[i] = NULL
    PROVE  WellSet(later) /\ Numbers(later) \subseteq Numbers(objects)
  <1>1. \A i \in Slots : IsBall(later[i]) =>
           IsBall(objects[i]) /\ later[i].number = objects[i].number
    BY NullIs DEF Remains
  <1>2. \A i \in 0 .. 9 : later[i] = new_table[i]
    BY SlotFacts, FurnitureIs DEF WellSet, Furnished, Remains
  <1>3. \A i \in Slots : i >= 10 => later[i] = NULL \/ IsShaped(later[i])
    BY DEF WellSet, Furnished, Remains
  <1>4. EachOnce(later)
    BY <1>1 DEF WellSet, EachOnce
  <1>5. Numbers(later) \subseteq Numbers(objects)
    BY <1>1 DEF Numbers
  <1> QED
    BY <1>2, <1>3, <1>4, <1>5 DEF WellSet, Furnished

LEMMA RollIs ==
    ASSUME NEW o, NEW t
    PROVE  IsShaped(roll(o, t)) /\ IsRolling(roll(o, t)) /\ roll(o, t).number = o.number
  BY DEF roll, IsShaped, IsRolling, new_rolling_ball

LEMMA RolledIs ==
    ASSUME NEW objects, WellSet(objects), NEW t
    PROVE  /\ WellSet(Rolled(objects, t))
           /\ Numbers(Rolled(objects, t)) = Numbers(objects)
           /\ \A i \in Slots : /\ IsRolling(Rolled(objects, t)[i]) <=> IsRolling(objects[i])
                               /\ IsBall(Rolled(objects, t)[i]) <=> IsBall(objects[i])
                               /\ IsRolling(objects[i]) =>
                                       Rolled(objects, t)[i] = roll(objects[i], t)
                               /\ IsBall(objects[i]) =>
                                       Rolled(objects, t)[i].number = objects[i].number
                               /\ ~IsRolling(objects[i]) => Rolled(objects, t)[i] = objects[i]
  <1> DEFINE later == Rolled(objects, t)
  <1>1. \A i \in Slots : later[i] = IF IsRolling(objects[i]) THEN roll(objects[i], t)
                                    ELSE objects[i]
    BY DEF Rolled
  <1>2. later = [i \in Slots |-> later[i]]
    BY DEF Rolled
  <1> HIDE DEF later
  <1>3. \A i \in Slots : IsRolling(objects[i]) => IsBall(objects[i])
    BY DEF IsRolling, IsBall
  <1>4. \A i \in Slots : later[i] = objects[i] \/ Remains(objects[i], later[i])
    BY <1>1, <1>3, RollIs DEF Remains
  <1>5. WellSet(later)
    BY <1>2, <1>4, NoneAdded
  <1>6. \A i \in Slots : IsBall(later[i]) <=> IsBall(objects[i])
    BY <1>4, ShapedIs DEF Remains
  <1>7. \A i \in Slots : IsBall(objects[i]) => later[i].number = objects[i].number
    BY <1>4 DEF Remains
  <1>8. Numbers(later) = Numbers(objects)
    BY <1>6, <1>7 DEF Numbers
  <1>9. \A i \in Slots : IsRolling(later[i]) <=> IsRolling(objects[i])
    BY <1>1, RollIs
  <1> QED
    BY <1>1, <1>5, <1>6, <1>7, <1>8, <1>9 DEF later

(* What an event makes of the balls.                                       *)
WithVelocity(o, vel, acc) == [o EXCEPT !.vel = vel, !.acc = acc]
KeepsItself(o, made) == IsShaped(made) /\ made.number = o.number

LEMMA VelOf ==
    ASSUME NEW n, NEW p, NEW v, NEW a, NEW vel
    PROVE  [new_rolling_ball(n, p, v, a) EXCEPT !.vel = vel] = new_rolling_ball(n, p, vel, a)
  BY DEF new_rolling_ball

LEMMA AccOf ==
    ASSUME NEW n, NEW p, NEW v, NEW a, NEW acc
    PROVE  [new_rolling_ball(n, p, v, a) EXCEPT !.acc = acc] = new_rolling_ball(n, p, v, acc)
  BY DEF new_rolling_ball

LEMMA VelocitySet ==
    ASSUME NEW o, IsShaped(o), IsRolling(o), NEW vel, NEW acc
    PROVE  KeepsItself(o, WithVelocity(o, vel, acc))
  <1>1. PICK n, p, v, a : o = new_rolling_ball(n, p, v, a)
    BY DEF IsShaped, IsRolling, new_still_ball
  <1>2. o.number = n
    BY <1>1 DEF new_rolling_ball
  <1>3. WithVelocity(o, vel, acc) = [[o EXCEPT !.vel = vel] EXCEPT !.acc = acc]
    BY DEF WithVelocity
  <1>4. [o EXCEPT !.vel = vel] = new_rolling_ball(n, p, vel, a)
    BY <1>1, VelOf
  <1>5. WithVelocity(o, vel, acc) = new_rolling_ball(n, p, vel, acc)
    <2>1. WithVelocity(o, vel, acc) = [new_rolling_ball(n, p, vel, a) EXCEPT !.acc = acc]
      BY <1>3, <1>4
    <2>2. [new_rolling_ball(n, p, vel, a) EXCEPT !.acc = acc] = new_rolling_ball(n, p, vel, acc)
      BY AccOf
    <2> QED
      BY <2>1, <2>2
  <1>6. new_rolling_ball(n, p, vel, acc).number = n
    BY DEF new_rolling_ball
  <1>7. IsShaped(new_rolling_ball(n, p, vel, acc))
    BY DEF IsShaped, new_rolling_ball
  <1> QED
    BY <1>2, <1>5, <1>6, <1>7 DEF KeepsItself

LEMMA CollisionIs ==
    ASSUME NEW o, IsShaped(o), IsRolling(o), NEW a, NEW b, NEW side
    PROVE  KeepsItself(o, handleRollingBallCollision(o, a, b, side))
  <1>1. \A vel, acc : KeepsItself(o, WithVelocity(o, vel, acc))
    BY VelocitySet
  <1>2. \E vel, acc : handleRollingBallCollision(o, a, b, side) = WithVelocity(o, vel, acc)
    BY DEF handleRollingBallCollision, WithVelocity
  <1> QED
    BY <1>1, <1>2

LEMMA CushionIs ==
    ASSUME NEW o, IsShaped(o), IsRolling(o)
    PROVE  /\ KeepsItself(o, handleHCushionCollision(o))
           /\ KeepsItself(o, handleVCushionCollision(o))
  <1>1. \A vel, acc : KeepsItself(o, WithVelocity(o, vel, acc))
    BY VelocitySet
  <1>2. \E vel, acc : handleHCushionCollision(o) = WithVelocity(o, vel, acc)
    BY DEF handleHCushionCollision, WithVelocity
  <1>3. \E vel, acc : handleVCushionCollision(o) = WithVelocity(o, vel, acc)
    BY DEF handleVCushionCollision, WithVelocity
  <1> QED
    BY <1>1, <1>2, <1>3

(* Only a hole takes a ball.                                               *)
Pocketed(objects, y, j, later) ==
    /\ j \in 4 .. 9 /\ later[y] = NULL
    /\ \A i \in Slots : i # y => later[i] = objects[i]

LEMMA BounceIs ==
    ASSUME NEW objects, WellSet(objects), NEW y \in Slots, NEW j \in Slots, j # y,
           IsRolling(objects[y]), objects[j] # NULL
    PROVE  LET later == bounce(objects, y, j)
           IN /\ later = [i \in Slots |-> later[i]]
              /\ \/ Pocketed(objects, y, j, later) /\ objects[j].type = "HOLE"
                 \/ \A i \in Slots : later[i] = objects[i] \/ Remains(objects[i], later[i])
  <1> DEFINE later == bounce(objects, y, j)
             a == objects[y]
             b == IF objects[j].type = "STILL_BALL"
                  THEN upgradeStillBallToRollingBall(objects[j]) ELSE objects[j]
  <1>1. IsBall(a) /\ IsShaped(a) /\ y >= 10
    BY RollingIs, BallIs DEF WellSet
  <1>2. objects = [i \in Slots |-> objects[i]]
    BY DEF WellSet, Furnished
  <1>3. CASE j \in 0 .. 9
    <2>1. objects[j] = new_table[j]
      BY <1>3 DEF WellSet, Furnished
    <2>2. b = objects[j] /\ b.type \in {"HCUSHION", "VCUSHION", "HOLE"}
      BY <1>3, <2>1, FurnitureIs
    <2>3. CASE b.type = "HCUSHION"
      <3>1. later = [objects EXCEPT ![y] = handleHCushionCollision(a)]
        BY <2>3 DEF bounce
      <3>2. Remains(a, handleHCushionCollision(a))
        BY <1>1, CushionIs DEF Remains, KeepsItself
      <3> HIDE DEF later
      <3>3. /\ later = [i \in Slots |-> later[i]]
            /\ \A i \in Slots : later[i] = objects[i] \/ Remains(objects[i], later[i])
        BY <1>2, <3>1, <3>2
      <3> QED
        BY <3>3 DEF later
    <2>4. CASE b.type = "VCUSHION"
      <3>1. later = [objects EXCEPT ![y] = handleVCushionCollision(a)]
        BY <2>4 DEF bounce
      <3>2. Remains(a, handleVCushionCollision(a))
        BY <1>1, CushionIs DEF Remains, KeepsItself
      <3> HIDE DEF later
      <3>3. /\ later = [i \in Slots |-> later[i]]
            /\ \A i \in Slots : later[i] = objects[i] \/ Remains(objects[i], later[i])
        BY <1>2, <3>1, <3>2
      <3> QED
        BY <3>3 DEF later
    <2>5. CASE b.type = "HOLE"
      <3>1. later = [objects EXCEPT ![y] = NULL]
        BY <2>5 DEF bounce
      <3>2. j \in 4 .. 9 /\ objects[j].type = "HOLE"
        BY <1>3, <2>1, <2>2, <2>5, FurnitureIs
      <3> HIDE DEF later
      <3>3. later = [i \in Slots |-> later[i]] /\ Pocketed(objects, y, j, later)
        BY <1>2, <3>1, <3>2 DEF Pocketed
      <3> QED
        BY <3>2, <3>3 DEF later
    <2> QED
      BY <2>2, <2>3, <2>4, <2>5
  <1>4. CASE j \notin 0 .. 9
    <2>1. IsShaped(objects[j])
      BY <1>4, SlotFacts DEF WellSet, Furnished
    <2>2. IsBall(objects[j])
      BY <2>1, ShapedIs
    <2>3. IsShaped(b) /\ IsRolling(b) /\ b.number = objects[j].number
      BY <2>1 DEF IsShaped, IsRolling, upgradeStillBallToRollingBall, new_rolling_ball,
                  new_still_ball
    <2> HIDE DEF b
    <2> DEFINE ay == handleRollingBallCollision(a, a, b, 1)
               bj == handleRollingBallCollision(b, a, b, -1)
    <2>4. later = [objects EXCEPT ![y] = ay, ![j] = bj]
      BY <2>3 DEF bounce, b, IsRolling
    <2>5. Remains(a, ay)
      BY <1>1, CollisionIs DEF Remains, KeepsItself
    <2>6. Remains(objects[j], bj)
      BY <2>2, <2>3, CollisionIs DEF Remains, KeepsItself
    <2> HIDE DEF ay, bj, later
    <2>7. /\ later = [i \in Slots |-> later[i]]
          /\ \A i \in Slots : later[i] = objects[i] \/ Remains(objects[i], later[i])
      BY <1>2, <2>4, <2>5, <2>6
    <2> QED
      BY <2>7 DEF later
  <1> QED
    BY <1>3, <1>4

-----------------------------------------------------------------------------
(* No two balls of one number: as many balls as numbers.                   *)
LEMMA CountedOnce ==
    ASSUME NEW objects, EachOnce(objects)
    PROVE  Cardinality({i \in Slots : IsBall(objects[i])}) = Cardinality(Numbers(objects))
  <1> DEFINE S == {i \in Slots : IsBall(objects[i])}
             f == [i \in S |-> objects[i].number]
  <1>1. IsFiniteSet(S)
    <2>1. IsFiniteSet(Slots)
      BY SlotFacts, FS_Interval DEF Slots
    <2> QED
      BY <2>1, FS_Subset
  <1>2. f \in [S -> Numbers(objects)]
    BY DEF Numbers
  <1>3. \A i, j \in S : f[i] = f[j] => i = j
    BY DEF EachOnce
  <1>4. \A n \in Numbers(objects) : \E i \in S : f[i] = n
    BY DEF Numbers
  <1>5. ExistsBijection(S, Numbers(objects))
    <2> HIDE DEF S, f
    <2>1. f \in Bijection(S, Numbers(objects))
      BY <1>2, <1>3, <1>4, Fun_IsBij
    <2> QED
      BY <2>1, Fun_ExistsBij
  <1> QED
    BY <1>1, <1>5, FS_Bijection

-----------------------------------------------------------------------------
(***************************************************************************)
(* A fresh table: the balls take the slots after the furniture in turn,    *)
(* as far as there are slots.                                              *)
(***************************************************************************)
Filled(balls, n) ==
    [i \in Slots |-> IF i < 10 THEN new_table[i]
                     ELSE IF i - 9 <= n THEN balls[i - 9] ELSE NULL]

AddsUp(balls, f) ==
    f = [n \in 0 .. Len(balls) |->
            IF n = 0 THEN new_table ELSE add_object(f[n - 1], balls[n])]

AreBalls(balls) ==
    /\ Len(balls) \in Nat
    /\ \A k \in 1 .. Len(balls) : IsShaped(balls[k])
    /\ \A k, l \in 1 .. Len(balls) : balls[k].number = balls[l].number => k = l

LEMMA NoneFilled ==
    ASSUME NEW balls
    PROVE  Filled(balls, 0) = new_table
  <1>1. new_table = [i \in Slots |-> new_table[i]]
    BY NewTable
  <1>2. \A i \in Slots : Filled(balls, 0)[i] = new_table[i]
    BY SlotFacts, NewTable DEF Filled
  <1>3. Filled(balls, 0) = [i \in Slots |-> Filled(balls, 0)[i]]
    BY DEF Filled
  <1> QED
    BY <1>1, <1>2, <1>3

LEMMA OneMore ==
    ASSUME NEW balls, AreBalls(balls), NEW n \in 1 .. Len(balls)
    PROVE  add_object(Filled(balls, n - 1), balls[n]) = Filled(balls, n)
  <1> DEFINE old == Filled(balls, n - 1)
             new == Filled(balls, n)
             free == {i \in Slots : old[i] = NULL}
  <1>0. Len(balls) \in Nat /\ n \in Nat
    BY DEF AreBalls
  <1>1. \A i \in Slots : /\ old[i] = IF i < 10 THEN new_table[i]
                                     ELSE IF i - 9 <= n - 1 THEN balls[i - 9] ELSE NULL
                         /\ new[i] = IF i < 10 THEN new_table[i]
                                     ELSE IF i - 9 <= n THEN balls[i - 9] ELSE NULL
    BY DEF Filled
  <1>2. /\ old = [i \in Slots |-> old[i]]
        /\ new = [i \in Slots |-> new[i]]
    BY DEF Filled
  <1> HIDE DEF old, new
  <1>3. \A i \in Slots : i \in free <=> i >= n + 9
    <2> SUFFICES ASSUME NEW i \in Slots PROVE i \in free <=> i >= n + 9
      OBVIOUS
    <2>1. CASE i \in 0 .. 9
      BY <1>0, <1>1, <2>1, FurnitureIs
    <2>2. CASE i >= 10 /\ i < n + 9
      <3>1. i - 9 \in 1 .. Len(balls)
        BY <1>0, <2>2, SlotFacts
      <3>2. old[i] = balls[i - 9]
        BY <1>0, <1>1, <2>2, SlotFacts
      <3>3. IsShaped(balls[i - 9])
        BY <3>1 DEF AreBalls
      <3>4. old[i] # NULL
        BY <3>2, <3>3, ShapedIs
      <3> QED
        BY <1>0, <2>2, <3>4, SlotFacts
    <2>3. CASE i >= 10 /\ i >= n + 9
      BY <1>0, <1>1, <2>3, SlotFacts
    <2> QED
      BY <1>0, <2>1, <2>2, <2>3, SlotFacts
  <1>4. \A i \in Slots : i # n + 9 => new[i] = old[i]
    BY <1>0, <1>1, SlotFacts
  <1>5. n + 9 \in Slots => new[n + 9] = balls[n]
    BY <1>0, <1>1, SlotFacts
  <1>6. add_object(old, balls[n])
          = IF free = {} THEN old
            ELSE [old EXCEPT ![CHOOSE i \in free : \A j \in free : i <= j] = balls[n]]
    BY DEF add_object
  <1>7. CASE free = {}
    <2>1. n + 9 \notin Slots
      BY <1>0, <1>3, <1>7
    <2>2. \A i \in Slots : new[i] = old[i]
      BY <1>4, <2>1
    <2>3. new = old
      BY <1>2, <2>2
    <2>4. add_object(old, balls[n]) = new
      BY <1>6, <1>7, <2>3
    <2> QED
      BY <2>4 DEF old, new
  <1>8. CASE free # {}
    <2>1. n + 9 \in Slots
      BY <1>0, <1>3, <1>8, SlotFacts DEF Slots
    <2>2. (CHOOSE i \in free : \A j \in free : i <= j) = n + 9
      <3>1. n + 9 \in free /\ \A j \in free : n + 9 <= j
        BY <1>0, <1>3, <2>1
      <3>2. free \subseteq Int
        BY SlotFacts
      <3> DEFINE least == CHOOSE i \in free : \A j \in free : i <= j
      <3> HIDE DEF free
      <3>3. least \in free /\ \A j \in free : least <= j
        BY <3>1
      <3>4. least \in Int /\ n + 9 \in Int /\ least <= n + 9 /\ n + 9 <= least
        BY <3>1, <3>2, <3>3
      <3> HIDE DEF least
      <3>5. least = n + 9
        BY <1>0, <3>4
      <3> QED
        BY <3>5 DEF least
    <2>3. add_object(old, balls[n]) = [old EXCEPT ![n + 9] = balls[n]]
      BY <1>6, <1>8, <2>2
    <2>4. \A i \in Slots : new[i] = IF i = n + 9 THEN balls[n] ELSE old[i]
      BY <1>4, <1>5
    <2>5. [old EXCEPT ![n + 9] = balls[n]]
            = [i \in Slots |-> IF i = n + 9 THEN balls[n] ELSE old[i]]
      BY <1>2, <2>1
    <2>6. new = [old EXCEPT ![n + 9] = balls[n]]
      BY <1>2, <2>4, <2>5
    <2>7. add_object(old, balls[n]) = new
      BY <2>3, <2>6
    <2> QED
      BY <2>7 DEF old, new
  <1> QED
    BY <1>7, <1>8 DEF old, new

LEMMA TableIs ==
    ASSUME NEW balls, AreBalls(balls)
    PROVE  TableWith(balls) = Filled(balls, Len(balls))
  <1> DEFINE N == Len(balls)
             w == [n \in 0 .. N |-> Filled(balls, n)]
             added == CHOOSE f : AddsUp(balls, f)
  <1>0. N \in Nat
    BY DEF AreBalls
  <1>1. TableWith(balls) = added[N]
    BY DEF TableWith, AddsUp
  <1>2. AddsUp(balls, w)
    <2>1. \A n \in 0 .. N : Filled(balls, n) = IF n = 0 THEN new_table
                                               ELSE add_object(w[n - 1], balls[n])
      <3> SUFFICES ASSUME NEW n \in 0 .. N, n # 0
                   PROVE  Filled(balls, n) = add_object(w[n - 1], balls[n])
        BY NoneFilled
      <3>1. n \in 1 .. N /\ n - 1 \in 0 .. N
        BY <1>0
      <3>2. w[n - 1] = Filled(balls, n - 1)
        BY <3>1
      <3> QED
        BY <3>1, <3>2, OneMore
    <2> QED
      BY <2>1 DEF AddsUp
  <1>3. AddsUp(balls, added)
    BY <1>2
  <1> HIDE DEF w, added
  <1>4. \A n \in 0 .. N : added[n] = IF n = 0 THEN new_table
                                     ELSE add_object(added[n - 1], balls[n])
    BY <1>3 DEF AddsUp
  <1> DEFINE S == {n \in Nat : n <= N => added[n] = Filled(balls, n)}
  <1>5. 0 \in S
    BY <1>0, <1>4, NoneFilled
  <1>6. \A k \in 0 .. N - 1 : k \in S => k + 1 \in S
    <2> SUFFICES ASSUME NEW k \in 0 .. N - 1, k \in S
                 PROVE  added[k + 1] = Filled(balls, k + 1)
      BY <1>0
    <2>1. k + 1 \in 1 .. N /\ k + 1 \in 0 .. N /\ (k + 1) - 1 = k
      BY <1>0
    <2>2. added[k] = Filled(balls, k)
      BY <1>0
    <2>3. added[k + 1] = add_object(added[k], balls[k + 1])
      BY <1>4, <2>1
    <2>4. add_object(Filled(balls, (k + 1) - 1), balls[k + 1]) = Filled(balls, k + 1)
      BY <2>1, OneMore
    <2> QED
      BY <2>1, <2>2, <2>3, <2>4
  <1>7. N \in S
    <2> HIDE DEF S, N
    <2> QED
      BY <1>0, <1>5, <1>6, Induct
  <1> QED
    BY <1>0, <1>1, <1>7

LEMMA FilledIs ==
    ASSUME NEW balls, AreBalls(balls)
    PROVE  /\ WellSet(TableWith(balls))
           /\ \A i \in Slots : IsBall(TableWith(balls)[i]) =>
                  /\ i >= 10 /\ i - 9 \in 1 .. Len(balls)
                  /\ TableWith(balls)[i] = balls[i - 9]
           /\ \A k \in 1 .. Len(balls) : k + 9 \in Slots =>
                  /\ IsBall(TableWith(balls)[k + 9])
                  /\ TableWith(balls)[k + 9] = balls[k]
  <1> DEFINE table == TableWith(balls)
             N == Len(balls)
  <1>0. N \in Nat
    BY DEF AreBalls
  <1>1. \A i \in Slots : table[i] = IF i < 10 THEN new_table[i]
                                    ELSE IF i - 9 <= N THEN balls[i - 9] ELSE NULL
    BY TableIs DEF Filled
  <1>2. table = [i \in Slots |-> table[i]]
    BY TableIs DEF Filled
  <1> HIDE DEF table
  <1>3. \A i \in 0 .. 9 : table[i] = new_table[i]
    BY <1>1, SlotFacts
  <1>4. \A i \in Slots : i >= 10 /\ i - 9 <= N =>
            i - 9 \in 1 .. N /\ table[i] = balls[i - 9] /\ IsShaped(table[i])
    BY <1>0, <1>1, SlotFacts DEF AreBalls
  <1>5. \A i \in Slots : i >= 10 /\ ~(i - 9 <= N) => table[i] = NULL
    BY <1>0, <1>1, SlotFacts
  <1>6. Furnished(table)
    BY <1>2, <1>3, <1>4, <1>5 DEF Furnished
  <1>7. \A i \in Slots : IsBall(table[i]) =>
            i >= 10 /\ i - 9 \in 1 .. N /\ table[i] = balls[i - 9]
    <2> SUFFICES ASSUME NEW i \in Slots, IsBall(table[i])
                 PROVE  i >= 10 /\ i - 9 \in 1 .. N /\ table[i] = balls[i - 9]
      OBVIOUS
    <2>1. i \notin 0 .. 9
      BY <1>3, FurnitureIs
    <2>2. i >= 10
      BY <2>1, SlotFacts
    <2>3. i - 9 <= N
      BY <1>5, <2>2, NullIs
    <2> QED
      BY <1>4, <2>2, <2>3
  <1>8. EachOnce(table)
    <2> SUFFICES ASSUME NEW i \in Slots, NEW j \in Slots, IsBall(table[i]), IsBall(table[j]),
                        table[i].number = table[j].number
                 PROVE  i = j
      BY DEF EachOnce
    <2>1. /\ i - 9 \in 1 .. N /\ table[i] = balls[i - 9]
          /\ j - 9 \in 1 .. N /\ table[j] = balls[j - 9]
      BY <1>7
    <2>2. i - 9 = j - 9
      BY <2>1 DEF AreBalls
    <2> QED
      BY <2>2, SlotFacts
  <1>9. \A k \in 1 .. N : k + 9 \in Slots => IsBall(table[k + 9]) /\ table[k + 9] = balls[k]
    <2> SUFFICES ASSUME NEW k \in 1 .. N, k + 9 \in Slots
                 PROVE  IsBall(table[k + 9]) /\ table[k + 9] = balls[k]
      OBVIOUS
    <2>1. k + 9 >= 10 /\ (k + 9) - 9 = k /\ k <= N
      BY <1>0
    <2>2. table[k + 9] = balls[(k + 9) - 9] /\ IsShaped(table[k + 9])
      BY <1>4, <2>1
    <2> QED
      BY <2>1, <2>2, ShapedIs
  <1> QED
    BY <1>6, <1>7, <1>8, <1>9 DEF table, WellSet

-----------------------------------------------------------------------------
(***************************************************************************)
(* The balls in the order of their slots: those of the slots before n,     *)
(* each once, and few enough for a fresh table.                            *)
(***************************************************************************)
UpTo(objects, m, f) ==
    f = [n \in 0 .. m |-> IF n = 0 THEN <<>>
                          ELSE IF IsBall(objects[n - 1])
                               THEN Append(f[n - 1], objects[n - 1]) ELSE f[n - 1]]

LEMMA UpToExists ==
    ASSUME NEW objects, NEW m \in Nat
    PROVE  \E f : UpTo(objects, m, f)
  <1> DEFINE S == {n \in Nat : \E f : UpTo(objects, n, f)}
  <1>1. 0 \in S
    <2>1. UpTo(objects, 0, [n \in 0 .. 0 |-> <<>>])
      BY DEF UpTo
    <2> QED
      BY <2>1
  <1>2. \A k \in 0 .. m - 1 : k \in S => k + 1 \in S
    <2> SUFFICES ASSUME NEW k \in 0 .. m - 1, k \in S PROVE \E f : UpTo(objects, k + 1, f)
      OBVIOUS
    <2>1. PICK f : UpTo(objects, k, f)
      OBVIOUS
    <2> DEFINE last == IF IsBall(objects[k]) THEN Append(f[k], objects[k]) ELSE f[k]
               g == [n \in 0 .. k + 1 |-> IF n = k + 1 THEN last ELSE f[n]]
               body(h, n) == IF n = 0 THEN <<>>
                             ELSE IF IsBall(objects[n - 1])
                                  THEN Append(h[n - 1], objects[n - 1]) ELSE h[n - 1]
    <2>2. \A n \in 0 .. k : f[n] = body(f, n)
      BY <2>1 DEF UpTo
    <2> HIDE DEF last
    <2>3. \A n \in 0 .. k + 1 : g[n] = IF n = k + 1 THEN last ELSE f[n]
      OBVIOUS
    <2>4. \A n \in 0 .. k + 1 : g[n] = body(g, n)
      <3> SUFFICES ASSUME NEW n \in 0 .. k + 1 PROVE g[n] = body(g, n)
        OBVIOUS
      <3>1. CASE n = k + 1
        <4>1. n # 0 /\ n - 1 = k /\ k \in 0 .. k + 1 /\ k # k + 1
          BY <3>1
        <4>2. g[k] = f[k] /\ g[n] = last
          BY <2>3, <3>1, <4>1
        <4> HIDE DEF g
        <4> QED
          BY <4>1, <4>2 DEF last
      <3>2. CASE n # k + 1
        <4>1. n \in 0 .. k
          BY <3>2
        <4>2. CASE n = 0
          BY <2>2, <2>3, <3>2, <4>1, <4>2
        <4>3. CASE n # 0
          <5>1. n - 1 \in 0 .. k + 1 /\ n - 1 # k + 1
            BY <4>1, <4>3
          <5>2. g[n - 1] = f[n - 1] /\ g[n] = f[n]
            BY <2>3, <3>2, <5>1
          <5> HIDE DEF g
          <5> QED
            BY <2>2, <4>1, <4>3, <5>2
        <4> QED
          BY <4>2, <4>3
      <3> QED
        BY <3>1, <3>2
    <2>5. g = [n \in 0 .. k + 1 |-> g[n]]
      OBVIOUS
    <2> HIDE DEF g
    <2>6. g = [n \in 0 .. k + 1 |-> body(g, n)]
      <3> HIDE DEF body
      <3> QED
        BY <2>4, <2>5
    <2>7. UpTo(objects, k + 1, g)
      BY <2>6 DEF UpTo
    <2> QED
      BY <2>7
  <1>3. m \in S
    <2> HIDE DEF S
    <2> QED
      BY <1>1, <1>2, Induct
  <1> QED
    BY <1>3

BallSet(objects) == {objects[i] : i \in {k \in Slots : IsBall(objects[k])}}

Listed(objects, n, s) ==
    /\ s \in Seq(BallSet(objects))
    /\ \A k \in 1 .. Len(s) : \E i \in Slots : i < n /\ IsBall(objects[i]) /\ s[k] = objects[i]
    /\ \A i \in Slots : i < n /\ IsBall(objects[i]) => \E k \in 1 .. Len(s) : s[k] = objects[i]
    /\ \A k, l \in 1 .. Len(s) : s[k].number = s[l].number => k = l
    /\ Len(s) = 0 \/ Len(s) + 10 <= n

LEMMA NoneListed ==
    ASSUME NEW objects
    PROVE  Listed(objects, 0, <<>>)
  BY SlotFacts DEF Listed

LEMMA NextListed ==
    ASSUME NEW objects, WellSet(objects), NEW n \in Slots, NEW s, Listed(objects, n, s)
    PROVE  Listed(objects, n + 1,
                  IF IsBall(objects[n]) THEN Append(s, objects[n]) ELSE s)
  <1>0. n \in Nat /\ Len(s) \in Nat /\ s \in Seq(BallSet(objects))
    BY SlotFacts DEF Listed
  <1>1. CASE ~IsBall(objects[n])
    <2>1. \A i \in Slots : i < n + 1 /\ IsBall(objects[i]) => i < n
      BY <1>0, <1>1, SlotFacts
    <2>2. \A i \in Slots : i < n => i < n + 1
      BY <1>0, SlotFacts
    <2>3. Len(s) + 10 <= n => Len(s) + 10 <= n + 1
      BY <1>0
    <2>4. Listed(objects, n + 1, s)
      BY <1>0, <2>1, <2>2, <2>3 DEF Listed
    <2> QED
      BY <1>1, <2>4
  <1>2. CASE IsBall(objects[n])
    <2> DEFINE t == Append(s, objects[n])
    <2>1. objects[n] \in BallSet(objects)
      BY <1>2 DEF BallSet
    <2>2. /\ t \in Seq(BallSet(objects)) /\ Len(t) = Len(s) + 1
          /\ t[Len(s) + 1] = objects[n] /\ \A k \in 1 .. Len(s) : t[k] = s[k]
      BY <1>0, <2>1
    <2> HIDE DEF t
    <2>3. n >= 10
      BY <1>2, BallIs DEF WellSet
    <2>4. \A k \in 1 .. Len(t) : k \in 1 .. Len(s) \/ k = Len(s) + 1
      BY <1>0, <2>2
    <2>5. \A k \in 1 .. Len(t) :
              \E i \in Slots : i < n + 1 /\ IsBall(objects[i]) /\ t[k] = objects[i]
      <3> SUFFICES ASSUME NEW k \in 1 .. Len(t)
                   PROVE  \E i \in Slots : i < n + 1 /\ IsBall(objects[i]) /\ t[k] = objects[i]
        OBVIOUS
      <3>1. CASE k = Len(s) + 1
        BY <1>0, <1>2, <2>2, <3>1
      <3>2. CASE k \in 1 .. Len(s)
        <4>1. PICK i \in Slots : i < n /\ IsBall(objects[i]) /\ s[k] = objects[i]
          BY <3>2 DEF Listed
        <4>2. i < n + 1
          BY <1>0, <4>1, SlotFacts
        <4> QED
          BY <2>2, <3>2, <4>1, <4>2
      <3> QED
        BY <2>4, <3>1, <3>2
    <2>6. \A i \in Slots : i < n + 1 /\ IsBall(objects[i]) =>
              \E k \in 1 .. Len(t) : t[k] = objects[i]
      <3> SUFFICES ASSUME NEW i \in Slots, i < n + 1, IsBall(objects[i])
                   PROVE  \E k \in 1 .. Len(t) : t[k] = objects[i]
        OBVIOUS
      <3>1. CASE i = n
        <4>1. Len(s) + 1 \in 1 .. Len(t)
          BY <1>0, <2>2
        <4> QED
          BY <2>2, <3>1, <4>1
      <3>2. CASE i # n
        <4>1. i < n
          BY <1>0, <3>2, SlotFacts
        <4>2. PICK k \in 1 .. Len(s) : s[k] = objects[i]
          BY <4>1 DEF Listed
        <4>3. k \in 1 .. Len(t)
          BY <1>0, <2>2
        <4> QED
          BY <2>2, <4>2, <4>3
      <3> QED
        BY <3>1, <3>2
    <2>7. \A k \in 1 .. Len(s) : s[k].number # objects[n].number
      <3> SUFFICES ASSUME NEW k \in 1 .. Len(s), s[k].number = objects[n].number PROVE FALSE
        OBVIOUS
      <3>1. PICK i \in Slots : i < n /\ IsBall(objects[i]) /\ s[k] = objects[i]
        BY DEF Listed
      <3>2. i = n
        BY <1>2, <3>1 DEF WellSet, EachOnce
      <3> QED
        BY <1>0, <3>1, <3>2
    <2>8. \A k, l \in 1 .. Len(t) : t[k].number = t[l].number => k = l
      <3>1. \A k, l \in 1 .. Len(s) : s[k].number = s[l].number => k = l
        BY DEF Listed
      <3> SUFFICES ASSUME NEW k \in 1 .. Len(t), NEW l \in 1 .. Len(t),
                          t[k].number = t[l].number
                   PROVE  k = l
        OBVIOUS
      <3>2. CASE k \in 1 .. Len(s) /\ l \in 1 .. Len(s)
        BY <2>2, <3>1, <3>2
      <3>3. CASE k = Len(s) + 1 \/ l = Len(s) + 1
        BY <2>2, <2>4, <2>7, <3>3
      <3> QED
        BY <2>4, <3>2, <3>3
    <2>9. Len(t) + 10 <= n + 1
      BY <1>0, <2>2, <2>3 DEF Listed
    <2>10. Listed(objects, n + 1, t)
      BY <2>2, <2>5, <2>6, <2>8, <2>9 DEF Listed
    <2> QED
      BY <1>2, <2>10 DEF t
  <1> QED
    BY <1>1, <1>2

LEMMA InOrderIs ==
    ASSUME NEW objects, WellSet(objects)
    PROVE  Listed(objects, PHYLIB_MAX_OBJECTS, InOrder(objects))
  <1> DEFINE N == PHYLIB_MAX_OBJECTS
             upto == CHOOSE f : UpTo(objects, N, f)
  <1>0. N \in Nat
    BY SlotFacts
  <1>1. InOrder(objects) = upto[N]
    BY DEF InOrder, UpTo
  <1>2. UpTo(objects, N, upto)
    BY <1>0, UpToExists
  <1> HIDE DEF upto
  <1>3. \A n \in 0 .. N : upto[n] = IF n = 0 THEN <<>>
                                    ELSE IF IsBall(objects[n - 1])
                                         THEN Append(upto[n - 1], objects[n - 1])
                                         ELSE upto[n - 1]
    BY <1>2 DEF UpTo
  <1> DEFINE S == {n \in Nat : n <= N => Listed(objects, n, upto[n])}
  <1>4. 0 \in S
    BY <1>0, <1>3, NoneListed
  <1>5. \A k \in 0 .. N - 1 : k \in S => k + 1 \in S
    <2> SUFFICES ASSUME NEW k \in 0 .. N - 1, k \in S
                 PROVE  Listed(objects, k + 1, upto[k + 1])
      BY <1>0
    <2>1. k + 1 \in 0 .. N /\ k + 1 # 0 /\ (k + 1) - 1 = k /\ k \in Slots /\ k <= N
      BY <1>0 DEF Slots
    <2>2. Listed(objects, k, upto[k])
      BY <2>1
    <2>3. upto[k + 1] = IF IsBall(objects[k]) THEN Append(upto[k], objects[k]) ELSE upto[k]
      BY <1>3, <2>1
    <2> QED
      BY <2>1, <2>2, <2>3, NextListed
  <1>6. N \in S
    <2> HIDE DEF S, N
    <2> QED
      BY <1>0, <1>4, <1>5, Induct
  <1> QED
    BY <1>0, <1>1, <1>6

-----------------------------------------------------------------------------
(* What a step must not do to the balls: BallsLeaveThroughHoles, step by   *)
(* step.                                                                   *)
LeftThroughHoles(objects, later) ==
    \A n \in Numbers(objects) \ Numbers(later) :
        \E i \in Rolling(objects) :
            /\ later[i] = NULL /\ objects[i].number = n
            /\ \E t \in 1 .. PHYLIB_MAX_TIME : \E h \in 4 .. 9 :
                   InReach(roll(objects[i], t), objects[h])

Kept(objects, later) ==
    /\ Numbers(later) \subseteq Numbers(objects)
    /\ Cardinality({i \in Slots : IsBall(later[i])}) = Cardinality(Numbers(later))
    /\ LeftThroughHoles(objects, later)

LEMMA NoneLost ==
    ASSUME NEW objects, NEW later, WellSet(later), Numbers(later) = Numbers(objects)
    PROVE  Kept(objects, later)
  BY CountedOnce DEF Kept, LeftThroughHoles, WellSet

LEMMA AllStay ==
    ASSUME NEW objects, WellSet(objects), NEW later,
           later = [i \in Slots |-> later[i]],
           \A i \in Slots : later[i] = objects[i] \/ Remains(objects[i], later[i])
    PROVE  WellSet(later) /\ Numbers(later) = Numbers(objects)
  <1>1. WellSet(later)
    BY NoneAdded
  <1>2. \A i \in Slots : IsBall(objects[i]) <=> IsBall(later[i])
    BY ShapedIs DEF Remains
  <1>3. \A i \in Slots : IsBall(objects[i]) => objects[i].number = later[i].number
    BY DEF Remains
  <1> QED
    BY <1>1, <1>2, <1>3 DEF Numbers

LEMMA EndShotKeeps ==
    ASSUME NEW objects, WellSet(objects)
    PROVE  /\ WellSet(TableWith(InOrder(objects)))
           /\ Numbers(TableWith(InOrder(objects))) = Numbers(objects)
  <1> DEFINE s == InOrder(objects)
             table == TableWith(s)
  <1>1. Listed(objects, PHYLIB_MAX_OBJECTS, s)
    BY InOrderIs
  <1> HIDE DEF s
  <1>2. Len(s) \in Nat
    BY <1>1 DEF Listed
  <1>3. AreBalls(s)
    <2>1. \A k \in 1 .. Len(s) : IsShaped(s[k])
      BY <1>1, BallIs DEF Listed, WellSet
    <2> QED
      BY <1>1, <1>2, <2>1 DEF AreBalls, Listed
  <1>4. WellSet(table)
    BY <1>3, FilledIs
  <1>5. Numbers(table) \subseteq Numbers(objects)
    <2> SUFFICES ASSUME NEW i \in Slots, IsBall(table[i])
                 PROVE  table[i].number \in Numbers(objects)
      BY DEF Numbers
    <2>1. i - 9 \in 1 .. Len(s) /\ table[i] = s[i - 9]
      BY <1>3, FilledIs
    <2>2. \E k \in Slots : IsBall(objects[k]) /\ s[i - 9] = objects[k]
      BY <1>1, <2>1 DEF Listed
    <2> QED
      BY <2>1, <2>2 DEF Numbers
  <1>6. Numbers(objects) \subseteq Numbers(table)
    <2> SUFFICES ASSUME NEW i \in Slots, IsBall(objects[i])
                 PROVE  objects[i].number \in Numbers(table)
      BY DEF Numbers
    <2>1. i < PHYLIB_MAX_OBJECTS
      BY SlotFacts DEF Slots
    <2>2. PICK k \in 1 .. Len(s) : s[k] = objects[i]
      BY <1>1, <2>1 DEF Listed
    <2>3. Len(s) + 10 <= PHYLIB_MAX_OBJECTS
      BY <1>1, <1>2, <2>2 DEF Listed
    <2>4. k + 9 \in Slots
      BY <1>2, <2>3, SlotFacts DEF Slots
    <2>5. IsBall(table[k + 9]) /\ table[k + 9] = s[k]
      BY <1>3, <2>4, FilledIs
    <2> QED
      BY <2>2, <2>4, <2>5 DEF Numbers
  <1> QED
    BY <1>4, <1>5, <1>6 DEF s

(* The end of a segment.                                                   *)
LEMMA EventIs ==
    ASSUME NEW objects, NEW e \in Events(objects)
    PROVE  \/ /\ e = <<e[1], e[2]>> /\ e[1] \in Slots /\ e[2] \in Slots /\ e[2] # e[1]
              /\ e[2] # PHYLIB_MAX_OBJECTS
              /\ IsRolling(objects[e[1]]) /\ objects[e[2]] # NULL
              /\ Touches(objects[e[1]], objects[e[2]])
           \/ /\ e[1] \in Slots /\ e[2] = PHYLIB_MAX_OBJECTS /\ stopped(objects[e[1]])
  BY SlotFacts DEF Events

LEMMA StopStays ==
    ASSUME NEW o, IsShaped(o)
    PROVE  Remains(o, Still(o))
  BY ShapedIs DEF Remains, Still, IsShaped, new_still_ball

LEMMA AfterKeeps ==
    ASSUME NEW objects, WellSet(objects), NEW t \in 1 .. PHYLIB_MAX_TIME,
           NEW e \in Events(Rolled(objects, t))
    PROVE  /\ WellSet(AfterEvent(Rolled(objects, t), e))
           /\ Kept(objects, AfterEvent(Rolled(objects, t), e))
  <1> DEFINE new == Rolled(objects, t)
             later == AfterEvent(new, e)
             y == e[1]
             j == e[2]
  <1>1. /\ WellSet(new) /\ Numbers(new) = Numbers(objects)
        /\ \A i \in Slots : /\ IsRolling(new[i]) <=> IsRolling(objects[i])
                            /\ IsRolling(objects[i]) => new[i] = roll(objects[i], t)
                            /\ IsBall(objects[i]) => new[i].number = objects[i].number
                            /\ ~IsRolling(objects[i]) => new[i] = objects[i]
    BY RolledIs
  <1> HIDE DEF new
  <1>2. new = [i \in Slots |-> new[i]]
    BY <1>1 DEF WellSet, Furnished
  <1>3. CASE j = PHYLIB_MAX_OBJECTS
    <2>1. y \in Slots /\ stopped(new[y])
      BY <1>3, EventIs DEF new
    <2>2. IsRolling(new[y])
      BY <2>1 DEF stopped
    <2>3. IsShaped(new[y])
      BY <1>1, <2>1, <2>2, RollingIs, BallIs DEF WellSet
    <2>4. later = [new EXCEPT ![y] = Still(new[y])]
      BY <1>3 DEF AfterEvent
    <2>5. Remains(new[y], Still(new[y]))
      BY <2>3, StopStays
    <2> HIDE DEF later, y
    <2>6. /\ later = [i \in Slots |-> later[i]]
          /\ \A i \in Slots : later[i] = new[i] \/ Remains(new[i], later[i])
      BY <1>2, <2>1, <2>4, <2>5
    <2>7. WellSet(later) /\ Numbers(later) = Numbers(new)
      BY <1>1, <2>6, AllStay
    <2>8. Kept(objects, later)
      BY <1>1, <2>7, NoneLost
    <2> QED
      BY <2>7, <2>8 DEF later, new
  <1>4. CASE j # PHYLIB_MAX_OBJECTS
    <2>1. /\ y \in Slots /\ j \in Slots /\ j # y
          /\ IsRolling(new[y]) /\ new[j] # NULL /\ Touches(new[y], new[j])
      BY <1>4, EventIs DEF new
    <2>2. later = bounce(new, y, j)
      BY <1>4 DEF AfterEvent
    <2> HIDE DEF later, y, j
    <2>3. /\ later = [i \in Slots |-> later[i]]
          /\ \/ Pocketed(new, y, j, later) /\ new[j].type = "HOLE"
             \/ \A i \in Slots : later[i] = new[i] \/ Remains(new[i], later[i])
      BY <1>1, <2>1, <2>2, BounceIs
    <2>4. CASE \A i \in Slots : later[i] = new[i] \/ Remains(new[i], later[i])
      <3>1. WellSet(later) /\ Numbers(later) = Numbers(new)
        BY <1>1, <2>3, <2>4, AllStay
      <3>2. Kept(objects, later)
        BY <1>1, <3>1, NoneLost
      <3> QED
        BY <3>1, <3>2 DEF later, new
    <2>5. CASE Pocketed(new, y, j, later) /\ new[j].type = "HOLE"
      <3>1. /\ j \in 4 .. 9 /\ later[y] = NULL
            /\ \A i \in Slots : i # y => later[i] = new[i]
        BY <2>5 DEF Pocketed
      <3>2. IsBall(new[y])
        BY <2>1 DEF IsRolling, IsBall
      <3>3. WellSet(later) /\ Numbers(later) \subseteq Numbers(new)
        <4>1. \A i \in Slots : \/ later[i] = new[i]
                               \/ Remains(new[i], later[i])
                               \/ IsBall(new[i]) /\ later[i] = NULL
          BY <3>1, <3>2
        <4> QED
          BY <1>1, <2>3, <4>1, NoneAdded
      <3>4. \A n \in Numbers(new) \ Numbers(later) : n = new[y].number
        BY <3>1 DEF Numbers
      <3>5. /\ IsRolling(objects[y]) /\ y \in Rolling(objects)
            /\ new[y] = roll(objects[y], t)
            /\ new[y].number = objects[y].number
        BY <1>1, <2>1, <3>2 DEF Rolling, IsRolling, IsBall
      <3>6. new[j] = objects[j]
        <4>1. j \in 0 .. 9
          BY <3>1
        <4>2. new[j] = new_table[j] /\ objects[j] = new_table[j]
          BY <1>1, <4>1 DEF WellSet, Furnished
        <4> QED
          BY <4>2
      <3>7. InReach(roll(objects[y], t), objects[j])
        <4>1. ~IsBall(new[j])
          BY <2>5 DEF IsBall
        <4>2. Within(sub(new[y].pos, new[j].pos), PHYLIB_HOLE_RADIUS)
          BY <2>1, <2>5, <4>1 DEF Touches
        <4> QED
          BY <3>5, <3>6, <4>2 DEF InReach
      <3>8. LeftThroughHoles(objects, later)
        BY <1>1, <3>1, <3>4, <3>5, <3>7 DEF LeftThroughHoles
      <3>9. Kept(objects, later)
        BY <1>1, <3>3, <3>8, CountedOnce DEF Kept, WellSet
      <3> QED
        BY <3>3, <3>9 DEF later, new
    <2> QED
      BY <2>3, <2>4, <2>5
  <1> QED
    BY <1>3, <1>4

-----------------------------------------------------------------------------
(* The steps.                                                              *)
LEMMA InitIs == ShotsInit => TableGood
  <1> SUFFICES ASSUME ShotsInit PROVE TableGood
    OBVIOUS
  <1>1. PICK rack \in Racks :
            object = TableWith([i \in DOMAIN rack |-> new_still_ball(i - 1, rack[i])])
    BY DEF ShotsInit
  <1> DEFINE balls == [i \in DOMAIN rack |-> new_still_ball(i - 1, rack[i])]
             D == {new_still_ball(i - 1, rack[i]) : i \in DOMAIN rack}
  <1>2. rack \in Seq([x : Int, y : Int]) /\ Len(rack) \in Nat /\ DOMAIN rack = 1 .. Len(rack)
    BY RackAssumption
  <1>3. balls \in Seq(D) /\ Len(balls) = Len(rack)
    BY <1>2
  <1>4. \A k \in 1 .. Len(balls) : balls[k] = new_still_ball(k - 1, rack[k])
    BY <1>2, <1>3
  <1> HIDE DEF balls, D
  <1>5. AreBalls(balls)
    <2>1. \A n, p : IsShaped(new_still_ball(n, p)) /\ new_still_ball(n, p).number = n
      BY DEF IsShaped, new_still_ball
    <2>2. \A k, l \in 1 .. Len(balls) : k - 1 = l - 1 => k = l
      BY <1>2, <1>3
    <2> QED
      BY <1>2, <1>3, <1>4, <2>1, <2>2 DEF AreBalls
  <1>6. WellSet(object)
    BY <1>1, <1>5, FilledIs DEF balls
  <1> QED
    BY <1>6, SizeAssumption DEF TableGood, ShotsInit

LEMMA ShootKeeps == TableGood /\ Shoot => TableGood' /\ Kept(object, object')
  <1> SUFFICES ASSUME TableGood, Shoot PROVE TableGood' /\ Kept(object, object')
    OBVIOUS
  <1>1. PICK i \in Slots, vel \in Strokes :
            /\ object[i].type = "STILL_BALL" /\ object[i].number = 0
            /\ object' = [object EXCEPT ![i] =
                   new_rolling_ball(0, object[i].pos, vel, calculate_acceleration(vel))]
    BY DEF Shoot
  <1> DEFINE o == new_rolling_ball(0, object[i].pos, vel, calculate_acceleration(vel))
  <1>2. Remains(object[i], o)
    BY <1>1 DEF Remains, IsBall, IsShaped, new_rolling_ball
  <1>3. object = [k \in Slots |-> object[k]]
    BY DEF TableGood, WellSet, Furnished
  <1> HIDE DEF o
  <1>4. /\ object' = [k \in Slots |-> object'[k]]
        /\ \A k \in Slots : object'[k] = object[k] \/ Remains(object[k], object'[k])
    BY <1>1, <1>2, <1>3 DEF o
  <1>5. WellSet(object') /\ Numbers(object') = Numbers(object)
    BY <1>4, AllStay DEF TableGood
  <1> QED
    BY <1>5, NoneLost DEF TableGood, Shoot

LEMMA SegmentKeeps == TableGood /\ Segment => TableGood' /\ Kept(object, object')
  <1> SUFFICES ASSUME TableGood, Segment PROVE TableGood' /\ Kept(object, object')
    OBVIOUS
  <1>1. Kept(object, object)
    BY NoneLost DEF TableGood
  <1>2. object' = object /\ time' = 1 /\ 1 \in 0 .. PHYLIB_MAX_TIME
    BY SizeAssumption DEF Segment
  <1> QED
    BY <1>1, <1>2 DEF TableGood

LEMMA TickKeeps == TableGood /\ RollOn => TableGood' /\ Kept(object, object')
  <1> SUFFICES ASSUME TableGood, RollOn PROVE TableGood' /\ Kept(object, object')
    OBVIOUS
  <1> DEFINE new == Rolled(object, time)
             events == Events(new)
  <1>1. \/ \E e \in events : object' = AfterEvent(new, e) /\ time' = 0
        \/ time + 1 < PHYLIB_MAX_TIME /\ time' = time + 1 /\ UNCHANGED object
        \/ object' = new /\ time' = 0
    BY DEF RollOn
  <1>2. /\ WellSet(object) /\ time \in 1 .. PHYLIB_MAX_TIME
        /\ PHYLIB_MAX_TIME \in Nat /\ 0 \in 0 .. PHYLIB_MAX_TIME
    BY SizeAssumption DEF TableGood, RollOn
  <1>3. CASE \E e \in events : object' = AfterEvent(new, e) /\ time' = 0
    <2>1. WellSet(object') /\ Kept(object, object')
      BY <1>2, <1>3, AfterKeeps
    <2> QED
      BY <1>2, <1>3, <2>1 DEF TableGood
  <1>4. CASE time + 1 < PHYLIB_MAX_TIME /\ time' = time + 1 /\ UNCHANGED object
    <2>1. time' \in 0 .. PHYLIB_MAX_TIME
      BY <1>2, <1>4
    <2>2. Kept(object, object)
      BY <1>2, NoneLost
    <2> QED
      BY <1>2, <1>4, <2>1, <2>2 DEF TableGood
  <1>5. CASE object' = new /\ time' = 0
    <2>1. WellSet(object') /\ Numbers(object') = Numbers(object)
      BY <1>2, <1>5, RolledIs
    <2>2. Kept(object, object')
      BY <2>1, NoneLost
    <2> QED
      BY <1>2, <1>5, <2>1, <2>2 DEF TableGood
  <1> QED
    BY <1>1, <1>3, <1>4, <1>5

LEMMA EndShotStepKeeps == TableGood /\ EndShot => TableGood' /\ Kept(object, object')
  <1> SUFFICES ASSUME TableGood, EndShot PROVE TableGood' /\ Kept(object, object')
    OBVIOUS
  <1>1. WellSet(object') /\ Numbers(object') = Numbers(object) /\ time' = time
    BY EndShotKeeps DEF TableGood, EndShot
  <1> QED
    BY <1>1, NoneLost DEF TableGood

(***************************************************************************)
(* A table's objects are in order at every moment, and no shot loses a     *)
(* ball or makes two of one: it leaves the game only where, at some time   *)
(* of the segment, it lies in reach of a hole (phylib_bounce's case of     *)
(* PHYLIB_HOLE).  It holds for every drag and stroke and every number of   *)
(* slots, a table too small for its rack included.                         *)
(***************************************************************************)
THEOREM BallsAreAccountedFor == ShotsSpec => BallsLeaveThroughHoles
  <1>1. ShotsInit => TableGood
    BY InitIs
  <1>2. TableGood /\ ShotsNext => TableGood' /\ Kept(object, object')
    BY ShootKeeps, SegmentKeeps, TickKeeps, EndShotStepKeeps DEF ShotsNext
  <1>3. TableGood /\ [ShotsNext]_shots_vars => TableGood'
    BY <1>2 DEF shots_vars, TableGood
  <1>4. TableGood /\ [ShotsNext]_shots_vars =>
          [/\ Numbers(object') \subseteq Numbers(object)
           /\ Cardinality({i \in Slots : IsBall(object'[i])}) = Cardinality(Numbers(object'))
           /\ \A n \in Numbers(object) \ Numbers(object') :
                  \E i \in Rolling(object) : /\ object'[i] = NULL /\ object[i].number = n
                                            /\ \E t \in 1 .. PHYLIB_MAX_TIME : \E h \in 4 .. 9 :
                                                   InReach(roll(object[i], t), object[h])]_shots_vars
    BY <1>2 DEF Kept, LeftThroughHoles
  <1> QED
    BY <1>1, <1>3, <1>4, PTL DEF ShotsSpec, BallsLeaveThroughHoles

=============================================================================
