------------------------------ MODULE PoolGame ------------------------------
(***************************************************************************)
(* One PvP pool game: its sessions (pool/runtime/sessions.py), the registry *)
(* that holds one of them (session_registry.py), the clock with its expiry *)
(* timer (clock.py), the moves on their way to the database through the    *)
(* persist queue's two workers (persist.py, checked by itself in           *)
(* PersistQueue), and the game's rows (repository.py, app_commit_move).    *)
(*                                                                         *)
(* An operation runs under its session's lock, so each is one step; what   *)
(* happens outside that lock (loading, eviction, the workers, timers       *)
(* waiting for the lock) is a step of its own.  A shot's physics is its    *)
(* outcome: the turn stays, passes, passes with ball in hand, or the eight *)
(* ball wins or loses the game.                                            *)
(***************************************************************************)
EXTENDS Integers, Sequences

CONSTANTS Loaders,      \* request threads that load the game
          Bank,         \* INITIAL_CLOCK_MS, in ticks
          MaxTime,      \* bound: ticks
          MaxShot,      \* bound: ticks the physics of a shot takes
          MaxPlays,     \* bound: plays accepted
          MaxSessions,  \* bound: sessions built since the last restart
          MaxFails,     \* bound: saves that fail for good
          MaxCrashes    \* bound: restarts

ASSUME PoolGameAssumption ==
  /\ Bank \in Nat \ {0} /\ MaxTime \in Nat /\ MaxShot \in Nat /\ MaxPlays \in Nat
  /\ MaxSessions \in Nat \ {0} /\ MaxFails \in Nat /\ MaxCrashes \in Nat

VARIABLES sessions,   \* every session of the game this process has built
          registered, \* the one in the registry, 0 for none
          loader,     \* what each loading request is at
          resigning,  \* the surrender request: "none", "ended", "ensured"
          queue,      \* plays in the persist queue
          db,         \* the game's rows
          now, played, fails, crashes

vars == <<sessions, registered, loader, resigning, queue, db, now, played, fails, crashes>>

Color == {"w", "b"}     \* player1 and player2
Other(c) == IF c = "w" THEN "b" ELSE "w"

Outcome == {"stays", "passes", "scratch", "wins", "loses"}
Reason  == {"none", "played", "surrender", "draw", "time"}

Table   == [turn : Color, hand : BOOLEAN, over : BOOLEAN, winner : Color \cup {"none"}]
Job     == [table : Table, bank : [Color -> Nat]]
Row     == [table : Table, bank : [Color -> Nat], at : Nat]
Timer   == [state : {"none", "armed", "fired"}, color : Color, due : Nat]
Session == [status : {"active", "finished"}, table : Table, reason : Reason,
            bank : [Color -> Nat], active : Color, anchor : Nat,
            timer : Timer, calling : SUBSET Color,  \* fired callbacks that wait for the lock
            log : Seq({"shot", "over"})]

TypeOK ==
  /\ sessions \in Seq(Session) /\ Len(sessions) <= MaxSessions
  /\ registered \in 0..Len(sessions)
  /\ loader \in [Loaders -> [at : {"idle", "row", "built"}, status : {"active", "finished"},
                             session : 0..Len(sessions)]]
  /\ resigning \in {"none", "ended", "ensured"}
  /\ queue \in Seq(Job)
  /\ db \in [status : {"active", "finished"}, rows : Seq(Row)]
  /\ now \in 0..MaxTime /\ played \in 0..MaxPlays
  /\ fails \in 0..MaxFails /\ crashes \in 0..MaxCrashes

-----------------------------------------------------------------------------
(* The clock.  t is the time at which a step of it happens.                *)

Less(ms, elapsed) == IF ms > elapsed THEN ms - elapsed ELSE 0

NoTimer(s) == [s EXCEPT !.timer.state = "none"]

\* sync_wall_clock
Synced(s, t) ==
  [s EXCEPT !.bank[s.active] = Less(@, t - s.anchor), !.anchor = t]

\* apply_move
Ticked(s, t) == [Synced(s, t) EXCEPT !.active = Other(@)]

\* What an operation did: the session after it, the moves it queued and the
\* moves it saved itself (persist_now).
Did(s) == [s |-> s, queued |-> <<>>, saved |-> <<>>]

JobOf(s) == [table |-> s.table, bank |-> s.bank]

\* Mutant of Expire: it does not ask whose turn it is.
ExpireAnyone(s, c) ==
  IF s.status # "active" THEN Did(s)
  ELSE LET table == [s.table EXCEPT !.over = TRUE, !.winner = Other(c)]
           over  == [NoTimer(s) EXCEPT !.status = "finished", !.table = table, !.reason = "time",
                                       !.bank[c] = 0, !.log = Append(@, "over")] IN
       [Did(over) EXCEPT !.saved = <<JobOf(over)>>]

\* Mutant of Expire: it does not ask whether the game is still on.
ExpireAgain(s, c) ==
  IF s.table.turn # c THEN Did(s)
  ELSE LET table == [s.table EXCEPT !.over = TRUE, !.winner = Other(c)]
           over  == [NoTimer(s) EXCEPT !.status = "finished", !.table = table, !.reason = "time",
                                       !.bank[c] = 0, !.log = Append(@, "over")] IN
       [Did(over) EXCEPT !.saved = <<JobOf(over)>>]

\* _handle_clock_expiry
Expire(s, c) ==
  IF s.status # "active" \/ s.table.turn # c THEN Did(s)
  ELSE LET table == [s.table EXCEPT !.over = TRUE, !.winner = Other(c)]
           over  == [NoTimer(s) EXCEPT !.status = "finished", !.table = table, !.reason = "time",
                                       !.bank[c] = 0, !.log = Append(@, "over")] IN
       [Did(over) EXCEPT !.saved = <<JobOf(over)>>]

\* Mutant of Schedule: the timer that is there is kept.
ScheduleOnce(s, t) ==
  LET synced == Synced(s, t) IN
  IF s.timer.state # "none" THEN Did(synced)
  ELSE IF synced.bank[s.active] <= 0 THEN Expire(synced, s.active)
  ELSE Did([synced EXCEPT !.timer = [state |-> "armed", color |-> s.active,
                                     due |-> t + synced.bank[s.active]]])

\* schedule_expiry
Schedule(s, t) ==
  LET synced == NoTimer(Synced(s, t)) IN
  IF synced.bank[s.active] <= 0 THEN Expire(synced, s.active)
  ELSE Did([synced EXCEPT !.timer = [state |-> "armed", color |-> s.active,
                                     due |-> t + synced.bank[s.active]]])

\* ensure_clock_resolved
Resolve(s, t) ==
  IF s.status # "active" THEN Did(s)
  ELSE LET synced == Synced(s, t) IN
       IF synced.bank[s.active] > 0 THEN Did(synced) ELSE Expire(synced, s.active)

-----------------------------------------------------------------------------
(* The session's operations.                                               *)

\* _commit_table: the game goes on, or it ends and game_over follows.
CommitTable(s, table, t) ==
  LET shown == [s EXCEPT !.table = table, !.log = Append(@, "shot")] IN
  IF table.over
  THEN LET over == [NoTimer(shown) EXCEPT !.status = "finished", !.log = Append(@, "over"),
                                          !.reason = IF @ = "none" THEN "played" ELSE @] IN
       [Did(over) EXCEPT !.saved = <<JobOf(shown)>>]
  ELSE LET did == Schedule(shown, t) IN
       [did EXCEPT !.queued = <<JobOf(shown)>>]

\* apply_shot: the table after a shot.
After(table, outcome) ==
  CASE outcome = "stays"   -> [table EXCEPT !.hand = FALSE]
    [] outcome = "passes"  -> [table EXCEPT !.hand = FALSE, !.turn = Other(@)]
    [] outcome = "scratch" -> [table EXCEPT !.hand = TRUE, !.turn = Other(@)]
    [] outcome = "wins"    -> [table EXCEPT !.hand = FALSE, !.over = TRUE, !.winner = table.turn]
    [] outcome = "loses"   -> [table EXCEPT !.hand = FALSE, !.over = TRUE,
                                            !.winner = Other(table.turn)]

\* Mutant of Shot: every shot hands the clock over.
ShotAlwaysTicks(s, outcome, t) == CommitTable(Ticked(s, t), After(s.table, outcome), t)

\* The rest of submit_shot, once the shot is let through: t is the time when
\* the physics is done.
Shot(s, outcome, t) ==
  LET table == After(s.table, outcome) IN
  CommitTable(IF table.turn # s.table.turn THEN Ticked(s, t) ELSE s, table, t)

Ended(s, winner, reason, t) ==
  CommitTable([NoTimer(s) EXCEPT !.reason = reason],
              [s.table EXCEPT !.over = TRUE, !.winner = winner], t)

-----------------------------------------------------------------------------
(* The game's rows.                                                        *)

\* app_commit_move: the next ply, and the status that came with the move.
Committed(d, job) ==
  [status |-> IF job.table.over THEN "finished" ELSE "active",
   rows   |-> Append(d.rows, [table |-> job.table, bank |-> job.bank, at |-> now'])]

\* persist_now, which says nothing of a save that failed twice.
SaveNow(saved) ==
  \/ /\ db' = IF saved = <<>> THEN db ELSE Committed(db, Head(saved))
     /\ UNCHANGED fails
  \/ /\ saved # <<>> /\ fails < MaxFails
     /\ fails' = fails + 1
     /\ UNCHANGED db

\* A play that runs the clock out is queued and its forfeit saved at once; a
\* worker may have saved the play by then.
Apply(k, did) ==
  /\ sessions' = [sessions EXCEPT ![k] = did.s]
  /\ \/ queue' = queue \o did.queued /\ SaveNow(did.saved)
     \/ /\ did.queued # <<>> /\ did.saved # <<>>
        /\ db' = Committed(Committed(db, Head(did.queued)), Head(did.saved))
        /\ UNCHANGED <<queue, fails>>

\* A worker saves a play; there are two of them, so the first two plays of the
\* queue may be saved in either order.
WorkerSaves ==
  \E i \in 1..2 :
    /\ i <= Len(queue)
    /\ queue' = SubSeq(queue, 1, i - 1) \o SubSeq(queue, i + 1, Len(queue))
    /\ now' = now
    /\ SaveNow(<<queue[i]>>)
    /\ UNCHANGED <<sessions, registered, loader, resigning, played, crashes>>

-----------------------------------------------------------------------------
(* Steps.                                                                  *)

Opening(c) == [turn |-> c, hand |-> FALSE, over |-> FALSE, winner |-> "none"]

\* A session as its constructor leaves it, from a row's status and a move.
Built(status, row, t) ==
  LET s == [status |-> IF row.table.over THEN "finished" ELSE status,
            table  |-> row.table, reason |-> "none", bank |-> row.bank,
            active |-> row.table.turn, anchor |-> row.at,
            timer  |-> [state |-> "none", color |-> "w", due |-> 0], calling |-> {},
            log    |-> <<>>]
      did == Resolve(s, t) IN
  IF s.status = "active" /\ did.s.status = "active" THEN Schedule(did.s, t) ELSE did

\* bootstrap_physics_game: the opening move is in the database and the session
\* registered.
Init ==
  \E c \in Color :
    LET row == [table |-> Opening(c), bank |-> [d \in Color |-> Bank], at |-> 0] IN
    /\ sessions = <<Built("active", row, 0).s>>
    /\ registered = 1
    /\ db = [status |-> "active", rows |-> <<row>>]
    /\ loader = [l \in Loaders |-> [at |-> "idle", status |-> "active", session |-> 0]]
    /\ resigning = "none" /\ queue = <<>>
    /\ now = 0 /\ played = 0 /\ fails = 0 /\ crashes = 0

Tick ==
  /\ now < MaxTime
  /\ now' = now + 1
  /\ UNCHANGED <<sessions, registered, loader, resigning, queue, db, played, fails, crashes>>

Fired(s) == [s EXCEPT !.timer.state = "fired", !.calling = @ \cup {s.timer.color}]

\* The timer of a session, registered or not, runs out: its thread wants the lock.
TimerFires(k) ==
  /\ sessions[k].timer.state = "armed" /\ now >= sessions[k].timer.due
  /\ sessions' = [sessions EXCEPT ![k] = Fired(@)]
  /\ UNCHANGED <<registered, loader, resigning, queue, db, now, played, fails, crashes>>

\* The timer's thread has the lock.
Callback(k) ==
  \E c \in sessions[k].calling :
    /\ now' = now
    /\ Apply(k, Expire([sessions[k] EXCEPT !.calling = @ \ {c}], c))
    /\ UNCHANGED <<registered, loader, resigning, played, crashes>>

\* load_state_for, subscribe, and every request that is then refused.  Requests
\* find the session in the registry; one that had it in hand when it was
\* evicted is left out (a session is not evicted while its timer runs).
Refresh(k) ==
  /\ k = registered
  /\ now' = now
  /\ Apply(k, Resolve(sessions[k], now))
  /\ UNCHANGED <<registered, loader, resigning, played, crashes>>

\* Mutant of MayPlay: the check that follows ensure_clock_resolved is missing.
MayPlayUnchecked(k) == k = registered /\ sessions[k].status = "active"

\* A play is let through: the game is active before and after the clock is
\* looked at.
MayPlay(k) ==
  /\ k = registered /\ sessions[k].status = "active"
  /\ Resolve(sessions[k], now).s.status = "active"

\* submit_shot by the player whose turn it is; the physics takes d ticks, in
\* which the timer may run out.
SubmitShot(k) ==
  \E outcome \in Outcome, d \in 0..MaxShot :
    LET s == Resolve(sessions[k], now).s IN
    /\ MayPlay(k) /\ played < MaxPlays /\ now + d <= MaxTime
    /\ now' = now + d
    /\ played' = played + 1
    /\ \/ Apply(k, Shot(s, outcome, now'))
       \/ /\ s.timer.state = "armed" /\ now' >= s.timer.due
          /\ Apply(k, Shot(Fired(s), outcome, now'))
    /\ UNCHANGED <<registered, loader, resigning, crashes>>

\* place_cue by the player with ball in hand.
PlaceCue(k) ==
  /\ MayPlay(k) /\ played < MaxPlays /\ sessions[k].table.hand
  /\ now' = now
  /\ played' = played + 1
  /\ LET s == Resolve(sessions[k], now).s IN Apply(k, CommitTable(s, s.table, now))
  /\ UNCHANGED <<registered, loader, resigning, crashes>>

\* surrender by either player.  The request goes on after it.
Surrender(k) ==
  \E c \in Color :
    /\ MayPlay(k) /\ played < MaxPlays /\ resigning = "none"
    /\ now' = now
    /\ played' = played + 1
    /\ Apply(k, Ended(Resolve(sessions[k], now).s, Other(c), "surrender", now))
    /\ resigning' = "ended"
    /\ UNCHANGED <<registered, loader, crashes>>

\* ensure_finished_row
EnsureFinishedRow ==
  /\ resigning = "ended"
  /\ resigning' = "ensured"
  /\ db' = [db EXCEPT !.status = "finished"]
  /\ UNCHANGED <<sessions, registered, loader, queue, now, played, fails, crashes>>

\* SessionRegistry.remove, which cancels the timer.
Unregister ==
  /\ registered' = 0
  /\ sessions' = IF registered = 0 THEN sessions
                 ELSE [sessions EXCEPT ![registered] = NoTimer(@)]
  /\ UNCHANGED <<loader, queue, db, now, played, fails, crashes>>

\* The end of PoolRuntime.surrender.
EvictResigned == resigning = "ensured" /\ resigning' = "none" /\ Unregister

\* evict_idle: a game that is over, or one that has no timer.
EvictIdle ==
  /\ registered # 0
  /\ sessions[registered].status = "finished" \/ sessions[registered].timer.state = "none"
  /\ UNCHANGED resigning
  /\ Unregister

\* agree_draw
AgreeDraw(k) ==
  /\ MayPlay(k) /\ played < MaxPlays
  /\ now' = now
  /\ played' = played + 1
  /\ Apply(k, Ended(Resolve(sessions[k], now).s, "none", "draw", now))
  /\ UNCHANGED <<registered, loader, resigning, crashes>>

\* get_or_hydrate finds no session and load_game reads the game's row.
LoadRow(l) ==
  /\ loader[l].at = "idle" /\ registered = 0 /\ Len(sessions) < MaxSessions
  /\ loader' = [loader EXCEPT ![l] = [@ EXCEPT !.at = "row", !.status = db.status]]
  /\ UNCHANGED <<sessions, registered, resigning, queue, db, now, played, fails, crashes>>

\* load_game reads the latest move, and the session is built from both.
Build(l) ==
  LET did == Built(loader[l].status, db.rows[Len(db.rows)], now) IN
  /\ loader[l].at = "row" /\ Len(sessions) < MaxSessions
  /\ now' = now
  /\ sessions' = Append(sessions, did.s)
  /\ SaveNow(did.saved)
  /\ loader' = [loader EXCEPT ![l] = [@ EXCEPT !.at = "built", !.session = Len(sessions) + 1]]
  /\ UNCHANGED <<registered, resigning, queue, played, crashes>>

\* get_or_hydrate registers the session, unless another was first.
Join(l) ==
  /\ loader[l].at = "built"
  /\ registered' = IF registered = 0 THEN loader[l].session ELSE registered
  /\ loader' = [loader EXCEPT ![l].at = "idle"]
  /\ UNCHANGED <<sessions, resigning, queue, db, now, played, fails, crashes>>

\* The process dies; the database is what is left.
Crash ==
  /\ crashes < MaxCrashes
  /\ crashes' = crashes + 1
  /\ sessions' = <<>> /\ registered' = 0 /\ queue' = <<>> /\ resigning' = "none"
  /\ loader' = [l \in Loaders |-> [at |-> "idle", status |-> "active", session |-> 0]]
  /\ UNCHANGED <<db, now, played, fails>>

Next ==
  \/ Tick \/ WorkerSaves \/ EnsureFinishedRow \/ EvictResigned \/ EvictIdle \/ Crash
  \/ \E k \in DOMAIN sessions :
       \/ TimerFires(k) \/ Callback(k) \/ Refresh(k)
       \/ SubmitShot(k) \/ PlaceCue(k) \/ Surrender(k) \/ AgreeDraw(k)
  \/ \E l \in Loaders : LoadRow(l) \/ Build(l) \/ Join(l)

Spec == Init /\ [][Next]_vars

\* Timers fire and their threads get the lock.
Fairness == \A k \in 1..MaxSessions :
  WF_vars(k \in DOMAIN sessions /\ (TimerFires(k) \/ Callback(k)))

FairSpec == Spec /\ Fairness

-----------------------------------------------------------------------------
Sessions == {sessions[k] : k \in DOMAIN sessions}

\* The clock that runs is that of the player to move, through turns that stay or
\* pass, ball in hand and reloading, and the registered session has a timer for
\* what is left of it (submit_shot ticks only when the turn passes;
\* build_pool_state takes the color from the table).
ClockFollowsTurn ==
  \A k \in DOMAIN sessions : LET s == sessions[k] IN s.status = "active" =>
    /\ s.active = s.table.turn
    /\ s.timer.state = "none" => k # registered
    /\ s.timer.state # "none" => /\ s.timer.color = s.active
                                 /\ s.timer.due = s.anchor + s.bank[s.active]

\* A session says game_over once, last, and exactly when it is over: the timer,
\* the requests that look at the clock and the play that ends the game race for
\* it (_handle_clock_expiry, _commit_table).
GameOverOnce ==
  \A s \in Sessions :
    /\ \A i \in DOMAIN s.log : s.log[i] = "over" => i = Len(s.log) /\ s.status = "finished"
    /\ s.reason # "none" => s.log # <<>> /\ s.log[Len(s.log)] = "over"

\* What a session announced as the result stays (sessions.py
\* _is_session_active guards).
ResultStays ==
  [][\A k \in DOMAIN sessions :
       (k \in DOMAIN sessions' /\ sessions[k].status = "finished") =>
         /\ sessions'[k].status = "finished"
         /\ sessions'[k].table  = sessions[k].table
         /\ sessions'[k].reason = sessions[k].reason]_vars

\* Only the player to move loses on time, and only with the bank used up,
\* however late a timer's thread gets the lock.
ForfeitIsDue ==
  [][\A k \in DOMAIN sessions \cap DOMAIN sessions' :
       LET s == sessions[k]
           t == sessions'[k] IN
       (s.reason = "none" /\ t.reason = "time") =>
         /\ t.table.winner # t.table.turn
         /\ s.bank[t.table.turn] <= IF t.table.turn = s.active THEN now' - s.anchor ELSE 0]_vars

\* The registered session does not stay in play once the active bank has run
\* out: a timer or a request ends the game (clock.py schedule_expiry).
FlagFalls ==
  \A k \in 1..MaxSessions :
    LET Due == /\ k = registered /\ sessions[k].status = "active"
               /\ now >= sessions[k].timer.due IN
    Due ~> ~Due
=============================================================================
