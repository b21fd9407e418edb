----------------------------- MODULE ChezzGame -----------------------------
(***************************************************************************)
(* One Chezz game, from the pages to the rows: ChezzSession and the state  *)
(* machine in it (chezz/runtime/sessions.py, game.py), the clock and its   *)
(* timer (clock.py), the game's rows behind the persist queue              *)
(* (repository.py, app_commit_move), and the pages that post moves and     *)
(* learn of them twice, from the answer and from the stream (frontend      *)
(* chezz/game).  The moves themselves are ChezzMoves; here a move has an   *)
(* id and takes a king or does not.                                        *)
(*                                                                         *)
(* An operation runs under the session's lock and is one step.  What a     *)
(* request does before it has the lock is a step of its own where it       *)
(* matters: play_engine_move looks at the seat in a snapshot.              *)
(***************************************************************************)
EXTENDS Integers, Sequences, FiniteSets

CONSTANTS Modes,          \* a subset of {"pvp", "pve"}
          Bank,           \* CLOCK_INITIAL_SECONDS, in ticks
          Remember,       \* MAX_PROCESSED_CLIENT_MOVE_IDS
          Workers,        \* DEFAULT_MAX_WORKERS; with 0 they are slow
          MaxTime,        \* bound: ticks
          MaxThink,       \* bound: ticks a search takes
          MaxMoves,       \* bound: moves posted by the pages
          MaxAsks,        \* bound: engine moves asked for
          MaxTrouble,     \* bound: posts that arrive once more, resignations and
                          \* agreed draws, pages opened anew, chat messages, saves
                          \* and lists of moves that fail, restarts, evictions
          MaxSteps        \* bound: time, moves, engine moves and trouble together

ASSUME ChezzGameAssumption ==
  /\ Modes \subseteq {"pvp", "pve"} /\ Bank \in Nat \ {0} /\ Remember \in Nat \ {0}
  /\ {Workers, MaxTime, MaxThink, MaxMoves, MaxAsks, MaxTrouble, MaxSteps} \subseteq Nat

VARIABLES mode,      \* the game's mode
          session,   \* the session in the registry, NoSession if there is none
          queue,     \* moves in the persist queue
          db,        \* the game's row, and the last of its moves' rows
          page,      \* what each page shows and waits for
          posts,     \* moves on their way to the server
          replies,   \* answers on their way to the pages
          now,       \* the time
          used       \* how much of the bounds is used up

vars == <<mode, session, queue, db, page, posts, replies, now, used>>

Color == {"w", "b"}
Other(c) == IF c = "w" THEN "b" ELSE "w"

\* Each player has a page; against the engine, which has Black, the player has
\* the game open in two.
Pages   == Color
Seat(p) == IF mode = "pve" THEN "w" ELSE p

Id     == 0..MaxMoves   \* client_move_ids; 0 for a move of the engine
Reason == {"none", "board", "time", "surrender", "draw", "saved"}
Shown  == [seq : Nat, plies : Nat, turn : Color, over : BOOLEAN]
Ply    == [id : Id, by : Color, engine : BOOLEAN]
Event  == [type : {"move", "over", "chat", "refused", "stale"}, id : Id, seq : Nat, shows : Shown]
Timer  == [state : {"none", "armed", "fired"}, color : Color, due : Nat]
Job    == [plies : Seq(Ply), turn : Color, bank : [Color -> Nat], over : BOOLEAN]

NoSession == [status |-> "none"]
Session == [status : {"active", "finished"}, reason : Reason, plies : Seq(Ply), turn : Color,
            bank : [Color -> Nat], active : Color, anchor : Nat, timer : Timer,
            calling : SUBSET Color,     \* timers' threads that wait for the lock
            seq : Nat,                  \* stream_seq of the state
            next : Nat, log : Seq(Event),
            known : Seq(Event),         \* _processed_client_move_ids, oldest first
            untold : BOOLEAN]           \* the last move raised after it was made

Post  == [page : Pages, id : Id, expected : Nat]
Reply == [page : Pages, id : Id, event : Event]
Page  == [shows : Shown,
          cursor : Nat,                 \* where its stream is
          last : Nat \cup {-1},         \* lastDispatchedMoveSeq
          sent : Id,                    \* the move whose answer it waits for
          kick : {"none", "posted", "looked", "answered"}]  \* the engine move it asked for

TypeOK ==
  /\ mode \in Modes /\ session \in Session \cup {NoSession}
  /\ session # NoSession => Len(session.known) <= Remember
  /\ queue \in Seq(Job) /\ page \in [Pages -> Page]
  /\ db \in [status : {"active", "finished"}, ply : Nat, last : Job, at : Nat]
  /\ posts \subseteq Post /\ replies \subseteq Reply
  /\ now \in 0..MaxTime
  /\ used \in [moves : 0..MaxMoves, asks : 0..MaxAsks, trouble : 0..MaxTrouble]

Room == now + used.moves + used.asks + used.trouble < MaxSteps

Spend(what, most) == Room /\ used[what] < most /\ used' = [used EXCEPT ![what] = @ + 1]

Trouble == Spend("trouble", MaxTrouble)

-----------------------------------------------------------------------------
(* The clock.                                                              *)

NoTimer(s) == [s EXCEPT !.timer.state = "none"]

\* sync_wall_clock
Synced(s, t) ==
  LET left == s.bank[s.active] - (t - s.anchor) IN
  [s EXCEPT !.bank[s.active] = IF left > 0 THEN left ELSE 0, !.anchor = t]

\* apply_move, with the time at which the request had the lock: what the search
\* takes after that is charged to nobody, since sync_wall_clock starts from the
\* time at which apply_move is done.
Ticked(s, t) == [s EXCEPT !.active = Other(@), !.anchor = t]

-----------------------------------------------------------------------------
(* The session.  What an operation did: the session after it, the moves it *)
(* left in the queue, and the event that answers it.                       *)

JobOf(s) == [plies |-> s.plies, turn |-> s.turn, bank |-> s.bank, over |-> s.status = "finished"]

Shows(s) == [seq |-> s.seq, plies |-> Len(s.plies), turn |-> s.turn, over |-> s.status = "finished"]

Did(s) == [s |-> s, queued |-> <<>>]

\* Mutant of Tell: the number goes on from the state's, whatever came between.
TellCounted(s, type, id) ==
  LET told == [s EXCEPT !.seq = @ + 1] IN
  [told EXCEPT !.next = @ + 1, !.untold = FALSE,
               !.log = Append(@, [type |-> type, id |-> id, seq |-> s.next, shows |-> Shows(told)])]

\* The state takes the next number, and the event that shows it goes into the log.
Tell(s, type, id) ==
  LET told == [s EXCEPT !.seq = s.next] IN
  [told EXCEPT !.next = @ + 1, !.untold = FALSE,
               !.log = Append(@, [type |-> type, id |-> id, seq |-> s.next, shows |-> Shows(told)])]

LastEvent(s) == s.log[Len(s.log)]

\* force_terminal, surrender, agree_draw and the end of both forfeits.
Finish(s, reason) ==
  LET over == Tell([NoTimer(s) EXCEPT !.status = "finished", !.reason = reason], "over", 0) IN
  [Did(over) EXCEPT !.queued = <<JobOf(over)>>]

\* _handle_clock_expiry
Expire(s, c) ==
  IF s.status # "active" \/ s.turn # c THEN Did(s) ELSE Finish(s, "time")

\* _maybe_time_forfeit ends the game.
Forfeits(s, t) == Synced(s, t).bank[s.active] = 0

\* ensure_clock_resolved
Resolve(s, t) ==
  IF s.status # "active" THEN Did(s)
  ELSE IF Forfeits(s, t) THEN Finish(Synced(s, t), "time") ELSE Did(Synced(s, t))

\* Mutant of Schedule: a timer that is set stays.
ScheduleOnce(s, t) ==
  IF s.timer.state = "armed" THEN Did(s)
  ELSE Did([s EXCEPT !.timer = [state |-> "armed", color |-> s.active, due |-> t + s.bank[s.active]]])

\* schedule_expiry
Schedule(s, t) ==
  LET synced == NoTimer(Synced(s, t)) IN
  IF synced.bank[s.active] = 0 THEN Expire(synced, s.active)
  ELSE Did([synced EXCEPT !.timer = [state |-> "armed", color |-> s.active,
                                     due |-> t + synced.bank[s.active]]])

\* _cache_accepted
Remembered(known, event) ==
  LET all == Append(known, event) IN
  IF event.id = 0 THEN known
  ELSE IF Len(all) > Remember THEN Tail(all) ELSE all

\* _lookup_cached, which makes the answer the newest one.
Recall(known, k) ==
  [i \in DOMAIN known |-> IF i < k THEN known[i]
                          ELSE IF i < Len(known) THEN known[i + 1] ELSE known[k]]

\* The move is on the board and the clock is turned; then the list of legal
\* moves cannot be made, and _commit_move raises.
Raises(s, ply, t) ==
  [Ticked(s, t) EXCEPT !.plies = Append(@, ply), !.turn = Other(@), !.seq = s.next,
                       !.untold = TRUE]

\* _commit_move: the move, its event, its job; then the end of the game, or the
\* other player's timer.
Commit(s, ply, king, t) ==
  LET moved == [Ticked(s, t) EXCEPT !.plies = Append(@, ply), !.turn = Other(@),
                  !.status = IF king THEN "finished" ELSE @,
                  !.reason = IF king THEN "board" ELSE @]
      told  == Tell(moved, "move", ply.id)
      kept  == [told EXCEPT !.known = Remembered(@, LastEvent(told))]
      did   == IF king THEN Did(Tell(NoTimer(kept), "over", 0)) ELSE Schedule(kept, t) IN
  [did EXCEPT !.queued = <<JobOf(moved)>> \o @]

-----------------------------------------------------------------------------
(* The game's rows.                                                        *)

Row(job) == [status |-> IF job.over THEN "finished" ELSE "active",
             ply |-> db.ply + 1, last |-> job, at |-> now]

\* The workers take the first jobs and save them in any order; a job that fails
\* twice is dropped.
WorkerSaves ==
  \E i \in 1..Workers :
    /\ i <= Len(queue)
    /\ queue' = SubSeq(queue, 1, i - 1) \o SubSeq(queue, i + 1, Len(queue))
    /\ \/ db' = Row(queue[i]) /\ UNCHANGED used
       \/ Trouble /\ UNCHANGED db
    /\ UNCHANGED <<mode, session, page, posts, replies, now>>

\* A session from the rows, as hydrate_state and the constructor make it: the
\* numbers of the stream go on from the row's, the ids are forgotten.
Built(t) ==
  LET s == [status |-> db.status, reason |-> IF db.status = "active" THEN "none" ELSE "saved",
            plies |-> db.last.plies, turn |-> db.last.turn, bank |-> db.last.bank,
            active |-> db.last.turn, anchor |-> db.at,
            timer |-> [state |-> "none", color |-> "w", due |-> 0], calling |-> {},
            seq |-> db.ply, next |-> db.ply + 1, log |-> <<>>, known |-> <<>>, untold |-> FALSE]
      did == Resolve(s, t) IN
  IF did.s.status = "active" THEN Schedule(did.s, t) ELSE did

\* What an operation did becomes the state.
Apply(did) == session' = did.s /\ queue' = queue \o did.queued

\* get_or_hydrate
Hydrate ==
  /\ session = NoSession
  /\ Apply(Built(now))
  /\ UNCHANGED <<mode, db, page, posts, replies, now, used>>

\* evict_idle: a game that is over leaves the registry.  A request for the
\* engine's move that still holds it will be refused.
Evict ==
  /\ session.status = "finished" /\ Trouble
  /\ session' = NoSession
  /\ page' = [p \in Pages |-> [page[p] EXCEPT !.kick = IF @ = "looked" THEN "none" ELSE @]]
  /\ UNCHANGED <<mode, queue, db, posts, replies, now>>

\* The process dies: the requests it had in hand get no answer, or arrive again.
Crash ==
  /\ Trouble
  /\ session' = NoSession /\ queue' = <<>> /\ replies' = {}
  /\ page' = [p \in Pages |-> [page[p] EXCEPT !.kick = "none",
                 !.sent = IF \E r \in posts : r.page = p /\ r.id = @ THEN @ ELSE 0]]
  /\ UNCHANGED <<mode, db, posts, now>>

-----------------------------------------------------------------------------
(* Requests.                                                               *)

Alive == session # NoSession

Tick ==
  /\ Room /\ now < MaxTime /\ now' = now + 1
  /\ UNCHANGED <<mode, session, queue, db, page, posts, replies, used>>

Fired(s) == [s EXCEPT !.timer.state = "fired", !.calling = @ \cup {s.timer.color}]

Due(s, t) == s.timer.state = "armed" /\ t >= s.timer.due

TimerFires ==
  /\ Alive /\ Due(session, now)
  /\ session' = Fired(session)
  /\ UNCHANGED <<mode, queue, db, page, posts, replies, now, used>>

\* The timer's thread has the lock.
Callback ==
  /\ Alive
  /\ \E c \in session.calling : Apply(Expire([session EXCEPT !.calling = @ \ {c}], c))
  /\ UNCHANGED <<mode, db, page, posts, replies, now, used>>

\* Every load and every poll of the stream looks at the clock.
Refresh ==
  /\ Alive
  /\ Apply(Resolve(session, now))
  /\ UNCHANGED <<mode, db, page, posts, replies, now, used>>

\* publish_chat_messages
Chat ==
  /\ Alive /\ Trouble
  /\ session' = [session EXCEPT !.next = @ + 1,
                   !.log = Append(@, [type |-> "chat", id |-> 0, seq |-> session.next,
                                      shows |-> Shows(session)])]
  /\ UNCHANGED <<mode, queue, db, page, posts, replies, now>>

\* The answer to a move, if its page still waits for it.
Answer(p, id, event) ==
  replies' = IF page[p].sent = id THEN replies \cup {[page |-> p, id |-> id, event |-> event]}
             ELSE replies

\* Mutant of Refuses: the number that the page expects is not compared.
RefusesLate(s, r) ==
  IF s.turn # Seat(r.page) \/ s.status # "active" THEN "refused" ELSE "none"

\* Why a move is refused: its page had seen another state, or it is not its turn.
Refuses(s, r) ==
  IF r.expected # s.seq THEN "stale"
  ELSE IF s.turn # Seat(r.page) \/ s.status # "active" THEN "refused" ELSE "none"

Refusal(s, why) == [type |-> why, id |-> 0, seq |-> s.seq, shows |-> Shows(s)]

\* A move reaches the server, and may do so once more.
Arrives(r) ==
  /\ Alive
  /\ \/ posts' = posts \ {r} /\ UNCHANGED used
     \/ Trouble /\ UNCHANGED posts
  /\ UNCHANGED <<mode, db, page, now>>

\* Where the answer to a move is remembered.
Answered(s, id) == {k \in DOMAIN s.known : s.known[k].id = id}

\* The move has not been played, as far as is remembered, and may be.
Fresh(r) == Answered(session, r.id) = {} /\ Refuses(session, r) = "none"

PlyOf(r) == [id |-> r.id, by |-> session.turn, engine |-> FALSE]

\* apply_player_move.  An answer that is remembered is given again.
MoveKnown(r) ==
  /\ Arrives(r)
  /\ \E k \in Answered(session, r.id) :
       /\ session' = [session EXCEPT !.known = Recall(@, k)]
       /\ Answer(r.page, r.id, session.known[k])
  /\ UNCHANGED queue

MoveRefused(r) ==
  LET why == Refuses(session, r) IN
  /\ Arrives(r) /\ Answered(session, r.id) = {} /\ why # "none"
  /\ Answer(r.page, r.id, Refusal(session, why))
  /\ UNCHANGED <<session, queue>>

MoveTooLate(r) ==
  LET did == Resolve(session, now) IN
  /\ Arrives(r) /\ Fresh(r) /\ Forfeits(session, now)
  /\ Apply(did)
  /\ Answer(r.page, r.id, LastEvent(did.s))

MovePlayed(r) ==
  LET s == Synced(session, now) IN
  /\ Arrives(r) /\ Fresh(r) /\ ~Forfeits(session, now)
  /\ \E king \in BOOLEAN :
       LET did == Commit(s, PlyOf(r), king, now) IN
       Apply(did) /\ Answer(r.page, r.id, did.s.log[Len(s.log) + 1])

MoveRaises(r) ==
  LET s == Synced(session, now) IN
  /\ Alive /\ Fresh(r) /\ ~Forfeits(session, now)
  /\ Trouble /\ posts' \in {posts, posts \ {r}}
  /\ session' = Raises(s, PlyOf(r), now)
  /\ Answer(r.page, r.id, Refusal(session', "refused"))
  /\ UNCHANGED <<mode, queue, db, page, now>>

\* play_engine_move looks at the seat to move, in a snapshot.
LookAtSeat(p) ==
  /\ Alive /\ page[p].kick = "posted"
  /\ page' = [page EXCEPT ![p].kick = IF session.turn = "b" THEN "looked" ELSE "none"]
  /\ UNCHANGED <<mode, session, queue, db, posts, replies, now, used>>

EngineAnswer(p, event) == replies' = replies \cup {[page |-> p, id |-> 0, event |-> event]}

\* Mutant of EngineMayMove: the status is that of the snapshot.
EngineMayMoveOn(p) == Alive /\ page[p].kick = "looked"

EngineMayMove(p) == Alive /\ page[p].kick = "looked" /\ session.status = "active"

\* apply_engine_move, which has the lock for the whole search; the timer may run
\* out meanwhile.
EngineMoves(p) ==
  \E d \in 0..MaxThink, king \in BOOLEAN :
    LET s   == Synced(session, now)
        ply == [id |-> 0, by |-> s.turn, engine |-> TRUE] IN
    /\ EngineMayMove(p) /\ ~Forfeits(session, now)
    /\ now + d <= MaxTime
    /\ now' = now + d
    /\ \E t \in {s} \cup (IF Due(s, now + d) THEN {Fired(s)} ELSE {}) :
         LET did == Commit(t, ply, king, now + d) IN
         Apply(did) /\ EngineAnswer(p, did.s.log[Len(t.log) + 1])
    /\ page' = [page EXCEPT ![p].kick = "answered"]
    /\ UNCHANGED <<mode, db, posts, used>>

EngineRaises(p) ==
  LET s == Synced(session, now) IN
  /\ EngineMayMove(p) /\ ~Forfeits(session, now) /\ Trouble
  /\ session' = Raises(s, [id |-> 0, by |-> s.turn, engine |-> TRUE], now)
  /\ page' = [page EXCEPT ![p].kick = "none"]
  /\ UNCHANGED <<mode, queue, db, posts, replies, now>>

EngineTooLate(p) ==
  LET did == Resolve(session, now) IN
  /\ EngineMayMove(p) /\ Forfeits(session, now)
  /\ Apply(did) /\ EngineAnswer(p, LastEvent(did.s))
  /\ page' = [page EXCEPT ![p].kick = "answered"]
  /\ UNCHANGED <<mode, db, posts, now, used>>

EngineRefused(p) ==
  /\ Alive /\ page[p].kick = "looked" /\ session.status # "active"
  /\ page' = [page EXCEPT ![p].kick = "none"]
  /\ UNCHANGED <<mode, session, queue, db, posts, replies, now, used>>

\* A player resigns, or agrees to a draw, on a page that shows a game.  Neither
\* asks whether the session's is still on.
End(p, reason) ==
  /\ Alive /\ ~page[p].shows.over /\ Trouble
  /\ Apply(Finish(session, reason))
  /\ page' = [page EXCEPT ![p].shows = Shows(session')]
  /\ UNCHANGED <<mode, db, posts, replies, now>>

Surrender(p) == End(p, "surrender")
AgreeDraw(p) == mode = "pvp" /\ End(p, "draw")

-----------------------------------------------------------------------------
(* The pages.                                                              *)

\* trySubmit, on a page that waits for no other move.
Submit(p) ==
  LET id == used.moves + 1 IN
  /\ page[p].sent = 0 /\ ~page[p].shows.over /\ page[p].shows.turn = Seat(p)
  /\ Spend("moves", MaxMoves)
  /\ posts' = posts \cup {[page |-> p, id |-> id, expected |-> page[p].shows.seq]}
  /\ page' = [page EXCEPT ![p].sent = id]
  /\ UNCHANGED <<mode, session, queue, db, replies, now>>

\* tryRequestEngineMove, one at a time from each page.
AskEngine(p) ==
  /\ mode = "pve" /\ page[p].kick = "none" /\ ~page[p].shows.over /\ page[p].shows.turn = "b"
  /\ Spend("asks", MaxAsks)
  /\ page' = [page EXCEPT ![p].kick = "posted"]
  /\ UNCHANGED <<mode, session, queue, db, posts, replies, now>>

\* applyMoveAccepted, for the answer and for the event: what was dispatched last
\* is not dispatched again.
Dispatched(pg, e) ==
  IF e.type = "move" /\ e.seq # pg.last THEN [pg EXCEPT !.shows = e.shows, !.last = e.seq] ELSE pg

\* loadState, which looks at the clock, and HYDRATE.
Loads(p, pg) ==
  LET did == Resolve(session, now) IN
  /\ Alive /\ Apply(did)
  /\ page' = [page EXCEPT ![p] = [pg EXCEPT !.shows = Shows(did.s), !.last = -1, !.sent = 0]]

\* A page is opened anew; its stream starts where the state is.  (One that waits
\* for the engine stays open: against the engine there are two.)
Load(p) ==
  /\ page[p].kick \in {"none", "answered"} /\ Trouble
  /\ Loads(p, [page[p] EXCEPT !.cursor = Resolve(session, now).s.seq, !.kick = "none"])
  /\ replies' = {o \in replies : o.page # p}
  /\ UNCHANGED <<mode, db, posts, now>>

\* The answer to a move.  A stale page loads the state; other refusals change
\* nothing, nor does a forfeit, which comes as an event.
ReadReply(p) ==
  \E r \in replies :
    /\ r.page = p /\ r.id = page[p].sent /\ r.id # 0
    /\ replies' = {o \in replies : o.page # p \/ o.id # r.id}
    /\ \/ r.event.type = "stale" /\ Loads(p, page[p])
       \/ /\ r.event.type # "stale"
          /\ page' = [page EXCEPT ![p] = [Dispatched(@, r.event) EXCEPT !.sent = 0]]
          /\ UNCHANGED <<session, queue>>
    /\ UNCHANGED <<mode, db, posts, now, used>>

ReadEngineReply(p) ==
  \E r \in replies :
    /\ r.page = p /\ r.id = 0 /\ page[p].kick = "answered"
    /\ replies' = replies \ {r}
    /\ page' = [page EXCEPT ![p] =
                  [(IF r.event.type = "over" THEN [@ EXCEPT !.shows = r.event.shows]
                    ELSE Dispatched(@, r.event)) EXCEPT !.kick = "none"]]
    /\ UNCHANGED <<mode, session, queue, db, posts, now, used>>

\* The next event of the stream (RealtimeStream).
ReadEvent(p) ==
  LET new == SelectSeq(session.log, LAMBDA e : e.seq > page[p].cursor)
      e   == new[1]
      pg  == [page[p] EXCEPT !.cursor = e.seq] IN
  /\ Alive /\ new # <<>>
  /\ page' = [page EXCEPT ![p] =
                IF e.type = "over" THEN [pg EXCEPT !.shows = e.shows] ELSE Dispatched(pg, e)]
  /\ UNCHANGED <<mode, session, queue, db, posts, replies, now, used>>

\* A new session counts from the rows; once its log has an event, the stream's
\* cursor comes back to it.
ReadCursor(p) ==
  /\ Alive /\ session.log # <<>> /\ page[p].cursor >= session.next
  /\ page' = [page EXCEPT ![p].cursor = session.next - 1]
  /\ UNCHANGED <<mode, session, queue, db, posts, replies, now, used>>

-----------------------------------------------------------------------------
Start == [plies |-> <<>>, turn |-> "w", bank |-> [c \in Color |-> Bank], over |-> FALSE]

\* append_initial_move has written the first row; both pages have loaded.
Init ==
  /\ mode \in Modes
  /\ db = [status |-> "active", ply |-> 0, last |-> Start, at |-> 0]
  /\ now = 0
  /\ session = Built(0).s
  /\ queue = <<>> /\ posts = {} /\ replies = {}
  /\ page = [p \in Pages |-> [shows |-> [seq |-> 0, plies |-> 0, turn |-> "w", over |-> FALSE],
                              cursor |-> 0, last |-> -1, sent |-> 0, kick |-> "none"]]
  /\ used = [moves |-> 0, asks |-> 0, trouble |-> 0]

Next ==
  \/ Tick \/ TimerFires \/ Callback \/ Refresh \/ Chat
  \/ WorkerSaves \/ Hydrate \/ Evict \/ Crash
  \/ \E r \in posts : \/ MoveKnown(r) \/ MoveRefused(r) \/ MoveTooLate(r)
                      \/ MovePlayed(r) \/ MoveRaises(r)
  \/ \E p \in Pages : \/ Submit(p) \/ ReadReply(p) \/ ReadEvent(p) \/ ReadCursor(p) \/ Load(p)
                      \/ Surrender(p) \/ AgreeDraw(p)
                      \/ AskEngine(p) \/ LookAtSeat(p) \/ ReadEngineReply(p)
                      \/ EngineMoves(p) \/ EngineRaises(p) \/ EngineTooLate(p) \/ EngineRefused(p)

Spec == Init /\ [][Next]_vars

-----------------------------------------------------------------------------
\* A session plays a move once, however often it arrives: the answers it keeps
\* and the number the page expects see to it together, as one may have been
\* forgotten and the other may have come round (_lookup_cached, _assert_seq).
MoveOnce ==
  Alive => \A i, j \in DOMAIN session.log :
    LET a == session.log[i]
        b == session.log[j] IN
    (a.type = "move" /\ b.type = "move" /\ a.id = b.id /\ a.id # 0) => i = j

\* The last entry of the log that is not chat shows the game as the session holds
\* it, under the number that moves must expect, unless a move raised after it was
\* made.
Told(s) ==
  \A i \in DOMAIN s.log :
    /\ ~s.untold /\ s.log[i].type # "chat"
    /\ \A j \in DOMAIN s.log : j > i => s.log[j].type = "chat"
    => s.log[i].shows = Shows(s) /\ s.log[i].seq = s.seq

\* What the log tells last of the game is what the session holds, through plays,
\* forfeits, resignations and chat (_commit_move, _emit_game_over).
LogShowsGame == Alive => Told(session)

\* The clock that runs is that of the player to move, and its timer is set for
\* what is left of it (apply_move, advance, schedule_expiry).
ClockFollowsTurn ==
  session.status = "active" =>
    /\ session.active = session.turn
    /\ ~session.untold =>
         /\ session.timer.state # "none" /\ session.timer.color = session.active
         /\ session.timer.due = session.anchor + session.bank[session.active]

\* No move is told after the end of the game, though the engine's is asked for
\* while the game is on and a resignation may overtake it (apply_engine_move).
NoMoveAfterEnd ==
  Alive => \A i, j \in DOMAIN session.log :
    session.log[i].type = "over" /\ session.log[j].type = "move" => j < i
=============================================================================
