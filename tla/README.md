# A TLA+ verification of the games platform

The repository is a platform for two-player games in the browser, Chezz (a
chess variant) and pool.  A Python server keeps the live games in memory,
streams their events to the pages and writes them behind to a database
(Supabase: tables and SQL functions); TypeScript pages show the games; two C
engines search Chezz positions and simulate pool shots.

Two things are hard in it.  Around the games, request threads, timer threads,
worker threads and SSE loops meet in one process, and the process's memory, the
database and the browsers each have their own idea of a game.  Inside the
engines, a position is eighteen bitboards and three unions of them, changed by
hand in every kind of move; the rules are written twice in C, once for the
search and once for the page; threads share a transposition table; a shot is a
loop that ends when nothing rolls.  This project models both.  Paths below are
relative to the repository's `src/`.

Contents: [the system](#the-system) · [the modules](#the-modules) ·
[the runs](#the-runs) · [what the runs found](#what-the-runs-found) ·
[the proofs](#the-proofs) · [what is not modelled](#what-is-not-modelled) ·
[the plan](#the-plan)

## The system

### Components

| Component | Source | State it keeps | Operations |
|---|---|---|---|
| Persist queue | `platform/backend/persist.py` | bounded queue of moves, worker threads, `_running`, counters | `start`, `stop`, `enqueue` (never blocks), `persist_now` (in the caller), the workers' `_run`, `_dispatch` with one retry |
| Realtime stream | `platform/backend/realtime.py`, `sse.py`, frontend `features/gameplay/realtime.ts` | per session: a bounded log of numbered events; per connection: a cursor; per page: `lastSeq` | `append`, `wait_for_updates`, the SSE loop, the browser's open, dispatch, reconnect |
| Pool session | `pool/runtime/sessions.py`, `repository.py` | table, turn, status, result, clock, log, one lock | `submit_shot`, `place_cue`, `surrender`, `agree_draw`, `load_state_for`, clock expiry |
| Game clock | `platform/backend/clock.py` | two banks, active colour, anchor, one timer | `sync_wall_clock`, `apply_move`, `schedule_expiry`, `cancel_expiry` |
| Session registry | `platform/backend/session_registry.py` | game id → session | `get_or_hydrate`, `register`, `remove`, `evict_idle` |
| Matchmaking | `platform/backend/matchmaking.py`, SQL functions, the lobby's polling | in memory: waiting users and fresh matches; in the database: queue rows, games, invites | join, cancel, status, invite create/join/status, start of a matched game |
| Starts of games | `pool/runtime/bootstrap.py`, `chezz/runtime/bootstrap.py` | a game's seats and first row | activation of a ready match, pass-and-play, engine games |
| Pool rules | `pool/runtime/Physics.py`, `game.py` | groups, pocketed balls, fouls, turn, winner | `apply_shot` and the rules it follows |
| Chezz session | `chezz/runtime/sessions.py`, `game.py`, `repository.py` | board, turn, status, clock, accepted move ids | `submit_move`, `play_engine_move`, `surrender`, `agree_draw`, clock expiry |
| Offers | `platform/backend/social.py` | chat rows that encode draw and rematch offers | offer, accept, decline, folding the rows into a state |
| Chat queue | `platform/backend/chat_queue.py`, frontend `chatPanel.ts` | queue of messages, batch in hand | `enqueue`, the batching worker, retry, `stop`; the panel's fetches |
| Auth | `platform/backend/auth.py`, `rate_limit.py` | users, one session row per user | register, log in, log out, current user |
| Database | `db/supabase_schema.sql`, `platform/backend/db.py`, `game_persist.py` | tables | row access and the SQL functions, each one a transaction |
| Pool page, Chezz page | frontend `pool/`, `chezz/` | the shown position, shots being played, premoves | input, applying states, results and events |
| Lobby and shell pages | frontend `platform/features/` | forms, polling | the requests above |
| HTTP layer | `platform/backend/http*.py`, `app.py`, `runtimes.py` | none of a game's | routing and parsing |
| Chezz boards and moves | `chezz/engine/src/gen_valid_boards.c`, `non_sliding_pieces/`, `sliding_pieces/` | a board: 18 piece bitboards, 3 unions, side to move, counter | `gen_chezz_boards` and what it calls: moves, flings, shots, promotion, contagion |
| Chezz actions and events | `user_actions.c` | the same, and events of each action | `ua_gen_chezz_boards` |
| Chezz evaluation | `negamax/eval/` | none | `evaluate` and its heuristics, `is_king_in_check` |
| Chezz board text | `engine_api.c`, `main.c`, `shared_core.c` | none | reading and writing a board |
| Chezz attack tables | `sliding_pieces/gen_sp_tables.c`, `get_sp_attacks.c`, the exported `bishop_magic.c`, `rook_magic.c` | magic numbers and attack tables, made once and compiled in | search, fill, export, lookup |
| Chezz search | `negamax/manage_search.c`, `negamax.c`, `tt.c` | transposition table shared by all searches, a window per search, threads | `start_search`, `negamax`, `tt_probe`, `tt_store` |
| Pool physics | `pool/engine/phylib.c`, `simulate_shot` in `pool/runtime/Physics.py` | a table of objects | one shot, segment by segment |

### How they interact

A request thread takes the session of its game from the **registry**, which
hydrates one from the **database** if there is none, and works under the
session's lock.  A play changes the session, turns or keeps the **clock**
(which arms a timer thread), appends to the session's **stream** and leaves a
job in the **persist queue**; the play that ends a game is saved in the
request thread itself (`persist_now`).  SSE loops wait on the stream's log and
write frames to the pages.  The idle sweep and the end of a resignation take
sessions out of the registry.  **Matchmaking** makes pairs in memory and
provisions their games in the database; starting a game activates the row and
registers a session.  Draws and rematches are agreed through the **chat**,
whose rows reach the pages through the stream and a fetch.

A Chezz session gets the legal actions of a position, with their events, from
the **engine**'s generator for the page, and the computer's moves from its
search; a position goes there and back as text.  The search calls the other
generator, the evaluation at its horizon, and the table on every call; both
generators look the sliding pieces up in tables that are compiled in.  A pool session
hands a shot to **physics**, and the rules look at what fell and what stopped.

### What is hard, and what must hold

The hazards are listed one by one, each at its line, in `PROJECT.json`.  By
component:

* *Persist queue*: put, take and sentinels interleave; the reply to a commit
  can be lost and the commit is tried again; `stop` on a full queue drops
  sentinels.  A move must be in one place at a time, the account of it must
  agree with the rows, an accepted move must be settled, a restarted queue
  must have its workers.
* *Stream*: frames are lost with a connection, the log forgets, the session is
  replaced by one that counts lower.  An event is neither skipped nor counted
  as delivered when it is not, and it arrives.
* *Pool session, clock, registry*: late timers, plays, forfeits, resignations,
  evictions and loads race.  The right clock runs, a game ends once and for a
  reason that holds, the result stays, a fallen flag ends the game, the
  registered session is the authority.
* *Chezz session and page*: a move id comes twice, the engine's move is asked
  for twice and searched for long, resignations and timers come in between,
  a move raises half way, an answer comes after a newer event.  A session plays
  a move once and none after its end, and state, log and clock are of one move.
* *Matchmaking*: memory, rows and games change in separate steps of several
  requests, and the start of a game may fail after its activation.  They must name
  the same matches, two who wait must meet, one who
  left must be out, a user plays one game at a time, an invite makes one match.
* *Boards and moves*: a bit missed in one kind of move shows several moves
  later.  The bitboards agree with each other, the list of moves is exactly
  what the rules allow, in every game.
* *Actions, events, text*: the second generator offers what the first one
  plays, the events tell the move, a board survives its text.
* *Evaluation*: written once per colour, and apart from the generator.  It is
  fair, its check is a check, its threats and moves are real.
* *Attack tables*: magic numbers found at random, bit counts typed in by hand,
  the result exported and compiled in.  A lookup is the walk to the first
  blockers.
* *Search*: threads move each other's windows and overwrite each other's
  entries.  The move returned is a best one, entries are true, it returns.
* *Physics*: contacts are found once per time step.  Balls stay on the table,
  leave it only through holes, and come to rest.
* *Planned components*: two activations of one match, two acceptances of one
  offer, a chat message saved twice or never shown, two sessions of one user, a result shown before its shot.

## The modules

| Module | Models | Checked through |
|---|---|---|
| `PersistQueue` | the write-behind queue | `MCPersistQueue` |
| `PersistQueue_proofs` | theorems about it | `tlapm` |
| `RealtimeStream` | log, SSE loop and browser, end to end | `MCRealtimeStream` |
| `RealtimeStream_proofs` | theorems about it | `tlapm` |
| `PoolGame` | one PvP pool game: composition of sessions, clock, registry, rows and a (small) persist queue | `MCPoolGame` |
| `ChezzGame` | one Chezz game: two pages, session, clock, rows and queue | `MCChezzGame` |
| `ChezzGame_proofs` | theorems about it | `tlapm` |
| `Matchmaking` | the queue, rows, games, invites and requests of one game type | `MCMatchmaking` |
| `Matchmaking_proofs` | theorems about it | `tlapm` |
| `ChezzBoard` | squares, boards, masks and the attacks of every piece | all of the below |
| `ChezzMoves` | the generator, as a game: one action per kind of move | `MCChezz` |
| `ChezzRules` | the abstract game: pieces on squares, no bitboards | `MCChezz`, as what `ChezzMoves` implements |
| `ChezzActions` | the generator for the page, with keys and events | `MCChezz` |
| `ChezzEval` | five heuristics, and the test for check | `MCChezz` |
| `ChezzWire` | boards as text | `MCChezz` |
| `ChezzMagic` | the search for magic numbers, the tables, their export and lookup | `MCChezzMagic` |
| `ChezzEngine_proofs` | theorems about all of these: the boards, the masked lookups, the generator against the rules, actions, evaluation, text, tables | `tlapm` |
| `ChezzMirror_proofs` | a theorem about `ChezzEval`: it favours no colour | `tlapm` |
| `ChezzSearch` | searches, threads, alpha-beta, transposition table | `MCChezzSearch` |
| `ChezzSearch_proofs` | theorems about it | `tlapm` |
| `PoolPhysics` | a table, its objects and the loop of a shot | `MCPoolPhysics` |
| `Pool_proofs` | theorems about `PoolGame` and `PoolPhysics`, whose definitions have different names for this | `tlapm` |

Definitions keep the source's names where they can; `PROJECT.json` (`map`)
names the lines each one stands for.  Definitions introduced by the comment
*Mutant of X* are plausible mistakes in X; they are used by no specification,
and each property is known to fail for the mutant `PROJECT.json` gives it.

### PersistQueue

`queue`, `workers`, `running` and `counters` are the object's fields; `pc`,
`job` and `tries` are the local state of each worker and each caller;
`outcome` and `rows` compare the process's account of a move with what the
database has.  An action is what a thread does between two operations others
can observe: `Start`, `StopBegin` / `StopSignal` (one sentinel) / `StopJoin` /
`StopEnd`, `PersistNow`, `EnqueuePut` or `EnqueueFull` and then `EnqueueReturn`
(the count, under the lock `stop` may hold), `TakeJob`, `TakeSentinel`,
`PersistOk`, `PersistRaises` (with the row committed or not), `Crash`.
Joins may time out, so `StopEnd` needs no worker to have gone.  Jobs are model
values: the row they write is not looked into.  `metrics` only reads.

### RealtimeStream

An event has an *id*, its place in the order of publication, and a *seq*, the
number its log gave it.  `logs` holds the log of each session the game has had;
a replaced session's log counts on from the number of plays that the database
has (`Rehydrated`, with any number of queued plays lost).  `Poll`, `Wake` and
`Timeout` are one round of `run_realtime_sse_stream`; `pipe` is what the
connection carries; `ReadUpdates` is `handleUpdatesEvent` with
`applySeqCursor`, and `ReadCursor`, whose handler in the code does nothing,
changes nothing.  Chat ("note") is also fetched by the page: `Refreshed` is
`refresh` of the chat panel up to its request, which asks for nothing while a
fetch is under way (`fetch`), for all of the chat until one answer has come
(`full`) and for the rows past the newest it knows after that.  `Load` (the
panel becomes active), `Open`, `ReadUpdates` when the cursor moves back, and
`PollChat` start one; `ChatArrives` ends it with the rows there were at some
moment since, `ChatFails` with nothing, and nothing tries again until one of
the others does.  An answer is taken to hold all it was asked for, that is, the
endpoint's limit of 200 rows (`social.py:190`) is not reached.  A chat message's database id is
taken to be in the order of publication; the chat queue, where that can fail,
is planned.

### PoolGame

Everything a session does under its lock is one step, built from functions on
sessions that follow the code's calls: `Synced`, `Ticked`, `Schedule` and
`Resolve` for the clock, `CommitTable` for the end of every operation, `Expire`
for a forfeit.  A function returns what it *did*: the session, the moves it
queued, the moves it saved; `Apply` makes these the next state.  Outside the
lock are the workers (two, so neighbouring plays may be saved in either
order), the timers (`TimerFires`, then `Callback` when the thread gets the
lock), loads in three steps (`LoadRow`, `Build`, `Join`), evictions, the two
steps after a resignation, and `Crash`.  A shot's physics is its outcome for
the turn and the game, and takes up to `MaxShot` ticks, in which the timer may
run out.  Time is in ticks; truncation to milliseconds is left to the planned
clock arithmetic.  Requests use the registered session: one that still has an
evicted session in hand is left out, as are photos, aiming and pass-and-play.

### ChezzGame

Like `PoolGame`, with functions on the session that follow the code's calls
(`Commit` is `_commit_move`, `Finish` every other end, `Resolve`, `Schedule`
and `Expire` the clock), and with the two pages that play.  A page posts a move
with an id and the number of the state it shows (`Submit`); the post may arrive
again as long as it is on its way, and is answered from the remembered ids
(`MoveKnown`), refused (`MoveRefused`), found too late (`MoveTooLate`), played
(`MovePlayed`), or raises after it is on the board (`MoveRaises`).  Answers and
events of the stream reach the page in any order (`ReadReply`, `ReadEvent`).
`play_engine_move` is two steps: `LookAtSeat` on a snapshot, then, under the
lock and with up to `MaxThink` ticks of search, `EngineMoves` or one of the
ways in which it does not move.  Against the engine both pages are the
player's, who has the game open twice.  What a move does to the board is
`ChezzMoves`; here it has an id, and takes a king or does not.  The engine's
requests are not repeated, and an accepted move ends the game on the board only
by a king's capture.  `Hydrate`, `Evict`, `Crash` and `WorkerSaves` are the
registry's and the queue's sides, with the row a job writes.

### Matchmaking

`waiting` and `matched` are `_MatchmakingQueue`'s fields; `rows`, `games` and
`invites` the tables; `request` and `poll` say how far each user's lobby
request and status poll have come.  A request is one step per access to the
memory's lock or to the database: `Check`, `JoinRow`, `JoinQueue`, `Provision`
for a join, `CancelQueue` and `CancelRow`, `Poll`, `PollRow` and `PollRestore`,
`StartRead`, `StartGame`, and `StartCommits` or `StartFails`.
`app_provision_live_match` and `app_accept_game_invite` are transactions and one step each.  `Prune` is the
match TTL running out, at any time at which no request has the pair in hand.
A start makes the game active, or inserts it again if it is gone, and then
writes its first row, unless that is there (`board`): the update and the look
for the row are one step.  When the row cannot be written, pool deletes the game
(`Deleted`: rows and invites lose their match, `on delete set null`) and chezz
leaves it active without a board; the memory keeps the pair in both cases.
`games` keeps the players of a game that was deleted, so that properties can
speak of it, and `failed` has the matches whose provisioning or start failed.
A user whose page is starting a game does not poll (`waitForMatchStart` has
taken over from `startPolling`).
Match ids are drawn in order (they are fresh UUIDs); `MaxMatches` bounds those
drawn together with the requests that may draw one, so that the bound never
stops a request half way.  How a game goes on is `PoolGame`; here it ends at
some point.

### ChezzBoard, ChezzMoves, ChezzRules

A Bitboard is the set of its squares, so `&`, `|`, `^` and `~` are the set
operations and a shift is arithmetic on squares; a mask is built from offsets as
`nsp_masks.c` builds it.  A slider's attack is the walk over `Ray`s up to the
first blocker (`gen_bishop_attacks`), and its lookup (`bishop_attacks`) the
walk that sees only the blockers within the mask: that the two agree is a
theorem, and how the table comes to hold them is `ChezzMagic`.

`ChezzMoves` has one operator per C function (`move_piece`, `capture_piece`,
`promote_peons`, `handle_contagion`, `add_board`, `set_peon_moves`,
`set_piece_moves`, `set_catapult_flings`, `set_canon_shots`), from a board to
the set of boards it adds.  Its state is a board, an action is a board that a
function lists (`MovePeon`, `MovePiece`, `FlingPiece`, `ShootCanon`), and a
behaviour is a game: the engine does not stop at check, it stops when a king is
gone.  The order in which moves are found is left out; the score by which they
are sorted is `Order` in `ChezzSearch`.

`ChezzRules` is the abstract specification: a map from squares to coloured
pieces, and the rules stated on it with rows, columns and lines of sight, no
masks and no bits.  `ChezzMoves` refines it through `At`; `ListsEveryMove` adds
what refinement cannot say, that no move of the rules is missing.

### ChezzActions, ChezzEval, ChezzWire

`ChezzActions` follows `user_actions.c`, where each function of the generator
exists a second time with an event buffer; an entry is a board, its action
(kind, squares, direction) and its events in order.  `ChezzEval` follows five
heuristics to the last constant, colour by colour, in integers; the phase
factor of `material_eval.c`, a float in the code, is exact.  A score is
`color` times a sum over sets of squares.  `ChezzWire` takes a text to be its
header and its rows; the two readers differ in what they do with a row that
names no piece, and both are there.

### ChezzMagic

One search per piece and square, as `find_magic_number` makes it.  The random
number is any of `Magics`, known by the hash it gives: numbers that separate
all blocker sets, that collide harmlessly, that fail late or at once.  The
actions are its loop (`StartSearch`, `PickMagic`, `TestConfig`, `KeepMagic`,
`GiveUp`), the filling of the temporary table entry by entry (`FillEntry`), and
its export as C source, with which the engine is compiled (`ExportTable`).
`Lookup` reads the compiled table, as `bishop_attacks` and `rook_attacks` do; a
start of the engine reads no table from a file.  The search and the export are
run by hand, and what is checked in is taken to be what `export_magic_table`
writes.  `save_magic_tables` and `load_magic_tables`, a file "used for testing"
that nothing calls for, are left out.

### ChezzSearch

A position is a model value with its `Moves`; `worth` is any evaluation.  A
thread holds its stack of `negamax` calls and steps once per access to the
table or to the search's shared window.  Each slot has its lock, which
`tt_probe` gives up before its caller reads the entry: `ReadDepth`, `ReadFlag`
and `ReadScore` are three steps.  `tt_store` makes its three passes slot by
slot.  `StartSearch` sorts and shares the moves among the threads,
`ReportBest` takes the search's lock, `JoinThreads` ends the search.

### PoolPhysics

The objects of `phylib.c` in their slots, with whole numbers for lengths,
speeds and times, rounded where the library has doubles.  `Segment` is a call
of `phylib_segment` and `RollOn` one turn of its loop: every rolling ball rolls,
the first contact in the order of the slots bounces, a ball that has stopped
ends the segment.  `Shoot` and `EndShot` are `simulate_shot`'s beginning and
end; the table is copied, ball by ball, into a fresh one.

## The runs

Each `.cfg` names its constants; deadlock checking is off because every model
may stop: the moves, plays, ids and restarts are bounded, and a process may
have died.

| Run | Checks | Instance, distinct states |
|---|---|---|
| `persist_queue` | `OnePlace`, `RowsMatchOutcome`, `WorkersOutliveSentinels`, `AcceptedIsSettled`, `PersistNowReturns` | 2 moves, 2 callers, 2 threads, queue of 2; 179 000 |
| `realtime` | `NothingIsMissing`, `EventsReachOneSession`, `StreamRecovers` | log of 2, 3 events, 2 broken connections, a replaced session, fetches of the chat that come late or fail; 1 001 000 |
| `pool_game` | `ClockFollowsTurn`, `GameOverOnce`, `ResultStays`, `ForfeitIsDue`, `FlagFalls` | bank of 2, 3 ticks, 2 plays, 2 sessions, a failed save, a restart; 1 236 000 |
| `chezz_game` | `MoveOnce`, `LogShowsGame`, `NoMoveAfterEnd`, `ClockFollowsTurn` | bank of 1, 2 ticks, 2 moves, 2 engine moves, one remembered id, one disturbance of any kind, 4 of all these together; 4 458 000 |
| `matchmaking` | `TypeOK`, `RowsMatchGames`, `SentToAGame`, `InviteUsedOnce`, `WaitersMeet` | 2 users, 2 matches, an invite, two of: a failed match, a cancellation, a restart; 3 499 000 |
| `chezz_rules` | `BoardConsistent`, `PlaysByTheRules`, `ListsEveryMove`, `ActionsMatchGenerator`, `EventsTellTheMove`, `MirrorFair`, `CheckIsExact`, `ThreatsAreReal`, `MobilityCountsMoves`, `ReadsWhatItPrints` | 9 boards of 64 squares, 2 moves; 3 600, each with all its successors |
| `chezz_tables` | `EnumeratesBlockers`, `LookupsAreWalks` | 3 bishops, a rook, 5 kinds of numbers, 2 attempts, 2 retries; 35 000 |
| `chezz_search` | `ReturnsABestMove`, `EntriesAreTrue`, `SearchReturns` | 11 positions, 27 evaluations, a search with 2 threads and one of a position without moves, clusters of 2; 199 000 |
| `pool_physics` | `BallsStayInside`, `BallsLeaveThroughHoles`, `CleanShotEnds` | 3 balls, 6 racks, 6 strokes, 2 shots; 2 400 |
| `matchmaking_two_games` | `OneGameAtATime`, violated | 3 users, 2 matches, an invite |
| `chezz_race` | `UsedEntriesMatch`, violated | 2 searches, 2 threads, one slot |
| `pool_shot_ends` | `ShotEnds`, violated | 2 balls in a row, soft strokes |

`TypeOK` of the other modules says what their variables hold; for
`PersistQueue` and `ChezzMoves` it is proved.

### What they show

* **`OnePlace`** A move was never handed over, or is queued, or is in one
  thread's hands, or is settled.  **`RowsMatchOutcome`** A counted success is
  in the database, a drop is not, and a move has at most the two rows that the
  retry allows: the retry after a lost reply does write a move twice, which the
  bound of 2 admits and a bound of 1 would not.
  **`WorkersOutliveSentinels`** Sentinels that a full queue swallowed leave old
  threads behind, and these may take the sentinels meant for new ones, but a
  running queue always keeps `max_workers` threads.  **`AcceptedIsSettled`**,
  **`PersistNowReturns`** are the liveness of both ways of saving a move.
* **`NothingIsMissing`** Whatever the client's or the server's cursor has passed
  and the log still holds has arrived, or is on its way, through reconnections
  that lose frames.  **`EventsReachOneSession`** What the log keeps arrives.
  Both are about a session that is not replaced, and both except a chat note
  numbered at or below the `stream_seq` the page was loaded with until a fetch of
  the chat has been answered (`Unfetched`): the stream does not send it, and a
  fetch that is skipped or fails is not made good by anything.  **`StreamRecovers`** After a
  replacement a cursor beyond the new log's end comes back into it.
* **`ClockFollowsTurn`** The clock and the timer are those of the player to
  move, through plays that keep the turn, ball in hand and reloads of older
  rows.  **`GameOverOnce`**, **`ResultStays`**, **`ForfeitIsDue`** The end of a
  game is announced once, is not revised, and a forfeit hits only the player to
  move and only with an empty bank, however late its timer's thread gets the
  lock.  **`FlagFalls`** An empty bank does end the game.
* In `ChezzGame`: **`MoveOnce`** However often a move arrives, and though its id
  may have been forgotten, it is played once: what is not remembered is refused
  by the number it expects.  **`LogShowsGame`** The last event tells the state
  the session holds, under the number it expects moves to name, through plays,
  forfeits, resignations and chat; a move that raised is told by nobody until
  the next one.  **`NoMoveAfterEnd`** A resignation or a timer that overtakes
  the engine's search leaves it without effect.  **`ClockFollowsTurn`** Also
  after a move that raised the clock is that of the player to move, and except
  then its timer is set for what is left.
* **`RowsMatchGames`**, **`SentToAGame`** A user the database has as matched is
  a player of a game that exists; a user whom the memory sends to a match finds
  it, with that opponent.  Only the match itself may excuse that: if its
  provisioning or its start has failed, the memory still names it, and a row that
  is matched may have lost it with the deleted game.
  **`InviteUsedOnce`** An invite makes one match, which it may lose with the game,
  never exchange for another.  **`WaitersMeet`** Without
  restarts and failures two users do not both wait for ever.
* **`BoardConsistent`** No square holds two pieces, the three unions are the
  unions, and no peon stands on its last row.  **`PlaysByTheRules`**,
  **`ListsEveryMove`** The generator implements `ChezzRules`, and lists exactly
  its moves: the fling's made-up blockers, the shot through friends, the order
  of promotion and contagion come out as the rules have them.
* **`ActionsMatchGenerator`** The page is offered the boards the search plays,
  under keys that each name one entry.  **`EventsTellTheMove`** Replayed on the
  board before the move, the events fit and end at the board after it.
  **`ReadsWhatItPrints`** Both readers get back the board that was printed; of
  the two, `main.c` calls `load_board_from_string` only.
* **`MirrorFair`** Each heuristic values a mirrored board alike for the other
  colour.  Mobility is excepted while a side has a queen and a rook, or a
  catapult on an edge column, where the code is not fair (below).  The property
  is of boards with at most one bishop, rook, queen, king, catapult and canon
  and at most two knights a side, as the games have: of more, several
  heuristics look at the first or the last only.  **`CheckIsExact`** `is_king_in_check` says what
  the generator would find.  **`ThreatsAreReal`** What the evaluation takes for
  an attack can be carried out.  **`MobilityCountsMoves`** The moves it counts
  are those the generator makes.
* **`EnumeratesBlockers`** The typed-in numbers of bits enumerate every blocker
  set of the masks, and fit the arrays.  **`LookupsAreWalks`** Whatever number
  was kept, a lookup in the exported table is the walk, for all blockers.
* **`ReturnsABestMove`** The move returned is as good as any, by a plain minimax
  without pruning, table or threads.  **`EntriesAreTrue`** Every entry says
  something true of its position, whichever windows its writer had.
  **`SearchReturns`** No lock and no join keeps a search for ever.
* **`BallsStayInside`**, **`BallsLeaveThroughHoles`**, **`CleanShotEnds`** Balls
  stay between the cushions and leave only through holes, and a shot ends,
  unless drag speeds a ball up or two balls too slow for drag are in contact:
  `pool_shot_ends` shows that the latter happens.

### Bounds

The bounds are small because the cases are: a queue of two holds a
sentinel together with a move, before it (a move of the next start behind a
sentinel nobody took) or behind it (a stop while a move is queued), and is full
with one more, two moves and two callers make every order of
put, take and stop, and a second start after a stop needs a second thread.  A
log of two forgets with the third event, and two broken connections let frames
be lost before and after the cursor moved.  Two sessions are one that is
registered and one that replaces it or loses to it; three ticks let a bank of
two run out and a late thread or a slow shot come after it.  Two users are a
pair; ids for two matches let a user be matched again over an older match, and two
troubles of any kind (`MaxTroubles`) let one come on top of the other; the third
user is only needed for the invite that crosses the queue.

Two moves and one remembered id let a move be forgotten while its repetition is
under way; two requests for an engine move let both pages see the engine's
seat.  `MaxSteps` bounds moves, requests, ticks and disturbances of `ChezzGame`
together: any four of them meet in every order, which is what each hazard of it
needs.

The Chezz boards are of full size with few pieces, placed so that promotion
meets contagion on an edge, flings meet kings and corners, shots meet friends,
and the heuristics meet each of their terms; two moves let one move's mistake
show in the next.  Every successor of every board reached is looked at, so
some 3 600 states stand for far more boards.  The proof covers games of any
length.  The magic search takes a corner, a square beside it and one near the
middle, whose masks have 6, 5 and 7 squares, and a rook's with 10; two attempts and two
retries make every way of running out.  The search tree has two positions
reached by two moves each, a king that can be taken, a cluster of two slots with
one position too many for it, and all 27 evaluations of its leaves in -1 .. 1.
One search does the work: the other, of a position without moves, takes the
early return.  The tree keeps replaced entries out of the hands of readers, because there the code
does go wrong (`chezz_race`).  The physics has the proportions of the
table, with 13 slots so that three balls fill it, speeds of up to nearly a
ball's radius per step, and a drag that stops a ball within a few segments.

Bounds count
steps of the environment (plays, failures, restarts) and never cut an operation
off half way.

### Fairness

* `PersistQueue`: a worker blocked in `get` runs when there is an item, and a
  database call ends (it has a timeout).  Nothing makes a caller submit, stop
  or start.
* `RealtimeStream`: the SSE loop polls for ever with a timed wait, the browser
  reads what arrives and reconnects after its backoff.  Nobody has to play, chat
  or load the page, and no fetch of the chat has to be made, to end or to
  succeed.
* `PoolGame`: a `threading.Timer` fires and its thread gets the lock, for each
  session.  No request and no worker is assumed to run.
* `ChezzGame`: none; its properties are safety.
* `Matchmaking`: a request that is under way goes on to its end (except that
  one that has only checked need not), and the page of a user who has a queue
  row polls, as `startPolling` does.  Nobody has to join.

* `ChezzSearch`: a thread that exists gets to run, and `pthread_join` returns
  when its thread has.  Nobody has to start a search.
* `PoolPhysics`: `simulate_shot`'s loop goes on as long as something rolls.

All of it is weak fairness.

## What the runs found

Three runs end in a counterexample to something a comment of the code says;
each is a finding in `PROJECT.json` with the line it quotes.

1. `matchmaking_two_games`: the check for an unfinished game is made when a
   place or an invite is asked for, and neither withdraws the other: a user can
   be matched twice and both games become active.
2. `chezz_race`: `tt_probe` (`negamax/tt.c:84`) unlocks a slot and returns a
   pointer into it; `negamax` reads through the pointer while another thread
   may store another position there, and answers with that one's score.
3. `pool_shot_ends`: `phylib_segment` (`pool/engine/phylib.c:625`) looks for
   contacts before it looks for stopped balls.  Two balls in contact, both too
   slow for drag, end every segment with the same contact, and
   `simulate_shot`, which has no limit, does not end.

While modelling, these were read in the code as well; no run is spent on them:

* `play_engine_move` asks whose turn it is in a snapshot and `apply_engine_move`
  does not ask again (`chezz/runtime/sessions.py:578`): of two requests that
  both saw the engine's seat, the second plays the player's own move.
* `surrender` and `agree_draw` (`chezz/runtime/sessions.py:232`) write their
  result over that of a game which ended while they waited for the lock.
* `applyMoveAccepted` (`chezz/game/app.ts:373`) compares a move's number with
  the last one's only: an answer that comes after the next move's event is
  dispatched again, and the page goes back to it.
* `app_commit_move` numbers rows as they are committed, and two workers may
  commit two moves in the other order: a restart then hydrates the older
  position (`persist.py:104`).
* `_commit_move` (`chezz/runtime/sessions.py:315`) raises, if the list of legal
  moves cannot be made, after it has turned the clock and before it sets the
  timer: the old timer may forfeit the player who moved, on the next turn and
  with time left.  A timer that fires while the engine searches can do the
  same, since its thread waits for the lock until the engine has moved.
* The time the engine thinks is charged to nobody (`clock.py:98`).
* `tt_probe`'s entries are used when `entry->depth >= depth`, but depth counts
  from the root of the search that stored the entry, and the table lives on
  from search to search: a later search can use an entry with fewer plies
  behind it than it wants (`negamax/negamax.c:39`).
* From mid-game to end-game `material_eval.c:127` moves from the end-game
  values back to those of the mid-game as material goes.
* `mobility_eval.c:453` rewards Black for its own pieces on the path its queen
  and rook share, where line 342 rewards White for the enemy's; the catapult's
  support (`:326`, `:438`) wraps around the board's edge, for White onto
  another row than for Black.
* A collision that leaves a ball slower than `PHYLIB_VEL_EPSILON` keeps the
  acceleration it had (`phylib.c:795`), which may point along its motion and
  speed it up for good; `PoolPhysics` calls these runaways.
* A session that loses the race to be registered has already armed a timer and
  can forfeit the game in the database (`session_registry.py:68`).
* A result is saved past plays still queued, whose commit writes `active` over
  `finished` (`persist.py:73`).
* After a session is replaced, events numbered at or below a client's old
  cursor are not sent to it (`realtime.py:75`); this is why
  `EventsReachOneSession` speaks of one session.
* After a restart polls put waiting users back into the queue without pairing
  them (`matchmaking.py:87`), and a poll that read the row before a
  cancellation deleted it puts the user back after it (`:453`).

## The proofs

`tlapm` checks the eight modules named `..._proofs`, for every value of the
constants that the modules' assumptions admit.

**`ChezzEngine_proofs`**, first about the boards and the generator: `BoardTypeOK` (`TypeOK`) and `BoardStaysConsistent`
(`BoardConsistent`), for games of any length from any set of consistent boards.
The invariant `BoardGood` is `Good(board)`, where `Good(b)` is `Sound(b)` (of
the engine's shape; a square is in at most one of the eighteen sets; each union
tells what its nine sets tell; `all` is the union of both) together with no
peon on its last row.  `Consistent`, as the run checks it, speaks of pairs of
types; `Sound` says the same square by square, which the provers can carry
through XOR: `MoveFields`, `CaptureFields` and `InfectFields` say what each
function makes of each field, `MoveSound`, `CaptureSound`, `ContagionSound`,
`PromoteSound` and `AddBoardSound` that it keeps `Sound`.  Some boards on the
way are not good: a peon that has moved or been flung to its last row rises
only in `promote_peons`, so `PeonMovesGood` and `FlingsGood` go through
`SettleGood`; a capture needs that its target is a king's, a friend's or an
enemy's piece and not the mover itself, which comes from the masks
(`AttacksOnBoard`, `TableOnBoard`).  One lemma for each of the generator's four
functions, then the actions.

`GeneratorIsExact` (`ListsEveryMove`) and
`GeneratorImplementsRules` (`PlaysByTheRules`) are again for games of any
length from any consistent boards.  `At(b)`, the refinement mapping, is what stands on
each square, and the proof goes square by square.

* The tables against the rules: each mask is the offsets the rules give
  (`KnightMask` to `TableRows`), a ray is the squares on a line in one direction
  (`RayIsLine`), a walk reaches what is in line with nothing between
  (`WalkIsClear`).  The generator gets the path of a fling or a shot by blocking
  every neighbour but one and looking up a slider's attacks; `OneLineOpen` shows
  that this is the line through that neighbour and nothing else.
* The functions against the position: what `move_piece`, `capture_piece`,
  `promote_peons` and `handle_contagion` make of `At(b)` (`AtMove`, `AtCapture`,
  `AtPromote`, `AtContagion`).  The generator promotes only after a peon moved
  or was flung, the rules after every turn: `AtSettle` shows that the difference
  is none, since `Good` has no peon of the mover on its last row.
* The lists: for each kind of piece, where it may go, fling or shoot is what the
  rules allow (`PieceGoes`, `PeonGoes`, `MayFlingIs`) and each board made is the
  position the rules make (`MoveMade`, `FlingMade`, `ShotMade`); `EachIsAllowed`
  and `EachIsListed` are the two inclusions, over all kinds.

A step of the specification is one board of the list, with the turn passed and
both kings standing before, hence a step of the rules (`StepIsAllowed`).

Then about what else reads or makes boards, again for games of any length from
any consistent boards:

* `BothGeneratorsAgree` (`ActionsMatchGenerator`): function by function, the
  board carried through `user_actions.c` is the board of `gen_valid_boards.c`
  (`UaMove` to `UaAdd`); this needs `Sound` on the way, since the one clears the
  first type found on a square and the other names it.  Each kind of entry then
  `Matches` its list: same boards, an action that starts with a tag and the
  square of the mover, one entry to an action.  A key names its piece because a
  square holds one.  For this proof the loop of captures of a shot is one
  operator (`ua_capture_victims`), as contagion is.
* `HistoryTellsTheGame` (`EventsTellTheMove`): the events of an action are a
  `Tale` of its board: shown one by one, they turn the pieces that stood before
  into those that stand after.  The functions of `user_actions.c` are written to
  one by one, and each keeps `Follows`, that what has been told so far leads to
  the board made so far (`UaSettle` and the lemmas around it).  A shot
  and contagion tell as many events as there are squares, one for each in
  ascending order; `TaleOfMany` puts them together.
* `PrintedBoardIsReadBack` (`ReadsWhatItPrints`): the rows list every piece that
  stands, once, in the order of a bijection (`RowIsRead`); reading is a fold that
  puts each piece back on its square (`PutsBack`), and what was put does not
  depend on what comes after.  `StringReads` and `StdinReads` are the two readers.

Both of these speak of lists of any length.  The library's induction takes an
operator, which the provers here cannot instantiate, so induction is done with
sets instead: a set of numbers that is not empty has a least element (`Least`,
from the well-foundedness of the naturals), hence a set that has 0, and with
every number its successor, has all (`Induct`).  `TopIs` and `FoldsDown` apply
this to the recursive function behind the library's folds, and `FoldChain` is
what the two theorems use: a fold passes through a chain of values, if each
step leads from one to the next.
* `MobilityIsExact` (`MobilityCountsMoves`): the masks of `mobility_eval.c`, per
  colour and kind, are where the generator lets the piece go (`WhiteMobility`,
  `BlackMobility`, `PeonMobility`, which shifts bits where the generator has
  masks).
* `ThreatsCanBeCarriedOut` (`ThreatsAreReal`): each threat is a move, a shot or
  the end of a fling (`ThreatIsMove`, `ThreatIsShot`, `ThreatIsFling`); by
  `GeneratorIsExact` the board it makes is listed, and since contagion and
  promotion never give the enemy back (`AfterIs`) the enemy is gone from it.
* `CheckTestIsExact` (`CheckIsExact`) has a hypothesis: the game starts with at
  most one piece of each kind of which `is_king_in_check` looks at one only
  (bishop, rook, queen, king, canon; `OneOfEach`).  The program's starting board
  has one of each (`chezz/runtime/bootstrap.py`), the boards of the run too, and
  nothing but zombies is ever made (`OneStays`); with two bishops the test would
  miss the second.  A king is in check by the test exactly when some piece
  `Hits` it (`CheckIsHit`); then the hit is a listed move that ends it
  (`HitEndsKing`), and a move ends a king in no other way (`KingEndsByHit`):
  kings are neither flung at nor infected.

`BishopMaskSuffices` and `RookMaskSuffices` are for every square and every set of blockers at once: a square between two squares of a
line is off the edges the line runs into (`InsideDiagonal`, `InsideStraight`),
so what the mask drops is never in between.

Last, of `ChezzMagic`.  `MasksAreEnumerated` (`EnumeratesBlockers`), for every
square of bishop and rook: the relevant bits are as many as the squares of the
mask (`RookCount`: those of its row and of its column; `BishopCount`: those of
its two diagonals, counted by their rows and compared with the typed-in table
for every square), and numbers of that many bits, spread over the mask, give
every subset of it (`EveryBlockers`).  The last rests on two facts: the place of
a square in a mask tells it from the others (`PlaceIs`), and every set of places
is the set of the bits of a number (`SpellsAll`, by induction on the number of
places, up to twelve because the provers know the powers of two one by one).

`TablesHoldWalks` (`LookupsAreWalks`), for any pieces
and squares searched, any numbers tried and any hash that keeps to its bits
(`HashAssumption`, which is the shift by 64 less the bits).  `TablesInv` says that
while a number is tried, the entry of every blocker set tried so far holds
that set's walk (`Filled`): a collision is passed only if both walks are the
same.  An entry counts as free when it is empty, which is
right because no walk is (`NeverEmpty`: every square has a neighbour on a
diagonal and on a line).  Once a number is kept, no two blocker sets with one
entry differ in their walks (`Agrees`), so filling the table again writes over
nothing that differs, and the table that is exported is `Complete`.  That a lookup sees only the blockers within the mask is harmless by
`BishopMaskSuffices` and `RookMaskSuffices`, and `BitsAreCounts` gives, for the
blockers that stand there, the number under which the table was filled.

**`ChezzMirror_proofs`**: `EvaluationIsFair` (`MirrorFair`), for games of any
length from any consistent boards on which a colour has at most one bishop,
rook, queen, king, catapult and canon, and at most two knights (`FewPieces`).
The start of `bootstrap.py` is one, and every game stays with such boards,
because the only pieces a move makes are zombies (`FewStay`).  The hypothesis is
needed: of two canons, say, the code remembers the one on the higher square,
which on the mirrored board is the other.

* `Turns(S, T)` says that T is S with the rows turned over, and `Mirrored(b, m)`
  that m is what `Mirror` makes of b.  A board reached is `Mirrored` with its
  mirror, which is itself `Sound` (`MirrorIs`), and mirroring twice gives the
  board back (`MirroredBack`), so each half of a heuristic is compared with the
  other colour's only one way.
* The masks, rays, walks and single steps of one colour turn into those of the
  other; wherever the source shifts by hand, the lemma is that the two shifts
  turn into each other on every square, borders included.
* The scores are sums over sets of pieces, which the engine adds up in the order
  of the squares, and that order is not the mirrored one.  A sum does not depend
  on it: sums over sets that a bijection pairs, with equal worth for each pair,
  are equal, by induction on the number of elements (`Induct`).
* `MirrorIsWorth` puts the heuristics together, mobility under the exceptions
  of the property: at an edge column the two shifts for the square behind a
  catapult wrap to different squares, and there the proof stops as it should.

**`ChezzSearch_proofs`**: `GradedTreesAreSafe` and `OneThreadIsSafe`
(`ReturnsABestMove` and `EntriesAreTrue`), for any positions, moves, evaluation,
clusters and depth, and any number of processors and searches.  The reference is
`minimax`, written depth by depth and with no window; `Valued` is all that is
used of it, and it comes from the definition by induction from the deepest depth
up (`MinimaxValued`).  The invariant is `IInv`, that is `TypeOK` and `Good(V)`
for the values V of `minimax`:

* `EntriesTell`: an entry's flag and score agree with the value of its position
  at its depth;
* `ThreadGood`, of a thread: each call on its stack is of a reply to the position
  under it, one deeper (`Under`), those that wait are `Open`, the innermost is
  what its step says (`Reached`), and a score it reports bounds its move;
* `Narrowed`, of a call: alpha is above the alpha it was asked with only if the
  value reaches it, and **beta is at or above what the caller wants now, or
  bounds the value**.  The caller's alpha is not what it was when it called:
  another thread has raised the search's, and a thread reads it again for its
  next move only.  So a call is held to the bound its caller has now (`Hi`), and
  when an alpha rises every call that depends on it keeps its promise
  (`ThreadGoodRises`);
* `Open`: every reply that is neither in `valid_moves` nor waited for is no
  better than `best_score`, unless that reached beta.  With `Narrowed` it gives
  what `NewEntry` stores (`OpenAnswers`): below `original_alpha` an upper bound,
  from beta on a lower one;
* `Running` and `Expects`, of a search: its best move is worth its alpha at
  least, and every other move is no better, or still some thread's to look at,
  which rests on the shares leaving out no move (`SharesCover`) and sorting
  losing none.

One lemma per action (`ProbeGood` to `StartSearchGood`).  `StackGrows`,
`StackTurns` and `StackShrinks` say what a call, a change of its locals and a
return do to the stack below.

A step keeps `IInv` if the entry whose score is read has the position and the
depth of the call and the flag read before (`UsesOwnEntries`, in the lemmas).
The code does not guarantee that, in two known ways: `chezz_race` replaces an
entry while it is read, and `negamax.c:39` lets an entry of another depth pass,
as it happens when the searches of one game share the table.  So nothing is
claimed under it; the last part proves it for a smaller class.
`GradedTreesAreSafe` is for trees in which a position is the same number of moves
away from every root (`Graded`; different paths may meet, but the searches of a
game are not of this kind together): then it follows from
`NoneReadsWhatIsCleaned`, that no thread is about to clean the slot another one
is reading.  So there the third pass of `tt_store` is the only place of the race: an update never changes an entry there,
an insertion takes a slot nobody reads, and while a slot is cleaned and filled its
lock keeps others from finding anything in it (`Kept`).  `OneThreadIsSafe` needs
only the graded tree: with one search and one thread nobody is there to clean.  In
the run `chezz_search` the tree is graded and the one cluster in which entries
are replaced holds moves that no search meets twice, so all of this applies there.

**`PersistQueue_proofs`**: `TypeCorrect` (`TypeOK`), `JobsInOnePlace`
(`OnePlace`), `RowsCorrect` (`RowsMatchOutcome`) and `QueueIsDrained`
(`WorkersOutliveSentinels`), for any moves, threads, callers, number of workers
and queue size of at least one.  The inductive invariant of the first three is `TypeOK /\ HandsMatchPc /\ OnePlace /\ RowsMatchOutcome`.
`OnePlace` needs `HandsMatchPc` (a thread outside `_dispatch` holds nothing),
or a thread could take a second job over the first; `RowsMatchOutcome` needs
`OnePlace`, or a commit would not know that the move's tries are those of the
one thread that holds it.  Two lemmas say what `Append` and `Tail` do to a
queue; each action then has a lemma with one step per conjunct.
`WorkersOutliveSentinels` is inductive only as part of `Staffed`: `stop` sends
as many sentinels as `_workers` has threads, and this is the number it may send
only because a queue that is not being stopped never lists more than
`max_workers` of them.  Sentinels are counted; `SentinelsIn` of an `Append` and
of a `Tail` is put in one-to-one correspondence with what it was.

**`Matchmaking_proofs`**: `TypeCorrect` (`TypeOK`, with no user twice in the
queue), `RowsAgree` (`RowsMatchGames`), `AnswersAgree` (`SentToAGame`) and
`InviteOnce` (`InviteUsedOnce`), for any finite set of users and any bounds.
None of them is inductive.  The invariant `IInv` adds

* `Room`: ids drawn plus requests that may draw one stay within the bound,
  which gives `JoinQueue` and `InviteJoin` their id;
* `OnlyDrawn`: nothing names an id that is not drawn, so that a new match is
  new to memory, requests and games;
* `PlayersKnown`: a game that is there has players, and a game that had players
  and is gone is one whose start failed: only `StartFails` deletes one;
* `TwoPlayers`: a game is of two different users, which is why
  `restore_matched` finds *the* opponent;
* `PairInHand`: the pair a request is about to provision is the only one of its
  match, has no game yet, and the memory sends only these two there.  This is
  what makes `Provision` agree with answers given before it;
* `ReadsMatchGames`: what a poll or a start has read is a game of its players
  when it acts on it, though it may have been deleted meanwhile;
* `AnswersMatchGames`: an answer in memory agrees with the game as soon as
  there is one, also after a failed provisioning or a deletion.

Most actions only take answers away or end requests; one lemma (`QuietStep`)
covers these, and the four that make something (`PairStep`, `ProvisionStep`,
`RestoreStep`, `InviteStep`) have lemmas of their own; the steps of a start are in
`AgreeStep`.

**`ChezzGame_proofs`**: `PlaysMovesOnce` (`MoveOnce`), `EndIsTheEnd`
(`NoMoveAfterEnd`) and `ClockIsTheMovers` (`ClockFollowsTurn`), for any bank,
any number of remembered ids of at least one, and any bounds.  The first two
rest on `IInv`, which says of a session that is there: the numbers of the log
stay below the next one, and those of moves do not pass the state's
(`Numbered`); a post whose move was played expects a number not above the
move's (`Expects`); a move told under the state's own number is remembered
(`LastIsKnown`); and `PlayedOnce`, `EndsLast`, `OverIsOver`.  `LastIsKnown` is
what `_processed_client_move_ids` is for.  The number alone does not refuse a
repetition: a move that raises takes the next number without telling it, so the
page whose load saw that state posts a move that expects it, and this move is
then told under the very number it expected.  When its post arrives again the
number still fits, and only the remembered id refuses it; one move further the
number no longer fits, so to remember a single id is enough.  One lemma per
function of the session (`TellMoveGood`, `CommitGood`, `RecallGood`, ...) says
that it keeps `Good`; `QuietStep` covers the steps that draw no id, `SubmitStep`
the one that does.  The third rests on `ClockInv`: the fields of the session and
of every saved or queued job are well formed, the active clock is that of the
turn (`OnTurn`), and unless the last move raised the timer is due when that
clock runs out (`TimerSet`).  `Resolve` moves the anchor and the bank by the
same amount, which is why a timer set earlier stays right
(`ResolveClocked`).  The fourth, `LogTellsTheGame` (`LogShowsGame`), rests on
`TellsInv`: `Told` is kept by every function of the session because each that
changes what is shown also tells it (`CommitTells`, `ScheduleTells`,
`ResolveTells`), or leaves `untold` behind.

**`Pool_proofs`**, first about the sessions: `TypeCorrect` (`TypeOK`),
`ClockIsTheMovers` (`ClockFollowsTurn`), `EndIsToldOnce` (`GameOverOnce`), and of every step
`ResultIsFinal` (`ResultStays`) and `NobodyForfeitsEarly` (`ForfeitIsDue`), for
any loading requests, any bank of at least one tick and any bounds.  None is inductive; the invariant `IInv` is, of
every session ever built, also of those no longer registered,

* `InPlay`, of a game that goes on: nothing is said of its end, the clock is
  the mover's, and **a timer that fired and waits for the lock is of a player
  whose bank is used up**.  Without this last conjunct `_handle_clock_expiry`
  could forfeit a player early; it is what every step has to keep, and holds
  because a turn that passes takes time only from the mover, and because a bank
  that runs out ends the game in the step that notices it;
* `Timed`: a timer is due when the active bank runs out.  `Synced` moves the
  anchor and the bank by the same amount;
* `Told`, of a game that is over: the log ends with the result;
* `TimersRun`: the registered session, and any session a request has built and
  not yet registered, has a timer while its game is on;
* `BuiltApart`: no two requests have built one session, and none built the
  registered one.  `get_or_hydrate` builds outside the registry's lock, and the
  request that comes second drops its session and its timer: that never takes
  the timer of the one that is played.

`ScheduleFacts`, `ResolveFacts`, `ShotFacts` and `CommitEnds` say what an
operation does to a session; each action then has one lemma for the invariant
and for both action properties at once.

Then about the physics: `BallsAreAccountedFor` (`BallsLeaveThroughHoles`), for
any sizes, drag and strokes, any racks and any number of slots that holds the
furniture (`SizeAssumption`, `RackAssumption`).  The invariant `TableGood` is
`WellSet(object)`: the first ten slots are the cushions and holes of
`new_table`, the others are empty or hold a ball with all its fields, and no two
balls have one number.  The property needs all of it: a ball that met another of
its number could leave without being missed, and the holes are known by their
slots.  `RolledIs` and `BounceIs` say that
rolling and bouncing leave every slot as it was, or its ball the ball of its
number, or, for a hole alone, nothing (`Remains`, `Pocketed`); `AfterKeeps` gives
the place in reach of the hole: the one at which the segment ended.  The end of
a shot copies the balls to a fresh table by two loops, which are recursive
functions: `TableIs` gives the table in closed form, `InOrderIs` that the list
has every ball once and, because ten slots of the old table hold furniture, is
short enough for the new one.  Both go by induction on the number of slots seen
(`Induct`), which the library offers for predicates only; it is proved here for
sets, from the well-foundedness of finite sets.

**`RealtimeStream_proofs`**: `NothingGoesMissing` (`NothingIsMissing`), for any
clients, any length of the log and any bounds.  While the first session is the
current one, `IInv` says that the log is numbered below its next number
(`Numbered`) and of every client, `Served`: no cursor is past the end of the
log (`Behind`), a connection that is not open has nothing on its way (`Quiet`),
what reaches the page was published (`Known`); a fetch that is under way before
any answer has come asks for every note that the stream leaves to it
(`Asked`); what the client counts as read is on the page (`Read`); what it
will count as read with a frame is on the page, in this frame or in one before
it (`Carried`); and what the loop counts as sent is on the page or in a frame
(`Sent`).  "On the page" leaves out (`Unfetched`) a note numbered no later than
the state the page loaded, until the first fetch is answered: such a note is
not sent by the stream, and a fetch that fails is not repeated.  `Asked` is what makes the first answer, however late, bring all of
them.  `Carried` is why the order of the frames matters; a connection that
breaks loses nothing because the client connects again from what it has read.

Only model-checked: every liveness property (fairness and ENABLED are beyond
the prover), and `BallsStayInside`, which depends on how far a ball gets in a
unit of time and holds of the strokes and sizes of the run, not of any.  The modules
with theorems have no `RECURSIVE` operator.

## What is not modelled

* In the Chezz engine: the tables of squares (`pos_eval.c`) and the score that
  orders moves (`move_ordering_eval.c`), which are numbers only; `tree.c`, the
  files of the transposition table, Zobrist hashing (a position is its own
  hash), the .dat file of the magic tables, and the commands that print.
* In the physics: rounding of doubles, serialisation, and the copies of memory.
  Pool's physics enters `PoolGame` as any outcome the rules allow.
* HTTP, rendering, static files, styles, metrics and logging: no game state.
* Hashing, rate limits, presence, the leaderboard and the records' SQL.
* In the modelled components: pass-and-play, photos, aim and trajectories
  (pool session); pass-and-play, premoves, selection and drawing (Chezz session
  and page); `register` (session registry); offline games and the countdown
  (matchmaking).
* The components listed as planned.

## The plan

In this order; the most important behaviour comes first.

1. `MatchStart`: two activations of one ready match, for both games, and the
   activation of a match that has been played; with `register` of the registry.
   Properties: both players' sessions agree on seats and starter, a finished
   game is not started again.
2. `SocialOffers`: offers folded from chat rows; accept, decline and rematch
   requests that cross.  Property: one offer leads to one draw or one game.
3. `ChatQueue` with the panel's fetches: batches, retry, ids, `stop`; a
   refinement of an abstract list of messages each of which appears once, as
   far as the code allows.  It replaces the assumption on chat ids in
   `RealtimeStream`.
4. `GameClock` and `PoolRules` as operators (truncation, repeated syncs;
   groups, fouls, the eight ball) against reference definitions over bounded
   inputs, and `PoolPage` (shots, states and results in the order in which they
   reach the table), `AuthSessions`.
5. Abstract specifications with refinement mappings: an at-least-once store
   that `PersistQueue` implements; a game (turn, clock, one result) that
   `PoolGame` and `ChezzGame` implement; an event list that `RealtimeStream`
   implements as long as no session is replaced.
6. Proofs: a bound on strokes and sizes under which `BallsStayInside` holds.
7. `ChezzSearch` over the searches of a whole game, where depths of different
   searches meet in the table.

Runs that ask related questions of one module are joined in one configuration,
so new modules add one run each.
