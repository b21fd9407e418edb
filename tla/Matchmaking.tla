---------------------------- MODULE Matchmaking ----------------------------
(***************************************************************************)
(* Finding an opponent for one game type: the queue the server keeps in    *)
(* memory (matchmaking.py _MatchmakingQueue), the queue rows, games and    *)
(* invites in the database, and the requests that go between the two       *)
(* (MatchmakingService, app_provision_live_match, app_accept_game_invite). *)
(*                                                                         *)
(* A request is one step per access to the memory's lock or the database;  *)
(* reads that follow each other with nothing in between are one step.  A   *)
(* user has one request of the lobby's buttons and one status poll in      *)
(* flight at most, and no poll while the page starts the game              *)
(* (waitForMatchStart has ended by then).  How a started game goes on is   *)
(* PoolGame's subject: here it ends at some point.                         *)
(***************************************************************************)
EXTENDS Integers, FiniteSets, SequencesExt

CONSTANTS Users,
          MaxMatches,   \* bound: match ids drawn, and asked for
          MaxInvites,   \* bound: invites created
          MaxFails,     \* bound: matches whose provisioning or start fails
          MaxCancels,   \* bound: cancellations
          MaxRestarts,  \* bound: restarts of the server
          MaxTroubles   \* bound: failures, cancellations and restarts together

ASSUME UsersAssumption  == IsFiniteSet(Users)
ASSUME BoundsAssumption ==
  /\ MaxMatches \in Nat /\ MaxInvites \in Nat
  /\ MaxFails \in Nat /\ MaxCancels \in Nat /\ MaxRestarts \in Nat /\ MaxTroubles \in Nat

VARIABLES
  waiting,   \* _waiting: users in the order in which they came
  matched,   \* _matched: the match and opponent of each user, match 0 for none
  rows,      \* app_match_queue: each user's status and match
  games,     \* app_games: status and players of each match id, and whether it has its
             \* first row of moves; the players of a deleted game are kept for the
             \* requests and polls that have read it
  invites,   \* app_game_invites: the inviter, status and match of each
  drawn,     \* match ids drawn so far
  request,   \* what each user's request is at
  poll,      \* what each user's status poll is at
  failed,    \* matches whose provisioning or start has failed
  cancels, restarts

memory == <<waiting, matched>>
stored == <<rows, games, invites>>
bounds == <<failed, cancels, restarts>>
vars == <<memory, stored, drawn, request, poll, bounds>>

Matches   == 1..MaxMatches
Ids       == 0..MaxMatches
Unmatched == [match |-> 0, opponent |-> "nobody"]
Idle      == [at |-> "idle", match |-> 0, opponent |-> "nobody"]
NoPoll    == [at |-> "idle", match |-> 0]

Waiting == {waiting[i] : i \in DOMAIN waiting}

TypeOK ==
  /\ waiting \in Seq(Users) /\ \A i, j \in DOMAIN waiting : waiting[i] = waiting[j] => i = j
  /\ matched \in [Users -> [match : Ids, opponent : Users \cup {"nobody"}]]
  /\ rows \in [Users -> [status : {"none", "waiting", "matched"}, match : Ids]]
  /\ games \in [Matches -> [status : {"none", "ready", "active", "finished"},
                            players : SUBSET Users, board : BOOLEAN]]
  /\ invites \in Seq([by : Users, status : {"pending", "accepted", "expired"}, match : Ids])
  /\ Len(invites) <= MaxInvites
  /\ drawn \in Ids
  /\ request \in [Users -> [at : {"idle", "checked", "queued", "paired", "cancelling",
                                  "starting", "committing"},
                            match : Ids, opponent : Users \cup {"nobody"}]]
  /\ poll \in [Users -> [at : {"idle", "asked", "waiting", "matched"}, match : Ids]]
  /\ failed \in SUBSET Matches
  /\ cancels \in 0..MaxCancels /\ restarts \in 0..MaxRestarts

Init ==
  /\ waiting = <<>>
  /\ matched = [u \in Users |-> Unmatched]
  /\ rows = [u \in Users |-> [status |-> "none", match |-> 0]]
  /\ games = [m \in Matches |-> [status |-> "none", players |-> {}, board |-> FALSE]]
  /\ invites = <<>>
  /\ drawn = 0
  /\ request = [u \in Users |-> Idle]
  /\ poll = [u \in Users |-> NoPoll]
  /\ failed = {} /\ cancels = 0 /\ restarts = 0

-----------------------------------------------------------------------------
Place(u) == CHOOSE i \in DOMAIN waiting : waiting[i] = u

\* The queue when u has left it.
Without(u) == IF u \in Waiting THEN RemoveAt(waiting, Place(u)) ELSE waiting

Playing(u) == {m \in Matches : games[m].status = "active" /\ u \in games[m].players}

Goto(u, at) == request' = [request EXCEPT ![u].at = at]
Done(u)     == request' = [request EXCEPT ![u] = Idle]

\* The bounds leave room for one more of what can go wrong.
Spare == Cardinality(failed) + cancels + restarts < MaxTroubles

\* The database fails a request about match m.
Fails(m) ==
  /\ m \in failed \/ (Cardinality(failed) < MaxFails /\ Spare)
  /\ failed' = failed \cup {m}

\* Requests that may still draw a match id.
Asking == {u \in Users : request[u].at \in {"checked", "queued"}}

\* _require_no_unfinished_game, with which joining the queue, creating an invite
\* and accepting one begin.
Check(u) ==
  /\ request[u].at = "idle" /\ Playing(u) = {}
  /\ drawn + Cardinality(Asking) < MaxMatches
  /\ Goto(u, "checked")
  /\ UNCHANGED <<memory, stored, drawn, poll, bounds>>

\* matchmaking_join: the user's queue row.
JoinRow(u) ==
  /\ request[u].at = "checked"
  /\ rows' = [rows EXCEPT ![u] = [status |-> "waiting", match |-> 0]]
  /\ Goto(u, "queued")
  /\ UNCHANGED <<memory, games, invites, drawn, poll, bounds>>

\* Mutant of Opponents: whoever waits is left to wait.
OpponentsIgnored(u) == {}

Opponents(u) == Waiting \ {u}

\* Mutant of Queued: a user who comes again is queued again.
QueuedAgain(u) == Append(waiting, u)

\* A user keeps his place.
Queued(u) == IF u \in Waiting THEN waiting ELSE Append(waiting, u)

\* _MatchmakingQueue.join: wait, or take the user who has waited longest.
JoinQueue(u) ==
  /\ request[u].at = "queued"
  /\ \/ /\ Opponents(u) = {}
        /\ waiting' = Queued(u)
        /\ matched' = [matched EXCEPT ![u] = Unmatched]
        /\ Done(u)
        /\ UNCHANGED drawn
     \/ \E v \in Opponents(u) :
          /\ \A w \in Opponents(u) : Place(v) <= Place(w)
          /\ drawn' = drawn + 1
          /\ waiting' = Without(v)
          /\ matched' = [matched EXCEPT ![u] = [match |-> drawn', opponent |-> v],
                                        ![v] = [match |-> drawn', opponent |-> u]]
          /\ request' = [request EXCEPT ![u] = [at |-> "paired", match |-> drawn', opponent |-> v]]
  /\ UNCHANGED <<stored, poll, bounds>>

\* Mutant of Provisioned: the rows only, the game is left to its start.
ProvisionedRows(m, u, v) ==
  /\ UNCHANGED games
  /\ rows' = [w \in Users |-> IF w \in {u, v} THEN [status |-> "matched", match |-> m] ELSE rows[w]]

\* app_provision_live_match, one transaction.
Provisioned(m, u, v) ==
  /\ games' = [games EXCEPT ![m] = [status |-> "ready", players |-> {u, v}, board |-> FALSE]]
  /\ rows' = [w \in Users |-> IF w \in {u, v} THEN [status |-> "matched", match |-> m] ELSE rows[w]]

\* _provision_live_match, for the pair in hand.
Provision(u) ==
  /\ request[u].at = "paired"
  /\ Provisioned(request[u].match, u, request[u].opponent)
  /\ Done(u)
  /\ UNCHANGED <<memory, invites, drawn, poll, bounds>>

ProvisionFails(u) ==
  /\ request[u].at = "paired"
  /\ Fails(request[u].match)
  /\ Done(u)
  /\ UNCHANGED <<memory, stored, drawn, poll, cancels, restarts>>

\* matchmaking_cancel: out of the queue in memory, then the row.
CancelQueue(u) ==
  /\ request[u].at = "idle" /\ cancels < MaxCancels /\ Spare
  /\ cancels' = cancels + 1
  /\ waiting' = Without(u)
  /\ matched' = [matched EXCEPT ![u] = Unmatched]
  /\ Goto(u, "cancelling")
  /\ UNCHANGED <<stored, drawn, poll, failed, restarts>>

CancelRow(u) ==
  /\ request[u].at = "cancelling"
  /\ rows' = [rows EXCEPT ![u] = [status |-> "none", match |-> 0]]
  /\ Done(u)
  /\ UNCHANGED <<memory, games, invites, drawn, poll, bounds>>

-----------------------------------------------------------------------------
(* Status polls.                                                           *)

\* matchmaking_status finds nothing in memory.
Poll(u) ==
  /\ request[u].at \notin {"starting", "committing"} /\ poll[u].at = "idle"
  /\ u \notin Waiting /\ matched[u] = Unmatched
  /\ poll' = [poll EXCEPT ![u].at = "asked"]
  /\ UNCHANGED <<memory, stored, drawn, request, bounds>>

\* _status_from_db reads the row and its game.
PollRow(u) ==
  /\ poll[u].at = "asked"
  /\ LET m == rows[u].match
         live == rows[u].status = "matched" /\ m # 0 /\ games[m].status \in {"ready", "active"} IN
     poll' = [poll EXCEPT ![u] = CASE rows[u].status = "none" -> NoPoll
                                   [] live  -> [at |-> "matched", match |-> m]
                                   [] OTHER -> [at |-> "waiting", match |-> 0]]
  /\ UNCHANGED <<memory, stored, drawn, request, bounds>>

\* restore_waiting and restore_matched.
PollRestore(u) ==
  /\ \/ /\ poll[u].at = "waiting"
        /\ waiting' = IF matched[u] = Unmatched THEN Queued(u) ELSE waiting
        /\ UNCHANGED matched
     \/ /\ poll[u].at = "matched"
        /\ LET others == games[poll[u].match].players \ {u} IN
             matched' = IF matched[u] # Unmatched THEN matched
                        ELSE [matched EXCEPT ![u] = [match |-> poll[u].match,
                                                     opponent |-> CHOOSE v \in others : TRUE]]
        /\ UNCHANGED waiting
  /\ poll' = [poll EXCEPT ![u] = NoPoll]
  /\ UNCHANGED <<stored, drawn, request, bounds>>

\* A match is _MATCH_TTL_SECONDS old: _prune drops it before join or status looks
\* again.  No request that makes a match takes that long.
Prune(u) ==
  /\ matched[u] # Unmatched
  /\ \A v \in Users : request[v].at = "paired" => request[v].match # matched[u].match
  /\ matched' = [matched EXCEPT ![u] = Unmatched]
  /\ UNCHANGED <<waiting, stored, drawn, request, poll, bounds>>

-----------------------------------------------------------------------------
(* Invites.                                                                *)

InviteCreate(u) ==
  /\ request[u].at = "checked" /\ Len(invites) < MaxInvites
  /\ invites' = Append(invites, [by |-> u, status |-> "pending", match |-> 0])
  /\ Done(u)
  /\ UNCHANGED <<memory, rows, games, drawn, poll, bounds>>

\* Mutant of InviteIsOpen: an accepted invite can be accepted.
InviteIsKnown(u, i) == invites[i].by # u

InviteIsOpen(u, i) == invites[i].status = "pending" /\ invites[i].by # u

\* invite_join and app_accept_game_invite, one transaction.
InviteJoin(u) ==
  \E i \in DOMAIN invites :
    /\ request[u].at = "checked" /\ InviteIsOpen(u, i)
    /\ drawn' = drawn + 1
    /\ Provisioned(drawn', invites[i].by, u)
    /\ invites' = [invites EXCEPT ![i] = [@ EXCEPT !.status = "accepted", !.match = drawn']]
    /\ Done(u)
    /\ UNCHANGED <<memory, poll, bounds>>

\* The invite's time is over when someone tries it.
InviteExpires(u) ==
  \E i \in DOMAIN invites :
    /\ request[u].at = "checked" /\ invites[i].status = "pending"
    /\ invites' = [invites EXCEPT ![i].status = "expired"]
    /\ Done(u)
    /\ UNCHANGED <<memory, rows, games, drawn, poll, bounds>>

\* There is no such invite, it is the user's own, or it is used or expired.
InviteRefused(u) ==
  /\ request[u].at = "checked"
  /\ Done(u)
  /\ UNCHANGED <<memory, stored, drawn, poll, bounds>>

-----------------------------------------------------------------------------
(* The game.                                                               *)

\* new_game reads: the match of the user's row, or else one the page was told of.
StartRead(u) ==
  \E m \in Matches :
    /\ request[u].at = "idle" /\ poll[u].at = "idle"
    /\ rows[u].status = "matched" /\ rows[u].match # 0 => m = rows[u].match
    /\ u \in games[m].players /\ games[m].status = "ready"
    /\ request' = [request EXCEPT ![u] = [at |-> "starting", match |-> m, opponent |-> "nobody"]]
    /\ UNCHANGED <<memory, stored, drawn, poll, bounds>>

\* activate_pvp (insert_pvp_app_game): the game is made active, whatever it is by
\* now, and inserted again when it is gone; its first row is to be written, unless
\* the other player's request has.  The look for that row follows the update at
\* once and is one step with it.
StartGame(u) ==
  /\ request[u].at = "starting"
  /\ games' = [games EXCEPT ![request[u].match].status = "active"]
  /\ IF games[request[u].match].board THEN Done(u) ELSE Goto(u, "committing")
  /\ UNCHANGED <<memory, rows, invites, drawn, poll, bounds>>

\* app_commit_move of the first row; there may be no game for it.
StartCommits(u) ==
  /\ request[u].at = "committing"
  /\ games' = IF games[request[u].match].status = "none" THEN games
              ELSE [games EXCEPT ![request[u].match].status = "active",
                                 ![request[u].match].board = TRUE]
  /\ Done(u)
  /\ UNCHANGED <<memory, rows, invites, drawn, poll, bounds>>

\* Mutant of Deleted: a foreign key that does not follow the game.
DeletedAlone(m) ==
  /\ games' = [games EXCEPT ![m].status = "none", ![m].board = FALSE]
  /\ UNCHANGED <<rows, invites>>

\* The game, its moves, and its id in rows and invites ("on delete set null").
Deleted(m) ==
  /\ games' = [games EXCEPT ![m].status = "none", ![m].board = FALSE]
  /\ rows' = [w \in Users |-> IF rows[w].match = m THEN [rows[w] EXCEPT !.match = 0] ELSE rows[w]]
  /\ invites' = [i \in DOMAIN invites |->
                   IF invites[i].match = m THEN [invites[i] EXCEPT !.match = 0] ELSE invites[i]]

\* The first row is not written: pool deletes its game, chezz leaves it.
StartFails(u) ==
  /\ request[u].at = "committing"
  /\ Fails(request[u].match)
  /\ Deleted(request[u].match) \/ UNCHANGED stored
  /\ Done(u)
  /\ UNCHANGED <<memory, drawn, poll, cancels, restarts>>

GameEnds(m) ==
  /\ games[m].status = "active"
  /\ games' = [games EXCEPT ![m].status = "finished"]
  /\ UNCHANGED <<memory, rows, invites, drawn, request, poll, bounds>>

\* The server restarts: the queue and the requests are gone.
Restart ==
  /\ restarts < MaxRestarts /\ Spare
  /\ restarts' = restarts + 1
  /\ waiting' = <<>>
  /\ matched' = [u \in Users |-> Unmatched]
  /\ request' = [u \in Users |-> Idle]
  /\ poll' = [u \in Users |-> NoPoll]
  /\ UNCHANGED <<stored, drawn, failed, cancels>>

Join(u)  == JoinRow(u) \/ JoinQueue(u) \/ Provision(u)
Start(u) == StartRead(u) \/ StartGame(u) \/ StartCommits(u)

Next ==
  \/ Restart
  \/ \E m \in Matches : GameEnds(m)
  \/ \E u \in Users :
       \/ Check(u) \/ Join(u) \/ ProvisionFails(u) \/ CancelQueue(u) \/ CancelRow(u)
       \/ Poll(u) \/ PollRow(u) \/ PollRestore(u) \/ Prune(u)
       \/ InviteCreate(u) \/ InviteJoin(u) \/ InviteExpires(u) \/ InviteRefused(u)
       \/ Start(u) \/ StartFails(u)

Spec == Init /\ [][Next]_vars

\* Requests that are under way end, and the page of a user who waits polls.
Fairness ==
  \A u \in Users :
    /\ WF_vars(request[u].at \notin {"idle", "checked"} /\ (Join(u) \/ CancelRow(u) \/ Start(u)))
    /\ WF_vars(rows[u].status # "none" /\ Poll(u))
    /\ WF_vars(PollRow(u) \/ PollRestore(u))

FairSpec == Spec /\ Fairness

-----------------------------------------------------------------------------
\* A user whom the database has as matched is a player of a game it has
\* (app_provision_live_match is one transaction), through rows that joining,
\* cancelling and other matches overwrite; a row may have lost its game only when
\* the start of a game of this user failed (bootstrap_physics_game).
RowsMatchGames ==
  \A u \in Users : rows[u].status = "matched" =>
    IF rows[u].match = 0 THEN \E m \in failed : u \in games[m].players
    ELSE games[rows[u].match].status # "none" /\ u \in games[rows[u].match].players

\* Where the memory sends a user, the database has a game of this user and this
\* opponent, or the request that made the pair is about to ask for one: also
\* after a restart, joins that overwrite each other and matches restored from
\* rows (join, restore_matched, _provision_live_match).  Only a game whose own
\* provisioning or start failed is missing: the memory keeps the pair all the same.
SentToAGame ==
  \A u \in Users :
    LET m == matched[u].match IN
    m \notin failed \cup {0} =>
      \/ games[m].status # "none" /\ games[m].players = {u, matched[u].opponent}
      \/ \E v \in {u, matched[u].opponent} : request[v].at = "paired" /\ request[v].match = m

\* One invite makes one match, however many users hold its code
\* (app_accept_game_invite locks the row): it may lose its match with the game,
\* and never gets another.
InviteUsedOnce ==
  [][\A i \in DOMAIN invites : invites[i].status = "accepted" =>
       invites'[i] \in {invites[i], [invites[i] EXCEPT !.match = 0]}]_vars

\* Two users who both wait, in memory and in the database, do not wait for ever
\* (join, "return a new pair when an opponent is waiting").
WaitersMeet ==
  LET TwoWait == /\ failed = {} /\ restarts = 0
                 /\ \E u, v \in Users :
                      u # v /\ \A w \in {u, v} : w \in Waiting /\ rows[w].status = "waiting" IN
  TwoWait ~> ~TwoWait

\* Nobody is in two games at once (matchmaking_join, "unless the player already
\* has an unfinished game").
OneGameAtATime == \A u \in Users : Cardinality(Playing(u)) <= 1
=============================================================================
