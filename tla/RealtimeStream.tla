--------------------------- MODULE RealtimeStream ---------------------------
(***************************************************************************)
(* The live stream of one game, end to end: the session's RealtimeLog      *)
(* (platform/backend/realtime.py), the server's SSE loop (sse.py) and the  *)
(* browser's connection (frontend gameplay/realtime.ts), for both games.   *)
(*                                                                         *)
(* An event's id is its place in the order of publication; its seq is the  *)
(* number the log gave it.  The two part ways when the session is replaced *)
(* (a restart of the server, or its eviction): the new log counts on from  *)
(* the number of moves in the database, while the old one also counted     *)
(* chat and game_over events.  A "play" is a shot_accepted or              *)
(* move_accepted event, an "over" a game_over event, a "note" a chat       *)
(* message, which the page also fetches from the chat endpoint             *)
(* (chatPanel.ts refresh): one fetch at a time, which may fail and which   *)
(* other steps may overtake.  An answer holds every row that was asked for *)
(* (the endpoint's limit of 200 rows is not reached).                      *)
(***************************************************************************)
EXTENDS Integers, Sequences, FiniteSets

CONSTANTS Clients,
          MaxLen,      \* DEFAULT_MAX_EVENTS, the deque's maxlen
          MaxEvents,   \* bound: events published
          MaxPipe,     \* bound: frames on their way to one client
          MaxDrops,    \* bound: broken connections
          MaxResets    \* bound: sessions replaced

ASSUME MaxLenAssumption == MaxLen \in Nat \ {0}
ASSUME BoundsAssumption ==
  /\ MaxEvents \in Nat /\ MaxPipe \in Nat \ {0} /\ MaxDrops \in Nat /\ MaxResets \in Nat

VARIABLES kinds,     \* kinds[id]: "play", "over" or "note", in order of publication
          status,    \* "active"; "ending", the last play is in and game_over is next; "over"
          ply,       \* the plays so far, which the database may not have yet
          logs,      \* the log of each session the game has had; the last is registered
          streamSeq, \* the registered session's state["stream_seq"]
          conn,      \* each client's connection: "unloaded", "closed", "open"
          waiting,   \* the log the client's SSE loop waits on, 0 between two polls
          cursor,    \* the SSE loop's cursor
          pipe,      \* frames sent to the client and not yet read
          lastSeq,   \* the client's lastSeq
          start,     \* the stream_seq of the state the page has loaded
          got,       \* ids of the events the page has been handed, or has loaded
          fetch,     \* refreshInFlight: the chat fetch under way, if there is one
          full,      \* fullHistoryLoaded
          drops      \* connections broken so far

server  == <<kinds, status, ply, logs, streamSeq>>
streams == <<waiting, cursor, pipe>>
chat    == <<fetch, full>>
browser == <<lastSeq, start, got, chat>>
vars == <<server, conn, streams, browser, drops>>

Entry == [seq : Nat, id : Nat \ {0}]

EmptyLog(next) == [events |-> {}, next |-> next]

Current == Len(logs)
Log     == logs[Current]

Notes == {i \in DOMAIN kinds : kinds[i] = "note"}

TypeOK ==
  /\ kinds \in Seq({"play", "over", "note"}) /\ Len(kinds) <= MaxEvents
  /\ status \in {"active", "ending", "over"} /\ ply \in Nat
  /\ \A k \in DOMAIN logs : logs[k].events \subseteq Entry /\ logs[k].next \in Nat
                            /\ Cardinality(logs[k].events) <= MaxLen
  /\ streamSeq \in Nat
  /\ conn \in [Clients -> {"unloaded", "closed", "open"}]
  /\ waiting \in [Clients -> 0..Len(logs)]
  /\ cursor \in [Clients -> Nat \cup {-1}]
  /\ \A c \in Clients : \A k \in DOMAIN pipe[c] :
       /\ pipe[c][k].frame \in {"cursor", "updates"}
       /\ pipe[c][k].last \in Nat \cup {-1}
       /\ pipe[c][k].events \subseteq Entry
  /\ lastSeq \in [Clients -> Nat \cup {-1}]
  /\ start \in [Clients -> Nat \cup {-1}]
  /\ got \in [Clients -> SUBSET (DOMAIN kinds)]
  /\ \A c \in Clients : Cardinality(fetch[c]) <= 1 /\ \A f \in fetch[c] :
       f.known \subseteq Notes /\ f.asked \in 0..Len(kinds)
  /\ full \in [Clients -> BOOLEAN]
  /\ drops \in 0..MaxDrops

\* A game whose opening position is ply 0 in the database, freshly hydrated.
Init ==
  /\ kinds = <<>> /\ status = "active" /\ ply = 0
  /\ logs = <<EmptyLog(1)>>
  /\ streamSeq = 0
  /\ conn = [c \in Clients |-> "unloaded"]
  /\ waiting = [c \in Clients |-> 0]
  /\ cursor = [c \in Clients |-> -1]
  /\ pipe = [c \in Clients |-> <<>>]
  /\ lastSeq = [c \in Clients |-> -1]
  /\ start = [c \in Clients |-> -1]
  /\ got = [c \in Clients |-> {}]
  /\ fetch = [c \in Clients |-> {}]
  /\ full = [c \in Clients |-> FALSE]
  /\ drops = 0

-----------------------------------------------------------------------------
(* The session.                                                            *)

\* deque.append on a full deque pushes the oldest entry out.
Aged(events) ==
  IF Cardinality(events) <= MaxLen THEN events
  ELSE {e \in events : \E f \in events : f.seq < e.seq}

AppendTo(log, id) ==
  [events |-> Aged(log.events \cup {[seq |-> log.next, id |-> id]}),
   next   |-> log.next + 1]

\* One event of the registered session's log.
Publish(kind) ==
  /\ Len(kinds) < MaxEvents
  /\ kinds' = Append(kinds, kind)
  /\ logs' = [logs EXCEPT ![Current] = AppendTo(@, Len(kinds) + 1)]

\* A play is accepted.  One that ends the game is followed by game_over, and
\* the session's lock keeps everything else out in between.
Play(ends) ==
  /\ status = "active"
  /\ Publish("play")
  /\ status' = IF ends THEN "ending" ELSE "active"
  /\ ply' = ply + 1
  /\ streamSeq' = Log.next
  /\ UNCHANGED <<conn, streams, browser, drops>>

\* _emit_game_over, after the last play or alone (a forfeit, a draw, a
\* resignation, which also write a row).
GameOver ==
  /\ status # "over"
  /\ Publish("over")
  /\ status' = "over"
  /\ ply' = IF status = "active" THEN ply + 1 ELSE ply
  /\ streamSeq' = Log.next
  /\ UNCHANGED <<conn, streams, browser, drops>>

\* publish_chat_messages: n chat rows, already in the database, in one append.
Chat(n) ==
  LET id == Len(kinds) + 1 IN
  /\ status # "ending" /\ id + n - 1 <= MaxEvents
  /\ kinds' = kinds \o [i \in 1..n |-> "note"]
  /\ logs' = [logs EXCEPT ![Current] =
                IF n = 1 THEN AppendTo(@, id) ELSE AppendTo(AppendTo(@, id), id + 1)]
  /\ UNCHANGED <<status, ply, streamSeq, conn, streams, browser, drops>>

\* The game's next request hydrates a session from the database, which may
\* lack plays that were queued to be saved: its log continues from the ply.
Rehydrated ==
  /\ Len(logs) <= MaxResets
  /\ \E saved \in 0..ply :
       /\ ply' = saved
       /\ logs' = Append(logs, EmptyLog(saved + 1))
       /\ streamSeq' = saved
  /\ status' = IF status = "ending" THEN "over" ELSE status
  /\ UNCHANGED kinds

\* The session of a game that is over leaves the registry; a loop that waits
\* keeps waiting on its log.  (A game in play keeps its session: its clock runs.)
Evict == status = "over" /\ Rehydrated /\ UNCHANGED <<conn, streams, browser, drops>>

\* The server restarts: every connection breaks as well.
Restart ==
  /\ Rehydrated
  /\ conn' = [c \in Clients |-> IF conn[c] = "open" THEN "closed" ELSE conn[c]]
  /\ waiting' = [c \in Clients |-> 0]
  /\ pipe' = [c \in Clients |-> <<>>]
  /\ UNCHANGED <<cursor, browser, drops>>

-----------------------------------------------------------------------------
(* The SSE loop of one connection.                                         *)

\* wait_for_updates and events_since: what the log still has past a cursor, and
\* the seq of its last entry.
Since(log, c) == {e \in log.events : e.seq > c}
TailSeq(log, c) == IF log.events = {} THEN c ELSE log.next - 1

\* subscribe: attach to the registered session and wait.
Poll(c) ==
  /\ conn[c] = "open" /\ waiting[c] = 0
  /\ waiting' = [waiting EXCEPT ![c] = Current]
  /\ UNCHANGED <<server, conn, cursor, pipe, browser, drops>>

Cursor(last)          == [frame |-> "cursor", last |-> last, events |-> {}]
Updates(last, events) == [frame |-> "updates", last |-> last, events |-> events]

\* wait_for_updates returns events: the cursor moves to the tail, the loop
\* sends a cursor frame and the events.  (Chat rows are sent a second time in
\* "chat" frames of their own, which change nothing more.)
Wake(c) ==
  LET log == logs[waiting[c]]
      tail == TailSeq(log, cursor[c]) IN
  /\ waiting[c] # 0 /\ Since(log, cursor[c]) # {}
  /\ Len(pipe[c]) + 2 <= MaxPipe
  /\ cursor' = [cursor EXCEPT ![c] = tail]
  /\ pipe' = [pipe EXCEPT ![c] = @ \o <<Cursor(tail), Updates(tail, Since(log, cursor[c]))>>]
  /\ waiting' = [waiting EXCEPT ![c] = 0]
  /\ UNCHANGED <<server, conn, browser, drops>>

\* Mutant of Timeout: the cursor never moves back.
TimeoutNeverBack(c) ==
  LET log == logs[waiting[c]] IN
  /\ waiting[c] # 0 /\ Since(log, cursor[c]) = {}
  /\ Len(pipe[c]) < MaxPipe
  /\ pipe' = [pipe EXCEPT ![c] = Append(@, Cursor(cursor[c]))]
  /\ waiting' = [waiting EXCEPT ![c] = 0]
  /\ UNCHANGED <<server, conn, cursor, browser, drops>>

\* wait_for_updates runs out of time: the cursor still moves to the tail (of a
\* log that may count lower), and the client gets a cursor frame.
Timeout(c) ==
  LET log == logs[waiting[c]]
      tail == TailSeq(log, cursor[c]) IN
  /\ waiting[c] # 0 /\ Since(log, cursor[c]) = {}
  /\ Len(pipe[c]) < MaxPipe
  /\ cursor' = [cursor EXCEPT ![c] = tail]
  /\ pipe' = [pipe EXCEPT ![c] = Append(@, Cursor(tail))]
  /\ waiting' = [waiting EXCEPT ![c] = 0]
  /\ UNCHANGED <<server, conn, browser, drops>>

-----------------------------------------------------------------------------
(* The browser.                                                            *)

\* refresh, for a page that has seen these events: nothing while a fetch is under
\* way.  It asks for the rows past the newest note it knows, or for all of them
\* until one answer has come.
Refreshed(c, seen) ==
  IF fetch[c] # {} THEN fetch[c]
  ELSE {[known |-> IF full[c] THEN seen \cap Notes ELSE {}, asked |-> Len(kinds)]}

\* The page loads: the state it fetches has every play so far, and its
\* stream_seq is where the stream starts (-1 for a game nobody has played in).
\* The chat panel becomes active and fetches the chat.
Load(c) ==
  /\ conn[c] = "unloaded" /\ status # "ending"
  /\ conn' = [conn EXCEPT ![c] = "closed"]
  /\ LET first == IF streamSeq = 0 THEN -1 ELSE streamSeq IN
       /\ lastSeq' = [lastSeq EXCEPT ![c] = first]
       /\ start' = [start EXCEPT ![c] = first]
  /\ got' = [got EXCEPT ![c] = DOMAIN kinds \ Notes]
  /\ fetch' = [fetch EXCEPT ![c] = Refreshed(c, {})]
  /\ UNCHANGED <<server, streams, full, drops>>

\* open: connect with since_seq = lastSeq; onStreamOpen refreshes the chat.
Open(c) ==
  /\ conn[c] = "closed"
  /\ conn' = [conn EXCEPT ![c] = "open"]
  /\ cursor' = [cursor EXCEPT ![c] = lastSeq[c]]
  /\ fetch' = [fetch EXCEPT ![c] = Refreshed(c, got[c])]
  /\ UNCHANGED <<server, waiting, pipe, lastSeq, start, got, full, drops>>

\* The connection breaks: frames on their way are lost, the client reconnects.
Drop(c) ==
  /\ conn[c] = "open" /\ drops < MaxDrops
  /\ drops' = drops + 1
  /\ conn' = [conn EXCEPT ![c] = "closed"]
  /\ waiting' = [waiting EXCEPT ![c] = 0]
  /\ pipe' = [pipe EXCEPT ![c] = <<>>]
  /\ UNCHANGED <<server, cursor, browser>>

\* An updates frame: dispatch the events, then applySeqCursor, which moves the
\* cursor back, and refreshes the chat, when the server's log counts lower.
ReadUpdates(c) ==
  /\ pipe[c] # <<>> /\ Head(pipe[c]).frame = "updates"
  /\ pipe' = [pipe EXCEPT ![c] = Tail(@)]
  /\ LET f == Head(pipe[c])
         seen == got[c] \cup {e.id : e \in f.events} IN
       /\ lastSeq' = [lastSeq EXCEPT ![c] = f.last]
       /\ got' = [got EXCEPT ![c] = seen]
       /\ fetch' = [fetch EXCEPT ![c] = IF f.last < lastSeq[c] THEN Refreshed(c, seen) ELSE @]
  /\ UNCHANGED <<server, conn, waiting, cursor, start, full, drops>>

\* Mutant of ReadCursor: the handler advances lastSeq.
ReadCursorAdvances(c) ==
  /\ pipe[c] # <<>> /\ Head(pipe[c]).frame = "cursor"
  /\ pipe' = [pipe EXCEPT ![c] = Tail(@)]
  /\ lastSeq' = [lastSeq EXCEPT ![c] = Head(pipe[c]).last]
  /\ UNCHANGED <<server, conn, waiting, cursor, start, got, chat, drops>>

\* A cursor frame: its handler does nothing.
ReadCursor(c) ==
  /\ pipe[c] # <<>> /\ Head(pipe[c]).frame = "cursor"
  /\ pipe' = [pipe EXCEPT ![c] = Tail(@)]
  /\ UNCHANGED <<server, conn, waiting, cursor, browser, drops>>

\* The panel refreshes the chat every ten seconds once the game is over, and when
\* the user has answered an offer that came as a note.
PollChat(c) ==
  /\ \E i \in got[c] : kinds[i] \in {"over", "note"}
  /\ fetch[c] = {}
  /\ fetch' = [fetch EXCEPT ![c] = Refreshed(c, got[c])]
  /\ UNCHANGED <<server, conn, streams, lastSeq, start, got, full, drops>>

\* A fetch is answered, with the rows there were at some moment since it was made.
ChatArrives(c) ==
  \E f \in fetch[c] : \E upto \in f.asked..Len(kinds) :
    /\ got' = [got EXCEPT ![c] = @ \cup {i \in Notes : i <= upto /\ \A j \in f.known : j < i}]
    /\ fetch' = [fetch EXCEPT ![c] = {}]
    /\ full' = [full EXCEPT ![c] = TRUE]
    /\ UNCHANGED <<server, conn, streams, lastSeq, start, drops>>

\* Mutant of ChatFails: the flag is set whether or not an answer has come.
ChatFailsLoaded(c) ==
  /\ fetch[c] # {}
  /\ fetch' = [fetch EXCEPT ![c] = {}]
  /\ full' = [full EXCEPT ![c] = TRUE]
  /\ UNCHANGED <<server, conn, streams, lastSeq, start, got, drops>>

\* A fetch fails; nobody is told and nothing tries again.
ChatFails(c) ==
  /\ fetch[c] # {}
  /\ fetch' = [fetch EXCEPT ![c] = {}]
  /\ UNCHANGED <<server, conn, streams, lastSeq, start, got, full, drops>>

-----------------------------------------------------------------------------
Serve(c) == Poll(c) \/ Wake(c) \/ Timeout(c)

Browse(c) == ReadUpdates(c) \/ ReadCursor(c)

Fetch(c) == PollChat(c) \/ ChatArrives(c) \/ ChatFails(c)

Next ==
  \/ \E ends \in BOOLEAN : Play(ends)
  \/ GameOver
  \/ \E n \in 1..2 : Chat(n)
  \/ Evict \/ Restart
  \/ \E c \in Clients : Serve(c) \/ Browse(c) \/ Fetch(c) \/ Load(c) \/ Open(c) \/ Drop(c)

Spec == Init /\ [][Next]_vars

\* The SSE loop keeps polling, the browser reads what arrives and reconnects
\* after its backoff; nobody has to play, chat, load a page or break, and no fetch
\* of the chat has to end.
Fairness == \A c \in Clients : WF_vars(Serve(c)) /\ WF_vars(Browse(c)) /\ WF_vars(Open(c))

FairSpec == Spec /\ Fairness

-----------------------------------------------------------------------------
\* The page has yet to fetch the chat, and the event is a note the stream will not
\* send it: its number is not past the stream_seq the page was loaded with.
Unfetched(c, e) == kinds[e.id] = "note" /\ e.seq <= start[c] /\ ~full[c]

OnPage(c, e) == e.id \in got[c] \/ Unfetched(c, e)

\* What the client counts as read it has been handed: an event the registered
\* log still holds, at or below lastSeq of a connected client, is on its page, or
\* is a note that the page leaves to its first fetch of the chat.  Frames lost
\* with a connection are sent again (sse.py, and realtime.ts open and the comment
\* on cursor frames), and the first answer of the chat endpoint, however late it
\* is and whatever failed before it, has every note the stream left out.
ReadIsHandedOver ==
  \A c \in Clients : conn[c] = "open" =>
    \A e \in Log.events : e.seq <= lastSeq[c] => OnPage(c, e)

\* What the SSE loop counts as sent is on the page or on its way there.
SentIsOnItsWay ==
  \A c \in Clients : conn[c] = "open" =>
    \A e \in Log.events : e.seq <= cursor[c] =>
      OnPage(c, e) \/ \E k \in DOMAIN pipe[c] : e \in pipe[c][k].events

\* Both, for a session that is never replaced: what is counted as delivered is
\* not missing.
NothingIsMissing == Current = 1 => ReadIsHandedOver /\ SentIsOnItsWay

\* A client whose cursor is past the end of the registered log (it counted with
\* an earlier session) gets back into it once an event is there
\* (realtime.py wait_for_updates, which returns the tail's number).
StreamRecovers ==
  \A c \in Clients :
    (conn[c] = "open" /\ Log.events # {}) ~> (Log.events = {} \/ cursor[c] < Log.next)

Holds(id) == \E e \in Log.events : e.id = id

\* Every event the registered log holds reaches every client that is connected,
\* unless the log loses it first (sessions.py "Return ordered SSE events after
\* the supplied stream cursor").  A note that was there when the page was loaded
\* is not the stream's to deliver, and reaches the page only if a fetch of the
\* chat is answered: it is left out here until one has been.
EventsReachClients ==
  \A c \in Clients : \A id \in 1..MaxEvents :
    (conn[c] = "open" /\ \E e \in Log.events : e.id = id /\ ~Unfetched(c, e))
      ~> (~Holds(id) \/ id \in got[c])

\* So it is for a session that is never replaced, whatever becomes of the fetches.
\* After a replacement it fails: the new log counts lower than the client's
\* cursor, and what it numbers at or below that cursor is not sent to the client.
EventsReachOneSession == [](Current = 1) => EventsReachClients
=============================================================================
