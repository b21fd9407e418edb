----------------------- MODULE RealtimeStream_proofs -----------------------
(***************************************************************************)
(* Proofs about RealtimeStream, for any set of clients, any length of the  *)
(* log and any bounds on events, frames, broken connections and sessions.  *)
(***************************************************************************)
EXTENDS RealtimeStream, TLAPS

-----------------------------------------------------------------------------
(* The invariant.                                                          *)

LogType == [events : SUBSET Entry, next : Nat]
Frame   == [frame : {"cursor", "updates"}, last : Int, events : SUBSET Entry]
Request == [known : SUBSET Nat, asked : Nat]

Types ==
  /\ kinds \in Seq({"play", "over", "note"})
  /\ logs \in Seq(LogType) /\ logs # <<>> /\ streamSeq \in Nat
  /\ conn \in [Clients -> {"unloaded", "closed", "open"}]
  /\ waiting \in [Clients -> 0..Len(logs)]
  /\ cursor \in [Clients -> Int] /\ lastSeq \in [Clients -> Int]
  /\ pipe \in [Clients -> Seq(Frame)]
  /\ start \in [Clients -> Int] /\ got \in [Clients -> SUBSET Nat]
  /\ fetch \in [Clients -> SUBSET Request] /\ full \in [Clients -> BOOLEAN]

\* The log numbers its events below the next number, and so is the number that a
\* page starts from.
Numbered ==
  /\ streamSeq < Log.next
  /\ \A e \in Log.events : e.seq < Log.next /\ e.id \in DOMAIN kinds

\* No number the client or its loop holds is past the end of the log.
Behind(c) ==
  /\ lastSeq[c] < Log.next /\ cursor[c] < Log.next
  /\ \A k \in DOMAIN pipe[c] : pipe[c][k].frame = "updates" => pipe[c][k].last < Log.next

\* A connection that is not open has no loop that waits and nothing on its way; a
\* cursor frame carries no event.
Quiet(c) ==
  /\ conn[c] # "open" => pipe[c] = <<>> /\ waiting[c] = 0
  /\ \A k \in DOMAIN pipe[c] : pipe[c][k].frame = "cursor" => pipe[c][k].events = {}

\* Nothing reaches the page that was not published.
Known(c) ==
  /\ got[c] \subseteq DOMAIN kinds
  /\ \A k \in DOMAIN pipe[c] : \A e \in pipe[c][k].events : e.id \in DOMAIN kinds

\* A fetch under way before any answer has come asks for every note that the
\* stream leaves to it; a page that is not loaded has asked for nothing.
Asked(c) ==
  /\ conn[c] = "unloaded" => got[c] = {} /\ fetch[c] = {} /\ ~full[c]
  /\ start[c] < Log.next
  /\ \A f \in fetch[c] : \A e \in Log.events :
       e.seq <= start[c] => full[c] \/ (f.known = {} /\ e.id <= f.asked)

\* What the client counts as read is on the page, or left to the first fetch.
Read(c) ==
  conn[c] # "unloaded" => \A e \in Log.events : e.seq <= lastSeq[c] => OnPage(c, e)

\* What the client will count as read once it has read a frame is on the page, in
\* that frame or in one before it.
Carried(c) ==
  conn[c] = "open" => \A k \in DOMAIN pipe[c] : pipe[c][k].frame = "updates" =>
    \A e \in Log.events : e.seq <= pipe[c][k].last =>
      OnPage(c, e) \/ \E j \in DOMAIN pipe[c] : j <= k /\ e \in pipe[c][j].events

\* What the loop counts as sent is on the page or in a frame.
Sent(c) ==
  conn[c] = "open" => \A e \in Log.events : e.seq <= cursor[c] =>
    OnPage(c, e) \/ \E j \in DOMAIN pipe[c] : e \in pipe[c][j].events

Served(c) == Behind(c) /\ Quiet(c) /\ Known(c) /\ Asked(c) /\ Read(c) /\ Carried(c) /\ Sent(c)

IInv == Types /\ (Current = 1 => Numbered /\ \A c \in Clients : Served(c))

-----------------------------------------------------------------------------
(* The session publishes.                                                  *)

LEMMA LogFacts ==
  ASSUME Types
  PROVE  /\ Current \in Nat \ {0} /\ Current \in DOMAIN logs /\ Log \in LogType
         /\ Log.next \in Nat /\ Log.events \subseteq Entry
  <1>1. logs \in Seq(LogType) /\ logs # <<>>
    BY DEF Types
  <1>2. Len(logs) \in Nat \ {0} /\ DOMAIN logs = 1..Len(logs)
    BY <1>1
  <1>3. Len(logs) \in DOMAIN logs /\ logs[Len(logs)] \in LogType
    BY <1>1, <1>2
  <1> QED
    BY <1>2, <1>3 DEF Current, Log, LogType

LEMMA AppendToFacts ==
  ASSUME NEW log \in LogType, NEW id \in Nat \ {0}
  PROVE  /\ AppendTo(log, id) \in LogType
         /\ AppendTo(log, id).next = log.next + 1
         /\ \A e \in AppendTo(log, id).events :
              e \in log.events \/ (e.seq = log.next /\ e.id = id)
  <1> DEFINE x == [seq |-> log.next, id |-> id]
             all == log.events \cup {x}
  <1>1. log.next \in Nat /\ log.events \subseteq Entry
    BY DEF LogType
  <1>2. x \in Entry /\ x.seq = log.next /\ x.id = id
    BY <1>1 DEF Entry
  <1>3. Aged(all) \subseteq all
    BY DEF Aged
  <1>4. AppendTo(log, id) = [events |-> Aged(all), next |-> log.next + 1]
    BY DEF AppendTo
  <1> HIDE DEF x
  <1>5. Aged(all) \subseteq Entry
    BY <1>1, <1>2, <1>3
  <1>6. \A e \in Aged(all) : e \in log.events \/ (e.seq = log.next /\ e.id = id)
    BY <1>2, <1>3
  <1> HIDE DEF all
  <1>7. AppendTo(log, id).events = Aged(all) /\ AppendTo(log, id).next = log.next + 1
    BY <1>4
  <1>8. AppendTo(log, id) \in LogType
    BY <1>1, <1>4, <1>5 DEF LogType
  <1> QED
    BY <1>6, <1>7, <1>8

\* New events are numbered from the next number on, whatever falls out of the log.
Grown(old, new) ==
  /\ new \in LogType /\ old.next <= new.next
  /\ \A e \in new.events :
       \/ e \in old.events
       \/ old.next <= e.seq /\ e.seq < new.next /\ e.id \in DOMAIN kinds'

LEMMA PublishStep ==
  ASSUME IInv, NEW log, Grown(Log, log), logs' = [logs EXCEPT ![Current] = log],
         kinds' \in Seq({"play", "over", "note"}),
         \A i \in DOMAIN kinds : i \in DOMAIN kinds' /\ kinds'[i] = kinds[i],
         streamSeq' = streamSeq \/ streamSeq' = Log.next,
         Log.next < log.next,
         UNCHANGED <<conn, streams, browser>>
  PROVE  IInv'
  <1>1. /\ Current \in DOMAIN logs /\ Current = Len(logs) /\ Log.next \in Nat
        /\ logs \in Seq(LogType) /\ log \in LogType /\ log.next \in Nat
    BY LogFacts DEF IInv, Types, Grown, LogType, Current
  <1>2. logs' \in Seq(LogType) /\ Len(logs') = Len(logs) /\ logs'[Current] = log /\ logs' # <<>>
    BY <1>1
  <1>3. Current' = Current /\ Log' = log
    BY <1>1, <1>2 DEF Current, Log
  <1>4. Types'
    BY <1>1, <1>2 DEF IInv, Types, streams, browser, chat
  <1> SUFFICES ASSUME Current = 1
               PROVE  Numbered' /\ \A c \in Clients : Served(c)'
    BY <1>3, <1>4 DEF IInv
  <1>5. Numbered /\ \A c \in Clients : Served(c)
    BY DEF IInv
  <1>6. \A e \in log.events :
          e \in Log.events \/ (Log.next <= e.seq /\ e.seq < log.next /\ e.id \in DOMAIN kinds')
    BY DEF Grown
  <1>7. \A e \in Log.events \cup log.events : e.seq \in Nat
    BY <1>1, LogFacts DEF IInv, LogType, Entry
  <1>8. Numbered'
    <2>1. \A e \in log.events : e.seq < log.next /\ e.id \in DOMAIN kinds'
      BY <1>1, <1>5, <1>6, <1>7 DEF Numbered
    <2>2. streamSeq' < log.next
      BY <1>1, <1>5 DEF Numbered, IInv, Types
    <2> QED
      BY <1>3, <2>1, <2>2 DEF Numbered
  <1>9. ASSUME NEW c \in Clients
        PROVE  Served(c)'
    <2>1. /\ Served(c) /\ lastSeq[c] \in Int /\ cursor[c] \in Int /\ Known(c)
          /\ pipe[c] \in Seq(Frame)
          /\ start[c] \in Int
          /\ UNCHANGED <<conn, waiting, cursor, pipe, lastSeq, start, got, fetch, full>>
      BY <1>5 DEF IInv, Types, streams, browser, chat, Served
    <2>2. \A k \in DOMAIN pipe[c] : pipe[c][k].last \in Int
      <3>1. \A k \in DOMAIN pipe[c] : pipe[c][k] \in Frame
        BY <2>1
      <3> QED
        BY <3>1 DEF Frame
    <2>3. Behind(c)'
      BY <1>1, <1>3, <2>1, <2>2 DEF Served, Behind
    <2>4. \A n \in Int : n < Log.next => \A e \in log.events : e.seq <= n => e \in Log.events
      BY <1>1, <1>6, <1>7
    <2>5. \A e \in Log.events : OnPage(c, e) => OnPage(c, e)'
      BY <1>5, <2>1 DEF Numbered, OnPage, Unfetched
    <2>6. Asked(c)' /\ Read(c)'
      <3>1. lastSeq[c] < Log.next /\ start[c] < Log.next
        BY <2>1 DEF Served, Behind, Asked
      <3>2. Asked(c)'
        BY <1>1, <1>3, <2>1, <2>4, <3>1 DEF Served, Asked
      <3>3. Read(c)'
        BY <1>3, <2>1, <2>4, <2>5, <3>1 DEF Served, Read
      <3> QED
        BY <3>2, <3>3
    <2>7. Quiet(c)' /\ Known(c)'
      BY <2>1 DEF Served, Quiet, Known
    <2>8. Carried(c)'
      BY <1>3, <2>1, <2>2, <2>4, <2>5 DEF Served, Behind, Carried
    <2>9. Sent(c)'
      BY <1>3, <2>1, <2>4, <2>5 DEF Served, Behind, Sent
    <2> QED
      BY <2>3, <2>6, <2>7, <2>8, <2>9 DEF Served
  <1> QED
    BY <1>8, <1>9

LEMMA AppendKind ==
  ASSUME NEW q \in Seq({"play", "over", "note"}), NEW x \in {"play", "over", "note"}
  PROVE  /\ Append(q, x) \in Seq({"play", "over", "note"})
         /\ \A i \in DOMAIN q : i \in DOMAIN Append(q, x) /\ Append(q, x)[i] = q[i]
         /\ Len(q) + 1 \in DOMAIN Append(q, x) /\ Len(q) + 1 \in Nat \ {0}
  OBVIOUS

LEMMA OneEvent ==
  ASSUME IInv, NEW kind \in {"play", "over"}, Publish(kind), streamSeq' = Log.next,
         UNCHANGED <<conn, streams, browser>>
  PROVE  IInv'
  <1> DEFINE log == AppendTo(Log, Len(kinds) + 1)
  <1>1. /\ kinds' = Append(kinds, kind) /\ kinds \in Seq({"play", "over", "note"})
        /\ logs' = [logs EXCEPT ![Current] = log]
    BY DEF Publish, IInv, Types, Log
  <1>2. /\ kinds' \in Seq({"play", "over", "note"})
        /\ \A i \in DOMAIN kinds : i \in DOMAIN kinds' /\ kinds'[i] = kinds[i]
        /\ Len(kinds) + 1 \in DOMAIN kinds' /\ Len(kinds) + 1 \in Nat \ {0}
    BY <1>1, AppendKind
  <1>3. Log \in LogType /\ Log.next \in Nat
    BY LogFacts DEF IInv
  <1>4. /\ log \in LogType /\ log.next = Log.next + 1
        /\ \A e \in log.events : e \in Log.events \/ (e.seq = Log.next /\ e.id = Len(kinds) + 1)
    BY <1>2, <1>3, AppendToFacts
  <1> HIDE DEF log
  <1>5. Grown(Log, log) /\ Log.next < log.next
    BY <1>2, <1>3, <1>4 DEF Grown
  <1> QED
    BY <1>1, <1>2, <1>5, PublishStep

LEMMA PlayStep ==
  ASSUME IInv, NEW ends \in BOOLEAN, Play(ends)
  PROVE  IInv'
  BY OneEvent DEF Play

LEMMA GameOverStep ==
  ASSUME IInv, GameOver
  PROVE  IInv'
  BY OneEvent DEF GameOver

LEMMA ChatStep ==
  ASSUME IInv, NEW n \in 1..2, Chat(n)
  PROVE  IInv'
  <1> DEFINE id == Len(kinds) + 1
             one == AppendTo(Log, id)
             two == AppendTo(one, id + 1)
             log == IF n = 1 THEN one ELSE two
             notes == [i \in 1..n |-> "note"]
  <1>1. /\ kinds' = kinds \o notes /\ kinds \in Seq({"play", "over", "note"})
        /\ logs' = [logs EXCEPT ![Current] = log]
        /\ UNCHANGED <<streamSeq, conn, streams, browser>>
    BY DEF Chat, IInv, Types, Log
  <1>2. notes \in Seq({"play", "over", "note"}) /\ Len(notes) = n
    OBVIOUS
  <1> HIDE DEF notes
  <1>3. /\ kinds' \in Seq({"play", "over", "note"})
        /\ Len(kinds') = Len(kinds) + n /\ Len(kinds) \in Nat
        /\ DOMAIN kinds = 1..Len(kinds) /\ DOMAIN kinds' = 1..Len(kinds')
        /\ \A i \in DOMAIN kinds : kinds'[i] = kinds[i]
    BY <1>1, <1>2
  <1>4. /\ \A i \in DOMAIN kinds : i \in DOMAIN kinds' /\ kinds'[i] = kinds[i]
        /\ id \in DOMAIN kinds' /\ id \in Nat \ {0} /\ id + 1 \in Nat \ {0}
        /\ n # 1 => id + 1 \in DOMAIN kinds'
    BY <1>3
  <1> HIDE DEF id
  <1>5. Log \in LogType /\ Log.next \in Nat
    BY LogFacts DEF IInv
  <1>6. /\ one \in LogType /\ one.next = Log.next + 1
        /\ \A e \in one.events : e \in Log.events \/ (e.seq = Log.next /\ e.id = id)
    BY <1>4, <1>5, AppendToFacts
  <1> HIDE DEF one
  <1>7. /\ two \in LogType /\ two.next = one.next + 1
        /\ \A e \in two.events : e \in one.events \/ (e.seq = one.next /\ e.id = id + 1)
    BY <1>4, <1>6, AppendToFacts
  <1> HIDE DEF two
  <1>8. Grown(Log, log) /\ Log.next < log.next
    <2>1. CASE n = 1
      BY <1>4, <1>5, <1>6, <2>1 DEF Grown
    <2>2. CASE n # 1
      <3>1. /\ log = two /\ two.next = Log.next + 2 /\ Log.next <= two.next /\ Log.next < two.next
        BY <1>5, <1>6, <1>7, <2>2
      <3>2. ASSUME NEW e \in two.events
            PROVE  \/ e \in Log.events
                   \/ Log.next <= e.seq /\ e.seq < two.next /\ e.id \in DOMAIN kinds'
        BY <1>4, <1>5, <1>6, <1>7, <2>2, <3>1
      <3> QED
        BY <1>7, <3>1, <3>2 DEF Grown
    <2> QED
      BY <2>1, <2>2
  <1> HIDE DEF log
  <1> QED
    BY <1>1, <1>3, <1>4, <1>8, PublishStep

-----------------------------------------------------------------------------
(* The session is replaced.                                                *)

LEMMA NewSession ==
  ASSUME IInv, Rehydrated, waiting' \in [Clients -> 0..Len(logs)],
         conn' \in [Clients -> {"unloaded", "closed", "open"}],
         pipe' \in [Clients -> Seq(Frame)], UNCHANGED <<cursor, browser>>
  PROVE  IInv'
  <1>1. PICK saved \in 0..ply : logs' = Append(logs, EmptyLog(saved + 1)) /\ streamSeq' = saved
    BY DEF Rehydrated
  <1>2. kinds' = kinds
    BY DEF Rehydrated
  <1>3. EmptyLog(saved + 1) \in LogType
    BY DEF EmptyLog, LogType
  <1>4. logs \in Seq(LogType) /\ Len(logs) \in Nat \ {0}
    BY LogFacts DEF IInv, Types, Current
  <1>5. logs' \in Seq(LogType) /\ Len(logs') = Len(logs) + 1 /\ logs' # <<>>
    BY <1>1, <1>3, <1>4
  <1>6. waiting' \in [Clients -> 0..Len(logs')]
    <2>1. 0..Len(logs) \subseteq 0..Len(logs')
      BY <1>4, <1>5
    <2> QED
      BY <2>1
  <1>7. Types'
    BY <1>1, <1>2, <1>5, <1>6 DEF IInv, Types, browser, chat
  <1>8. Current' # 1
    BY <1>4, <1>5 DEF Current
  <1> QED
    BY <1>7, <1>8 DEF IInv

LEMMA EvictStep ==
  ASSUME IInv, Evict
  PROVE  IInv'
  BY NewSession DEF Evict, IInv, Types, streams, browser

LEMMA RestartStep ==
  ASSUME IInv, Restart
  PROVE  IInv'
  <1>1. \A c \in Clients : conn'[c] \in {"unloaded", "closed", "open"}
    BY DEF Restart, IInv, Types
  <1>2. conn' \in [Clients -> {"unloaded", "closed", "open"}]
    BY <1>1 DEF Restart
  <1>3. Len(logs) \in Nat /\ <<>> \in Seq(Frame)
    BY LogFacts DEF IInv, Current
  <1>4. waiting' \in [Clients -> 0..Len(logs)] /\ pipe' \in [Clients -> Seq(Frame)]
    BY <1>3 DEF Restart
  <1> QED
    BY <1>2, <1>4, NewSession DEF Restart

-----------------------------------------------------------------------------
(* One client, or its loop, takes a step.                                  *)

LEMMA ClientStep ==
  ASSUME IInv, NEW c \in Clients, Types', UNCHANGED server,
         \A d \in Clients : d # c =>
           /\ conn'[d] = conn[d] /\ cursor'[d] = cursor[d] /\ pipe'[d] = pipe[d]
           /\ lastSeq'[d] = lastSeq[d] /\ got'[d] = got[d] /\ waiting'[d] = waiting[d]
           /\ start'[d] = start[d] /\ fetch'[d] = fetch[d] /\ full'[d] = full[d],
         (Current = 1 /\ Numbered /\ Served(c)) => Served(c)'
  PROVE  IInv'
  <1>1. Current' = Current /\ Log' = Log /\ kinds' = kinds /\ streamSeq' = streamSeq
    BY DEF server, Current, Log
  <1> SUFFICES ASSUME Current = 1
               PROVE  Numbered' /\ \A d \in Clients : Served(d)'
    BY <1>1 DEF IInv
  <1>2. Numbered /\ \A d \in Clients : Served(d)
    BY DEF IInv
  <1>3. Numbered'
    BY <1>1, <1>2 DEF Numbered
  <1>4. ASSUME NEW d \in Clients, d # c
        PROVE  Served(d)'
    <2>1. /\ conn'[d] = conn[d] /\ cursor'[d] = cursor[d] /\ pipe'[d] = pipe[d]
          /\ lastSeq'[d] = lastSeq[d] /\ got'[d] = got[d] /\ waiting'[d] = waiting[d]
          /\ start'[d] = start[d] /\ fetch'[d] = fetch[d] /\ full'[d] = full[d]
          /\ Served(d)
      BY <1>2, <1>4
    <2>2. \A e : OnPage(d, e)' <=> OnPage(d, e)
      BY <1>1, <2>1 DEF OnPage, Unfetched
    <2>3. Behind(d)' /\ Quiet(d)' /\ Known(d)'
      BY <1>1, <2>1 DEF Served, Behind, Quiet, Known
    <2>4. Asked(d)' /\ Read(d)'
      BY <1>1, <2>1, <2>2 DEF Served, Asked, Read
    <2>5. Carried(d)' /\ Sent(d)'
      BY <1>1, <2>1, <2>2 DEF Served, Carried, Sent
    <2> QED
      BY <2>3, <2>4, <2>5 DEF Served
  <1> QED
    BY <1>2, <1>3, <1>4

\* A refresh asks for every note there is, or only for those past one it knows.
LEMMA RefreshedFacts ==
  ASSUME Types, NEW c \in Clients, NEW seen \in SUBSET Nat
  PROVE  /\ Refreshed(c, seen) \subseteq Request
         /\ \A f \in Refreshed(c, seen) :
              f \in fetch[c] \/ (f.asked = Len(kinds) /\ (~full[c] => f.known = {}))
  <1> DEFINE f == [known |-> IF full[c] THEN seen \cap Notes ELSE {}, asked |-> Len(kinds)]
  <1>1. f \in Request /\ f.asked = Len(kinds) /\ (~full[c] => f.known = {})
    <2>1. kinds \in Seq({"play", "over", "note"})
      BY DEF Types
    <2>2. Len(kinds) \in Nat
      BY <2>1
    <2>3. (IF full[c] THEN seen \cap Notes ELSE {}) \in SUBSET Nat
      OBVIOUS
    <2> QED
      BY <2>2, <2>3 DEF Request
  <1>2. fetch[c] \subseteq Request
    BY DEF Types
  <1>3. Refreshed(c, seen) = IF fetch[c] # {} THEN fetch[c] ELSE {f}
    BY DEF Refreshed
  <1> HIDE DEF f
  <1> QED
    BY <1>1, <1>2, <1>3

\* So a page that refreshes its chat still asks for all the stream leaves to it.
LEMMA RefreshAsks ==
  ASSUME IInv, NEW c \in Clients, NEW seen \in SUBSET Nat, Current = 1, Numbered, Asked(c),
         fetch'[c] = Refreshed(c, seen), full'[c] = full[c], start'[c] = start[c],
         conn'[c] # "unloaded",
         UNCHANGED server
  PROVE  Asked(c)'
  <1>1. \A f \in Refreshed(c, seen) :
          f \in fetch[c] \/ (f.asked = Len(kinds) /\ (~full[c] => f.known = {}))
    BY RefreshedFacts DEF IInv
  <1>2. full[c] \in BOOLEAN /\ DOMAIN kinds = 1..Len(kinds)
    BY DEF IInv, Types
  <1>3. Log' = Log /\ kinds' = kinds
    BY DEF server, Log, Current
  <1>4. \A e \in Log.events : e.id <= Len(kinds)
    BY <1>2 DEF Numbered
  <1> QED
    BY <1>1, <1>2, <1>3, <1>4 DEF Asked

LEMMA PollStep ==
  ASSUME IInv, NEW c \in Clients, Poll(c)
  PROVE  IInv'
  <1>1. Current \in 0..Len(logs)
    BY LogFacts DEF IInv, Current
  <1>2. Types'
    BY <1>1 DEF Poll, IInv, Types, server, browser, chat
  <1>3. (Current = 1 /\ Numbered /\ Served(c)) => Served(c)'
    BY DEF Poll, Served, Behind, Quiet, Known, Asked, Read, Carried, Sent, OnPage, Unfetched,
           server, browser, chat, Current, Log
  <1> QED
    BY <1>2, <1>3, ClientStep DEF Poll, browser, chat

LEMMA TwoFrames ==
  ASSUME NEW q \in Seq(Frame), NEW f \in Frame, NEW g \in Frame
  PROVE  /\ q \o <<f, g>> \in Seq(Frame)
         /\ DOMAIN (q \o <<f, g>>) = DOMAIN q \cup {Len(q) + 1, Len(q) + 2}
         /\ (q \o <<f, g>>)[Len(q) + 1] = f /\ (q \o <<f, g>>)[Len(q) + 2] = g
         /\ \A k \in DOMAIN q : (q \o <<f, g>>)[k] = q[k]
         /\ DOMAIN q = 1..Len(q) /\ Len(q) \in Nat
  <1>1. <<f, g>> \in Seq(Frame) /\ Len(<<f, g>>) = 2
    OBVIOUS
  <1>2. <<f, g>>[1] = f /\ <<f, g>>[2] = g
    OBVIOUS
  <1> DEFINE fg == <<f, g>>
  <1> HIDE DEF fg
  <1>3. /\ q \o fg \in Seq(Frame) /\ Len(q \o fg) = Len(q) + 2 /\ Len(q) \in Nat
        /\ \A k \in 1..Len(q) : (q \o fg)[k] = q[k]
        /\ (q \o fg)[Len(q) + 1] = fg[1] /\ (q \o fg)[Len(q) + 2] = fg[2]
    BY <1>1 DEF fg
  <1>4. DOMAIN (q \o fg) = 1..(Len(q) + 2) /\ DOMAIN q = 1..Len(q)
    BY <1>3
  <1>5. 1..(Len(q) + 2) = 1..Len(q) \cup {Len(q) + 1, Len(q) + 2}
    BY <1>3
  <1> QED
    BY <1>2, <1>3, <1>4, <1>5 DEF fg

LEMMA OneFrame ==
  ASSUME NEW q \in Seq(Frame), NEW f \in Frame
  PROVE  /\ Append(q, f) \in Seq(Frame)
         /\ DOMAIN Append(q, f) = DOMAIN q \cup {Len(q) + 1}
         /\ Append(q, f)[Len(q) + 1] = f
         /\ \A k \in DOMAIN q : Append(q, f)[k] = q[k]
         /\ DOMAIN q = 1..Len(q) /\ Len(q) \in Nat
  OBVIOUS

\* The log a loop waits on.
LEMMA WaitedOn ==
  ASSUME IInv, NEW c \in Clients, waiting[c] # 0
  PROVE  /\ logs[waiting[c]] \in LogType
         /\ Current = 1 => logs[waiting[c]] = Log
  <1>1. waiting[c] \in 0..Len(logs) /\ logs \in Seq(LogType) /\ Len(logs) \in Nat
    BY LogFacts DEF IInv, Types, Current
  <1>2. waiting[c] \in 1..Len(logs)
    BY <1>1
  <1> QED
    BY <1>1, <1>2 DEF Current, Log

LEMMA WakeStep ==
  ASSUME IInv, NEW c \in Clients, Wake(c)
  PROVE  IInv'
  <1> DEFINE log  == logs[waiting[c]]
             tail == TailSeq(log, cursor[c])
             new  == Since(log, cursor[c])
             f    == Cursor(tail)
             g    == Updates(tail, new)
             q    == pipe[c]
             n    == Len(q)
  <1>1. /\ waiting[c] # 0 /\ new # {}
        /\ cursor' = [cursor EXCEPT ![c] = tail]
        /\ pipe' = [pipe EXCEPT ![c] = q \o <<f, g>>]
        /\ waiting' = [waiting EXCEPT ![c] = 0]
        /\ UNCHANGED <<server, conn, browser>>
    BY DEF Wake
  <1>2. /\ log \in LogType /\ log.next \in Nat /\ log.events \subseteq Entry
        /\ q \in Seq(Frame) /\ cursor[c] \in Int /\ Len(logs) \in Nat
    BY <1>1, WaitedOn, LogFacts DEF IInv, Types, LogType, Current
  <1>3. new = {e \in log.events : e.seq > cursor[c]} /\ tail = log.next - 1
    BY <1>1 DEF Since, TailSeq
  <1>4. tail \in Int /\ new \subseteq Entry
    BY <1>2, <1>3
  <1> HIDE DEF log, tail, new
  <1>5. /\ f \in Frame /\ f.frame = "cursor" /\ f.events = {}
        /\ g \in Frame /\ g.frame = "updates" /\ g.last = tail /\ g.events = new
    BY <1>4 DEF Frame, Cursor, Updates
  <1> HIDE DEF f, g
  <1>6. /\ q \o <<f, g>> \in Seq(Frame)
        /\ DOMAIN (q \o <<f, g>>) = DOMAIN q \cup {n + 1, n + 2}
        /\ (q \o <<f, g>>)[n + 1] = f /\ (q \o <<f, g>>)[n + 2] = g
        /\ \A k \in DOMAIN q : (q \o <<f, g>>)[k] = q[k]
        /\ DOMAIN q = 1..n /\ n \in Nat
    BY <1>2, <1>5, TwoFrames
  <1> DEFINE p == q \o <<f, g>>
  <1>7. pipe' = [pipe EXCEPT ![c] = p]
    BY <1>1
  <1> HIDE DEF p
  <1>8. p \in Seq(Frame)
    BY <1>6 DEF p
  <1>9. Types'
    BY <1>1, <1>2, <1>4, <1>7, <1>8 DEF IInv, Types, server, browser, chat
  <1>10. ASSUME Current = 1, Numbered, Served(c)
         PROVE  Served(c)'
    <2>1. /\ conn' = conn /\ lastSeq' = lastSeq /\ got' = got /\ kinds' = kinds /\ Log' = Log
          /\ cursor'[c] = tail /\ pipe'[c] = p /\ start' = start /\ fetch' = fetch
          /\ \A e : OnPage(c, e)' <=> OnPage(c, e)
          /\ full' = full
      BY <1>1, <1>2, <1>7 DEF IInv, Types, server, browser, chat, Current, Log, OnPage, Unfetched
    <2>2. log = Log
      BY <1>1, <1>10, WaitedOn DEF log
    <2>3. tail < Log.next
      BY <1>2, <1>3, <2>2
    <2>4. /\ DOMAIN p = DOMAIN q \cup {n + 1, n + 2} /\ p[n + 1] = f /\ p[n + 2] = g
          /\ \A k \in DOMAIN q : p[k] = q[k]
      BY <1>6 DEF p
    <2>5. Behind(c)'
      BY <1>5, <1>10, <2>1, <2>3, <2>4 DEF Served, Behind
    <2>6. conn[c] = "open"
      BY <1>1, <1>10 DEF Served, Quiet
    <2>7. Quiet(c)' /\ Known(c)'
      <3>1. \A e \in new : e.id \in DOMAIN kinds
        BY <1>3, <1>10, <2>2 DEF Numbered
      <3> QED
        BY <1>5, <1>10, <2>1, <2>4, <2>6, <3>1 DEF Served, Quiet, Known
    <2>8. Asked(c)' /\ Read(c)'
      BY <1>10, <2>1 DEF Served, Asked, Read
    <2>9. ASSUME NEW e \in Log.events, e.seq <= tail
          PROVE  OnPage(c, e) \/ \E j \in DOMAIN p : e \in p[j].events
      <3>1. CASE e.seq <= cursor[c]
        <4>1. OnPage(c, e) \/ \E j \in DOMAIN q : e \in q[j].events
          BY <1>10, <2>6, <3>1 DEF Served, Sent
        <4> QED
          BY <2>4, <4>1
      <3>2. CASE ~(e.seq <= cursor[c])
        <4>1. e.seq \in Nat
          BY <1>2, <2>2 DEF Entry
        <4>2. e \in new
          BY <1>2, <1>3, <2>2, <3>2, <4>1
        <4> QED
          BY <1>5, <2>4, <4>2
      <3> QED
        BY <3>1, <3>2
    <2>10. Sent(c)'
      BY <2>1, <2>9 DEF Sent
    <2>11. ASSUME NEW k \in DOMAIN p, p[k].frame = "updates",
                  NEW e \in Log.events, e.seq <= p[k].last
           PROVE  OnPage(c, e) \/ \E j \in DOMAIN p : j <= k /\ e \in p[j].events
      <3>1. CASE k \in DOMAIN q
        <4>1. OnPage(c, e) \/ \E j \in DOMAIN q : j <= k /\ e \in q[j].events
          BY <1>10, <2>4, <2>6, <2>11, <3>1 DEF Served, Carried
        <4> QED
          BY <2>4, <4>1
      <3>2. CASE k = n + 1
        BY <1>5, <2>4, <2>11, <3>2
      <3>3. CASE k = n + 2
        <4>1. OnPage(c, e) \/ \E j \in DOMAIN p : e \in p[j].events
          BY <1>5, <2>4, <2>9, <2>11, <3>3
        <4>2. \A j \in DOMAIN p : j <= n + 2
          BY <1>6, <2>4
        <4> QED
          BY <3>3, <4>1, <4>2
      <3> QED
        BY <2>4, <3>1, <3>2, <3>3
    <2>12. Carried(c)'
      BY <2>1, <2>11 DEF Carried
    <2> QED
      BY <2>5, <2>7, <2>8, <2>10, <2>12 DEF Served
  <1> QED
    BY <1>1, <1>9, <1>10, ClientStep DEF browser, chat

LEMMA TimeoutStep ==
  ASSUME IInv, NEW c \in Clients, Timeout(c)
  PROVE  IInv'
  <1> DEFINE log  == logs[waiting[c]]
             tail == TailSeq(log, cursor[c])
             f    == Cursor(tail)
             q    == pipe[c]
             n    == Len(q)
             p    == Append(q, f)
  <1>1. /\ waiting[c] # 0 /\ Since(log, cursor[c]) = {}
        /\ cursor' = [cursor EXCEPT ![c] = tail]
        /\ pipe' = [pipe EXCEPT ![c] = p]
        /\ waiting' = [waiting EXCEPT ![c] = 0]
        /\ UNCHANGED <<server, conn, browser>>
    BY DEF Timeout
  <1>2. /\ log \in LogType /\ log.next \in Nat /\ log.events \subseteq Entry
        /\ q \in Seq(Frame) /\ cursor[c] \in Int /\ Len(logs) \in Nat
    BY <1>1, WaitedOn, LogFacts DEF IInv, Types, LogType, Current
  <1>3. \A e \in log.events : ~(e.seq > cursor[c])
    BY <1>1 DEF Since
  <1>4. tail \in Int /\ (tail = cursor[c] \/ tail = log.next - 1)
    BY <1>2 DEF TailSeq
  <1> HIDE DEF log, tail
  <1>5. f \in Frame /\ f.frame = "cursor" /\ f.events = {}
    BY <1>4 DEF Frame, Cursor
  <1> HIDE DEF f
  <1>6. /\ p \in Seq(Frame) /\ DOMAIN p = DOMAIN q \cup {n + 1} /\ p[n + 1] = f
        /\ \A k \in DOMAIN q : p[k] = q[k]
    BY <1>2, <1>5, OneFrame
  <1> HIDE DEF p
  <1>7. Types'
    BY <1>1, <1>2, <1>4, <1>6 DEF IInv, Types, server, browser, chat
  <1>8. ASSUME Current = 1, Numbered, Served(c)
        PROVE  Served(c)'
    <2>1. /\ conn' = conn /\ lastSeq' = lastSeq /\ got' = got /\ kinds' = kinds /\ Log' = Log
          /\ cursor'[c] = tail /\ pipe'[c] = p /\ start' = start /\ fetch' = fetch
          /\ \A e : OnPage(c, e)' <=> OnPage(c, e)
          /\ full' = full
      BY <1>1, <1>2 DEF IInv, Types, server, browser, chat, Current, Log, OnPage, Unfetched
    <2>2. log = Log
      BY <1>1, <1>8, WaitedOn DEF log
    <2>3. tail < Log.next
      BY <1>2, <1>4, <1>8, <2>2 DEF Served, Behind
    <2>4. Behind(c)'
      BY <1>5, <1>6, <1>8, <2>1, <2>3 DEF Served, Behind
    <2>5. conn[c] = "open"
      BY <1>1, <1>8 DEF Served, Quiet
    <2>6. Quiet(c)' /\ Known(c)'
      BY <1>5, <1>6, <1>8, <2>1, <2>5 DEF Served, Quiet, Known
    <2>7. Asked(c)' /\ Read(c)'
      BY <1>8, <2>1 DEF Served, Asked, Read
    <2>8. \A e \in Log.events : e.seq <= cursor[c]
      <3>1. \A e \in Log.events : e.seq \in Nat /\ ~(e.seq > cursor[c])
        BY <1>2, <1>3, <2>2 DEF Entry
      <3> QED
        BY <1>2, <3>1
    <2>9. Sent(c)'
      <3>1. \A e \in Log.events : OnPage(c, e) \/ \E j \in DOMAIN q : e \in q[j].events
        BY <1>8, <2>5, <2>8 DEF Served, Sent
      <3>2. \A e \in Log.events : OnPage(c, e) \/ \E j \in DOMAIN p : e \in p[j].events
        BY <1>6, <3>1
      <3> QED
        BY <2>1, <3>2 DEF Sent
    <2>10. ASSUME NEW k \in DOMAIN p, p[k].frame = "updates",
                  NEW e \in Log.events, e.seq <= p[k].last
           PROVE  OnPage(c, e) \/ \E j \in DOMAIN p : j <= k /\ e \in p[j].events
      <3>1. k \in DOMAIN q /\ p[k] = q[k]
        BY <1>5, <1>6, <2>10
      <3>2. OnPage(c, e) \/ \E j \in DOMAIN q : j <= k /\ e \in q[j].events
        BY <1>8, <2>5, <2>10, <3>1 DEF Served, Carried
      <3> QED
        BY <1>6, <3>2
    <2>11. Carried(c)'
      BY <2>1, <2>10 DEF Carried
    <2> QED
      BY <2>4, <2>6, <2>7, <2>9, <2>11 DEF Served
  <1> QED
    BY <1>1, <1>7, <1>8, ClientStep DEF browser, chat

\* The page loads with every play so far and asks for the chat.
LEMMA LoadStep ==
  ASSUME IInv, NEW c \in Clients, Load(c)
  PROVE  IInv'
  <1> DEFINE seen == DOMAIN kinds \ Notes
             first == IF streamSeq = 0 THEN -1 ELSE streamSeq
  <1>1. /\ conn[c] = "unloaded" /\ conn' = [conn EXCEPT ![c] = "closed"]
        /\ lastSeq' = [lastSeq EXCEPT ![c] = first]
        /\ start' = [start EXCEPT ![c] = first]
        /\ got' = [got EXCEPT ![c] = seen]
        /\ fetch' = [fetch EXCEPT ![c] = Refreshed(c, {})]
        /\ UNCHANGED <<server, streams, full>>
    BY DEF Load
  <1>2. first \in Int /\ seen \subseteq Nat /\ Refreshed(c, {}) \subseteq Request
    <2>1. {} \in SUBSET Nat /\ streamSeq \in Nat /\ DOMAIN kinds \subseteq Nat
      BY DEF IInv, Types
    <2> QED
      BY <2>1, RefreshedFacts DEF IInv
  <1>3. /\ \A f \in Refreshed(c, {}) :
             f \in fetch[c] \/ (f.asked = Len(kinds) /\ (~full[c] => f.known = {}))
    BY RefreshedFacts DEF IInv
  <1> HIDE DEF first
  <1>4. Types'
    BY <1>1, <1>2 DEF IInv, Types, server, streams
  <1>5. ASSUME Current = 1, Numbered, Served(c)
        PROVE  Served(c)'
    <2>1. /\ conn'[c] = "closed" /\ lastSeq'[c] = first /\ start'[c] = first /\ got'[c] = seen
          /\ fetch'[c] = Refreshed(c, {}) /\ full' = full
          /\ Log' = Log /\ pipe' = pipe /\ cursor' = cursor /\ waiting' = waiting
          /\ kinds' = kinds
      BY <1>1 DEF IInv, Types, server, streams, Current, Log
    <2>2. first < Log.next
      BY <1>5, LogFacts DEF Numbered, IInv, Types, first
    <2>3. Behind(c)'
      BY <1>5, <2>1, <2>2 DEF Served, Behind
    <2>4. Quiet(c)' /\ Known(c)'
      BY <1>1, <1>5, <2>1 DEF Served, Quiet, Known
    <2>5. fetch[c] = {} /\ ~full[c]
      BY <1>1, <1>5 DEF Served, Asked
    <2>6. \A e \in Log.events : e.id \in DOMAIN kinds /\ e.id <= Len(kinds)
      BY <1>5 DEF Numbered, IInv, Types
    <2>7. Asked(c)'
      BY <1>3, <2>1, <2>2, <2>5, <2>6 DEF Asked
    <2>8. \A e \in Log.events : e.seq <= first => OnPage(c, e)'
      BY <2>1, <2>5, <2>6 DEF OnPage, Unfetched, Notes
    <2>9. Read(c)'
      BY <2>1, <2>8 DEF Read
    <2>10. Carried(c)' /\ Sent(c)'
      BY <2>1 DEF Carried, Sent
    <2> QED
      BY <2>3, <2>4, <2>7, <2>9, <2>10 DEF Served
  <1> QED
    BY <1>1, <1>4, <1>5, ClientStep DEF streams

LEMMA OpenStep ==
  ASSUME IInv, NEW c \in Clients, Open(c)
  PROVE  IInv'
  <1>1. /\ conn[c] = "closed" /\ conn' = [conn EXCEPT ![c] = "open"]
        /\ cursor' = [cursor EXCEPT ![c] = lastSeq[c]]
        /\ fetch' = [fetch EXCEPT ![c] = Refreshed(c, got[c])]
        /\ UNCHANGED <<server, waiting, pipe, lastSeq, start, got, full>>
    BY DEF Open
  <1>2. got[c] \in SUBSET Nat /\ Refreshed(c, got[c]) \subseteq Request
    BY RefreshedFacts DEF IInv, Types
  <1>3. Types'
    BY <1>1, <1>2 DEF IInv, Types, server
  <1>4. ASSUME Current = 1, Numbered, Served(c)
        PROVE  Served(c)'
    <2>1. /\ conn'[c] = "open" /\ lastSeq' = lastSeq /\ got' = got /\ Log' = Log
          /\ pipe' = pipe /\ cursor'[c] = lastSeq[c] /\ waiting' = waiting /\ pipe[c] = <<>>
          /\ fetch'[c] = Refreshed(c, got[c]) /\ start' = start /\ full' = full /\ kinds' = kinds
      BY <1>1, <1>4 DEF IInv, Types, server, Current, Log, Served, Quiet
    <2>2. Behind(c)' /\ Quiet(c)' /\ Known(c)'
      BY <1>4, <2>1 DEF Served, Behind, Quiet, Known
    <2>3. Asked(c)'
      BY <1>1, <1>2, <1>4, <2>1, RefreshAsks DEF Served
    <2>4. \A e \in Log.events : e.seq <= lastSeq[c] => OnPage(c, e)'
      BY <1>1, <1>4, <2>1 DEF Served, Read, OnPage, Unfetched
    <2>5. Read(c)' /\ Sent(c)'
      BY <2>1, <2>4 DEF Read, Sent
    <2>6. Carried(c)'
      BY <2>1 DEF Carried
    <2> QED
      BY <2>2, <2>3, <2>5, <2>6 DEF Served
  <1> QED
    BY <1>1, <1>3, <1>4, ClientStep

LEMMA DropStep ==
  ASSUME IInv, NEW c \in Clients, Drop(c)
  PROVE  IInv'
  <1>1. /\ conn[c] = "open" /\ conn' = [conn EXCEPT ![c] = "closed"]
        /\ waiting' = [waiting EXCEPT ![c] = 0] /\ pipe' = [pipe EXCEPT ![c] = <<>>]
        /\ UNCHANGED <<server, cursor, browser>>
    BY DEF Drop
  <1>2. Len(logs) \in Nat /\ <<>> \in Seq(Frame)
    BY LogFacts DEF IInv, Current
  <1>3. Types'
    BY <1>1, <1>2 DEF IInv, Types, server, browser, chat
  <1>4. ASSUME Current = 1, Numbered, Served(c)
        PROVE  Served(c)'
    <2>1. /\ conn'[c] = "closed" /\ lastSeq' = lastSeq /\ got' = got /\ kinds' = kinds
          /\ Log' = Log /\ pipe'[c] = <<>> /\ cursor' = cursor /\ waiting'[c] = 0
      BY <1>1 DEF IInv, Types, server, browser, Current, Log
    <2>2. /\ start' = start /\ fetch' = fetch /\ full' = full
          /\ \A e : OnPage(c, e)' <=> OnPage(c, e)
      BY <1>1, <2>1 DEF browser, chat, OnPage, Unfetched
    <2>3. Behind(c)' /\ Quiet(c)' /\ Known(c)'
      BY <1>4, <2>1 DEF Served, Behind, Quiet, Known
    <2>4. Asked(c)' /\ Read(c)'
      BY <1>1, <1>4, <2>1, <2>2 DEF Served, Asked, Read
    <2>5. Carried(c)' /\ Sent(c)'
      BY <2>1 DEF Carried, Sent
    <2> QED
      BY <2>3, <2>4, <2>5 DEF Served
  <1> QED
    BY <1>1, <1>3, <1>4, ClientStep DEF browser, chat

LEMMA PollChatStep ==
  ASSUME IInv, NEW c \in Clients, PollChat(c)
  PROVE  IInv'
  <1>1. /\ \E i \in got[c] : kinds[i] \in {"over", "note"}
        /\ fetch' = [fetch EXCEPT ![c] = Refreshed(c, got[c])]
        /\ UNCHANGED <<server, conn, streams, lastSeq, start, got, full>>
    BY DEF PollChat
  <1>2. got[c] \in SUBSET Nat /\ Refreshed(c, got[c]) \subseteq Request
    BY RefreshedFacts DEF IInv, Types
  <1>3. Types'
    BY <1>1, <1>2 DEF IInv, Types, server, streams
  <1>4. ASSUME Current = 1, Numbered, Served(c)
        PROVE  Served(c)'
    <2>1. /\ conn' = conn /\ lastSeq' = lastSeq /\ got' = got /\ kinds' = kinds
          /\ Log' = Log /\ pipe' = pipe /\ cursor' = cursor /\ waiting' = waiting
          /\ fetch'[c] = Refreshed(c, got[c]) /\ start' = start /\ full' = full
          /\ \A e : OnPage(c, e)' <=> OnPage(c, e)
      BY <1>1 DEF IInv, Types, server, streams, Current, Log, OnPage, Unfetched
    <2>2. Behind(c)' /\ Quiet(c)' /\ Known(c)' /\ Read(c)' /\ Carried(c)' /\ Sent(c)'
      BY <1>4, <2>1 DEF Served, Behind, Quiet, Known, Read, Carried, Sent
    <2>3. conn[c] # "unloaded"
      BY <1>1, <1>4 DEF Served, Asked
    <2>4. Asked(c)'
      BY <1>1, <1>2, <1>4, <2>1, <2>3, RefreshAsks DEF Served
    <2> QED
      BY <2>2, <2>4 DEF Served
  <1> QED
    BY <1>1, <1>3, <1>4, ClientStep DEF streams

\* The first answer has every note that the stream left to it.
LEMMA ChatArrivesStep ==
  ASSUME IInv, NEW c \in Clients, ChatArrives(c)
  PROVE  IInv'
  <1>0. PICK f \in fetch[c] : \E upto \in f.asked..Len(kinds) :
          /\ got' = [got EXCEPT ![c] = @ \cup {i \in Notes : i <= upto /\ \A j \in f.known : j < i}]
          /\ fetch' = [fetch EXCEPT ![c] = {}]
          /\ full' = [full EXCEPT ![c] = TRUE]
          /\ UNCHANGED <<server, conn, streams, lastSeq, start>>
    BY DEF ChatArrives
  <1>1. PICK upto \in f.asked..Len(kinds) :
          /\ got' = [got EXCEPT ![c] = @ \cup {i \in Notes : i <= upto /\ \A j \in f.known : j < i}]
          /\ fetch' = [fetch EXCEPT ![c] = {}]
          /\ full' = [full EXCEPT ![c] = TRUE]
          /\ UNCHANGED <<server, conn, streams, lastSeq, start>>
    BY <1>0
  <1> DEFINE seen == got[c] \cup {i \in Notes : i <= upto /\ \A j \in f.known : j < i}
  <1>2. f \in Request /\ f.asked \in Nat /\ upto \in Int /\ f.asked <= upto /\ Len(kinds) \in Nat
    BY <1>1 DEF IInv, Types, Request
  <1>3. Notes \subseteq DOMAIN kinds /\ DOMAIN kinds = 1..Len(kinds)
    BY DEF Notes, IInv, Types
  <1>4. got' = [got EXCEPT ![c] = seen] /\ got[c] \subseteq seen /\ seen \subseteq Nat
    BY <1>1, <1>3 DEF IInv, Types
  <1>5. \A i \in Notes : f.known = {} /\ i <= f.asked => i \in seen
    BY <1>2, <1>3
  <1>6. got[c] \subseteq DOMAIN kinds => seen \subseteq DOMAIN kinds
    BY <1>3
  <1> HIDE DEF seen
  <1>7. Types'
    BY <1>1, <1>4 DEF IInv, Types, server, streams
  <1>8. ASSUME Current = 1, Numbered, Served(c)
        PROVE  Served(c)'
    <2>1. /\ conn' = conn /\ lastSeq' = lastSeq /\ got'[c] = seen /\ kinds' = kinds
          /\ Log' = Log /\ pipe' = pipe /\ cursor' = cursor /\ waiting' = waiting
          /\ fetch'[c] = {} /\ start' = start /\ full'[c] = TRUE
      BY <1>1, <1>4 DEF IInv, Types, server, streams, Current, Log
    <2>2. conn[c] # "unloaded"
      BY <1>1, <1>8 DEF Served, Asked
    <2>3. Behind(c)' /\ Quiet(c)' /\ Known(c)'
      BY <1>4, <1>6, <1>8, <2>1 DEF Served, Behind, Quiet, Known
    <2>4. Asked(c)'
      BY <1>8, <2>1, <2>2 DEF Served, Asked
    <2>5. ASSUME NEW e \in Log.events, OnPage(c, e)
          PROVE  OnPage(c, e)'
      <3>1. CASE e.id \in got[c]
        BY <1>4, <2>1, <3>1 DEF OnPage
      <3>2. CASE Unfetched(c, e)
        <4>1. kinds[e.id] = "note" /\ e.seq <= start[c] /\ ~full[c] /\ e.id \in DOMAIN kinds
          BY <1>8, <3>2 DEF Unfetched, Numbered
        <4>2. e.id \in Notes /\ f.known = {} /\ e.id <= f.asked
          BY <1>8, <4>1 DEF Served, Asked, Notes
        <4> QED
          BY <1>5, <2>1, <4>2 DEF OnPage
      <3> QED
        BY <2>5, <3>1, <3>2 DEF OnPage
    <2>6. Read(c)' /\ Carried(c)' /\ Sent(c)'
      BY <1>8, <2>1, <2>5 DEF Served, Read, Carried, Sent
    <2> QED
      BY <2>3, <2>4, <2>6 DEF Served
  <1>9. \A d \in Clients : d # c =>
          /\ conn'[d] = conn[d] /\ cursor'[d] = cursor[d] /\ pipe'[d] = pipe[d]
          /\ lastSeq'[d] = lastSeq[d] /\ got'[d] = got[d] /\ waiting'[d] = waiting[d]
          /\ start'[d] = start[d] /\ fetch'[d] = fetch[d] /\ full'[d] = full[d]
    BY <1>1, <1>4 DEF streams
  <1>10. UNCHANGED server
    BY <1>1
  <1> QED
    BY <1>7, <1>8, <1>9, <1>10, ClientStep

LEMMA ChatFailsStep ==
  ASSUME IInv, NEW c \in Clients, ChatFails(c)
  PROVE  IInv'
  <1>1. /\ fetch[c] # {} /\ fetch' = [fetch EXCEPT ![c] = {}]
        /\ UNCHANGED <<server, conn, streams, lastSeq, start, got, full>>
    BY DEF ChatFails
  <1>2. Types'
    BY <1>1 DEF IInv, Types, server, streams
  <1>3. ASSUME Current = 1, Numbered, Served(c)
        PROVE  Served(c)'
    <2>1. /\ conn' = conn /\ lastSeq' = lastSeq /\ got' = got /\ kinds' = kinds
          /\ Log' = Log /\ pipe' = pipe /\ cursor' = cursor /\ waiting' = waiting
          /\ fetch'[c] = {} /\ start' = start /\ full' = full
          /\ \A e : OnPage(c, e)' <=> OnPage(c, e)
      BY <1>1 DEF IInv, Types, server, streams, Current, Log, OnPage, Unfetched
    <2> QED
      BY <1>3, <2>1 DEF Served, Behind, Quiet, Known, Asked, Read, Carried, Sent
  <1> QED
    BY <1>1, <1>2, <1>3, ClientStep DEF streams

LEMMA TailFrames ==
  ASSUME NEW q \in Seq(Frame), q # <<>>
  PROVE  /\ Head(q) = q[1] /\ q[1] \in Frame /\ 1 \in DOMAIN q
         /\ Tail(q) \in Seq(Frame)
         /\ \A k \in DOMAIN Tail(q) : k \in Nat /\ k + 1 \in DOMAIN q /\ Tail(q)[k] = q[k + 1]
         /\ \A j \in DOMAIN q : j = 1 \/ (j - 1 \in DOMAIN Tail(q) /\ Tail(q)[j - 1] = q[j])
         /\ \A j \in DOMAIN q : j \in Nat
  <1>1. Len(q) \in Nat \ {0} /\ DOMAIN q = 1..Len(q)
    OBVIOUS
  <1>2. Tail(q) \in Seq(Frame) /\ Len(Tail(q)) = Len(q) - 1
    OBVIOUS
  <1>3. DOMAIN Tail(q) = 1..(Len(q) - 1)
    BY <1>2
  <1>4. \A k \in 1..(Len(q) - 1) : Tail(q)[k] = q[k + 1]
    BY <1>1
  <1> QED
    BY <1>1, <1>2, <1>3, <1>4

\* The first frame has been read: what it carried is on the page.
LEMMA FrameRead ==
  ASSUME IInv, NEW c \in Clients, pipe[c] # <<>>, Current = 1, Served(c),
         NEW seen, got[c] \subseteq seen,
         seen \subseteq DOMAIN kinds,
         \A e \in Head(pipe[c]).events : e.id \in seen,
         got'[c] = seen, pipe'[c] = Tail(pipe[c]),
         UNCHANGED <<server, conn, cursor, waiting, start, full>>
  PROVE  /\ Quiet(c)' /\ Known(c)' /\ Carried(c)' /\ Sent(c)' /\ conn[c] = "open"
         /\ Head(pipe[c]).frame = "updates" =>
              \A e \in Log.events : e.seq <= Head(pipe[c]).last => OnPage(c, e)'
  <1> DEFINE q == pipe[c]
  <1>1. q \in Seq(Frame) /\ q # <<>>
    BY DEF IInv, Types
  <1>2. /\ Head(q) = q[1] /\ 1 \in DOMAIN q
        /\ \A k \in DOMAIN Tail(q) : k \in Nat /\ k + 1 \in DOMAIN q /\ Tail(q)[k] = q[k + 1]
        /\ \A j \in DOMAIN q : j = 1 \/ (j - 1 \in DOMAIN Tail(q) /\ Tail(q)[j - 1] = q[j])
        /\ \A j \in DOMAIN q : j \in Nat
    BY <1>1, TailFrames
  <1>3. conn[c] = "open"
    BY DEF Served, Quiet
  <1>4. Log' = Log
    BY DEF server, Log, Current
  <1>11. \A e : OnPage(c, e) => OnPage(c, e)'
    BY DEF OnPage, Unfetched, server
  <1>12. \A e \in q[1].events : OnPage(c, e)'
    BY <1>2 DEF OnPage
  <1>5. ASSUME NEW e, OnPage(c, e) \/ \E j \in DOMAIN q : e \in q[j].events
        PROVE  OnPage(c, e)' \/ \E j \in DOMAIN Tail(q) : e \in Tail(q)[j].events
    BY <1>2, <1>5, <1>11, <1>12
  <1>6. Sent(c)'
    BY <1>3, <1>4, <1>5 DEF Served, Sent
  <1>7. Quiet(c)' /\ Known(c)'
    BY <1>2, <1>3 DEF Served, Quiet, Known, server
  <1>8. ASSUME NEW k \in DOMAIN q, q[k].frame = "updates",
               NEW e \in Log.events, e.seq <= q[k].last
        PROVE  \/ OnPage(c, e)'
               \/ k # 1 /\ \E j \in DOMAIN Tail(q) : j <= k - 1 /\ e \in Tail(q)[j].events
    <2>1. OnPage(c, e) \/ \E j \in DOMAIN q : j <= k /\ e \in q[j].events
      BY <1>3, <1>8 DEF Served, Carried
    <2>2. CASE OnPage(c, e)
      BY <1>11, <2>2
    <2>3. ASSUME NEW j \in DOMAIN q, j <= k, e \in q[j].events
          PROVE  \/ OnPage(c, e)'
                 \/ k # 1 /\ \E i \in DOMAIN Tail(q) : i <= k - 1 /\ e \in Tail(q)[i].events
      <3>1. CASE j = 1
        BY <1>12, <2>3, <3>1
      <3>2. CASE j # 1
        <4>1. j - 1 \in DOMAIN Tail(q) /\ e \in Tail(q)[j - 1].events /\ j \in Nat /\ k \in Nat
          BY <1>2, <2>3, <3>2
        <4>2. j \in DOMAIN q /\ j >= 1
          BY <1>1
        <4>3. j - 1 <= k - 1 /\ k # 1
          BY <2>3, <3>2, <4>1, <4>2
        <4> QED
          BY <4>1, <4>3
      <3> QED
        BY <3>1, <3>2
    <2> QED
      BY <2>1, <2>2, <2>3
  <1>9. Carried(c)'
    <2> SUFFICES ASSUME NEW k \in DOMAIN Tail(q), Tail(q)[k].frame = "updates",
                        NEW e \in Log.events, e.seq <= Tail(q)[k].last
                 PROVE  OnPage(c, e)' \/ \E j \in DOMAIN Tail(q) : j <= k /\ e \in Tail(q)[j].events
      BY <1>4 DEF Carried
    <2>1. k \in Nat /\ k + 1 \in DOMAIN q /\ Tail(q)[k] = q[k + 1] /\ (k + 1) - 1 = k
      BY <1>2
    <2> QED
      BY <1>8, <2>1
  <1>10. Head(q).frame = "updates" => \A e \in Log.events : e.seq <= Head(q).last => OnPage(c, e)'
    BY <1>2, <1>8
  <1> QED
    BY <1>3, <1>6, <1>7, <1>9, <1>10

LEMMA ReadUpdatesStep ==
  ASSUME IInv, NEW c \in Clients, ReadUpdates(c)
  PROVE  IInv'
  <1> DEFINE f    == Head(pipe[c])
             seen == got[c] \cup {e.id : e \in f.events}
             asks == IF f.last < lastSeq[c] THEN Refreshed(c, seen) ELSE fetch[c]
  <1>1. /\ pipe[c] # <<>> /\ f.frame = "updates"
        /\ pipe' = [pipe EXCEPT ![c] = Tail(@)]
        /\ lastSeq' = [lastSeq EXCEPT ![c] = f.last]
        /\ got' = [got EXCEPT ![c] = seen]
        /\ fetch' = [fetch EXCEPT ![c] = asks]
        /\ UNCHANGED <<server, conn, waiting, cursor, start, full>>
    BY DEF ReadUpdates
  <1>2. /\ pipe[c] \in Seq(Frame) /\ Tail(pipe[c]) \in Seq(Frame) /\ f \in Frame
        /\ f = pipe[c][1] /\ 1 \in DOMAIN pipe[c]
        /\ \A k \in DOMAIN Tail(pipe[c]) : k + 1 \in DOMAIN pipe[c] /\ Tail(pipe[c])[k] = pipe[c][k + 1]
    BY <1>1, TailFrames DEF IInv, Types
  <1> HIDE DEF f
  <1>3. f.last \in Int /\ f.events \subseteq Entry /\ \A e \in f.events : e.id \in Nat
    BY <1>2 DEF Frame, Entry
  <1>4. seen \in SUBSET Nat /\ got[c] \subseteq seen /\ \A e \in f.events : e.id \in seen
    BY <1>3 DEF IInv, Types
  <1>5. ASSUME Known(c)
        PROVE  seen \subseteq DOMAIN kinds
    BY <1>2, <1>5 DEF Known
  <1> HIDE DEF seen
  <1>6. asks \subseteq Request
    BY <1>4, RefreshedFacts DEF IInv, Types
  <1> HIDE DEF asks
  <1>7. Types'
    BY <1>1, <1>2, <1>3, <1>4, <1>6 DEF IInv, Types, server
  <1>8. ASSUME Current = 1, Numbered, Served(c)
        PROVE  Served(c)'
    <2>1. /\ conn' = conn /\ lastSeq'[c] = f.last /\ got'[c] = seen /\ kinds' = kinds
          /\ Log' = Log /\ pipe'[c] = Tail(pipe[c]) /\ cursor' = cursor
          /\ fetch'[c] = asks /\ start' = start /\ full' = full
      BY <1>1 DEF IInv, Types, server, Current, Log
    <2>2. seen \subseteq DOMAIN kinds
      BY <1>5, <1>8 DEF Served
    <2>3. /\ Quiet(c)' /\ Known(c)' /\ Carried(c)' /\ Sent(c)' /\ conn[c] = "open"
          /\ \A e \in Log.events : e.seq <= f.last => OnPage(c, e)'
      BY <1>1, <1>4, <1>8, <2>1, <2>2, FrameRead DEF f
    <2>4. Behind(c)'
      BY <1>1, <1>2, <1>8, <2>1 DEF Served, Behind
    <2>5. Read(c)'
      BY <2>1, <2>3 DEF Read
    <2>6. Asked(c)'
      <3>1. CASE asks = fetch[c]
        BY <1>8, <2>1, <2>3, <3>1 DEF Served, Asked
      <3>2. CASE asks = Refreshed(c, seen)
        <4>1. /\ conn'[c] # "unloaded" /\ full'[c] = full[c] /\ start'[c] = start[c]
              /\ fetch'[c] = Refreshed(c, seen) /\ seen \in SUBSET Nat /\ UNCHANGED server
          BY <1>1, <1>4, <2>1, <2>3, <3>2
        <4>2. Asked(c)
          BY <1>8 DEF Served
        <4> QED
          BY <1>8, <4>1, <4>2, RefreshAsks
      <3> QED
        BY <3>1, <3>2 DEF asks
    <2> QED
      BY <2>3, <2>4, <2>5, <2>6 DEF Served
  <1> QED
    BY <1>1, <1>7, <1>8, ClientStep

LEMMA ReadCursorStep ==
  ASSUME IInv, NEW c \in Clients, ReadCursor(c)
  PROVE  IInv'
  <1>1. /\ pipe[c] # <<>> /\ Head(pipe[c]).frame = "cursor"
        /\ pipe' = [pipe EXCEPT ![c] = Tail(@)]
        /\ UNCHANGED <<server, conn, waiting, cursor, browser>>
    BY DEF ReadCursor
  <1>2. /\ pipe[c] \in Seq(Frame) /\ Tail(pipe[c]) \in Seq(Frame)
        /\ Head(pipe[c]) = pipe[c][1] /\ 1 \in DOMAIN pipe[c]
        /\ \A k \in DOMAIN Tail(pipe[c]) : k + 1 \in DOMAIN pipe[c] /\ Tail(pipe[c])[k] = pipe[c][k + 1]
    BY <1>1, TailFrames DEF IInv, Types
  <1>3. Types'
    BY <1>1, <1>2 DEF IInv, Types, server, browser, chat
  <1>4. ASSUME Current = 1, Numbered, Served(c)
        PROVE  Served(c)'
    <2>1. Head(pipe[c]).events = {}
      BY <1>1, <1>2, <1>4 DEF Served, Quiet
    <2>2. /\ conn' = conn /\ lastSeq' = lastSeq /\ got' = got /\ kinds' = kinds
          /\ Log' = Log /\ pipe'[c] = Tail(pipe[c]) /\ cursor' = cursor
          /\ start' = start /\ fetch' = fetch /\ full' = full
          /\ \A e : OnPage(c, e)' <=> OnPage(c, e)
      BY <1>1 DEF IInv, Types, server, browser, chat, Current, Log, OnPage, Unfetched
    <2>3. Quiet(c)' /\ Known(c)' /\ Carried(c)' /\ Sent(c)'
      BY <1>1, <1>4, <2>1, <2>2, FrameRead DEF Served, Known
    <2>4. Behind(c)'
      BY <1>2, <1>4, <2>2 DEF Served, Behind
    <2>5. Asked(c)' /\ Read(c)'
      BY <1>4, <2>2 DEF Served, Asked, Read
    <2> QED
      BY <2>3, <2>4, <2>5 DEF Served
  <1> QED
    BY <1>1, <1>3, <1>4, ClientStep DEF browser, chat

-----------------------------------------------------------------------------
(* The theorem.                                                            *)

LEMMA InitIInv ==
  ASSUME Init
  PROVE  IInv
  <1>1. EmptyLog(1) \in LogType /\ EmptyLog(1).events = {} /\ EmptyLog(1).next = 1
    BY DEF EmptyLog, LogType
  <1> DEFINE log == EmptyLog(1)
  <1>2. logs = <<log>>
    BY DEF Init
  <1> HIDE DEF log
  <1>3. logs \in Seq(LogType) /\ Len(logs) = 1 /\ logs # <<>> /\ logs[1] = log
    BY <1>1, <1>2 DEF log
  <1>4. <<>> \in Seq(Frame) /\ DOMAIN <<>> = {} /\ kinds \in Seq({"play", "over", "note"})
    BY DEF Init
  <1>5. Types
    BY <1>3, <1>4 DEF Init, Types
  <1>6. Log = log /\ log.events = {} /\ log.next = 1
    BY <1>1, <1>3 DEF Log, Current, log
  <1>7. Numbered
    BY <1>6 DEF Numbered, Init
  <1>8. ASSUME NEW c \in Clients
        PROVE  Served(c)
    <2>1. /\ conn[c] = "unloaded" /\ pipe[c] = <<>> /\ got[c] = {} /\ waiting[c] = 0
          /\ lastSeq[c] = -1 /\ cursor[c] = -1
          /\ start[c] = -1 /\ fetch[c] = {} /\ full[c] = FALSE
      BY DEF Init
    <2> QED
      BY <1>4, <1>6, <2>1 DEF Served, Behind, Quiet, Known, Asked, Read, Carried, Sent
  <1> QED
    BY <1>5, <1>7, <1>8 DEF IInv

LEMMA NextIInv ==
  ASSUME IInv, [Next]_vars
  PROVE  IInv'
  <1>1. CASE \E ends \in BOOLEAN : Play(ends)
    BY <1>1, PlayStep
  <1>2. CASE GameOver
    BY <1>2, GameOverStep
  <1>3. CASE \E n \in 1..2 : Chat(n)
    BY <1>3, ChatStep
  <1>4. CASE Evict
    BY <1>4, EvictStep
  <1>5. CASE Restart
    BY <1>5, RestartStep
  <1>6. CASE \E c \in Clients : Serve(c) \/ Browse(c) \/ Fetch(c) \/ Load(c) \/ Open(c) \/ Drop(c)
    <2>1. PICK c \in Clients :
            Serve(c) \/ Browse(c) \/ Fetch(c) \/ Load(c) \/ Open(c) \/ Drop(c)
      BY <1>6
    <2>2. CASE Serve(c)
      BY <2>2, PollStep, WakeStep, TimeoutStep DEF Serve
    <2>3. CASE Browse(c)
      BY <2>3, ReadUpdatesStep, ReadCursorStep DEF Browse
    <2>4. CASE Fetch(c)
      BY <2>4, PollChatStep, ChatArrivesStep, ChatFailsStep DEF Fetch
    <2> QED
      BY <2>1, <2>2, <2>3, <2>4, LoadStep, OpenStep, DropStep
  <1>7. CASE UNCHANGED vars
    <2>1. UNCHANGED <<kinds, logs, streamSeq, conn, waiting, cursor, pipe, lastSeq, start, got,
                    fetch, full>>
      BY <1>7 DEF vars, server, streams, browser, chat
    <2>2. Types' /\ Current' = Current /\ Log' = Log
      BY <2>1 DEF IInv, Types, Current, Log
    <2>3. Numbered => Numbered'
      BY <2>1, <2>2 DEF Numbered
    <2>4. \A c \in Clients : Served(c) => Served(c)'
      BY <2>1, <2>2 DEF Served, Behind, Quiet, Known, Asked, Read, Carried, Sent, OnPage, Unfetched
    <2> QED
      BY <2>2, <2>3, <2>4 DEF IInv
  <1> QED
    BY <1>1, <1>2, <1>3, <1>4, <1>5, <1>6, <1>7 DEF Next

\* While a session is not replaced, what a connected client counts as read is on
\* its page, and what its loop counts as sent is there or on its way, however
\* connections break and frames are lost with them, and whichever fetches of the
\* chat fail or come late; but for the notes the stream leaves to the first fetch.
THEOREM NothingGoesMissing == Spec => []NothingIsMissing
  <1>1. Init => IInv
    BY InitIInv
  <1>2. IInv /\ [Next]_vars => IInv'
    BY NextIInv
  <1>3. IInv => NothingIsMissing
    BY DEF IInv, NothingIsMissing, ReadIsHandedOver, SentIsOnItsWay, Served, Read, Sent
  <1> QED
    BY <1>1, <1>2, <1>3, PTL DEF Spec
=============================================================================
