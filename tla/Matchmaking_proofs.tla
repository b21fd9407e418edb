------------------------- MODULE Matchmaking_proofs -------------------------
(***************************************************************************)
(* Proofs about Matchmaking, for any finite set of users and any bounds:   *)
(* rows, memory and games agree, and an invite makes one match.            *)
(***************************************************************************)
EXTENDS Matchmaking, FiniteSetTheorems, SequenceTheorems, TLAPS

Answers == [match : Ids, opponent : Users \cup {"nobody"}]
Rows    == [status : {"none", "waiting", "matched"}, match : Ids]
Games   == [status : {"none", "ready", "active", "finished"}, players : SUBSET Users,
            board : BOOLEAN]
Invites == [by : Users, status : {"pending", "accepted", "expired"}, match : Ids]
Requests ==
  [at : {"idle", "checked", "queued", "paired", "cancelling", "starting", "committing"},
   match : Ids, opponent : Users \cup {"nobody"}]
Polls   == [at : {"idle", "asked", "waiting", "matched"}, match : Ids]

NoTwice(s) == \A i, j \in DOMAIN s : s[i] = s[j] => i = j

-----------------------------------------------------------------------------
(* The strengthening.                                                      *)

\* Whoever may still draw an id finds one.
Room == drawn + Cardinality(Asking) <= MaxMatches

\* A game that is there has its players, and only one that failed is gone.
PlayersKnown ==
  \A m \in Matches :
    /\ games[m].status # "none" => games[m].players # {}
    /\ games[m].players # {} => games[m].status # "none" \/ m \in failed

\* Nothing names an id that has not been drawn.
OnlyDrawn ==
  /\ \A u \in Users : matched[u].match <= drawn /\ request[u].match <= drawn
  /\ \A m \in Matches : games[m].players # {} => m <= drawn

\* A match is of two users.
TwoPlayers ==
  \A m \in Matches : games[m].players # {} =>
    \E a, b \in Users : a # b /\ games[m].players = {a, b}

\* A pair that waits to be provisioned is the only one of its match, which has had
\* no game yet, and the memory sends nobody else there.
PairInHand ==
  \A u \in Users : request[u].at = "paired" =>
    /\ request[u].match \in Matches /\ games[request[u].match].players = {}
    /\ request[u].opponent \in Users /\ request[u].opponent # u
    /\ \A w \in Users : (request[w].at = "paired" /\ request[w].match = request[u].match) => w = u
    /\ \A w \in Users : matched[w].match = request[u].match =>
         \/ w = u /\ matched[w].opponent = request[u].opponent
         \/ w = request[u].opponent /\ matched[w].opponent = u

\* A start and a poll that have read a game know one that was there.
ReadsMatchGames ==
  \A u \in Users :
    /\ request[u].at \in {"starting", "committing"} =>
         request[u].match \in Matches /\ games[request[u].match].players # {}
    /\ poll[u].at = "matched" =>
         /\ poll[u].match \in Matches /\ games[poll[u].match].players # {}
         /\ u \in games[poll[u].match].players

\* The memory's answer to a user is the user's game, once there is one.
AnswersMatchGames ==
  \A u \in Users :
    /\ matched[u].match # 0 => matched[u].opponent \in Users
    /\ (matched[u].match \in Matches /\ games[matched[u].match].players # {}) =>
         games[matched[u].match].players = {u, matched[u].opponent}

IInv == /\ TypeOK /\ Room /\ PlayersKnown /\ OnlyDrawn /\ TwoPlayers /\ PairInHand /\ ReadsMatchGames
        /\ AnswersMatchGames /\ RowsMatchGames /\ SentToAGame

-----------------------------------------------------------------------------
(* Types.                                                                  *)

\* TypeOK with names for its sets.
Typed ==
  /\ waiting \in Seq(Users) /\ NoTwice(waiting)
  /\ matched \in [Users -> Answers] /\ rows \in [Users -> Rows]
  /\ games \in [Matches -> Games]
  /\ invites \in Seq(Invites) /\ Len(invites) <= MaxInvites
  /\ drawn \in Ids
  /\ request \in [Users -> Requests] /\ poll \in [Users -> Polls]
  /\ failed \in SUBSET Matches
  /\ cancels \in 0..MaxCancels /\ restarts \in 0..MaxRestarts

LEMMA TypedIsTypeOK == TypeOK <=> Typed
  BY DEF TypeOK, Typed, NoTwice, Answers, Rows, Games, Invites, Requests, Polls

LEMMA TypeInit == Init => TypeOK
  <1> SUFFICES ASSUME Init PROVE TypeOK
    OBVIOUS
  <1>1. waiting \in Seq(Users) /\ NoTwice(waiting)
    BY DEF Init, NoTwice
  <1>2. 0 \in Ids
    BY BoundsAssumption DEF Ids
  <1>3. /\ matched \in [Users -> Answers] /\ rows \in [Users -> Rows]
        /\ request \in [Users -> Requests] /\ poll \in [Users -> Polls]
    BY <1>2 DEF Init, Answers, Rows, Requests, Polls, Unmatched, Idle, NoPoll
  <1>4. games \in [Matches -> Games]
    BY DEF Init, Games
  <1>5. invites \in Seq(Invites) /\ Len(invites) <= MaxInvites
    BY BoundsAssumption DEF Init
  <1>6. drawn \in Ids
        /\ failed \in SUBSET Matches /\ cancels \in 0..MaxCancels /\ restarts \in 0..MaxRestarts
    BY <1>2, BoundsAssumption DEF Init
  <1> QED
    BY <1>1, <1>3, <1>4, <1>5, <1>6, TypedIsTypeOK DEF Typed

\* The queue after a user has come or gone.
LEMMA QueueFacts ==
  ASSUME TypeOK, NEW u \in Users
  PROVE  /\ Queued(u) \in Seq(Users) /\ NoTwice(Queued(u))
         /\ Without(u) \in Seq(Users) /\ NoTwice(Without(u))
  <1>1. waiting \in Seq(Users) /\ NoTwice(waiting)
    BY DEF TypeOK, NoTwice
  <1>2. Queued(u) \in Seq(Users) /\ NoTwice(Queued(u))
    <2>1. CASE u \in Waiting
      BY <1>1, <2>1 DEF Queued
    <2>2. CASE u \notin Waiting
      <3>1. \A i \in DOMAIN waiting : waiting[i] # u
        BY <2>2 DEF Waiting
      <3>2. Append(waiting, u) \in Seq(Users) /\ NoTwice(Append(waiting, u))
        BY <1>1, <3>1 DEF NoTwice
      <3> QED
        BY <2>2, <3>2 DEF Queued
    <2> QED
      BY <2>1, <2>2
  <1>3. Without(u) \in Seq(Users) /\ NoTwice(Without(u))
    <2>1. CASE u \notin Waiting
      BY <1>1, <2>1 DEF Without
    <2>2. CASE u \in Waiting
      <3> DEFINE n == Len(waiting)
                 p == Place(u)
                 front == SubSeq(waiting, 1, p - 1)
                 back == SubSeq(waiting, p + 1, n)
      <3>1. p \in 1..n /\ n \in Nat
        BY <1>1, <2>2 DEF Place, Waiting
      <3>2. front \in Seq(Users) /\ Len(front) = p - 1
            /\ \A i \in 1..(p - 1) : front[i] = waiting[i]
        <4>1. \A i \in 1..(p - 1) : waiting[i] \in Users
          BY <1>1, <3>1
        <4> HIDE DEF p
        <4> QED
          BY <3>1, <4>1, SubSeqProperties
      <3>3. back \in Seq(Users) /\ Len(back) = n - p
            /\ \A i \in 1..(n - p) : back[i] = waiting[p + i]
        <4>1. \A i \in (p + 1)..n : waiting[i] \in Users
          BY <1>1, <3>1
        <4> HIDE DEF p, n
        <4>2. /\ back \in Seq(Users)
              /\ Len(back) = IF p + 1 <= n THEN n - (p + 1) + 1 ELSE 0
              /\ \A i \in 1..(n - (p + 1) + 1) : back[i] = waiting[(p + 1) + i - 1]
          BY <3>1, <4>1, SubSeqProperties
        <4> QED
          BY <3>1, <4>2
      <3>4. Without(u) = front \o back
        BY <2>2 DEF Without, RemoveAt
      <3> HIDE DEF p, n, front, back
      <3>5. /\ Without(u) \in Seq(Users)
            /\ Len(Without(u)) = n - 1
            /\ \A i \in 1..(n - 1) : Without(u)[i] = IF i <= p - 1 THEN waiting[i] ELSE waiting[i + 1]
        <4>1. /\ front \o back \in Seq(Users)
              /\ Len(front \o back) = (p - 1) + (n - p)
              /\ \A i \in 1..((p - 1) + (n - p)) :
                   (front \o back)[i] = IF i <= p - 1 THEN front[i] ELSE back[i - (p - 1)]
          BY <3>2, <3>3, ConcatProperties
        <4>2. (p - 1) + (n - p) = n - 1
          BY <3>1
        <4>3. Without(u) \in Seq(Users) /\ Len(Without(u)) = n - 1
          BY <3>4, <4>1, <4>2
        <4>4. ASSUME NEW i \in 1..(n - 1)
              PROVE  Without(u)[i] = IF i <= p - 1 THEN waiting[i] ELSE waiting[i + 1]
          <5>1. Without(u)[i] = IF i <= p - 1 THEN front[i] ELSE back[i - (p - 1)]
            BY <3>4, <4>1, <4>2
          <5>2. CASE i <= p - 1
            <6>1. i \in 1..(p - 1)
              BY <3>1, <5>2
            <6> QED
              BY <3>2, <5>1, <5>2, <6>1
          <5>3. CASE ~ (i <= p - 1)
            <6>1. i - (p - 1) \in 1..(n - p) /\ p + (i - (p - 1)) = i + 1
              BY <3>1, <5>3
            <6>2. back[i - (p - 1)] = waiting[i + 1]
              BY <3>3, <6>1
            <6> QED
              BY <5>1, <5>3, <6>2
          <5> QED
            BY <5>2, <5>3
        <4> QED
          BY <4>3, <4>4
      <3>6. DOMAIN Without(u) = 1..(n - 1)
        BY <3>5
      <3>7. DOMAIN waiting = 1..n
        BY <1>1 DEF n
      <3> DEFINE from(i) == IF i <= p - 1 THEN i ELSE i + 1
      <3>8. \A i \in 1..(n - 1) : from(i) \in 1..n /\ Without(u)[i] = waiting[from(i)]
        BY <3>1, <3>5
      <3>9. \A i, j \in 1..(n - 1) : i # j => from(i) # from(j)
        BY <3>1
      <3> HIDE DEF from
      <3>10. \A i, j \in 1..(n - 1) : i # j => Without(u)[i] # Without(u)[j]
        BY <1>1, <3>7, <3>8, <3>9 DEF NoTwice
      <3> QED
        BY <3>5, <3>6, <3>10 DEF NoTwice
    <2> QED
      BY <2>1, <2>2
  <1> QED
    BY <1>2, <1>3

\* A request that goes on, ends, or holds a match.
LEMMA RequestFacts ==
  ASSUME TypeOK, NEW u \in Users
  PROVE  /\ \A at \in {"checked", "queued", "cancelling", "committing"} :
              Goto(u, at) => request' \in [Users -> Requests]
         /\ Done(u) => request' \in [Users -> Requests]
         /\ \A at \in {"paired", "starting"}, m \in Ids, v \in Users \cup {"nobody"} :
              request' = [request EXCEPT ![u] = [at |-> at, match |-> m, opponent |-> v]]
                => request' \in [Users -> Requests]
  <1>1. request \in [Users -> Requests]
    BY DEF TypeOK, Requests
  <1>2. 0 \in Ids
    BY BoundsAssumption DEF Ids
  <1>3. \A at \in {"checked", "queued", "cancelling", "committing"} :
          [request[u] EXCEPT !.at = at] \in Requests
    BY <1>1 DEF Requests
  <1> QED
    BY <1>1, <1>2, <1>3 DEF Goto, Done, Idle, Requests

\* Whoever asks finds an id.
LEMMA RoomFacts ==
  ASSUME TypeOK, Room
  PROVE  /\ IsFiniteSet(Asking) /\ Cardinality(Asking) \in Nat
         /\ \A u \in Asking : drawn + 1 \in Ids /\ drawn + 1 \in Matches
  <1>1. IsFiniteSet(Asking) /\ Cardinality(Asking) \in Nat
    BY UsersAssumption, FS_Subset, FS_CardinalityType DEF Asking
  <1>2. ASSUME NEW u \in Asking PROVE Cardinality(Asking) >= 1
    BY <1>1, FS_EmptySet
  <1> QED
    BY <1>1, <1>2, BoundsAssumption DEF Room, TypeOK, Ids, Matches

LEMMA ProvisionedTypes ==
  ASSUME TypeOK, NEW m \in Matches, NEW u \in Users, NEW v \in Users, Provisioned(m, u, v)
  PROVE  games' \in [Matches -> Games] /\ rows' \in [Users -> Rows]
  <1>1. [status |-> "ready", players |-> {u, v}, board |-> FALSE] \in Games
    BY DEF Games
  <1>2. [status |-> "matched", match |-> m] \in Rows
    BY DEF Rows, Matches, Ids
  <1> QED
    BY <1>1, <1>2, TypedIsTypeOK DEF Provisioned, Typed

LEMMA DeletedTypes ==
  ASSUME TypeOK, NEW m \in Ids, Deleted(m)
  PROVE  /\ games' \in [Matches -> Games] /\ rows' \in [Users -> Rows]
         /\ invites' \in Seq(Invites) /\ Len(invites') <= MaxInvites
  <1>t. Typed /\ 0 \in Ids
    BY TypedIsTypeOK, BoundsAssumption DEF Ids
  <1>1. games' \in [Matches -> Games]
    BY <1>t DEF Deleted, Typed, Games
  <1>2. rows' \in [Users -> Rows]
    BY <1>t DEF Deleted, Typed, Rows
  <1>3. DOMAIN invites = 1..Len(invites) /\ Len(invites) \in Nat
    BY <1>t DEF Typed
  <1>4. \A i \in 1..Len(invites) : invites[i] \in Invites /\ [invites[i] EXCEPT !.match = 0] \in Invites
    <2>1. \A x \in Invites : [x EXCEPT !.match = 0] \in Invites
      BY <1>t DEF Invites
    <2> QED
      BY <1>t, <1>3, <2>1 DEF Typed
  <1>5. invites' \in [1..Len(invites) -> Invites]
    BY <1>3, <1>4 DEF Deleted
  <1>6. invites' \in Seq(Invites) /\ Len(invites') = Len(invites)
    BY <1>3, <1>5
  <1> QED
    BY <1>t, <1>1, <1>2, <1>6 DEF Typed

\* The opponent that a poll restores is the game's other player.
LEMMA RestoredOpponent ==
  ASSUME TypeOK, TwoPlayers, ReadsMatchGames, NEW u \in Users, poll[u].at = "matched"
  PROVE  LET v == CHOOSE v \in games[poll[u].match].players \ {u} : TRUE IN
         v \in Users /\ v # u /\ games[poll[u].match].players = {u, v}
  <1>1. PICK a, b \in Users : a # b /\ games[poll[u].match].players = {a, b}
    BY DEF TwoPlayers, ReadsMatchGames
  <1>2. u \in {a, b}
    BY <1>1 DEF ReadsMatchGames
  <1> QED
    BY <1>1, <1>2

LEMMA TypeStep ==
  ASSUME IInv, [Next]_vars
  PROVE  Typed'
  <1> USE DEF IInv
  <1>0. Typed
    BY TypedIsTypeOK
  <1> USE DEF Typed
  <1> USE DEF memory, stored, bounds
  <1>z. 0 \in Ids /\ Unmatched \in Answers /\ NoPoll \in Polls /\ Idle \in Requests
    BY BoundsAssumption DEF Ids, Unmatched, NoPoll, Idle, Answers, Polls, Requests
  <1>s. CASE UNCHANGED vars
    BY <1>0, <1>s, Zenon DEF vars
  <1>r. CASE Restart
    <2>1. waiting' \in Seq(Users) /\ NoTwice(waiting')
      BY <1>r DEF Restart, NoTwice
    <2>2. /\ matched' \in [Users -> Answers] /\ request' \in [Users -> Requests]
          /\ poll' \in [Users -> Polls]
      BY <1>r, <1>z DEF Restart
    <2>3. restarts' \in 0..MaxRestarts
      BY <1>0, <1>r, BoundsAssumption DEF Restart
    <2> QED
      BY <1>0, <1>r, <2>1, <2>2, <2>3, Zenon DEF Restart
  <1>g. ASSUME NEW m \in Matches, GameEnds(m) PROVE Typed'
    <2>1. games' \in [Matches -> Games]
      BY <1>0, <1>g DEF GameEnds, Games
    <2> QED
      BY <1>0, <1>g, <2>1, Zenon DEF GameEnds
  <1>1. ASSUME NEW u \in Users, Check(u) PROVE Typed'
    <2>1. request' \in [Users -> Requests]
      BY <1>1, RequestFacts DEF Check
    <2> QED
      BY <1>0, <1>1, <2>1, Zenon DEF Check
  <1>2. ASSUME NEW u \in Users, JoinRow(u) PROVE Typed'
    <2>1. request' \in [Users -> Requests]
      BY <1>2, RequestFacts DEF JoinRow
    <2>2. rows' \in [Users -> Rows]
      BY <1>0, <1>2, <1>z DEF JoinRow, Rows
    <2> QED
      BY <1>0, <1>2, <2>1, <2>2, Zenon DEF JoinRow
  <1>3. ASSUME NEW u \in Users, JoinQueue(u) PROVE Typed'
    <2>1. CASE Opponents(u) = {}
      <3>1. waiting' = Queued(u) /\ Done(u) /\ matched' = [matched EXCEPT ![u] = Unmatched]
            /\ UNCHANGED drawn
        BY <1>3, <2>1 DEF JoinQueue
      <3>2. waiting' \in Seq(Users) /\ NoTwice(waiting')
        BY <3>1, QueueFacts
      <3>3. request' \in [Users -> Requests]
        BY <3>1, RequestFacts
      <3>4. matched' \in [Users -> Answers]
        BY <1>0, <1>z, <3>1
      <3> QED
        BY <1>0, <1>3, <3>1, <3>2, <3>3, <3>4, Zenon DEF JoinQueue
    <2>2. ASSUME NEW v \in Opponents(u),
                 drawn' = drawn + 1,
                 waiting' = Without(v),
                 matched' = [matched EXCEPT ![u] = [match |-> drawn', opponent |-> v],
                                            ![v] = [match |-> drawn', opponent |-> u]],
                 request' = [request EXCEPT ![u] = [at |-> "paired", match |-> drawn', opponent |-> v]]
          PROVE  Typed'
      <3>1. v \in Users
        BY <1>0, <2>2 DEF Opponents, Waiting
      <3>2. waiting' \in Seq(Users) /\ NoTwice(waiting')
        BY <2>2, <3>1, QueueFacts
      <3>3. drawn' \in Ids
        <4>1. u \in Asking
          BY <1>3 DEF JoinQueue, Asking
        <4> QED
          BY <1>0, <2>2, <4>1, RoomFacts
      <3>4. request' \in [Users -> Requests]
        BY <2>2, <3>1, <3>3, RequestFacts
      <3>5. matched' \in [Users -> Answers]
        <4>1. [match |-> drawn', opponent |-> v] \in Answers
              /\ [match |-> drawn', opponent |-> u] \in Answers
          BY <3>1, <3>3 DEF Answers
        <4> QED
          BY <1>0, <2>2, <4>1
      <3> QED
        BY <1>0, <1>3, <3>2, <3>3, <3>4, <3>5, Zenon DEF JoinQueue
    <2> QED
      BY <1>3, <2>1, <2>2, Zenon DEF JoinQueue
  <1>4. ASSUME NEW u \in Users, Provision(u) PROVE Typed'
    <2>1. request[u].match \in Matches /\ request[u].opponent \in Users
      BY <1>4 DEF Provision, PairInHand
    <2>2. games' \in [Matches -> Games] /\ rows' \in [Users -> Rows]
      BY <1>0, <1>4, <2>1, ProvisionedTypes DEF Provision
    <2>3. request' \in [Users -> Requests]
      BY <1>4, RequestFacts DEF Provision
    <2> QED
      BY <1>0, <1>4, <2>2, <2>3, Zenon DEF Provision
  <1>5. ASSUME NEW u \in Users, ProvisionFails(u) PROVE Typed'
    <2>1. request' \in [Users -> Requests]
      BY <1>5, RequestFacts DEF ProvisionFails
    <2>2. failed' \in SUBSET Matches
      BY <1>0, <1>5 DEF ProvisionFails, Fails, PairInHand
    <2> QED
      BY <1>0, <1>5, <2>1, <2>2, Zenon DEF ProvisionFails
  <1>6. ASSUME NEW u \in Users, CancelQueue(u) PROVE Typed'
    <2>1. request' \in [Users -> Requests]
      BY <1>6, RequestFacts DEF CancelQueue
    <2>2. waiting' \in Seq(Users) /\ NoTwice(waiting')
      BY <1>6, QueueFacts DEF CancelQueue
    <2>3. cancels' \in 0..MaxCancels
      BY <1>0, <1>6, BoundsAssumption DEF CancelQueue
    <2>4. matched' \in [Users -> Answers]
      BY <1>0, <1>6, <1>z DEF CancelQueue
    <2> QED
      BY <1>0, <1>6, <2>1, <2>2, <2>3, <2>4, Zenon DEF CancelQueue
  <1>7. ASSUME NEW u \in Users, CancelRow(u) PROVE Typed'
    <2>1. request' \in [Users -> Requests]
      BY <1>7, RequestFacts DEF CancelRow
    <2>2. rows' \in [Users -> Rows]
      BY <1>0, <1>7, <1>z DEF CancelRow, Rows
    <2> QED
      BY <1>0, <1>7, <2>1, <2>2, Zenon DEF CancelRow
  <1>8. ASSUME NEW u \in Users, Poll(u) PROVE Typed'
    <2>1. poll' \in [Users -> Polls]
      BY <1>0, <1>8 DEF Poll, Polls
    <2> QED
      BY <1>0, <1>8, <2>1, Zenon DEF Poll
  <1>9. ASSUME NEW u \in Users, PollRow(u) PROVE Typed'
    <2>1. rows[u] \in Rows
      BY <1>0
    <2>2. PICK r \in {NoPoll, [at |-> "matched", match |-> rows[u].match],
                      [at |-> "waiting", match |-> 0]} : poll' = [poll EXCEPT ![u] = r]
      BY <1>9, <2>1 DEF PollRow, Rows
    <2>3. r \in Polls
      BY <1>z, <2>1, <2>2 DEF Polls, Rows
    <2>4. poll' \in [Users -> Polls]
      BY <1>0, <2>2, <2>3
    <2> QED
      BY <1>0, <1>9, <2>4, Zenon DEF PollRow
  <1>10. ASSUME NEW u \in Users, PollRestore(u) PROVE Typed'
    <2>1. poll' \in [Users -> Polls]
      BY <1>0, <1>10, <1>z DEF PollRestore
    <2>2. waiting' \in Seq(Users) /\ NoTwice(waiting')
      BY <1>0, <1>10, QueueFacts DEF PollRestore
    <2>3. matched' \in [Users -> Answers]
      <3>1. CASE UNCHANGED matched
        BY <1>0, <3>1
      <3>2. CASE poll[u].at = "matched" /\ matched[u] = Unmatched
        <4> DEFINE v == CHOOSE v \in games[poll[u].match].players \ {u} : TRUE
        <4>1. v \in Users
          BY <3>2, RestoredOpponent
        <4>2. matched' = [matched EXCEPT ![u] = [match |-> poll[u].match, opponent |-> v]]
          BY <1>10, <3>2, Zenon DEF PollRestore
        <4>3. poll[u].match \in Ids
          BY <1>0 DEF Polls
        <4> HIDE DEF v
        <4>4. [match |-> poll[u].match, opponent |-> v] \in Answers
          BY <4>1, <4>3 DEF Answers
        <4> QED
          BY <1>0, <4>2, <4>4
      <3> QED
        BY <1>10, <3>1, <3>2, Zenon DEF PollRestore
    <2> QED
      BY <1>0, <1>10, <2>1, <2>2, <2>3, Zenon DEF PollRestore
  <1>11. ASSUME NEW u \in Users, Prune(u) PROVE Typed'
    <2>1. matched' \in [Users -> Answers]
      BY <1>0, <1>11, <1>z DEF Prune
    <2> QED
      BY <1>0, <1>11, <2>1, Zenon DEF Prune
  <1>12. ASSUME NEW u \in Users, InviteCreate(u) PROVE Typed'
    <2>1. request' \in [Users -> Requests]
      BY <1>12, RequestFacts DEF InviteCreate
    <2>2. [by |-> u, status |-> "pending", match |-> 0] \in Invites
      BY <1>z DEF Invites
    <2>3. invites' \in Seq(Invites) /\ Len(invites') <= MaxInvites
      BY <1>0, <1>12, <2>2, BoundsAssumption DEF InviteCreate
    <2> QED
      BY <1>0, <1>12, <2>1, <2>3, Zenon DEF InviteCreate
  <1>13. ASSUME NEW u \in Users, InviteJoin(u) PROVE Typed'
    <2>1. request' \in [Users -> Requests]
      BY <1>13, RequestFacts DEF InviteJoin
    <2>2. PICK i \in DOMAIN invites :
            /\ request[u].at = "checked" /\ drawn' = drawn + 1
            /\ Provisioned(drawn', invites[i].by, u)
            /\ invites' = [invites EXCEPT ![i] = [@ EXCEPT !.status = "accepted", !.match = drawn']]
      BY <1>13 DEF InviteJoin
    <2>3. drawn' \in Ids /\ drawn' \in Matches
      <3>1. u \in Asking
        BY <2>2 DEF Asking
      <3> QED
        BY <1>0, <2>2, <3>1, RoomFacts
    <2>4. invites[i] \in Invites
      BY <1>0
    <2>5. games' \in [Matches -> Games] /\ rows' \in [Users -> Rows]
      BY <1>0, <2>2, <2>3, <2>4, ProvisionedTypes DEF Invites
    <2>6. [invites[i] EXCEPT !.status = "accepted", !.match = drawn'] \in Invites
      BY <2>3, <2>4 DEF Invites
    <2>7. invites' \in Seq(Invites) /\ Len(invites') <= MaxInvites
      BY <1>0, <2>2, <2>6
    <2> QED
      BY <1>0, <1>13, <2>1, <2>3, <2>5, <2>7, Zenon DEF InviteJoin
  <1>14. ASSUME NEW u \in Users, InviteExpires(u) PROVE Typed'
    <2>1. request' \in [Users -> Requests]
      BY <1>14, RequestFacts DEF InviteExpires
    <2>2. PICK i \in DOMAIN invites : invites' = [invites EXCEPT ![i].status = "expired"]
      BY <1>14 DEF InviteExpires
    <2>3. invites[i] \in Invites
      BY <1>0
    <2>4. [invites[i] EXCEPT !.status = "expired"] \in Invites
      BY <2>3 DEF Invites
    <2>5. invites' \in Seq(Invites) /\ Len(invites') <= MaxInvites
      BY <1>0, <2>2, <2>4
    <2> QED
      BY <1>0, <1>14, <2>1, <2>5, Zenon DEF InviteExpires
  <1>15. ASSUME NEW u \in Users, InviteRefused(u) PROVE Typed'
    <2>1. request' \in [Users -> Requests]
      BY <1>15, RequestFacts DEF InviteRefused
    <2> QED
      BY <1>0, <1>15, <2>1, Zenon DEF InviteRefused
  <1>16. ASSUME NEW u \in Users, StartRead(u) PROVE Typed'
    <2>1. PICK m \in Matches :
            request' = [request EXCEPT ![u] = [at |-> "starting", match |-> m, opponent |-> "nobody"]]
      BY <1>16 DEF StartRead
    <2>2. m \in Ids
      BY <2>1 DEF Matches, Ids
    <2>3. request' \in [Users -> Requests]
      BY <2>1, <2>2, RequestFacts
    <2> QED
      BY <1>0, <1>16, <2>3, Zenon DEF StartRead
  <1>17. ASSUME NEW u \in Users, StartGame(u) PROVE Typed'
    <2>1. request' \in [Users -> Requests]
      BY <1>17, RequestFacts DEF StartGame
    <2>2. games' \in [Matches -> Games]
      BY <1>0, <1>17 DEF StartGame, Games
    <2> QED
      BY <1>0, <1>17, <2>1, <2>2, Zenon DEF StartGame
  <1>18. ASSUME NEW u \in Users, StartCommits(u) PROVE Typed'
    <2>1. request' \in [Users -> Requests]
      BY <1>18, RequestFacts DEF StartCommits
    <2>2. games' \in [Matches -> Games]
      BY <1>0, <1>18 DEF StartCommits, Games
    <2> QED
      BY <1>0, <1>18, <2>1, <2>2, Zenon DEF StartCommits
  <1>19. ASSUME NEW u \in Users, StartFails(u) PROVE Typed'
    <2>1. request' \in [Users -> Requests]
      BY <1>19, RequestFacts DEF StartFails
    <2>2. failed' \in SUBSET Matches
      BY <1>0, <1>19 DEF StartFails, Fails, ReadsMatchGames
    <2>3. /\ games' \in [Matches -> Games] /\ rows' \in [Users -> Rows]
          /\ invites' \in Seq(Invites) /\ Len(invites') <= MaxInvites
      <3>1. request[u].match \in Ids
        BY <1>0 DEF Requests
      <3>2. CASE UNCHANGED stored
        BY <1>0, <3>2
      <3>3. CASE Deleted(request[u].match)
        BY <3>1, <3>3, DeletedTypes
      <3> QED
        BY <1>19, <3>2, <3>3 DEF StartFails
    <2> QED
      BY <1>0, <1>19, <2>1, <2>2, <2>3, Zenon DEF StartFails
  <1> QED
    BY <1>s, <1>r, <1>g, <1>1, <1>2, <1>3, <1>4, <1>5, <1>6, <1>7, <1>8, <1>9, <1>10, <1>11,
       <1>12, <1>13, <1>14, <1>15, <1>16, <1>17, <1>18, <1>19, Zenon DEF Next, Join, Start

-----------------------------------------------------------------------------
(* Rows, memory and games.                                                 *)

Agree == /\ PlayersKnown /\ OnlyDrawn /\ TwoPlayers /\ PairInHand /\ ReadsMatchGames
         /\ AnswersMatchGames /\ RowsMatchGames /\ SentToAGame

\* An id is drawn by one who could ask for it.
LEMMA RoomStays ==
  ASSUME TypeOK, Room, Asking' \subseteq Asking,
         drawn' = drawn \/ (drawn' = drawn + 1 /\ \E u \in Asking : u \notin Asking')
  PROVE  Room'
  <1>1. IsFiniteSet(Asking) /\ Cardinality(Asking) \in Nat
    BY RoomFacts
  <1>2. Cardinality(Asking') \in Nat /\ Cardinality(Asking') <= Cardinality(Asking)
    BY <1>1, FS_Subset, FS_CardinalityType
  <1>3. ASSUME NEW u \in Asking, u \notin Asking'
        PROVE  Cardinality(Asking') <= Cardinality(Asking) - 1
    <2>1. IsFiniteSet(Asking \ {u}) /\ Cardinality(Asking \ {u}) = Cardinality(Asking) - 1
      BY <1>1, <1>3, FS_RemoveElement
    <2>2. Asking' \subseteq Asking \ {u}
      BY <1>3
    <2> QED
      BY <2>1, <2>2, FS_Subset
  <1>4. drawn \in Nat /\ MaxMatches \in Nat
    BY BoundsAssumption DEF TypeOK, Ids
  <1>5. CASE drawn' = drawn
    BY <1>1, <1>2, <1>4, <1>5 DEF Room
  <1>6. CASE drawn' = drawn + 1 /\ \E u \in Asking : u \notin Asking'
    BY <1>1, <1>2, <1>3, <1>4, <1>6 DEF Room
  <1> QED
    BY <1>5, <1>6

\* A step that makes no match keeps the agreement: answers only go away, no pair
\* comes up, the reads that end have found a game, and a game or a pair that goes
\* away is one that failed.
LEMMA QuietStep ==
  ASSUME IInv, Typed', drawn' = drawn, failed \subseteq failed',
         \A m \in Matches :
           /\ games'[m].players = games[m].players
           /\ games'[m].status # "none" => games[m].players # {}
           /\ games[m].status # "none" =>
                \/ games'[m].status # "none"
                \/ m \in failed' /\ \A w \in Users : rows'[w].match # m,
         \A w \in Users : matched'[w] = matched[w] \/ matched'[w] = Unmatched,
         \A w \in Users :
           \/ request'[w] = request[w]
           \/ /\ request'[w].at # "paired" /\ request'[w].match <= drawn
              /\ request'[w].at \in {"starting", "committing"} =>
                   request'[w].match \in Matches /\ games[request'[w].match].players # {},
         \/ \A w \in Users : matched'[w] = Unmatched
         \/ \A w \in Users : request[w].at = "paired" =>
              request'[w] = request[w] \/ request[w].match \in failed',
         \A w \in Users :
           \/ poll'[w] = poll[w] \/ poll'[w].at # "matched"
           \/ /\ poll'[w].match \in Matches /\ games[poll'[w].match].players # {}
              /\ w \in games[poll'[w].match].players,
         \A w \in Users :
           \/ rows'[w] = rows[w] \/ rows'[w].status # "matched"
           \/ /\ rows'[w].match = 0
              /\ rows[w].status = "matched" /\ rows[w].match \in failed'
  PROVE  Agree'
  <1>t. Typed /\ MaxMatches \in Nat
    BY TypedIsTypeOK, BoundsAssumption DEF IInv
  <1>d. drawn \in Ids /\ drawn \in Nat
    BY <1>t DEF Typed, Ids
  <1>k. PlayersKnown'
    BY DEF IInv, PlayersKnown
  <1>1. OnlyDrawn'
    BY <1>d DEF IInv, OnlyDrawn, Unmatched
  <1>2. TwoPlayers'
    BY DEF IInv, TwoPlayers
  <1>3. PairInHand'
    <2>1. ASSUME NEW w \in Users, request'[w].at = "paired"
          PROVE  request'[w] = request[w] /\ request[w].match \in Matches
      BY <2>1 DEF IInv, PairInHand
    <2>2. ASSUME NEW w \in Users, matched'[w].match \in Matches
          PROVE  matched'[w] = matched[w]
      BY <2>2 DEF Unmatched, Matches
    <2> QED
      BY <2>1, <2>2 DEF IInv, PairInHand
  <1>4. ReadsMatchGames'
    BY DEF IInv, ReadsMatchGames
  <1>5. AnswersMatchGames'
    <2>1. ASSUME NEW w \in Users, matched'[w] = matched[w]
          PROVE  /\ matched'[w].match # 0 => matched'[w].opponent \in Users
                 /\ (matched'[w].match \in Matches /\ games'[matched'[w].match].players # {}) =>
                      games'[matched'[w].match].players = {w, matched'[w].opponent}
      BY <2>1 DEF IInv, AnswersMatchGames
    <2>2. Unmatched.match = 0 /\ 0 \notin Matches
      BY DEF Unmatched, Matches
    <2> QED
      BY <2>1, <2>2 DEF AnswersMatchGames
  <1>6. RowsMatchGames'
    <2> SUFFICES ASSUME NEW w \in Users, rows'[w].status = "matched"
                 PROVE  IF rows'[w].match = 0 THEN \E m \in failed' : w \in games'[m].players
                        ELSE /\ games'[rows'[w].match].status # "none"
                             /\ w \in games'[rows'[w].match].players
      BY DEF RowsMatchGames
    <2>1. rows[w].match \in Ids /\ failed' \subseteq Matches /\ failed \subseteq Matches
      BY <1>t DEF Typed, Rows
    <2>2. CASE rows'[w] = rows[w] /\ rows[w].match = 0
      <3>1. PICK m \in failed : w \in games[m].players
        BY <2>2 DEF IInv, RowsMatchGames
      <3> QED
        BY <2>1, <2>2, <3>1
    <2>3. CASE rows'[w] = rows[w] /\ rows[w].match # 0
      <3>1. rows[w].match \in Matches
        BY <2>1, <2>3 DEF Ids, Matches
      <3>2. games[rows[w].match].status # "none" /\ w \in games[rows[w].match].players
        BY <2>3 DEF IInv, RowsMatchGames
      <3> QED
        BY <2>3, <3>1, <3>2
    <2>4. CASE rows'[w].match = 0 /\ rows[w].status = "matched" /\ rows[w].match \in failed'
      <3>1. rows[w].match \in Matches /\ rows[w].match # 0
        <4>1. rows[w].match \in Matches
          BY <2>1, <2>4
        <4> QED
          BY <1>t, <4>1 DEF Matches
      <3>2. w \in games[rows[w].match].players
        BY <2>4, <3>1 DEF IInv, RowsMatchGames
      <3> QED
        BY <2>4, <3>1, <3>2
    <2> QED
      BY <2>2, <2>3, <2>4
  <1>7. SentToAGame'
    <2> SUFFICES ASSUME NEW w \in Users, matched'[w].match \notin failed' \cup {0}
                 PROVE  LET m == matched[w].match IN
                        \/ games'[m].status # "none" /\ games'[m].players = {w, matched[w].opponent}
                        \/ \E v \in {w, matched[w].opponent} :
                             request'[v].at = "paired" /\ request'[v].match = m
      BY DEF SentToAGame, Unmatched
    <2>1. /\ matched'[w] = matched[w] /\ matched[w].match \notin failed \cup {0}
          /\ \A x \in Users : request[x].at = "paired" =>
               request'[x] = request[x] \/ request[x].match \in failed'
      BY DEF Unmatched
    <2>2. matched[w] \in Answers /\ matched[w].match \in Matches
      BY <1>t, <2>1 DEF Typed, Answers, Ids, Matches
    <2>3. CASE games[matched[w].match].status # "none"
               /\ games[matched[w].match].players = {w, matched[w].opponent}
      BY <2>1, <2>2, <2>3
    <2>4. ASSUME NEW v \in {w, matched[w].opponent},
                 request[v].at = "paired", request[v].match = matched[w].match
          PROVE  request'[v].at = "paired" /\ request'[v].match = matched[w].match
      BY <2>1, <2>2, <2>4 DEF IInv, AnswersMatchGames
    <2> QED
      BY <2>1, <2>2, <2>3, <2>4 DEF IInv, SentToAGame
  <1> QED
    BY <1>k, <1>1, <1>2, <1>3, <1>4, <1>5, <1>6, <1>7 DEF Agree

\* A new pair.
LEMMA PairStep ==
  ASSUME IInv, Typed', NEW u \in Users, NEW v \in Users, u # v,
         request[u].at = "queued", drawn + 1 \in Matches, drawn' = drawn + 1,
         matched'[u].match = drawn + 1, matched'[u].opponent = v,
         matched'[v].match = drawn + 1, matched'[v].opponent = u,
         \A w \in Users \ {u, v} : matched'[w] = matched[w],
         request'[u].at = "paired", request'[u].match = drawn + 1, request'[u].opponent = v,
         \A w \in Users \ {u} : request'[w] = request[w],
         UNCHANGED <<rows, games, poll, failed>>
  PROVE  Agree'
  <1>t. Typed /\ drawn \in Nat /\ MaxMatches \in Nat
    BY TypedIsTypeOK, BoundsAssumption DEF IInv, Typed, Ids
  <1>m. \A w \in Users : matched[w].match \in Nat /\ request[w].match \in Nat
    BY <1>t DEF Typed, Answers, Requests, Ids
  <1>f. /\ games[drawn + 1].players = {}
        /\ \A w \in Users : matched[w].match <= drawn /\ request[w].match <= drawn
    BY <1>t DEF IInv, OnlyDrawn
  <1>1. OnlyDrawn'
    BY <1>t, <1>m DEF IInv, OnlyDrawn, Matches
  <1>k. PlayersKnown'
    BY DEF IInv, PlayersKnown
  <1>2. TwoPlayers'
    BY DEF IInv, TwoPlayers
  <1>3. PairInHand'
    <2>1. ASSUME NEW w \in Users, request'[w].at = "paired", w # u
          PROVE  /\ request'[w] = request[w] /\ request[w].match # drawn + 1
                 /\ \A x \in Users : matched'[x].match = request[w].match =>
                      matched'[x] = matched[x]
                 /\ \A x \in Users : request'[x].match = request[w].match =>
                      request'[x] = request[x]
      <3>1. request'[w] = request[w] /\ request[w].match # drawn + 1
        BY <1>t, <1>m, <1>f, <2>1
      <3> QED
        BY <1>m, <3>1
    <2>2. ASSUME NEW w \in Users, w # u
          PROVE  request'[w].match # drawn + 1
      BY <1>t, <1>m, <1>f, <2>2
    <2>3. ASSUME NEW w \in Users, matched'[w].match = drawn + 1
          PROVE  (w = u /\ matched'[w].opponent = v) \/ (w = v /\ matched'[w].opponent = u)
      BY <1>t, <1>m, <1>f, <2>3
    <2> QED
      BY <1>m, <1>f, <2>1, <2>2, <2>3 DEF IInv, PairInHand
  <1>4. ReadsMatchGames'
    BY <1>m DEF IInv, ReadsMatchGames
  <1>5. AnswersMatchGames'
    BY <1>m, <1>f DEF IInv, AnswersMatchGames
  <1>6. RowsMatchGames'
    BY DEF IInv, RowsMatchGames
  <1>7. SentToAGame'
    <2>1. ASSUME NEW w \in Users, matched[w].match \notin failed, w # u, w # v, matched[w].match # 0,
                 NEW x \in {w, matched[w].opponent},
                 request[x].at = "paired", request[x].match = matched[w].match
          PROVE  request'[x] = request[x]
      BY <1>m, <2>1 DEF IInv, AnswersMatchGames
    <2> QED
      BY <1>m, <2>1 DEF IInv, SentToAGame
  <1> QED
    BY <1>k, <1>1, <1>2, <1>3, <1>4, <1>5, <1>6, <1>7 DEF Agree

\* A new game and its players' rows.
LEMMA RowsOfNewGame ==
  ASSUME IInv, NEW u \in Users, NEW v \in Users, NEW m \in Matches,
         games[m].players = {},
         games'[m].status # "none", games'[m].players = {u, v},
         \A n \in Matches \ {m} : games'[n] = games[n],
         \A w \in {u, v} : rows'[w].status = "matched" /\ rows'[w].match = m,
         \A w \in Users \ {u, v} : rows'[w] = rows[w],
         failed' = failed
  PROVE  RowsMatchGames'
  <1>t. Typed /\ MaxMatches \in Nat
    BY TypedIsTypeOK, BoundsAssumption DEF IInv
  <1> SUFFICES ASSUME NEW w \in Users, rows'[w].status = "matched"
               PROVE  IF rows'[w].match = 0 THEN \E n \in failed' : w \in games'[n].players
                      ELSE /\ games'[rows'[w].match].status # "none"
                           /\ w \in games'[rows'[w].match].players
    BY DEF RowsMatchGames
  <1>1. CASE w \in {u, v}
    BY <1>t, <1>1 DEF Matches
  <1>2. CASE w \notin {u, v} /\ rows[w].match = 0
    <2>1. PICK n \in failed : w \in games[n].players
      BY <1>2 DEF IInv, RowsMatchGames
    <2>2. n \in Matches \ {m}
      BY <1>t, <2>1 DEF Typed
    <2> QED
      BY <1>2, <2>1, <2>2
  <1>3. CASE w \notin {u, v} /\ rows[w].match # 0
    <2>1. rows[w].match \in Matches
      BY <1>t, <1>3 DEF Typed, Rows, Ids, Matches
    <2>2. games[rows[w].match].status # "none" /\ w \in games[rows[w].match].players
      BY <1>3 DEF IInv, RowsMatchGames
    <2>3. rows[w].match # m
      BY <2>2
    <2> QED
      BY <1>3, <2>1, <2>2, <2>3
  <1> QED
    BY <1>1, <1>2, <1>3

\* The game of the pair in hand.
LEMMA ProvisionStep ==
  ASSUME IInv, Typed', NEW u \in Users, Provision(u)
  PROVE  Agree'
  <1> DEFINE m == request[u].match
             v == request[u].opponent
  <1>t. Typed /\ drawn \in Nat /\ MaxMatches \in Nat
    BY TypedIsTypeOK, BoundsAssumption DEF IInv, Typed, Ids
  <1>p. /\ m \in Matches /\ v \in Users /\ v # u /\ games[m].players = {} /\ m # 0
        /\ \A w \in Users : (request[w].at = "paired" /\ request[w].match = m) => w = u
        /\ \A w \in Users : matched[w].match = m =>
             (w = u /\ matched[w].opponent = v) \/ (w = v /\ matched[w].opponent = u)
    BY DEF IInv, PairInHand, Provision, Matches
  <1>g. /\ games'[m].status = "ready" /\ games'[m].players = {u, v}
        /\ \A n \in Matches \ {m} : games'[n] = games[n]
        /\ rows'[u] = [status |-> "matched", match |-> m]
        /\ rows'[v] = [status |-> "matched", match |-> m]
        /\ \A w \in Users \ {u, v} : rows'[w] = rows[w]
        /\ request'[u] = Idle
        /\ \A w \in Users \ {u} : request'[w] = request[w]
        /\ matched' = matched /\ drawn' = drawn /\ poll' = poll /\ failed' = failed
    BY <1>t, <1>p DEF Provision, Provisioned, Done, Typed, memory, bounds
  <1>f. m <= drawn
    BY DEF IInv, OnlyDrawn
  <1> HIDE DEF m, v
  <1>1. OnlyDrawn'
    BY <1>t, <1>f, <1>g DEF IInv, OnlyDrawn, Idle
  <1>k. PlayersKnown'
    BY <1>p, <1>g DEF IInv, PlayersKnown
  <1>2. TwoPlayers'
    BY <1>p, <1>g DEF IInv, TwoPlayers
  <1>3. PairInHand'
    <2>1. ASSUME NEW w \in Users, request'[w].at = "paired"
          PROVE  w # u /\ request'[w] = request[w] /\ request[w].match # m
      BY <1>p, <1>g, <2>1 DEF Idle
    <2> QED
      BY <1>g, <2>1 DEF IInv, PairInHand
  <1>4. ReadsMatchGames'
    <2>1. \A n \in Matches : games[n].players # {} => n # m /\ games'[n] = games[n]
      BY <1>p, <1>g
    <2> QED
      BY <1>p, <1>g, <2>1 DEF IInv, ReadsMatchGames, Idle
  <1>5. AnswersMatchGames'
    <2>1. ASSUME NEW w \in Users, matched[w].match = m
          PROVE  games'[m].players = {w, matched[w].opponent}
      BY <1>p, <1>g, <2>1
    <2> QED
      BY <1>g, <2>1 DEF IInv, AnswersMatchGames
  <1>6. RowsMatchGames'
    BY <1>p, <1>g, RowsOfNewGame
  <1>7. SentToAGame'
    <2>1. ASSUME NEW w \in Users, matched[w].match \notin failed, matched[w].match # 0, matched[w].match # m,
                 NEW x \in {w, matched[w].opponent},
                 request[x].at = "paired", request[x].match = matched[w].match
          PROVE  request'[x] = request[x]
      <3>1. x # u
        BY <2>1 DEF m
      <3> QED
        BY <1>g, <2>1, <3>1 DEF IInv, AnswersMatchGames
    <2>3. \A w \in Users : matched[w].match \in Ids
      BY <1>t DEF Typed, Answers
    <2>4. \A w \in Users : matched[w].match # 0 => matched[w].match \in Matches
      BY <1>t, <2>3 DEF Ids, Matches
    <2>5. ASSUME NEW w \in Users, matched[w].match = m
          PROVE  games'[m].status # "none" /\ games'[m].players = {w, matched[w].opponent}
      BY <1>p, <1>g, <2>5
    <2> QED
      <3> SUFFICES ASSUME NEW w \in Users, matched[w].match \notin failed \cup {0},
                          matched[w].match # m
                   PROVE  \/ /\ games'[matched[w].match].status # "none"
                             /\ games'[matched[w].match].players = {w, matched[w].opponent}
                          \/ \E x \in {w, matched[w].opponent} :
                               request'[x].at = "paired" /\ request'[x].match = matched[w].match
        BY <1>g, <2>5 DEF SentToAGame
      <3>1. matched[w].match \in Matches \ {m}
        BY <2>4
      <3> QED
        BY <1>g, <2>1, <3>1 DEF IInv, SentToAGame
  <1> QED
    BY <1>k, <1>1, <1>2, <1>3, <1>4, <1>5, <1>6, <1>7 DEF Agree

\* A match restored from the rows.
LEMMA RestoreStep ==
  ASSUME IInv, Typed', NEW u \in Users, NEW v \in Users, NEW m \in Matches,
         games[m].status # "none" \/ m \in failed, games[m].players = {u, v},
         matched'[u].match = m, matched'[u].opponent = v,
         \A w \in Users \ {u} : matched'[w] = matched[w],
         \A w \in Users : poll'[w] = poll[w] \/ poll'[w].at # "matched",
         UNCHANGED <<rows, games, drawn, request, failed>>
  PROVE  Agree'
  <1>1. OnlyDrawn'
    BY DEF IInv, OnlyDrawn
  <1>k. PlayersKnown'
    BY DEF IInv, PlayersKnown
  <1>2. TwoPlayers'
    BY DEF IInv, TwoPlayers
  <1>3. PairInHand'
    <2>1. \A w \in Users : request[w].at = "paired" => request[w].match # m
      <3>1. games[m].players # {}
        OBVIOUS
      <3> QED
        BY <3>1 DEF IInv, PairInHand
    <2> QED
      BY <2>1 DEF IInv, PairInHand
  <1>4. ReadsMatchGames'
    BY DEF IInv, ReadsMatchGames
  <1>5. AnswersMatchGames'
    BY DEF IInv, AnswersMatchGames
  <1>6. RowsMatchGames'
    BY DEF IInv, RowsMatchGames
  <1>7. SentToAGame'
    BY DEF IInv, SentToAGame
  <1> QED
    BY <1>k, <1>1, <1>2, <1>3, <1>4, <1>5, <1>6, <1>7 DEF Agree

\* The game of an invite.
LEMMA InviteStep ==
  ASSUME IInv, Typed', NEW u \in Users, NEW v \in Users, u # v,
         request[u].at = "checked", drawn + 1 \in Matches, drawn' = drawn + 1,
         Provisioned(drawn', v, u), Done(u),
         UNCHANGED <<matched, poll, failed>>
  PROVE  Agree'
  <1> DEFINE m == drawn + 1
  <1>t. Typed /\ drawn \in Nat /\ MaxMatches \in Nat
    BY TypedIsTypeOK, BoundsAssumption DEF IInv, Typed, Ids
  <1>g. /\ games'[m].status = "ready" /\ games'[m].players = {u, v}
        /\ \A n \in Matches \ {m} : games'[n] = games[n]
        /\ \A w \in {u, v} : rows'[w].status = "matched" /\ rows'[w].match = m
        /\ \A w \in Users \ {u, v} : rows'[w] = rows[w]
    BY <1>t DEF Provisioned, Typed
  <1>q. /\ request'[u].at = "idle" /\ request'[u].match = 0
        /\ \A w \in Users \ {u} : request'[w] = request[w]
    BY <1>t DEF Done, Idle, Typed
  <1>m. \A w \in Users : matched[w].match \in Ids /\ request[w].match \in Ids /\ rows[w].match \in Ids
    BY <1>t DEF Typed, Answers, Requests, Rows
  <1>f. /\ games[m].players = {}
        /\ \A w \in Users : matched[w].match # m /\ request[w].match # m
    BY <1>t, <1>m DEF IInv, OnlyDrawn, Ids
  <1>1. OnlyDrawn'
    BY <1>t, <1>g, <1>m, <1>q DEF IInv, OnlyDrawn, Matches, Ids
  <1> HIDE DEF m
  <1>k. PlayersKnown'
    BY <1>g DEF IInv, PlayersKnown
  <1>2. TwoPlayers'
    BY <1>g DEF IInv, TwoPlayers
  <1>3. PairInHand'
    BY <1>f, <1>g, <1>q DEF IInv, PairInHand
  <1>4. ReadsMatchGames'
    BY <1>f, <1>g, <1>q DEF IInv, ReadsMatchGames
  <1>5. AnswersMatchGames'
    BY <1>f, <1>g DEF IInv, AnswersMatchGames
  <1>6. RowsMatchGames'
    BY <1>f, <1>g, RowsOfNewGame DEF m
  <1>7. SentToAGame'
    <2>1. \A w \in Users : matched[w].match # 0 => matched[w].match \in Matches \ {m}
      BY <1>f, <1>m DEF Ids, Matches
    <2>2. ASSUME NEW w \in Users, matched[w].match # 0, NEW x \in {w, matched[w].opponent},
                 request[x].at = "paired"
          PROVE  request'[x] = request[x]
      BY <1>q, <2>2 DEF IInv, AnswersMatchGames
    <2> QED
      <3> SUFFICES ASSUME NEW w \in Users, matched[w].match \notin failed \cup {0}
                   PROVE  \/ /\ games'[matched[w].match].status # "none"
                             /\ games'[matched[w].match].players = {w, matched[w].opponent}
                          \/ \E x \in {w, matched[w].opponent} :
                               request'[x].at = "paired" /\ request'[x].match = matched[w].match
        BY DEF SentToAGame
      <3>1. matched[w].match \in Matches \ {m}
        BY <2>1
      <3> QED
        BY <1>g, <2>2, <3>1 DEF IInv, SentToAGame
  <1> QED
    BY <1>k, <1>1, <1>2, <1>3, <1>4, <1>5, <1>6, <1>7 DEF Agree

LEMMA RoomStep ==
  ASSUME IInv, [Next]_vars
  PROVE  Room'
  <1> USE DEF IInv
  <1>t. Typed /\ Typed'
    BY TypedIsTypeOK, TypeStep
  <1>e. ASSUME Asking' \subseteq Asking, UNCHANGED drawn PROVE Room'
    BY <1>e, RoomStays
  <1>a. ASSUME NEW u \in Users, request' = [request EXCEPT ![u] = request'[u]],
               request'[u].at \notin {"checked", "queued"}
        PROVE  Asking' \subseteq Asking /\ u \notin Asking'
    BY <1>a, <1>t DEF Asking, Typed
  <1>1. ASSUME NEW u \in Users, Check(u) PROVE Room'
    <2>1. IsFiniteSet(Asking) /\ Cardinality(Asking) \in Nat
      BY RoomFacts
    <2>2. Asking' = Asking \cup {u} /\ u \notin Asking
      BY <1>1, <1>t DEF Check, Goto, Asking, Typed
    <2>3. Cardinality(Asking') = Cardinality(Asking) + 1
      BY <2>1, <2>2, FS_AddElement
    <2> QED
      BY <1>1, <1>t, <2>1, <2>3, BoundsAssumption DEF Check, Room, Typed, Ids
  <1>2. ASSUME NEW u \in Users, JoinRow(u) PROVE Room'
    BY <1>2, <1>t, <1>e DEF JoinRow, Goto, Asking, Typed
  <1>3. ASSUME NEW u \in Users, JoinQueue(u) PROVE Room'
    <2>1. u \in Asking /\ (drawn' = drawn \/ drawn' = drawn + 1)
      BY <1>3 DEF JoinQueue, Asking
    <2>2. request' = [request EXCEPT ![u] = request'[u]]
          /\ request'[u].at \notin {"checked", "queued"}
      BY <1>3, <1>t DEF JoinQueue, Done, Idle, Typed
    <2> QED
      BY <1>a, <2>1, <2>2, RoomStays
  <1>4. ASSUME NEW u \in Users, InviteJoin(u) PROVE Room'
    <2>1. u \in Asking /\ drawn' = drawn + 1
      BY <1>4 DEF InviteJoin, Asking
    <2>2. request' = [request EXCEPT ![u] = request'[u]]
          /\ request'[u].at \notin {"checked", "queued"}
      BY <1>4, <1>t DEF InviteJoin, Done, Idle, Typed
    <2> QED
      BY <1>a, <2>1, <2>2, RoomStays
  <1>5. ASSUME NEW u \in Users,
               \/ Provision(u) \/ ProvisionFails(u) \/ CancelQueue(u) \/ CancelRow(u)
               \/ InviteCreate(u) \/ InviteExpires(u) \/ InviteRefused(u)
               \/ StartRead(u) \/ StartGame(u) \/ StartCommits(u) \/ StartFails(u)
        PROVE  Room'
    <2>1. UNCHANGED drawn
      BY <1>5 DEF Provision, ProvisionFails, CancelQueue, CancelRow, InviteCreate, InviteExpires,
                  InviteRefused, StartRead, StartGame, StartCommits, StartFails
    <2>2. request' = [request EXCEPT ![u] = request'[u]]
          /\ request'[u].at \notin {"checked", "queued"}
      <3>1. CASE CancelQueue(u)
        BY <3>1, <1>t DEF CancelQueue, Goto, Typed
      <3>2. CASE StartRead(u)
        BY <3>2, <1>t DEF StartRead, Typed
      <3>3. CASE Done(u)
        BY <3>3, <1>t DEF Done, Idle, Typed
      <3>4. CASE StartGame(u)
        <4>1. Done(u) \/ Goto(u, "committing")
          BY <3>4 DEF StartGame
        <4>2. CASE Goto(u, "committing")
          BY <4>2, <1>t DEF Goto, Typed
        <4> QED
          BY <3>3, <4>1, <4>2
      <3> QED
        BY <1>5, <3>1, <3>2, <3>3, <3>4, Zenon
           DEF Provision, ProvisionFails, CancelRow, InviteCreate,
               InviteExpires, InviteRefused, StartCommits, StartFails
    <2> QED
      BY <1>a, <1>e, <2>1, <2>2
  <1>6. CASE Restart
    BY <1>6, <1>e DEF Restart, Asking, Idle
  <1>7. ASSUME UNCHANGED <<drawn, request>> PROVE Room'
    BY <1>7, <1>e DEF Asking
  <1> QED
    <2>1. ASSUME NEW u \in Users, Poll(u) \/ PollRow(u) \/ PollRestore(u) \/ Prune(u)
          PROVE  UNCHANGED <<drawn, request>>
      BY <2>1 DEF Poll, PollRow, PollRestore, Prune
    <2>2. (UNCHANGED vars \/ \E m \in Matches : GameEnds(m)) => UNCHANGED <<drawn, request>>
      BY DEF vars, GameEnds
    <2> QED
      BY <1>1, <1>2, <1>3, <1>4, <1>5, <1>6, <1>7, <2>1, <2>2, Zenon DEF Next, Join, Start

LEMMA AgreeInit == Init => Room /\ Agree
  <1> SUFFICES ASSUME Init PROVE Room /\ Agree
    OBVIOUS
  <1>1. Room
    <2>1. Asking = {}
      BY DEF Init, Asking, Idle
    <2> QED
      BY <2>1, FS_EmptySet, BoundsAssumption DEF Init, Room
  <1>2. PlayersKnown /\ OnlyDrawn /\ TwoPlayers /\ PairInHand /\ ReadsMatchGames
    BY DEF Init, PlayersKnown, OnlyDrawn, TwoPlayers, PairInHand, ReadsMatchGames, Unmatched, Idle, NoPoll
  <1>3. AnswersMatchGames /\ RowsMatchGames /\ SentToAGame
    BY DEF Init, AnswersMatchGames, RowsMatchGames, SentToAGame, Unmatched
  <1> QED
    BY <1>1, <1>2, <1>3 DEF Agree

LEMMA AgreeStep ==
  ASSUME IInv, [Next]_vars
  PROVE  Agree'
  <1>t. Typed /\ Typed'
    BY TypedIsTypeOK, TypeStep DEF IInv
  <1>k. \A m \in Matches : games[m].status # "none" => games[m].players # {}
    BY DEF IInv, PlayersKnown
  <1> USE DEF memory, stored, bounds
  <1>s. CASE UNCHANGED vars
    BY <1>s, <1>t, <1>k, QuietStep DEF vars
  <1>r. CASE Restart
    <2>1. /\ \A w \in Users : /\ matched'[w] = Unmatched
                              /\ request'[w].at = "idle" /\ request'[w].match <= drawn
                              /\ poll'[w].at # "matched"
          /\ UNCHANGED <<rows, games, drawn, failed>>
      BY <1>r, <1>t DEF Restart, Idle, NoPoll, Typed, Ids
    <2> QED
      BY <1>t, <1>k, <2>1, QuietStep
  <1>g. ASSUME NEW m \in Matches, GameEnds(m) PROVE Agree'
    BY <1>g, <1>t, <1>k, QuietStep DEF GameEnds, Typed, Games
  <1>1. ASSUME NEW u \in Users, Check(u) PROVE Agree'
    BY <1>1, <1>t, <1>k, QuietStep DEF Check, Goto, Typed, IInv, OnlyDrawn
  <1>2. ASSUME NEW u \in Users, JoinRow(u) PROVE Agree'
    BY <1>2, <1>t, <1>k, QuietStep DEF JoinRow, Goto, Typed, IInv, OnlyDrawn
  <1>3. ASSUME NEW u \in Users, JoinQueue(u) PROVE Agree'
    <2>1. CASE Opponents(u) = {}
      <3>1. /\ request[u].at = "queued" /\ request' = [request EXCEPT ![u] = Idle]
            /\ matched' = [matched EXCEPT ![u] = Unmatched]
            /\ UNCHANGED <<drawn, rows, games, poll, failed>>
        BY <1>3, <2>1 DEF JoinQueue, Done
      <3>2. /\ drawn \in Nat /\ request \in [Users -> Requests] /\ matched \in [Users -> Answers]
            /\ Idle.at = "idle" /\ Idle.match = 0
        BY <1>t DEF Typed, Ids, Idle
      <3>3. \A w \in Users : matched'[w] = matched[w] \/ matched'[w] = Unmatched
        BY <3>1, <3>2
      <3>4. \A w \in Users : request'[w] = request[w] \/ (w = u /\ request'[w] = Idle)
        BY <3>1, <3>2
      <3> QED
        BY <1>t, <1>k, <3>1, <3>2, <3>3, <3>4, QuietStep
    <2>2. ASSUME NEW v \in Opponents(u),
                 drawn' = drawn + 1,
                 matched' = [matched EXCEPT ![u] = [match |-> drawn', opponent |-> v],
                                            ![v] = [match |-> drawn', opponent |-> u]],
                 request' = [request EXCEPT ![u] = [at |-> "paired", match |-> drawn', opponent |-> v]]
          PROVE  Agree'
      <3>1. v \in Users /\ u # v
        BY <1>t, <2>2 DEF Opponents, Waiting, Typed
      <3>2. drawn + 1 \in Matches /\ request[u].at = "queued"
        BY <1>3, RoomFacts DEF JoinQueue, Asking, IInv
      <3>3. UNCHANGED <<rows, games, poll, failed>>
        BY <1>3 DEF JoinQueue
      <3>4. /\ matched'[u].match = drawn + 1 /\ matched'[u].opponent = v
            /\ matched'[v].match = drawn + 1 /\ matched'[v].opponent = u
            /\ \A w \in Users \ {u, v} : matched'[w] = matched[w]
        BY <1>t, <2>2, <3>1 DEF Typed
      <3>5. /\ request'[u].at = "paired" /\ request'[u].match = drawn + 1
            /\ request'[u].opponent = v
            /\ \A w \in Users \ {u} : request'[w] = request[w]
        BY <1>t, <2>2, <3>1 DEF Typed
      <3> QED
        BY <1>t, <2>2, <3>1, <3>2, <3>3, <3>4, <3>5, PairStep
    <2> QED
      BY <1>3, <2>1, <2>2, Zenon DEF JoinQueue
  <1>4. ASSUME NEW u \in Users, Provision(u) PROVE Agree'
    BY <1>4, <1>t, ProvisionStep
  <1>5. ASSUME NEW u \in Users, ProvisionFails(u) PROVE Agree'
    <2>1. request[u].match \in failed' /\ failed \subseteq failed'
      BY <1>5 DEF ProvisionFails, Fails
    <2>2. /\ request'[u].at = "idle" /\ request'[u].match <= drawn
          /\ \A w \in Users \ {u} : request'[w] = request[w]
          /\ UNCHANGED <<matched, rows, games, drawn, poll>>
      BY <1>5, <1>t DEF ProvisionFails, Done, Idle, Typed, Ids
    <2> QED
      BY <1>t, <1>k, <2>1, <2>2, QuietStep
  <1>6. ASSUME NEW u \in Users, CancelQueue(u) PROVE Agree'
    BY <1>6, <1>t, <1>k, QuietStep DEF CancelQueue, Goto, Typed, IInv, OnlyDrawn
  <1>7. ASSUME NEW u \in Users, CancelRow(u) PROVE Agree'
    BY <1>7, <1>t, <1>k, QuietStep DEF CancelRow, Done, Idle, Typed, Ids
  <1>8. ASSUME NEW u \in Users, Poll(u) PROVE Agree'
    BY <1>8, <1>t, <1>k, QuietStep DEF Poll, Typed
  <1>9. ASSUME NEW u \in Users, PollRow(u) PROVE Agree'
    <2>1. \A w \in Users :
           \/ poll'[w] = poll[w] \/ poll'[w].at # "matched"
           \/ /\ poll'[w].match \in Matches /\ games[poll'[w].match].players # {}
              /\ w \in games[poll'[w].match].players
      BY <1>9, <1>t DEF PollRow, NoPoll, Typed, Rows, Ids, Matches, IInv, RowsMatchGames
    <2> QED
      BY <1>9, <2>1, <1>t, <1>k, QuietStep DEF PollRow
  <1>10. ASSUME NEW u \in Users, PollRestore(u) PROVE Agree'
    <2>1. \A w \in Users : poll'[w] = poll[w] \/ poll'[w].at # "matched"
      BY <1>10, <1>t DEF PollRestore, NoPoll, Typed
    <2>2. CASE UNCHANGED matched
      BY <1>10, <1>t, <2>1, <2>2, <1>k, QuietStep DEF PollRestore
    <2>3. CASE poll[u].at = "matched" /\ matched[u] = Unmatched
      <3> DEFINE v == CHOOSE v \in games[poll[u].match].players \ {u} : TRUE
      <3>1. v \in Users /\ games[poll[u].match].players = {u, v}
        BY <2>3, RestoredOpponent DEF IInv
      <3>2. matched' = [matched EXCEPT ![u] = [match |-> poll[u].match, opponent |-> v]]
            /\ UNCHANGED <<rows, games, drawn, request, failed>>
        BY <1>10, <2>3, Zenon DEF PollRestore
      <3>3. poll[u].match \in Matches
            /\ (games[poll[u].match].status # "none" \/ poll[u].match \in failed)
        BY <2>3 DEF IInv, ReadsMatchGames, PlayersKnown
      <3> HIDE DEF v
      <3>4. /\ matched'[u].match = poll[u].match /\ matched'[u].opponent = v
            /\ \A w \in Users \ {u} : matched'[w] = matched[w]
        BY <1>t, <3>2 DEF Typed
      <3> QED
        BY <1>t, <2>1, <3>1, <3>2, <3>3, <3>4, RestoreStep
    <2> QED
      BY <1>10, <2>2, <2>3, Zenon DEF PollRestore
  <1>11. ASSUME NEW u \in Users, Prune(u) PROVE Agree'
    BY <1>11, <1>t, <1>k, QuietStep DEF Prune, Typed
  <1>12. ASSUME NEW u \in Users, InviteCreate(u) \/ InviteExpires(u) \/ InviteRefused(u)
         PROVE  Agree'
    <2>1. Done(u) /\ UNCHANGED <<matched, rows, games, drawn, poll, failed>> /\ request[u].at = "checked"
      BY <1>12 DEF InviteCreate, InviteExpires, InviteRefused
    <2> QED
      BY <2>1, <1>t, <1>k, QuietStep DEF Done, Idle, Typed, Ids
  <1>13. ASSUME NEW u \in Users, InviteJoin(u) PROVE Agree'
    <2>1. PICK i \in DOMAIN invites :
            /\ request[u].at = "checked" /\ InviteIsOpen(u, i) /\ drawn' = drawn + 1
            /\ Provisioned(drawn', invites[i].by, u)
      BY <1>13 DEF InviteJoin
    <2>2. invites[i].by \in Users /\ invites[i].by # u
      <3>1. invites[i] \in Invites
        BY <1>t, <2>1 DEF Typed
      <3> QED
        BY <2>1, <3>1 DEF Invites, InviteIsOpen
    <2>3. drawn + 1 \in Matches
      BY <2>1, RoomFacts DEF Asking, IInv
    <2>4. Done(u) /\ UNCHANGED <<matched, poll, failed>>
      BY <1>13 DEF InviteJoin
    <2> QED
      BY <1>t, <2>1, <2>2, <2>3, <2>4, InviteStep
  <1>14. ASSUME NEW u \in Users, StartRead(u) PROVE Agree'
    <2>1. PICK m \in Matches :
            /\ request[u].at = "idle" /\ games[m].status = "ready"
            /\ request' = [request EXCEPT ![u] = [at |-> "starting", match |-> m, opponent |-> "nobody"]]
      BY <1>14 DEF StartRead
    <2>2. games[m].players # {} /\ m <= drawn
      BY <1>k, <2>1 DEF IInv, OnlyDrawn
    <2>3. UNCHANGED <<matched, rows, games, drawn, poll, failed>>
      BY <1>14 DEF StartRead
    <2> QED
      BY <1>t, <1>k, <2>1, <2>2, <2>3, QuietStep DEF Typed
  <1>15. ASSUME NEW u \in Users, StartGame(u) PROVE Agree'
    <2>1. request[u].match \in Matches /\ games[request[u].match].players # {}
          /\ request[u].match <= drawn
      BY <1>15 DEF StartGame, IInv, ReadsMatchGames, OnlyDrawn
    <2>2. \A m \in Matches :
            /\ games'[m].players = games[m].players
            /\ games'[m].status # "none" => games[m].players # {}
            /\ games[m].status # "none" => games'[m].status # "none"
      BY <1>15, <1>t, <1>k, <2>1 DEF StartGame, Typed, Games
    <2>3. \/ request' = [request EXCEPT ![u] = Idle]
          \/ request' = [request EXCEPT ![u].at = "committing"]
      BY <1>15 DEF StartGame, Done, Goto
    <2>4. UNCHANGED <<matched, rows, drawn, poll, failed>> /\ request[u].at = "starting"
      BY <1>15 DEF StartGame
    <2>5. request'[u].at # "paired" /\ request'[u].match <= drawn
          /\ (request'[u].at = "committing" => request'[u].match = request[u].match)
          /\ request'[u].at # "starting"
          /\ \A w \in Users \ {u} : request'[w] = request[w]
      BY <1>t, <2>1, <2>3 DEF Typed, Requests, Idle, Ids
    <2> QED
      BY <1>t, <2>1, <2>2, <2>4, <2>5, QuietStep
  <1>16. ASSUME NEW u \in Users, StartCommits(u) PROVE Agree'
    <2>1. request[u].match \in Matches
      BY <1>16 DEF StartCommits, IInv, ReadsMatchGames
    <2>2. \A m \in Matches :
            /\ games'[m].players = games[m].players
            /\ games'[m].status # "none" => games[m].players # {}
            /\ games[m].status # "none" => games'[m].status # "none"
      BY <1>16, <1>t, <1>k, <2>1 DEF StartCommits, Typed, Games
    <2> QED
      BY <1>16, <1>t, <2>2, QuietStep DEF StartCommits, Done, Idle, Typed, Ids
  <1>17. ASSUME NEW u \in Users, StartFails(u) PROVE Agree'
    <2> DEFINE m == request[u].match
    <2>1. m \in Matches /\ m \in failed' /\ failed \subseteq failed' /\ m # 0
      BY <1>17 DEF StartFails, Fails, IInv, ReadsMatchGames, Matches
    <2>2. UNCHANGED <<matched, drawn, poll>> /\ Done(u) /\ request[u].at = "committing"
      BY <1>17 DEF StartFails
    <2>3. /\ request'[u].at = "idle" /\ request'[u].match = 0
          /\ \A w \in Users \ {u} : request'[w] = request[w]
      BY <1>t, <2>2 DEF Done, Idle, Typed
    <2>4. CASE UNCHANGED stored
      BY <1>t, <1>k, <2>1, <2>2, <2>3, <2>4, QuietStep DEF Typed, Ids
    <2>5. CASE Deleted(m)
      <3> HIDE DEF m
      <3>1. \A n \in Matches :
              /\ games'[n].players = games[n].players
              /\ games'[n].status # "none" => games[n].players # {}
              /\ games[n].status # "none" => games'[n].status # "none" \/ n = m
        BY <1>t, <1>k, <2>1, <2>5 DEF Deleted, Typed, Games
      <3>2. \A w \in Users : rows'[w].match # m
        BY <1>t, <2>1, <2>5 DEF Deleted, Typed, Rows
      <3>3. \A w \in Users :
             \/ rows'[w] = rows[w] \/ rows'[w].status # "matched"
             \/ /\ rows'[w].match = 0
                /\ rows[w].status = "matched" /\ rows[w].match \in failed'
        BY <1>t, <2>1, <2>5 DEF Deleted, Typed, Rows
      <3> QED
        BY <1>t, <2>1, <2>2, <2>3, <3>1, <3>2, <3>3, QuietStep DEF Typed, Ids
    <2> QED
      BY <1>17, <2>4, <2>5 DEF StartFails
  <1> QED
    BY <1>s, <1>r, <1>g, <1>1, <1>2, <1>3, <1>4, <1>5, <1>6, <1>7, <1>8, <1>9, <1>10, <1>11,
       <1>12, <1>13, <1>14, <1>15, <1>16, <1>17, Zenon DEF Next, Join, Start

-----------------------------------------------------------------------------
(* Theorems.                                                               *)

LEMMA Inductive == Spec => []IInv
  <1>1. Init => IInv
    BY TypeInit, AgreeInit, Zenon DEF IInv, Agree
  <1>2. IInv /\ [Next]_vars => IInv'
    <2> SUFFICES ASSUME IInv, [Next]_vars PROVE IInv'
      OBVIOUS
    <2>1. TypeOK'
      <3>1. Typed'
        BY TypeStep
      <3> QED
        BY <3>1, Zenon
           DEF TypeOK, Typed, NoTwice, Answers, Rows, Games, Invites, Requests, Polls
    <2>2. Room' /\ Agree'
      BY RoomStep, AgreeStep
    <2> QED
      BY <2>1, <2>2, Zenon DEF IInv, Agree
  <1> QED
    BY <1>1, <1>2, PTL DEF Spec

\* The queue holds nobody twice, and a request that may draw a match id finds
\* one within the bound (the state of _MatchmakingQueue and the tables).
THEOREM TypeCorrect == Spec => []TypeOK
  <1>1. IInv => TypeOK
    BY DEF IInv
  <1> QED
    BY <1>1, Inductive, PTL

\* A user whose row says matched is a player of a game that exists, or of a match
\* whose start failed, whatever joins, cancellations, invites, failures and
\* restarts come in between (app_provision_live_match, app_accept_game_invite,
\* bootstrap_physics_game).
THEOREM RowsAgree == Spec => []RowsMatchGames
  <1>1. IInv => RowsMatchGames
    BY DEF IInv
  <1> QED
    BY <1>1, Inductive, PTL

\* The memory sends a user to a game of this user and this opponent, or to one
\* that a request in hand is about to provision, unless this match's own
\* provisioning or start has failed (_MatchmakingQueue.join, restore_matched,
\* _provision_live_match, bootstrap_physics_game).
THEOREM AnswersAgree == Spec => []SentToAGame
  <1>1. IInv => SentToAGame
    BY DEF IInv
  <1> QED
    BY <1>1, Inductive, PTL

\* An accepted invite stays accepted, of the same inviter, and never gets another
\* match: it may only lose its own with the game (app_accept_game_invite).
THEOREM InviteOnce == Spec => InviteUsedOnce
  <1>1. IInv /\ [Next]_vars =>
          [\A i \in DOMAIN invites : invites[i].status = "accepted" =>
             invites'[i] \in {invites[i], [invites[i] EXCEPT !.match = 0]}]_vars
    <2> SUFFICES ASSUME IInv, [Next]_vars, NEW i \in DOMAIN invites, invites[i].status = "accepted"
                 PROVE  invites'[i] = invites[i] \/ invites'[i] = [invites[i] EXCEPT !.match = 0]
      OBVIOUS
    <2>t. invites \in Seq(Invites)
      BY TypedIsTypeOK DEF IInv, Typed
    <2>1. ASSUME NEW u \in Users, InviteCreate(u) PROVE invites'[i] = invites[i]
      BY <2>1, <2>t DEF InviteCreate
    <2>2. ASSUME NEW u \in Users, InviteJoin(u) PROVE invites'[i] = invites[i]
      BY <2>2, <2>t DEF InviteJoin, InviteIsOpen
    <2>3. ASSUME NEW u \in Users, InviteExpires(u) PROVE invites'[i] = invites[i]
      BY <2>3, <2>t DEF InviteExpires
    <2>4. CASE UNCHANGED vars
      BY <2>4 DEF vars, stored
    <2>5. CASE Restart \/ \E m \in Matches : GameEnds(m)
      BY <2>5 DEF Restart, GameEnds, stored
    <2>6. ASSUME NEW u \in Users,
                 \/ Check(u) \/ Join(u) \/ ProvisionFails(u) \/ CancelQueue(u) \/ CancelRow(u)
                 \/ Poll(u) \/ PollRow(u) \/ PollRestore(u) \/ Prune(u)
                 \/ InviteRefused(u) \/ Start(u)
          PROVE  UNCHANGED invites
      BY <2>6, Zenon DEF Check, Join, JoinRow, JoinQueue, Provision, ProvisionFails, CancelQueue,
         CancelRow, Poll, PollRow, PollRestore, Prune, InviteRefused, Start, StartRead, StartGame,
         StartCommits, stored
    <2>7. ASSUME NEW u \in Users, StartFails(u)
          PROVE  invites'[i] = invites[i] \/ invites'[i] = [invites[i] EXCEPT !.match = 0]
      BY <2>7, Zenon DEF StartFails, Deleted, stored
    <2> QED
      BY <2>1, <2>2, <2>3, <2>4, <2>5, <2>6, <2>7, Zenon DEF Next
  <1> QED
    BY <1>1, Inductive, PTL DEF Spec, InviteUsedOnce
=============================================================================
