-------------------------- MODULE ChezzGame_proofs --------------------------
(***************************************************************************)
(* Proofs about ChezzGame, for any bank, any number of remembered ids (at  *)
(* least one), of workers, moves, engine moves, repetitions and restarts.  *)
(***************************************************************************)
EXTENDS ChezzGame, TLAPS

-----------------------------------------------------------------------------
(* Sequences of anything.                                                  *)

IsSeq(q) == \E S : q \in Seq(S)

LEMMA SeqFacts ==
  ASSUME NEW q, IsSeq(q)
  PROVE  Len(q) \in Nat /\ DOMAIN q = 1..Len(q)
  BY DEF IsSeq

LEMMA AppendFacts ==
  ASSUME NEW q, IsSeq(q), NEW x
  PROVE  /\ IsSeq(Append(q, x))
         /\ Len(Append(q, x)) = Len(q) + 1
         /\ DOMAIN Append(q, x) = DOMAIN q \cup {Len(q) + 1}
         /\ Append(q, x)[Len(q) + 1] = x
         /\ \A i \in DOMAIN q : Append(q, x)[i] = q[i]
         /\ Len(q) + 1 \notin DOMAIN q
  <1>1. PICK S : q \in Seq(S)
    BY DEF IsSeq
  <1>2. q \in Seq(S \cup {x}) /\ x \in S \cup {x}
    BY <1>1
  <1>3. Append(q, x) \in Seq(S \cup {x})
    BY <1>2
  <1> QED
    BY <1>2, <1>3 DEF IsSeq

LEMMA TailFacts ==
  ASSUME NEW q, IsSeq(q), q # <<>>
  PROVE  /\ IsSeq(Tail(q))
         /\ \A i \in DOMAIN q : i # 1 => i - 1 \in DOMAIN Tail(q) /\ Tail(q)[i - 1] = q[i]
  <1>1. PICK S : q \in Seq(S)
    BY DEF IsSeq
  <1>2. Tail(q) \in Seq(S)
    BY <1>1
  <1> QED
    BY <1>1, <1>2 DEF IsSeq

\* An answer that becomes the newest one stays among the answers, and so do
\* the others.
LEMMA RecallFacts ==
  ASSUME NEW q, IsSeq(q), NEW k \in DOMAIN q
  PROVE  /\ IsSeq(Recall(q, k))
         /\ \A i \in DOMAIN q : \E j \in DOMAIN Recall(q, k) : Recall(q, k)[j] = q[i]
  <1>1. PICK S : q \in Seq(S)
    BY DEF IsSeq
  <1>2. Len(q) \in Nat /\ DOMAIN q = 1..Len(q) /\ k \in 1..Len(q)
    BY <1>1
  <1>3. Recall(q, k) = [i \in 1..Len(q) |-> IF i < k THEN q[i]
                          ELSE IF i < Len(q) THEN q[i + 1] ELSE q[k]]
    BY <1>2 DEF Recall
  <1>4. \A i \in 1..Len(q) : q[i] \in S
    BY <1>1
  <1>5. Recall(q, k) \in Seq(S)
    BY <1>2, <1>3, <1>4
  <1>6. ASSUME NEW i \in DOMAIN q
        PROVE  \E j \in 1..Len(q) : Recall(q, k)[j] = q[i]
    <2>1. CASE i < k
      BY <1>2, <1>3, <2>1
    <2>2. CASE i = k
      BY <1>2, <1>3, <2>2
    <2>3. CASE i > k
      <3>1. i - 1 \in 1..Len(q) /\ ~(i - 1 < k) /\ i - 1 < Len(q) /\ (i - 1) + 1 = i
        BY <1>2, <2>3
      <3> QED
        BY <1>3, <3>1
    <2> QED
      BY <1>2, <2>1, <2>2, <2>3
  <1>7. DOMAIN Recall(q, k) = 1..Len(q)
    BY <1>3
  <1> QED
    BY <1>5, <1>6, <1>7 DEF IsSeq

-----------------------------------------------------------------------------
(* The invariant.                                                          *)

Fields == {"status", "reason", "plies", "turn", "bank", "active", "anchor", "timer",
           "calling", "seq", "next", "log", "known", "untold"}

\* The numbers of the log stay below the next one, those of its moves do not
\* pass the state's, and their ids have been posted.
Numbered(s, n) ==
  /\ s.seq \in Nat /\ s.next \in Nat /\ s.seq <= s.next
  /\ \A i \in DOMAIN s.log :
       /\ s.log[i].seq \in Nat /\ s.log[i].seq < s.next
       /\ s.log[i].type = "move" => s.log[i].seq <= s.seq /\ s.log[i].id \in 0..n

\* A post whose move has been played expects a number that has gone by, or that
\* is the state's.
Expects(s, P) ==
  \A i \in DOMAIN s.log, r \in P :
    (s.log[i].type = "move" /\ s.log[i].id = r.id) =>
      r.expected \in Nat /\ r.expected <= s.log[i].seq

\* In that case the move is the last one, and it is remembered.
LastIsKnown(s) ==
  \A i \in DOMAIN s.log :
    (s.log[i].type = "move" /\ s.log[i].id # 0 /\ s.log[i].seq = s.seq) =>
      \E k \in DOMAIN s.known : s.known[k].id = s.log[i].id

PlayedOnce(s) ==
  \A i, j \in DOMAIN s.log :
    (s.log[i].type = "move" /\ s.log[j].type = "move" /\ s.log[i].id = s.log[j].id
      /\ s.log[i].id # 0) => i = j

EndsLast(s) ==
  \A i, j \in DOMAIN s.log :
    s.log[i].type = "over" /\ s.log[j].type = "move" => j < i

\* The log tells of an end only if the game is over.
OverIsOver(s) == \A i \in DOMAIN s.log : s.log[i].type = "over" => s.status # "active"

Good(s, P, n) ==
  /\ DOMAIN s = Fields /\ IsSeq(s.log) /\ IsSeq(s.known)
  /\ Numbered(s, n) /\ Expects(s, P) /\ LastIsKnown(s)
  /\ PlayedOnce(s) /\ EndsLast(s) /\ OverIsOver(s)

PostsApart ==
  /\ \A r \in posts : r.id \in 1..used.moves
  /\ \A r, q \in posts : r.id = q.id => r = q

IInv ==
  /\ used \in [moves : Nat, asks : Nat, trouble : Nat] /\ db.ply \in Nat
  /\ PostsApart
  /\ session # NoSession => Good(session, posts, used.moves)

-----------------------------------------------------------------------------
(* What the session's functions keep.                                      *)

\* u differs from s in what the invariant does not speak of, or is over.
Alike(s, u) ==
  /\ DOMAIN u = Fields
  /\ u.log = s.log /\ u.known = s.known /\ u.seq = s.seq /\ u.next = s.next
  /\ u.status = s.status \/ u.status # "active"

LEMMA AlikeGood ==
  ASSUME NEW s, NEW P, NEW n, Good(s, P, n), NEW u, Alike(s, u)
  PROVE  Good(u, P, n)
  BY DEF Good, Alike, Numbered, Expects, LastIsKnown, PlayedOnce, EndsLast, OverIsOver

\* A post that has arrived is one less; another id has been drawn.
LEMMA FewerPosts ==
  ASSUME NEW s, NEW P, NEW n \in Nat, Good(s, P, n), NEW Q \in SUBSET P
  PROVE  Good(s, Q, n)
  BY DEF Good, Numbered, Expects

LEMMA OnePostMore ==
  ASSUME NEW s, NEW P, NEW n \in Nat, Good(s, P, n), NEW r, r.id = n + 1
  PROVE  Good(s, P \cup {r}, n + 1)
  <1>1. Numbered(s, n + 1)
    BY DEF Good, Numbered
  <1>2. \A i \in DOMAIN s.log : s.log[i].type = "move" => s.log[i].id # r.id
    BY DEF Good, Numbered
  <1>3. Expects(s, P \cup {r})
    BY <1>2 DEF Good, Expects
  <1> QED
    BY <1>1, <1>3 DEF Good

LEMMA ClockKeeps ==
  ASSUME NEW s, DOMAIN s = Fields, NEW t
  PROVE  /\ Alike(s, NoTimer(s)) /\ NoTimer(s).status = s.status
         /\ Alike(s, Synced(s, t)) /\ Synced(s, t).status = s.status
         /\ Synced(s, t).turn = s.turn
         /\ Alike(s, Ticked(s, t)) /\ Ticked(s, t).status = s.status
         /\ Alike(s, Fired(s)) /\ Fired(s).status = s.status
  BY DEF Alike, NoTimer, Synced, Ticked, Fired, Fields

\* The end of a game is told after everything else.
LEMMA TellOverGood ==
  ASSUME NEW s, NEW P, NEW n \in Nat, Good(s, P, n), s.status # "active"
  PROVE  Good(Tell(s, "over", 0), P, n)
  <1> DEFINE e == [type |-> "over", id |-> 0, seq |-> s.next,
                   shows |-> Shows([s EXCEPT !.seq = s.next])]
  <1> DEFINE u == Tell(s, "over", 0)
  <1>1. /\ DOMAIN u = Fields /\ u.log = Append(s.log, e) /\ u.known = s.known
        /\ u.seq = s.next /\ u.next = s.next + 1 /\ u.status = s.status
    BY DEF Tell, Good, Fields
  <1>2. e.type = "over" /\ e.id = 0 /\ e.seq = s.next
    OBVIOUS
  <1> HIDE DEF e, u
  <1>3. /\ IsSeq(u.log) /\ DOMAIN u.log = DOMAIN s.log \cup {Len(s.log) + 1}
        /\ u.log[Len(s.log) + 1] = e /\ \A i \in DOMAIN s.log : u.log[i] = s.log[i]
        /\ DOMAIN s.log = 1..Len(s.log) /\ Len(s.log) \in Nat
    BY <1>1, AppendFacts, SeqFacts DEF Good
  <1>4. Numbered(u, n)
    BY <1>1, <1>2, <1>3 DEF Good, Numbered
  <1>5. Expects(u, P)
    BY <1>1, <1>2, <1>3 DEF Good, Expects
  <1>6. LastIsKnown(u)
    BY <1>1, <1>2, <1>3 DEF Good, LastIsKnown, Numbered
  <1>7. PlayedOnce(u)
    BY <1>1, <1>2, <1>3 DEF Good, PlayedOnce
  <1>8. EndsLast(u)
    BY <1>1, <1>2, <1>3 DEF Good, EndsLast
  <1>9. OverIsOver(u)
    BY <1>1, <1>2, <1>3 DEF Good, OverIsOver
  <1> QED
    BY <1>1, <1>3, <1>4, <1>5, <1>6, <1>7, <1>8, <1>9 DEF Good, u

\* A move that nobody has played is told, and remembered.
Kept(told) == [told EXCEPT !.known = Remembered(@, LastEvent(told))]

LEMMA TellMoveGood ==
  ASSUME NEW s, NEW P, NEW n \in Nat, Good(s, P, n), NEW id \in 0..n,
         \A i \in DOMAIN s.log : s.log[i].type # "over",
         id # 0 => \A i \in DOMAIN s.log : s.log[i].type = "move" => s.log[i].id # id,
         \A r \in P : r.id = id => r.expected \in Nat /\ r.expected <= s.next
  PROVE  /\ Good(Kept(Tell(s, "move", id)), P, n)
         /\ Kept(Tell(s, "move", id)).status = s.status
  <1> DEFINE told == Tell(s, "move", id)
             kept == Kept(told)
  <1> DEFINE e == [type |-> "move", id |-> id, seq |-> s.next,
                   shows |-> Shows([s EXCEPT !.seq = s.next])]
  <1>1. /\ DOMAIN told = Fields /\ told.log = Append(s.log, e) /\ told.known = s.known
        /\ told.seq = s.next /\ told.next = s.next + 1 /\ told.status = s.status
    BY DEF Tell, Good, Fields
  <1>2. e.type = "move" /\ e.id = id /\ e.seq = s.next
    OBVIOUS
  <1> HIDE DEF e, told
  <1>3. /\ IsSeq(told.log) /\ DOMAIN told.log = DOMAIN s.log \cup {Len(s.log) + 1}
        /\ told.log[Len(s.log) + 1] = e /\ \A i \in DOMAIN s.log : told.log[i] = s.log[i]
        /\ Len(told.log) = Len(s.log) + 1
        /\ DOMAIN s.log = 1..Len(s.log) /\ Len(s.log) \in Nat
    <2>1. IsSeq(s.log)
      BY DEF Good
    <2>2. Len(s.log) \in Nat /\ DOMAIN s.log = 1..Len(s.log)
      BY <2>1, SeqFacts
    <2>3. /\ IsSeq(Append(s.log, e)) /\ Len(Append(s.log, e)) = Len(s.log) + 1
          /\ DOMAIN Append(s.log, e) = DOMAIN s.log \cup {Len(s.log) + 1}
          /\ Append(s.log, e)[Len(s.log) + 1] = e
          /\ \A i \in DOMAIN s.log : Append(s.log, e)[i] = s.log[i]
      BY <2>1, AppendFacts
    <2> QED
      BY <1>1, <2>2, <2>3
  <1>4. LastEvent(told) = e
    BY <1>3 DEF LastEvent
  <1>5. /\ DOMAIN kept = Fields /\ kept.log = told.log /\ kept.seq = s.next
        /\ kept.next = s.next + 1 /\ kept.status = s.status
        /\ kept.known = Remembered(s.known, e)
    BY <1>1, <1>4 DEF Fields, Kept
  <1> HIDE DEF kept
  <1>6. /\ IsSeq(kept.known)
        /\ id # 0 => \E k \in DOMAIN kept.known : kept.known[k].id = id
    <2> DEFINE all == Append(s.known, e)
    <2>1. /\ IsSeq(all) /\ Len(all) = Len(s.known) + 1 /\ Len(s.known) \in Nat
          /\ Len(all) \in DOMAIN all /\ all[Len(all)] = e
      BY AppendFacts, SeqFacts DEF Good
    <2> HIDE DEF all
    <2>2. CASE id = 0
      BY <1>2, <1>5, <2>2 DEF Remembered, Good
    <2>3. CASE id # 0 /\ ~(Len(all) > Remember)
      BY <1>2, <1>5, <2>1, <2>3 DEF Remembered, all
    <2>4. CASE id # 0 /\ Len(all) > Remember
      <3>1. kept.known = Tail(all)
        BY <1>2, <1>5, <2>4 DEF Remembered, all
      <3>2. Len(all) # 1 /\ Len(all) # 0
        BY <2>1, <2>4, ChezzGameAssumption
      <3>3. all # <<>>
        BY <3>2
      <3>4. /\ IsSeq(Tail(all))
            /\ Len(all) - 1 \in DOMAIN Tail(all) /\ Tail(all)[Len(all) - 1] = e
        BY <2>1, <3>2, <3>3, TailFacts
      <3> QED
        BY <1>2, <3>1, <3>4
    <2> QED
      BY <2>2, <2>3, <2>4
  <1>7. Numbered(kept, n)
    <2>1. Numbered(s, n)
      BY DEF Good
    <2>2. kept.seq \in Nat /\ kept.next \in Nat /\ kept.seq <= kept.next
      BY <1>5, <2>1 DEF Numbered
    <2>3. ASSUME NEW i \in DOMAIN kept.log
          PROVE  /\ kept.log[i].seq \in Nat /\ kept.log[i].seq < kept.next
                 /\ kept.log[i].type = "move" => kept.log[i].seq <= kept.seq /\ kept.log[i].id \in 0..n
      <3>1. CASE i \in DOMAIN s.log
        <4>1. kept.log[i] = s.log[i]
          BY <1>3, <1>5, <3>1
        <4>2. /\ s.log[i].seq \in Nat /\ s.log[i].seq < s.next
              /\ s.log[i].type = "move" => s.log[i].seq <= s.seq /\ s.log[i].id \in 0..n
              /\ s.seq \in Nat /\ s.next \in Nat /\ s.seq <= s.next
          BY <2>1, <3>1 DEF Numbered
        <4>3. kept.seq = s.next /\ kept.next = s.next + 1
          BY <1>5
        <4> QED
          BY <4>1, <4>2, <4>3
      <3>2. CASE i = Len(s.log) + 1
        <4>1. kept.log[i] = e
          BY <1>3, <1>5, <3>2
        <4> QED
          BY <1>2, <1>5, <2>1, <4>1 DEF Numbered
      <3> QED
        BY <1>3, <1>5, <3>1, <3>2
    <2> QED
      BY <2>2, <2>3 DEF Numbered
  <1>8. Expects(kept, P)
    BY <1>2, <1>3, <1>5 DEF Good, Expects
  <1>9. LastIsKnown(kept)
    <2>1. \A i \in DOMAIN s.log : s.log[i].seq # s.next
      BY DEF Good, Numbered
    <2>2. \A i \in DOMAIN kept.log : kept.log[i].seq = kept.seq => kept.log[i] = e
      BY <1>3, <1>5, <2>1
    <2>3. \A i \in DOMAIN kept.log :
            kept.log[i].seq = kept.seq => kept.log[i].id = id
      BY <1>2, <2>2
    <2>4. ASSUME NEW i \in DOMAIN kept.log,
                 kept.log[i].id # 0, kept.log[i].seq = kept.seq
          PROVE  \E k \in DOMAIN kept.known : kept.known[k].id = kept.log[i].id
      <3>1. kept.log[i].id = id
        BY <2>3, <2>4
      <3>2. PICK k \in DOMAIN kept.known : kept.known[k].id = id
        BY <1>6, <2>4, <3>1
      <3> QED
        BY <3>1, <3>2
    <2> QED
      BY <2>4 DEF LastIsKnown
  <1>10. PlayedOnce(kept)
    <2> SUFFICES ASSUME NEW i \in DOMAIN kept.log, NEW j \in DOMAIN kept.log,
                        kept.log[i].type = "move", kept.log[j].type = "move",
                        kept.log[i].id = kept.log[j].id, kept.log[i].id # 0
                 PROVE  i = j
      BY DEF PlayedOnce
    <2>1. CASE i \in DOMAIN s.log /\ j \in DOMAIN s.log
      BY <1>3, <1>5, <2>1 DEF Good, PlayedOnce
    <2>2. CASE i \notin DOMAIN s.log
      <3>1. i = Len(s.log) + 1 /\ kept.log[i].id = id
        BY <1>2, <1>3, <1>5, <2>2
      <3>2. j \notin DOMAIN s.log
        BY <1>3, <1>5, <3>1
      <3> QED
        BY <1>3, <1>5, <3>1, <3>2
    <2>3. CASE j \notin DOMAIN s.log
      <3>1. j = Len(s.log) + 1 /\ kept.log[j].id = id
        BY <1>2, <1>3, <1>5, <2>3
      <3>2. i \notin DOMAIN s.log
        BY <1>3, <1>5, <3>1
      <3> QED
        BY <1>3, <1>5, <3>1, <3>2
    <2> QED
      BY <2>1, <2>2, <2>3
  <1>11. EndsLast(kept) /\ OverIsOver(kept)
    BY <1>2, <1>3, <1>5 DEF Good, EndsLast, OverIsOver
  <1> QED
    BY <1>3, <1>5, <1>6, <1>7, <1>8, <1>9, <1>10, <1>11 DEF Good, kept, told

LEMMA FinishGood ==
  ASSUME NEW s, NEW P, NEW n \in Nat, Good(s, P, n), NEW reason
  PROVE  Good(Finish(s, reason).s, P, n)
  <1> DEFINE over == [NoTimer(s) EXCEPT !.status = "finished", !.reason = reason]
  <1>1. DOMAIN NoTimer(s) = Fields /\ Alike(s, NoTimer(s))
    BY ClockKeeps DEF Good, Alike
  <1>2. Alike(s, over) /\ over.status = "finished"
    BY <1>1 DEF Alike, Fields
  <1>3. Good(over, P, n)
    BY <1>2, AlikeGood
  <1>4. Finish(s, reason).s = Tell(over, "over", 0)
    BY DEF Finish, Did
  <1> HIDE DEF over
  <1> QED
    BY <1>2, <1>3, <1>4, TellOverGood

LEMMA ExpireGood ==
  ASSUME NEW s, NEW P, NEW n \in Nat, Good(s, P, n), NEW c
  PROVE  Good(Expire(s, c).s, P, n)
  BY FinishGood DEF Expire, Did

LEMMA SyncedGood ==
  ASSUME NEW s, NEW P, NEW n \in Nat, Good(s, P, n), NEW t
  PROVE  Good(Synced(s, t), P, n)
  BY ClockKeeps, AlikeGood DEF Good

LEMMA ResolveGood ==
  ASSUME NEW s, NEW P, NEW n \in Nat, Good(s, P, n), NEW t
  PROVE  Good(Resolve(s, t).s, P, n)
  <1>1. Good(Synced(s, t), P, n)
    BY SyncedGood
  <1>2. Good(Finish(Synced(s, t), "time").s, P, n)
    BY <1>1, FinishGood
  <1> QED
    BY <1>1, <1>2 DEF Resolve, Did

LEMMA ScheduleGood ==
  ASSUME NEW s, NEW P, NEW n \in Nat, Good(s, P, n), NEW t
  PROVE  Good(Schedule(s, t).s, P, n)
  <1> DEFINE synced == NoTimer(Synced(s, t))
  <1>1. Good(Synced(s, t), P, n)
    BY SyncedGood
  <1>2. Good(synced, P, n)
    BY <1>1, ClockKeeps, AlikeGood DEF Good
  <1> HIDE DEF synced
  <1>3. Good(Expire(synced, s.active).s, P, n)
    BY <1>2, ExpireGood
  <1>4. ASSUME NEW timer
        PROVE  Good([synced EXCEPT !.timer = timer], P, n)
    <2>1. DOMAIN synced = Fields
      BY <1>2 DEF Good
    <2>2. Alike(synced, [synced EXCEPT !.timer = timer])
      BY <2>1 DEF Alike, Fields
    <2> QED
      BY <1>2, <2>2, AlikeGood
  <1>5. CASE synced.bank[s.active] = 0
    BY <1>3, <1>5 DEF Schedule, synced
  <1>6. CASE synced.bank[s.active] # 0
    BY <1>4, <1>6 DEF Schedule, Did, synced
  <1> QED
    BY <1>5, <1>6

LEMMA BuiltGood ==
  ASSUME NEW t, NEW P, NEW n \in Nat, db.ply \in Nat
  PROVE  Good(Built(t).s, P, n)
  <1> DEFINE s == [status |-> db.status, reason |-> IF db.status = "active" THEN "none" ELSE "saved",
            plies |-> db.last.plies, turn |-> db.last.turn, bank |-> db.last.bank,
            active |-> db.last.turn, anchor |-> db.at,
            timer |-> [state |-> "none", color |-> "w", due |-> 0], calling |-> {},
            seq |-> db.ply, next |-> db.ply + 1, log |-> <<>>, known |-> <<>>, untold |-> FALSE]
  <1>1. /\ DOMAIN s = Fields /\ s.log = <<>> /\ s.known = <<>>
        /\ s.seq = db.ply /\ s.next = db.ply + 1
    BY DEF Fields
  <1>2. IsSeq(<<>>) /\ DOMAIN <<>> = {}
    BY DEF IsSeq
  <1> HIDE DEF s
  <1>3. Good(s, P, n)
    BY <1>1, <1>2 DEF Good, Numbered, Expects, LastIsKnown, PlayedOnce, EndsLast, OverIsOver
  <1>4. Good(Resolve(s, t).s, P, n)
    BY <1>3, ResolveGood
  <1>5. Good(Schedule(Resolve(s, t).s, t).s, P, n)
    BY <1>4, ScheduleGood
  <1>6. Built(t) = IF Resolve(s, t).s.status = "active" THEN Schedule(Resolve(s, t).s, t)
                   ELSE Resolve(s, t)
    BY DEF Built, s
  <1> QED
    BY <1>4, <1>5, <1>6

\* A chat message takes a number of the log, not of the state.
LEMMA ChatGood ==
  ASSUME NEW s, NEW P, NEW n \in Nat, Good(s, P, n), NEW shows,
         NEW u, u = [s EXCEPT !.next = @ + 1,
                       !.log = Append(@, [type |-> "chat", id |-> 0, seq |-> s.next,
                                          shows |-> shows])]
  PROVE  Good(u, P, n)
  <1> DEFINE e == [type |-> "chat", id |-> 0, seq |-> s.next, shows |-> shows]
  <1>1. /\ DOMAIN u = Fields /\ u.log = Append(s.log, e) /\ u.known = s.known
        /\ u.seq = s.seq /\ u.next = s.next + 1 /\ u.status = s.status
    BY DEF Good, Fields
  <1>2. e.type = "chat" /\ e.id = 0 /\ e.seq = s.next
    OBVIOUS
  <1> HIDE DEF e
  <1>3. /\ IsSeq(u.log) /\ DOMAIN u.log = DOMAIN s.log \cup {Len(s.log) + 1}
        /\ u.log[Len(s.log) + 1] = e /\ \A i \in DOMAIN s.log : u.log[i] = s.log[i]
    BY <1>1, AppendFacts DEF Good
  <1>4. Numbered(u, n)
    BY <1>1, <1>2, <1>3 DEF Good, Numbered
  <1>5. Expects(u, P)
    BY <1>1, <1>2, <1>3 DEF Good, Expects
  <1>6. LastIsKnown(u)
    BY <1>1, <1>2, <1>3 DEF Good, LastIsKnown
  <1>7. PlayedOnce(u)
    BY <1>1, <1>2, <1>3 DEF Good, PlayedOnce
  <1>8. EndsLast(u) /\ OverIsOver(u)
    BY <1>1, <1>2, <1>3 DEF Good, EndsLast, OverIsOver
  <1> QED
    BY <1>1, <1>3, <1>4, <1>5, <1>6, <1>7, <1>8 DEF Good

LEMMA RecallGood ==
  ASSUME NEW s, NEW P, NEW n \in Nat, Good(s, P, n), NEW k \in DOMAIN s.known,
         NEW u, u = [s EXCEPT !.known = Recall(@, k)]
  PROVE  Good(u, P, n)
  <1>1. /\ DOMAIN u = Fields /\ u.log = s.log /\ u.known = Recall(s.known, k)
        /\ u.seq = s.seq /\ u.next = s.next /\ u.status = s.status
    BY DEF Good, Fields
  <1>2. /\ IsSeq(u.known)
        /\ \A i \in DOMAIN s.known : \E j \in DOMAIN u.known : u.known[j] = s.known[i]
    BY <1>1, RecallFacts DEF Good
  <1>3. LastIsKnown(u)
    BY <1>1, <1>2 DEF Good, LastIsKnown
  <1> QED
    BY <1>1, <1>2, <1>3 DEF Good, Numbered, Expects, PlayedOnce, EndsLast, OverIsOver

\* A move that raises leaves its number to the next one.
LEMMA RaisesGood ==
  ASSUME NEW s, NEW P, NEW n \in Nat, Good(s, P, n), NEW ply, NEW t
  PROVE  Good(Raises(s, ply, t), P, n)
  <1> DEFINE u == Raises(s, ply, t)
  <1>1. Alike(s, Ticked(s, t)) /\ Ticked(s, t).status = s.status
    BY ClockKeeps DEF Good
  <1>2. /\ DOMAIN u = Fields /\ u.log = s.log /\ u.known = s.known
        /\ u.seq = s.next /\ u.next = s.next /\ u.status = s.status
    BY <1>1 DEF Raises, Alike, Fields
  <1> HIDE DEF u
  <1>3. Numbered(u, n)
    BY <1>2 DEF Good, Numbered
  <1>4. LastIsKnown(u)
    BY <1>2 DEF Good, LastIsKnown, Numbered
  <1>5. Good(u, P, n)
    BY <1>2, <1>3, <1>4 DEF Good, Expects, PlayedOnce, EndsLast, OverIsOver
  <1> QED
    BY <1>5 DEF u

\* A move by id of the game, which has not been played, in a game that is on.
LEMMA CommitGood ==
  ASSUME NEW s, NEW P, NEW n \in Nat, Good(s, P, n), s.status = "active",
         NEW ply, ply.id \in 0..n, NEW king \in BOOLEAN, NEW t,
         ply.id # 0 => \A i \in DOMAIN s.log : s.log[i].type = "move" => s.log[i].id # ply.id,
         \A r \in P : r.id = ply.id => r.expected \in Nat /\ r.expected <= s.next
  PROVE  Good(Commit(s, ply, king, t).s, P, n)
  <1> DEFINE moved == [Ticked(s, t) EXCEPT !.plies = Append(@, ply), !.turn = Other(@),
                  !.status = IF king THEN "finished" ELSE @,
                  !.reason = IF king THEN "board" ELSE @]
             told == Tell(moved, "move", ply.id)
             kept == Kept(told)
  <1>1. Alike(s, Ticked(s, t)) /\ Ticked(s, t).status = s.status
    BY ClockKeeps DEF Good
  <1>2. Alike(s, moved) /\ moved.status = IF king THEN "finished" ELSE "active"
    BY <1>1 DEF Alike, Fields
  <1>3. Good(moved, P, n)
    BY <1>2, AlikeGood
  <1>4. moved.log = s.log /\ moved.next = s.next
    BY <1>2 DEF Alike
  <1>5. \A i \in DOMAIN s.log : s.log[i].type # "over"
    BY DEF Good, OverIsOver
  <1> HIDE DEF moved
  <1>6. Good(kept, P, n) /\ kept.status = moved.status
    <2>1. \A i \in DOMAIN moved.log : moved.log[i].type # "over"
      BY <1>4, <1>5
    <2>2. ply.id # 0 => \A i \in DOMAIN moved.log : moved.log[i].type = "move" => moved.log[i].id # ply.id
      BY <1>4
    <2>3. \A r \in P : r.id = ply.id => r.expected \in Nat /\ r.expected <= moved.next
      BY <1>4
    <2> QED
      BY <1>3, <2>1, <2>2, <2>3, TellMoveGood
  <1> HIDE DEF told, kept
  <1>7. CASE king
    <2>1. Alike(kept, NoTimer(kept)) /\ NoTimer(kept).status = "finished"
      BY <1>2, <1>6, <1>7, ClockKeeps DEF Good
    <2>2. Good(Tell(NoTimer(kept), "over", 0), P, n)
      BY <1>6, <2>1, AlikeGood, TellOverGood
    <2>3. Commit(s, ply, king, t).s = Tell(NoTimer(kept), "over", 0)
      BY <1>7 DEF Commit, Did, Kept, moved, told, kept
    <2> QED
      BY <2>2, <2>3
  <1>8. CASE ~king
    <2>1. Good(Schedule(kept, t).s, P, n)
      BY <1>6, ScheduleGood
    <2>2. Schedule(kept, t).s = Commit(s, ply, king, t).s
      BY <1>8 DEF Commit, Did, Schedule, Expire, Finish, Kept, moved, told, kept
    <2> QED
      BY <2>1, <2>2
  <1> QED
    BY <1>7, <1>8
-----------------------------------------------------------------------------
(* The steps.                                                              *)

Used == [moves : Nat, asks : Nat, trouble : Nat]

LEMMA TroubleFacts ==
  ASSUME used \in Used, Trouble
  PROVE  used' \in Used /\ used'.moves = used.moves
  BY DEF Used, Trouble, Spend

\* A step that draws no id keeps the invariant if the session it leaves is good.
LEMMA QuietStep ==
  ASSUME IInv, used' \in Used, used'.moves = used.moves, db'.ply \in Nat,
         posts' \in SUBSET posts,
         session' = session \/ session' = NoSession \/ Good(session', posts, used.moves)
  PROVE  IInv'
  <1>1. used.moves \in Nat
    BY DEF IInv
  <1>2. PostsApart'
    BY DEF IInv, PostsApart
  <1>3. session' # NoSession => Good(session', posts, used.moves)
    BY DEF IInv
  <1>4. session' # NoSession => Good(session', posts', used.moves)
    BY <1>1, <1>3, FewerPosts
  <1> QED
    BY <1>2, <1>4 DEF IInv, Used

LEMMA InitInv == Init => IInv
  <1> SUFFICES ASSUME Init PROVE IInv
    OBVIOUS
  <1>1. used \in Used /\ used.moves = 0 /\ db.ply = 0 /\ posts = {}
    BY DEF Init, Used
  <1>2. session = Built(0).s
    BY DEF Init
  <1>3. Good(Built(0).s, posts, used.moves)
    BY <1>1, BuiltGood
  <1> QED
    BY <1>1, <1>2, <1>3 DEF IInv, PostsApart, Used

\* What IInv says of a session that is there.
LEMMA AliveGood ==
  ASSUME IInv, Alive
  PROVE  Good(session, posts, used.moves) /\ used.moves \in Nat /\ used \in Used /\ db.ply \in Nat
  BY DEF IInv, Alive, Used

LEMMA ServerStep ==
  ASSUME IInv, Tick \/ TimerFires \/ Callback \/ Refresh \/ Chat
               \/ WorkerSaves \/ Hydrate \/ Evict \/ Crash
  PROVE  IInv'
  <1>1. used \in Used /\ used.moves \in Nat /\ db.ply \in Nat
    BY DEF IInv, Used
  <1>2. CASE Tick
    BY <1>1, <1>2, QuietStep DEF Tick
  <1>3. CASE TimerFires
    <2>1. Good(session, posts, used.moves)
      BY <1>3, AliveGood DEF TimerFires
    <2>2. Good(Fired(session), posts, used.moves)
      BY <2>1, ClockKeeps, AlikeGood DEF Good
    <2> QED
      BY <1>1, <1>3, <2>2, QuietStep DEF TimerFires
  <1>4. CASE Callback
    <2>1. Good(session, posts, used.moves)
      BY <1>4, AliveGood DEF Callback
    <2>2. PICK c \in session.calling :
            session' = Expire([session EXCEPT !.calling = @ \ {c}], c).s
      BY <1>4 DEF Callback, Apply
    <2> DEFINE s == [session EXCEPT !.calling = @ \ {c}]
    <2>3. Alike(session, s)
      BY <2>1 DEF Alike, Good, Fields
    <2>4. Good(s, posts, used.moves)
      BY <2>1, <2>3, AlikeGood
    <2>5. Good(Expire(s, c).s, posts, used.moves)
      BY <1>1, <2>4, ExpireGood
    <2> QED
      BY <1>1, <1>4, <2>2, <2>5, QuietStep DEF Callback
  <1>5. CASE Refresh
    <2>1. Good(Resolve(session, now).s, posts, used.moves)
      BY <1>5, AliveGood, ResolveGood DEF Refresh
    <2> QED
      BY <1>1, <1>5, <2>1, QuietStep DEF Refresh, Apply
  <1>6. CASE Chat
    <2>1. Good(session', posts, used.moves)
      BY <1>6, AliveGood, ChatGood DEF Chat
    <2>2. used' \in Used /\ used'.moves = used.moves
      BY <1>1, <1>6, TroubleFacts DEF Chat
    <2> QED
      BY <1>1, <1>6, <2>1, <2>2, QuietStep DEF Chat
  <1>7. CASE WorkerSaves
    <2>1. db'.ply \in Nat /\ used' \in Used /\ used'.moves = used.moves
      BY <1>1, <1>7, TroubleFacts DEF WorkerSaves, Row
    <2> QED
      BY <1>7, <2>1, QuietStep DEF WorkerSaves
  <1>8. CASE Hydrate
    <2>1. Good(Built(now).s, posts, used.moves)
      BY <1>1, BuiltGood
    <2> QED
      BY <1>1, <1>8, <2>1, QuietStep DEF Hydrate, Apply
  <1>9. CASE Evict
    <2>1. used' \in Used /\ used'.moves = used.moves
      BY <1>1, <1>9, TroubleFacts DEF Evict
    <2> QED
      BY <1>1, <1>9, <2>1, QuietStep DEF Evict
  <1>10. CASE Crash
    <2>1. used' \in Used /\ used'.moves = used.moves
      BY <1>1, <1>10, TroubleFacts DEF Crash
    <2> QED
      BY <1>1, <1>10, <2>1, QuietStep DEF Crash
  <1> QED
    BY <1>2, <1>3, <1>4, <1>5, <1>6, <1>7, <1>8, <1>9, <1>10

\* A move whose answer is not remembered, and whose page expects the number the
\* session has, is not in the log: if it were, it would be the last.
LEMMA FreshIsNew ==
  ASSUME NEW s, NEW P, NEW n \in Nat, Good(s, P, n), NEW r \in P, r.id # 0,
         \A k \in DOMAIN s.known : s.known[k].id # r.id, r.expected = s.seq
  PROVE  \A i \in DOMAIN s.log : s.log[i].type = "move" => s.log[i].id # r.id
  <1> SUFFICES ASSUME NEW i \in DOMAIN s.log, s.log[i].type = "move", s.log[i].id = r.id
               PROVE  FALSE
    OBVIOUS
  <1>1. s.seq <= s.log[i].seq
    BY DEF Good, Expects
  <1>2. s.log[i].seq <= s.seq /\ s.log[i].seq \in Nat /\ s.seq \in Nat
    BY DEF Good, Numbered
  <1>3. s.log[i].seq = s.seq
    BY <1>1, <1>2
  <1>4. PICK k \in DOMAIN s.known : s.known[k].id = r.id
    BY <1>3 DEF Good, LastIsKnown
  <1> QED
    BY <1>4

LEMMA MoveStep ==
  ASSUME IInv, NEW r \in posts,
         MoveKnown(r) \/ MoveRefused(r) \/ MoveTooLate(r) \/ MovePlayed(r) \/ MoveRaises(r)
  PROVE  IInv'
  <1>1. /\ used \in Used /\ used.moves \in Nat /\ db.ply \in Nat /\ r.id \in 1..used.moves
        /\ \A q \in posts : q.id = r.id => q = r
    BY DEF IInv, Used, PostsApart
  <1>2. Alive
    BY DEF MoveKnown, MoveRefused, MoveTooLate, MovePlayed, MoveRaises, Arrives
  <1>3. Good(session, posts, used.moves)
    BY <1>2, AliveGood
  <1>4. Arrives(r) => /\ used' \in Used /\ used'.moves = used.moves /\ db'.ply \in Nat
                      /\ posts' \in SUBSET posts
    BY <1>1, TroubleFacts DEF Arrives
  <1>5. CASE MoveKnown(r)
    <2>1. PICK k \in Answered(session, r.id) : session' = [session EXCEPT !.known = Recall(@, k)]
      BY <1>5 DEF MoveKnown
    <2>2. k \in DOMAIN session.known
      BY <2>1 DEF Answered
    <2>3. Good(session', posts, used.moves)
      BY <1>1, <1>3, <2>1, <2>2, RecallGood
    <2> QED
      BY <1>4, <1>5, <2>3, QuietStep DEF MoveKnown
  <1>6. CASE MoveRefused(r)
    BY <1>4, <1>6, QuietStep DEF MoveRefused
  <1>7. CASE MoveTooLate(r)
    <2>1. Good(Resolve(session, now).s, posts, used.moves)
      BY <1>1, <1>3, ResolveGood
    <2> QED
      BY <1>4, <1>7, <2>1, QuietStep DEF MoveTooLate, Apply
  <1>8. CASE MovePlayed(r)
    <2> DEFINE s == Synced(session, now)
    <2>1. Good(s, posts, used.moves)
      BY <1>1, <1>3, SyncedGood
    <2>2. Alike(session, s) /\ s.status = session.status
      BY <1>3, ClockKeeps DEF Good
    <2>3. PICK king \in BOOLEAN : session' = Commit(s, PlyOf(r), king, now).s
      BY <1>8 DEF MovePlayed, Apply
    <2>4. Answered(session, r.id) = {} /\ r.expected = session.seq /\ session.status = "active"
      BY <1>8 DEF MovePlayed, Fresh, Refuses
    <2>5. s.log = session.log /\ s.next = session.next
      BY <2>2 DEF Alike
    <2>6. \A i \in DOMAIN s.log : s.log[i].type = "move" => s.log[i].id # r.id
      BY <1>1, <1>3, <2>4, <2>5, FreshIsNew DEF Answered
    <2>7. r.expected \in Nat /\ r.expected <= s.next
      BY <1>3, <2>4, <2>5 DEF Good, Numbered
    <2>8. PlyOf(r).id = r.id /\ r.id \in 0..used.moves
      BY <1>1 DEF PlyOf
    <2>9. \A q \in posts : q.id = PlyOf(r).id => q.expected \in Nat /\ q.expected <= s.next
      BY <1>1, <2>7, <2>8
    <2> HIDE DEF s
    <2>10. Good(Commit(s, PlyOf(r), king, now).s, posts, used.moves)
      BY <1>1, <2>1, <2>2, <2>4, <2>6, <2>8, <2>9, CommitGood
    <2> QED
      BY <1>4, <1>8, <2>3, <2>10, QuietStep DEF MovePlayed
  <1>9. CASE MoveRaises(r)
    <2>1. Good(Synced(session, now), posts, used.moves)
      BY <1>1, <1>3, SyncedGood
    <2>2. Good(session', posts, used.moves)
      BY <1>1, <1>9, <2>1, RaisesGood DEF MoveRaises
    <2>3. used' \in Used /\ used'.moves = used.moves
      BY <1>1, <1>9, TroubleFacts DEF MoveRaises
    <2>4. posts' \in SUBSET posts /\ db' = db
      BY <1>9 DEF MoveRaises
    <2> QED
      BY <1>1, <2>2, <2>3, <2>4, QuietStep
  <1> QED
    BY <1>5, <1>6, <1>7, <1>8, <1>9

LEMMA EngineStep ==
  ASSUME IInv, NEW p \in Pages,
         LookAtSeat(p) \/ EngineMoves(p) \/ EngineRaises(p) \/ EngineTooLate(p) \/ EngineRefused(p)
  PROVE  IInv'
  <1>1. used \in Used /\ used.moves \in Nat /\ db.ply \in Nat
        /\ \A q \in posts : q.id # 0
    BY DEF IInv, Used, PostsApart
  <1>2. EngineMayMove(p) => Good(session, posts, used.moves) /\ session.status = "active"
    BY AliveGood DEF EngineMayMove
  <1>3. CASE LookAtSeat(p)
    BY <1>1, <1>3, QuietStep DEF LookAtSeat
  <1>4. CASE EngineMoves(p)
    <2> DEFINE s == Synced(session, now)
               ply == [id |-> 0, by |-> s.turn, engine |-> TRUE]
    <2>1. Good(s, posts, used.moves) /\ s.status = "active"
      BY <1>1, <1>2, <1>4, SyncedGood, ClockKeeps DEF EngineMoves, Good
    <2>2. PICK d \in 0..MaxThink, king \in BOOLEAN :
            \E t \in {s, Fired(s)} : session' = Commit(t, ply, king, now + d).s
      BY <1>4 DEF EngineMoves, Apply
    <2>7. PICK t \in {s, Fired(s)} : session' = Commit(t, ply, king, now + d).s
      BY <2>2
    <2>3. Good(t, posts, used.moves) /\ t.status = "active"
      BY <2>1, <2>7, ClockKeeps, AlikeGood DEF Good
    <2>4. ply.id = 0
      OBVIOUS
    <2> HIDE DEF s, ply
    <2>5. Good(Commit(t, ply, king, now + d).s, posts, used.moves)
      BY <1>1, <2>3, <2>4, CommitGood
    <2>6. UNCHANGED <<db, posts, used>>
      BY <1>4 DEF EngineMoves
    <2> QED
      BY <1>1, <2>7, <2>5, <2>6, QuietStep
  <1>5. CASE EngineRaises(p)
    <2>1. Good(Synced(session, now), posts, used.moves)
      BY <1>1, <1>2, <1>5, SyncedGood DEF EngineRaises
    <2>2. Good(session', posts, used.moves)
      BY <1>1, <1>5, <2>1, RaisesGood DEF EngineRaises
    <2>3. used' \in Used /\ used'.moves = used.moves
      BY <1>1, <1>5, TroubleFacts DEF EngineRaises
    <2> QED
      BY <1>1, <1>5, <2>2, <2>3, QuietStep DEF EngineRaises
  <1>6. CASE EngineTooLate(p)
    <2>1. Good(Resolve(session, now).s, posts, used.moves)
      BY <1>1, <1>2, <1>6, ResolveGood DEF EngineTooLate
    <2> QED
      BY <1>1, <1>6, <2>1, QuietStep DEF EngineTooLate, Apply
  <1>7. CASE EngineRefused(p)
    BY <1>1, <1>7, QuietStep DEF EngineRefused
  <1> QED
    BY <1>3, <1>4, <1>5, <1>6, <1>7

\* The one step that draws an id: no post and no event has it.
LEMMA SubmitStep ==
  ASSUME IInv, NEW p \in Pages, Submit(p)
  PROVE  IInv'
  <1> DEFINE r == [page |-> p, id |-> used.moves + 1, expected |-> page[p].shows.seq]
  <1>1. used \in Used /\ used.moves \in Nat /\ PostsApart
    BY DEF IInv, Used
  <1>2. posts' = posts \cup {r} /\ UNCHANGED <<session, db>>
    BY DEF Submit
  <1>3. used' \in Used /\ used'.moves = used.moves + 1
    BY <1>1 DEF Submit, Spend, Used
  <1>4. r.id = used.moves + 1
    OBVIOUS
  <1> HIDE DEF r
  <1>5. PostsApart'
    BY <1>1, <1>2, <1>3, <1>4 DEF PostsApart
  <1>6. session # NoSession => Good(session, posts \cup {r}, used.moves + 1)
    BY <1>1, <1>4, OnePostMore DEF IInv
  <1> QED
    BY <1>2, <1>3, <1>5, <1>6 DEF IInv, Used

LEMMA PageStep ==
  ASSUME IInv, NEW p \in Pages,
         \/ ReadReply(p) \/ ReadEvent(p) \/ ReadCursor(p) \/ Load(p) \/ Surrender(p)
         \/ AgreeDraw(p) \/ AskEngine(p) \/ ReadEngineReply(p)
  PROVE  IInv'
  <1>1. used \in Used /\ used.moves \in Nat /\ db.ply \in Nat
    BY DEF IInv, Used
  <1>2. ASSUME Alive PROVE Good(Resolve(session, now).s, posts, used.moves)
    BY <1>1, <1>2, AliveGood, ResolveGood
  <1>3. CASE ReadReply(p)
    <2>1. session' = session \/ Good(session', posts, used.moves)
      BY <1>2, <1>3 DEF ReadReply, Loads, Apply
    <2> QED
      BY <1>1, <1>3, <2>1, QuietStep DEF ReadReply
  <1>4. CASE ReadEvent(p)
    BY <1>1, <1>4, QuietStep DEF ReadEvent
  <1>5. CASE ReadCursor(p)
    BY <1>1, <1>5, QuietStep DEF ReadCursor
  <1>6. CASE Load(p)
    <2>1. Good(session', posts, used.moves)
      BY <1>2, <1>6 DEF Load, Loads, Apply
    <2>2. used' \in Used /\ used'.moves = used.moves
      BY <1>1, <1>6, TroubleFacts DEF Load
    <2> QED
      BY <1>1, <1>6, <2>1, <2>2, QuietStep DEF Load
  <1>7. ASSUME NEW reason, End(p, reason) PROVE IInv'
    <2>1. Good(Finish(session, reason).s, posts, used.moves)
      BY <1>1, <1>7, AliveGood, FinishGood DEF End
    <2>2. used' \in Used /\ used'.moves = used.moves
      BY <1>1, <1>7, TroubleFacts DEF End
    <2> QED
      BY <1>1, <1>7, <2>1, <2>2, QuietStep DEF End, Apply
  <1>8. CASE Surrender(p) \/ AgreeDraw(p)
    BY <1>7, <1>8 DEF Surrender, AgreeDraw
  <1>9. CASE AskEngine(p)
    <2>1. used' \in Used /\ used'.moves = used.moves
      BY <1>1, <1>9 DEF AskEngine, Spend, Used
    <2> QED
      BY <1>1, <1>9, <2>1, QuietStep DEF AskEngine
  <1>10. CASE ReadEngineReply(p)
    BY <1>1, <1>10, QuietStep DEF ReadEngineReply
  <1> QED
    BY <1>3, <1>4, <1>5, <1>6, <1>8, <1>9, <1>10

LEMMA NextInv == IInv /\ [Next]_vars => IInv'
  <1> SUFFICES ASSUME IInv, [Next]_vars PROVE IInv'
    OBVIOUS
  <1>1. CASE Next
    BY <1>1, ServerStep, MoveStep, EngineStep, SubmitStep, PageStep DEF Next
  <1>2. CASE UNCHANGED vars
    BY <1>2 DEF vars, IInv, PostsApart
  <1> QED
    BY <1>1, <1>2

-----------------------------------------------------------------------------
(* The clock.                                                              *)

JobGood(j) == j.turn \in Color /\ j.bank \in [Color -> Nat]

Jobs(q) == \E S : q \in Seq(S) /\ \A j \in S : JobGood(j)

\* The clock's fields are well formed.
Clocked(s) ==
  /\ DOMAIN s = Fields
  /\ s.turn \in Color /\ s.active \in Color
  /\ s.bank \in [Color -> Nat] /\ s.anchor \in Nat /\ s.timer \in Timer

OnTurn(s) == s.status = "active" => s.active = s.turn

TimerSet(s) ==
  s.status = "active" /\ ~s.untold =>
    /\ s.timer.state # "none" /\ s.timer.color = s.active
    /\ s.timer.due = s.anchor + s.bank[s.active]

Wound(s) == Clocked(s) /\ OnTurn(s) /\ TimerSet(s)

ClockInv ==
  /\ now \in Nat /\ db.at \in Nat /\ JobGood(db.last) /\ Jobs(queue)
  /\ session # NoSession => Wound(session)

\* What an operation does is good.
DidGood(did) == Wound(did.s) /\ Jobs(did.queued)

LEMMA JobsOf ==
  ASSUME NEW S, \A j \in S : JobGood(j), NEW q \in Seq(S)
  PROVE  Jobs(q)
  BY DEF Jobs

LEMMA NoJobs == Jobs(<<>>)
  <1>1. <<>> \in Seq({}) /\ \A j \in {} : JobGood(j)
    OBVIOUS
  <1> QED
    BY <1>1, JobsOf

LEMMA OneJob ==
  ASSUME NEW j, JobGood(j), NEW k, JobGood(k)
  PROVE  Jobs(<<j>>) /\ Jobs(<<j>> \o <<>>) /\ Jobs(<<j>> \o <<k>>)
  <1> DEFINE S == {j, k}
  <1>1. <<j>> \in Seq(S) /\ <<j>> \o <<>> \in Seq(S) /\ <<j>> \o <<k>> \in Seq(S)
    OBVIOUS
  <1>2. \A i \in S : JobGood(i)
    OBVIOUS
  <1> HIDE DEF S
  <1> QED
    BY <1>1, <1>2, JobsOf

LEMMA MoreJobs ==
  ASSUME NEW q, Jobs(q), NEW more, Jobs(more)
  PROVE  Jobs(q \o more)
  <1>1. PICK S : q \in Seq(S) /\ \A j \in S : JobGood(j)
    BY DEF Jobs
  <1>2. PICK T : more \in Seq(T) /\ \A j \in T : JobGood(j)
    BY DEF Jobs
  <1>3. q \in Seq(S \cup T) /\ more \in Seq(S \cup T)
    BY <1>1, <1>2
  <1>4. q \o more \in Seq(S \cup T)
    BY <1>3
  <1> QED
    BY <1>1, <1>2, <1>4 DEF Jobs

LEMMA FewerJobs ==
  ASSUME NEW q, Jobs(q), NEW i \in 1..Len(q)
  PROVE  JobGood(q[i]) /\ Jobs(SubSeq(q, 1, i - 1) \o SubSeq(q, i + 1, Len(q)))
  <1>1. PICK S : q \in Seq(S) /\ \A j \in S : JobGood(j)
    BY DEF Jobs
  <1>2. q[i] \in S /\ Len(q) \in Nat
    BY <1>1
  <1>3. SubSeq(q, 1, i - 1) \in Seq(S) /\ SubSeq(q, i + 1, Len(q)) \in Seq(S)
    BY <1>1, <1>2
  <1>4. SubSeq(q, 1, i - 1) \o SubSeq(q, i + 1, Len(q)) \in Seq(S)
    BY <1>3
  <1> QED
    BY <1>1, <1>2, <1>4 DEF Jobs

LEMMA NoTimerClocked ==
  ASSUME NEW s, Clocked(s)
  PROVE  /\ Clocked(NoTimer(s)) /\ NoTimer(s).turn = s.turn /\ NoTimer(s).active = s.active
         /\ NoTimer(s).bank = s.bank /\ NoTimer(s).anchor = s.anchor
         /\ NoTimer(s).status = s.status /\ NoTimer(s).untold = s.untold
  BY DEF Clocked, NoTimer, Fields, Timer

LEMMA FiredClocked ==
  ASSUME NEW s, Clocked(s)
  PROVE  /\ Clocked(Fired(s)) /\ Fired(s).turn = s.turn /\ Fired(s).active = s.active
         /\ Fired(s).bank = s.bank /\ Fired(s).anchor = s.anchor
         /\ Fired(s).status = s.status /\ Fired(s).untold = s.untold
         /\ Fired(s).timer.state = "fired" /\ Fired(s).timer.color = s.timer.color
         /\ Fired(s).timer.due = s.timer.due
  BY DEF Clocked, Fired, Fields, Timer

LEMMA SyncedClocked ==
  ASSUME NEW s, Clocked(s), NEW t \in Nat
  PROVE  /\ Clocked(Synced(s, t)) /\ Synced(s, t).turn = s.turn
         /\ Synced(s, t).active = s.active /\ Synced(s, t).status = s.status
         /\ Synced(s, t).untold = s.untold /\ Synced(s, t).timer = s.timer
         /\ Synced(s, t).anchor = t
         /\ Synced(s, t).bank[s.active] =
              IF s.bank[s.active] - (t - s.anchor) > 0 THEN s.bank[s.active] - (t - s.anchor) ELSE 0
  <1>1. s.bank[s.active] \in Nat /\ s.anchor \in Nat
    BY DEF Clocked
  <1> DEFINE left == s.bank[s.active] - (t - s.anchor)
  <1>2. left \in Int /\ (left > 0 => left \in Nat)
    BY <1>1
  <1>3. /\ DOMAIN Synced(s, t) = Fields /\ Synced(s, t).turn = s.turn
        /\ Synced(s, t).active = s.active /\ Synced(s, t).status = s.status
        /\ Synced(s, t).untold = s.untold /\ Synced(s, t).timer = s.timer
        /\ Synced(s, t).anchor = t
        /\ Synced(s, t).bank = [s.bank EXCEPT ![s.active] = IF left > 0 THEN left ELSE 0]
    BY DEF Clocked, Synced, Fields
  <1> HIDE DEF left
  <1>4. [s.bank EXCEPT ![s.active] = IF left > 0 THEN left ELSE 0] \in [Color -> Nat]
    BY <1>2 DEF Clocked
  <1>5. [s.bank EXCEPT ![s.active] = IF left > 0 THEN left ELSE 0][s.active] = IF left > 0 THEN left ELSE 0
    BY DEF Clocked
  <1>6. Clocked(Synced(s, t))
    BY <1>3, <1>4 DEF Clocked
  <1> QED
    BY <1>3, <1>5, <1>6 DEF left

LEMMA FinishClocked ==
  ASSUME NEW s, Clocked(s), NEW reason
  PROVE  DidGood(Finish(s, reason))
  <1> DEFINE over == [NoTimer(s) EXCEPT !.status = "finished", !.reason = reason]
             told == Tell(over, "over", 0)
  <1>1. Clocked(over) /\ over.status = "finished"
    BY NoTimerClocked DEF Clocked, Fields
  <1> HIDE DEF over
  <1>2. Clocked(told) /\ told.status = "finished"
    BY <1>1 DEF Tell, Clocked, Fields
  <1> HIDE DEF told
  <1>3. Finish(s, reason).s = told /\ Finish(s, reason).queued = <<JobOf(told)>>
    BY DEF Finish, Did, told, over
  <1>4. JobGood(JobOf(told))
    BY <1>2 DEF JobGood, JobOf, Clocked
  <1> QED
    BY <1>2, <1>3, <1>4, OneJob DEF DidGood, Wound, OnTurn, TimerSet

\* A session whose timer is of no use yet: it is over, or it will be set.
LEMMA ScheduleClocked ==
  ASSUME NEW s, Clocked(s), OnTurn(s), NEW t \in Nat
  PROVE  /\ DidGood(Schedule(s, t))
         /\ \/ Schedule(s, t).queued = <<>>
            \/ \E j : JobGood(j) /\ Schedule(s, t).queued = <<j>>
  <1> DEFINE z == NoTimer(Synced(s, t))
             u == [z EXCEPT !.timer = [state |-> "armed", color |-> s.active,
                                       due |-> t + z.bank[s.active]]]
  <1>1. /\ Clocked(z) /\ z.turn = s.turn /\ z.active = s.active /\ z.status = s.status
        /\ z.anchor = t
    BY SyncedClocked, NoTimerClocked
  <1>2. z.bank[s.active] \in Nat /\ s.active \in Color
    BY <1>1 DEF Clocked
  <1> HIDE DEF z
  <1>3. CASE z.bank[s.active] = 0
    <2>1. Schedule(s, t) = Expire(z, s.active)
      BY <1>3 DEF Schedule, z
    <2>2. CASE s.status = "active"
      <3>1. Expire(z, s.active) = Finish(z, "time")
        BY <1>1, <2>2 DEF Expire, OnTurn
      <3>2. DidGood(Finish(z, "time"))
        BY <1>1, FinishClocked
      <3>3. Finish(z, "time").queued = <<JobOf(Finish(z, "time").s)>>
        BY DEF Finish, Did
      <3>4. JobGood(JobOf(Finish(z, "time").s))
        BY <3>2 DEF DidGood, Wound, Clocked, JobGood, JobOf
      <3> QED
        BY <2>1, <3>1, <3>2, <3>3, <3>4
    <2>3. CASE s.status # "active"
      <3>1. Expire(z, s.active) = Did(z)
        BY <1>1, <2>3 DEF Expire
      <3>2. Jobs(<<>>)
        BY NoJobs
      <3> QED
        BY <1>1, <2>1, <2>3, <3>1, <3>2 DEF Did, DidGood, Wound, OnTurn, TimerSet
    <2> QED
      BY <2>2, <2>3
  <1>4. CASE z.bank[s.active] # 0
    <2>1. Schedule(s, t) = Did(u)
      BY <1>4 DEF Schedule, z
    <2>2. /\ DOMAIN u = Fields /\ u.turn = s.turn /\ u.active = s.active /\ u.status = s.status
          /\ u.anchor = t /\ u.bank = z.bank
          /\ u.timer = [state |-> "armed", color |-> s.active, due |-> t + z.bank[s.active]]
      BY <1>1 DEF Clocked, Fields
    <2> HIDE DEF u
    <2>3. u.timer \in Timer
      BY <1>2, <2>2 DEF Timer
    <2>4. Wound(u)
      BY <1>1, <2>2, <2>3 DEF Wound, Clocked, OnTurn, TimerSet
    <2>5. Jobs(<<>>)
      BY NoJobs
    <2> QED
      BY <2>1, <2>4, <2>5 DEF Did, DidGood
  <1> QED
    BY <1>3, <1>4

LEMMA ResolveClocked ==
  ASSUME NEW s, Clocked(s), OnTurn(s), NEW t \in Nat
  PROVE  /\ Clocked(Resolve(s, t).s) /\ OnTurn(Resolve(s, t).s) /\ Jobs(Resolve(s, t).queued)
         /\ TimerSet(s) => DidGood(Resolve(s, t))
         /\ Resolve(s, t).s.status # "active" => DidGood(Resolve(s, t))
  <1>1. Jobs(<<>>)
    BY NoJobs
  <1>2. CASE s.status # "active"
    BY <1>1, <1>2 DEF Resolve, Did, DidGood, Wound, TimerSet
  <1>3. CASE s.status = "active" /\ Forfeits(s, t)
    <2>1. DidGood(Finish(Synced(s, t), "time"))
      BY SyncedClocked, FinishClocked
    <2> QED
      BY <1>3, <2>1 DEF Resolve, DidGood, Wound
  <1>4. CASE s.status = "active" /\ ~Forfeits(s, t)
    <2> DEFINE z == Synced(s, t)
    <2>1. Resolve(s, t) = Did(z)
      BY <1>4 DEF Resolve
    <2>2. /\ Clocked(z) /\ z.turn = s.turn /\ z.active = s.active /\ z.status = s.status
          /\ z.untold = s.untold /\ z.timer = s.timer /\ z.anchor = t
          /\ z.bank[s.active] = IF s.bank[s.active] - (t - s.anchor) > 0
                                THEN s.bank[s.active] - (t - s.anchor) ELSE 0
      BY SyncedClocked
    <2>3. z.bank[s.active] # 0
      BY <1>4 DEF Forfeits
    <2> HIDE DEF z
    <2>4. z.bank[s.active] = s.bank[s.active] - (t - s.anchor)
      BY <2>2, <2>3
    <2>5. s.bank[s.active] \in Nat /\ s.anchor \in Nat
      BY DEF Clocked
    <2>6. t + z.bank[s.active] = s.anchor + s.bank[s.active]
      BY <2>4, <2>5
    <2>7. TimerSet(s) => TimerSet(z)
      BY <2>2, <2>6 DEF TimerSet
    <2>8. OnTurn(z)
      BY <2>2 DEF OnTurn
    <2> QED
      BY <1>1, <1>4, <2>1, <2>2, <2>7, <2>8 DEF Did, DidGood, Wound
  <1> QED
    BY <1>2, <1>3, <1>4

LEMMA ExpireClocked ==
  ASSUME NEW s, Wound(s), NEW c
  PROVE  DidGood(Expire(s, c))
  <1>1. Jobs(<<>>)
    BY NoJobs
  <1>2. DidGood(Finish(s, "time"))
    BY FinishClocked DEF Wound
  <1> QED
    BY <1>1, <1>2 DEF Expire, Did, DidGood

LEMMA TickedClocked ==
  ASSUME NEW s, Clocked(s), NEW t \in Nat
  PROVE  /\ Clocked(Ticked(s, t)) /\ Ticked(s, t).active = Other(s.active)
         /\ Ticked(s, t).turn = s.turn /\ Ticked(s, t).status = s.status
         /\ Other(s.turn) \in Color
  BY DEF Clocked, Ticked, Fields, Other, Color

LEMMA CommitClocked ==
  ASSUME NEW s, Clocked(s), OnTurn(s), s.status = "active", NEW ply, NEW king \in BOOLEAN,
         NEW t \in Nat
  PROVE  DidGood(Commit(s, ply, king, t))
  <1> DEFINE moved == [Ticked(s, t) EXCEPT !.plies = Append(@, ply), !.turn = Other(@),
                         !.status = IF king THEN "finished" ELSE @,
                         !.reason = IF king THEN "board" ELSE @]
             told == Tell(moved, "move", ply.id)
             kept == Kept(told)
  <1>1. /\ Clocked(moved) /\ moved.active = moved.turn
        /\ moved.status = IF king THEN "finished" ELSE "active"
    BY TickedClocked DEF Clocked, Fields, OnTurn
  <1> HIDE DEF moved
  <1>2. Clocked(told) /\ told.active = told.turn /\ told.status = moved.status
    BY <1>1 DEF Tell, Clocked, Fields
  <1> HIDE DEF told
  <1>3. Clocked(kept) /\ kept.active = kept.turn /\ kept.status = moved.status
    BY <1>2 DEF Kept, Clocked, Fields
  <1> HIDE DEF kept
  <1>4. JobGood(JobOf(moved))
    BY <1>1 DEF JobGood, JobOf, Clocked
  <1>5. CASE king
    <2> DEFINE over == Tell(NoTimer(kept), "over", 0)
    <2>1. Clocked(NoTimer(kept)) /\ NoTimer(kept).status = "finished"
      BY <1>1, <1>3, <1>5, NoTimerClocked
    <2>2. Clocked(over) /\ over.status = "finished"
      BY <2>1 DEF Tell, Clocked, Fields
    <2> HIDE DEF over
    <2>3. Commit(s, ply, king, t).s = over /\ Commit(s, ply, king, t).queued = <<JobOf(moved)>> \o <<>>
      BY <1>5 DEF Commit, Did, Kept, moved, told, kept, over
    <2> QED
      BY <1>4, <2>2, <2>3, OneJob DEF DidGood, Wound, OnTurn, TimerSet
  <1>6. CASE ~king
    <2>1. /\ DidGood(Schedule(kept, t))
          /\ \/ Schedule(kept, t).queued = <<>>
             \/ \E j : JobGood(j) /\ Schedule(kept, t).queued = <<j>>
      BY <1>3, ScheduleClocked DEF OnTurn
    <2>2. Jobs(<<JobOf(moved)>> \o Schedule(kept, t).queued)
      BY <1>4, <2>1, OneJob
    <2>3. /\ Commit(s, ply, king, t).s = Schedule(kept, t).s
          /\ Commit(s, ply, king, t).queued = <<JobOf(moved)>> \o Schedule(kept, t).queued
      BY <1>6 DEF Commit, Did, Schedule, Expire, Finish, Kept, moved, told, kept
    <2> QED
      BY <2>1, <2>2, <2>3 DEF DidGood
  <1> QED
    BY <1>5, <1>6

LEMMA RaisesClocked ==
  ASSUME NEW s, Clocked(s), OnTurn(s), s.status = "active", NEW ply, NEW t \in Nat
  PROVE  Wound(Raises(s, ply, t))
  <1> DEFINE u == Raises(s, ply, t)
  <1>1. Clocked(u) /\ u.active = u.turn /\ u.untold = TRUE
    BY TickedClocked DEF Raises, Clocked, Fields, OnTurn
  <1> QED
    BY <1>1 DEF Wound, OnTurn, TimerSet

LEMMA BuiltClocked ==
  ASSUME JobGood(db.last), db.at \in Nat, NEW t \in Nat
  PROVE  DidGood(Built(t))
  <1> DEFINE s == [status |-> db.status, reason |-> IF db.status = "active" THEN "none" ELSE "saved",
            plies |-> db.last.plies, turn |-> db.last.turn, bank |-> db.last.bank,
            active |-> db.last.turn, anchor |-> db.at,
            timer |-> [state |-> "none", color |-> "w", due |-> 0], calling |-> {},
            seq |-> db.ply, next |-> db.ply + 1, log |-> <<>>, known |-> <<>>, untold |-> FALSE]
  <1>1. Clocked(s) /\ OnTurn(s)
    BY DEF Clocked, OnTurn, JobGood, Fields, Timer, Color
  <1> HIDE DEF s
  <1>2. /\ Clocked(Resolve(s, t).s) /\ OnTurn(Resolve(s, t).s)
        /\ Resolve(s, t).s.status # "active" => DidGood(Resolve(s, t))
    BY <1>1, ResolveClocked
  <1>3. DidGood(Schedule(Resolve(s, t).s, t))
    BY <1>2, ScheduleClocked
  <1>4. Built(t) = IF Resolve(s, t).s.status = "active" THEN Schedule(Resolve(s, t).s, t)
                   ELSE Resolve(s, t)
    BY DEF Built, s
  <1> QED
    BY <1>2, <1>3, <1>4

LEMMA ClockInit == Init => ClockInv
  <1> SUFFICES ASSUME Init PROVE ClockInv
    OBVIOUS
  <1>1. JobGood(db.last) /\ db.at = 0 /\ now = 0 /\ queue = <<>> /\ session = Built(0).s
    BY ChezzGameAssumption DEF Init, Start, JobGood, Color
  <1>2. Wound(Built(0).s)
    BY <1>1, BuiltClocked DEF DidGood
  <1> QED
    BY <1>1, <1>2, NoJobs DEF ClockInv

\* A step that leaves the rows and the time alone keeps the invariant if what it
\* did is good.
LEMMA AppliedStep ==
  ASSUME ClockInv, NEW did, DidGood(did), Apply(did), UNCHANGED <<db, now>>
  PROVE  ClockInv'
  <1>1. session' = did.s /\ Jobs(queue')
    BY MoreJobs DEF Apply, ClockInv, DidGood
  <1>2. JobGood(db.last)'
    BY DEF ClockInv, JobGood
  <1> QED
    BY <1>1, <1>2 DEF ClockInv, DidGood, JobGood

LEMMA SessionStep ==
  ASSUME ClockInv, UNCHANGED <<db, queue>>, now' \in Nat,
         session' = session \/ session' = NoSession \/ Wound(session')
  PROVE  ClockInv'
  BY DEF ClockInv, JobGood

LEMMA AliveWound ==
  ASSUME ClockInv, Alive
  PROVE  /\ Wound(session) /\ Clocked(session) /\ OnTurn(session) /\ now \in Nat
         /\ DidGood(Resolve(session, now))
  BY ResolveClocked DEF ClockInv, Alive, Wound

LEMMA ServerClock ==
  ASSUME ClockInv, Tick \/ TimerFires \/ Callback \/ Refresh \/ Chat
                   \/ WorkerSaves \/ Hydrate \/ Evict \/ Crash
  PROVE  ClockInv'
  <1>1. now \in Nat
    BY DEF ClockInv
  <1>2. CASE Tick
    BY <1>1, <1>2, SessionStep DEF Tick
  <1>3. CASE TimerFires
    <2>1. Wound(Fired(session))
      BY <1>3, AliveWound, FiredClocked DEF TimerFires, Wound, OnTurn, TimerSet
    <2> QED
      BY <1>1, <1>3, <2>1, SessionStep DEF TimerFires
  <1>4. CASE Callback
    <2>1. PICK c \in session.calling :
            Apply(Expire([session EXCEPT !.calling = @ \ {c}], c))
      BY <1>4 DEF Callback
    <2> DEFINE s == [session EXCEPT !.calling = @ \ {c}]
    <2>2. Wound(session)
      BY <1>4, AliveWound DEF Callback
    <2>3. Wound(s)
      BY <2>2 DEF Wound, Clocked, OnTurn, TimerSet, Fields
    <2>4. DidGood(Expire(s, c))
      BY <2>3, ExpireClocked
    <2>5. Apply(Expire(s, c)) /\ UNCHANGED <<db, now>>
      BY <1>4, <2>1 DEF Callback
    <2> HIDE DEF s
    <2> QED
      BY <2>4, <2>5, AppliedStep
  <1>5. CASE Refresh
    BY <1>5, AliveWound, AppliedStep DEF Refresh
  <1>6. CASE Chat
    <2>1. Wound(session)
      BY <1>6, AliveWound DEF Chat
    <2>2. session' = [session EXCEPT !.next = @ + 1,
                   !.log = Append(@, [type |-> "chat", id |-> 0, seq |-> session.next,
                                      shows |-> Shows(session)])]
      BY <1>6 DEF Chat
    <2>3. Wound(session')
      BY <2>1, <2>2 DEF Wound, Clocked, OnTurn, TimerSet, Fields
    <2> QED
      BY <1>1, <1>6, <2>3, SessionStep DEF Chat
  <1>7. CASE WorkerSaves
    <2>1. PICK i \in 1..Workers :
            /\ i <= Len(queue)
            /\ queue' = SubSeq(queue, 1, i - 1) \o SubSeq(queue, i + 1, Len(queue))
            /\ db' = Row(queue[i]) \/ db' = db
            /\ UNCHANGED <<session, now>>
      BY <1>7 DEF WorkerSaves
    <2>2. Jobs(queue)
      BY DEF ClockInv
    <2>3. i \in 1..Len(queue)
      <3>1. PICK S : queue \in Seq(S)
        BY <2>2 DEF Jobs
      <3>2. Len(queue) \in Nat /\ Workers \in Nat
        BY <3>1, ChezzGameAssumption
      <3> QED
        BY <2>1, <3>2
    <2>4. JobGood(queue[i]) /\ Jobs(queue')
      BY <2>1, <2>2, <2>3, FewerJobs
    <2>5. JobGood(db'.last) /\ db'.at \in Nat
      BY <1>1, <2>1, <2>4 DEF Row, ClockInv
    <2> QED
      BY <2>1, <2>4, <2>5 DEF ClockInv, JobGood
  <1>8. CASE Hydrate
    <2>1. DidGood(Built(now))
      BY BuiltClocked DEF ClockInv
    <2> QED
      BY <1>8, <2>1, AppliedStep DEF Hydrate
  <1>9. CASE Evict
    BY <1>1, <1>9, SessionStep DEF Evict
  <1>10. CASE Crash
    BY <1>10, NoJobs DEF Crash, ClockInv, JobGood
  <1> QED
    BY <1>2, <1>3, <1>4, <1>5, <1>6, <1>7, <1>8, <1>9, <1>10

LEMMA MoveClock ==
  ASSUME ClockInv, NEW r \in posts,
         MoveKnown(r) \/ MoveRefused(r) \/ MoveTooLate(r) \/ MovePlayed(r) \/ MoveRaises(r)
  PROVE  ClockInv'
  <1>1. Alive
    BY DEF MoveKnown, MoveRefused, MoveTooLate, MovePlayed, MoveRaises, Arrives
  <1>2. /\ Wound(session) /\ Clocked(session) /\ OnTurn(session) /\ now \in Nat
        /\ DidGood(Resolve(session, now))
    BY <1>1, AliveWound
  <1>3. Arrives(r) => UNCHANGED <<db, now>>
    BY DEF Arrives
  <1>4. CASE MoveKnown(r)
    <2>1. PICK k \in Answered(session, r.id) : session' = [session EXCEPT !.known = Recall(@, k)]
      BY <1>4 DEF MoveKnown
    <2>2. Wound(session')
      BY <1>2, <2>1 DEF Wound, Clocked, OnTurn, TimerSet, Fields
    <2> QED
      BY <1>2, <1>3, <1>4, <2>2, SessionStep DEF MoveKnown
  <1>5. CASE MoveRefused(r)
    BY <1>2, <1>3, <1>5, SessionStep DEF MoveRefused
  <1>6. CASE MoveTooLate(r)
    BY <1>2, <1>3, <1>6, AppliedStep DEF MoveTooLate
  <1> DEFINE s == Synced(session, now)
  <1>7. Clocked(s) /\ s.status = session.status /\ OnTurn(s)
    BY <1>2, SyncedClocked DEF OnTurn
  <1>8. Fresh(r) => session.status = "active"
    BY DEF Fresh, Refuses
  <1>9. CASE MovePlayed(r)
    <2>1. PICK king \in BOOLEAN : Apply(Commit(s, PlyOf(r), king, now))
      BY <1>9 DEF MovePlayed
    <2> HIDE DEF s
    <2>2. DidGood(Commit(s, PlyOf(r), king, now))
      BY <1>2, <1>7, <1>8, <1>9, CommitClocked DEF MovePlayed
    <2> QED
      BY <1>3, <1>9, <2>1, <2>2, AppliedStep DEF MovePlayed
  <1>10. CASE MoveRaises(r)
    <2>1. session' = Raises(s, PlyOf(r), now) /\ UNCHANGED <<db, queue, now>>
      BY <1>10 DEF MoveRaises
    <2> HIDE DEF s
    <2>2. Wound(session')
      BY <1>2, <1>7, <1>8, <1>10, <2>1, RaisesClocked DEF MoveRaises
    <2> QED
      BY <1>2, <2>1, <2>2, SessionStep
  <1> QED
    BY <1>4, <1>5, <1>6, <1>9, <1>10

LEMMA EngineClock ==
  ASSUME ClockInv, NEW p \in Pages,
         LookAtSeat(p) \/ EngineMoves(p) \/ EngineRaises(p) \/ EngineTooLate(p) \/ EngineRefused(p)
  PROVE  ClockInv'
  <1>1. now \in Nat
    BY DEF ClockInv
  <1>2. EngineMayMove(p) =>
          /\ Wound(session) /\ Clocked(session) /\ OnTurn(session)
          /\ session.status = "active" /\ DidGood(Resolve(session, now))
    BY AliveWound DEF EngineMayMove
  <1>3. CASE LookAtSeat(p)
    BY <1>1, <1>3, SessionStep DEF LookAtSeat
  <1> DEFINE s == Synced(session, now)
             ply == [id |-> 0, by |-> s.turn, engine |-> TRUE]
  <1>4. EngineMayMove(p) => Clocked(s) /\ s.status = "active" /\ OnTurn(s)
    BY <1>1, <1>2, SyncedClocked DEF OnTurn
  <1>5. CASE EngineMoves(p)
    <2>1. PICK d \in 0..MaxThink, king \in BOOLEAN :
            /\ now' = now + d /\ db' = db
            /\ \E t \in {s, Fired(s)} : Apply(Commit(t, ply, king, now + d))
      BY <1>5 DEF EngineMoves
    <2>2. PICK t \in {s, Fired(s)} : Apply(Commit(t, ply, king, now + d))
      BY <2>1
    <2>3. Clocked(s) /\ s.status = "active" /\ OnTurn(s)
      BY <1>4, <1>5 DEF EngineMoves
    <2> HIDE DEF s, ply
    <2>4. Clocked(t) /\ t.status = "active" /\ OnTurn(t)
      BY <2>2, <2>3, FiredClocked DEF OnTurn
    <2>5. now + d \in Nat
      BY <1>1, ChezzGameAssumption
    <2>6. DidGood(Commit(t, ply, king, now + d))
      BY <2>4, <2>5, CommitClocked
    <2>7. session' = Commit(t, ply, king, now + d).s /\ Jobs(queue')
      BY <2>2, <2>6, MoreJobs DEF Apply, ClockInv, DidGood
    <2>8. JobGood(db.last)'
      BY <2>1 DEF ClockInv, JobGood
    <2> QED
      BY <2>1, <2>5, <2>6, <2>7, <2>8 DEF ClockInv, DidGood, JobGood
  <1>6. CASE EngineRaises(p)
    <2>1. session' = Raises(s, ply, now) /\ UNCHANGED <<db, queue, now>>
      BY <1>6 DEF EngineRaises
    <2>2. Clocked(s) /\ s.status = "active" /\ OnTurn(s)
      BY <1>4, <1>6 DEF EngineRaises
    <2> HIDE DEF s, ply
    <2>3. Wound(session')
      BY <1>1, <2>1, <2>2, RaisesClocked
    <2> QED
      BY <1>1, <2>1, <2>3, SessionStep
  <1>7. CASE EngineTooLate(p)
    BY <1>2, <1>7, AppliedStep DEF EngineTooLate
  <1>8. CASE EngineRefused(p)
    BY <1>1, <1>8, SessionStep DEF EngineRefused
  <1> QED
    BY <1>3, <1>5, <1>6, <1>7, <1>8

LEMMA PageClock ==
  ASSUME ClockInv, NEW p \in Pages,
         \/ Submit(p) \/ ReadReply(p) \/ ReadEvent(p) \/ ReadCursor(p) \/ Load(p) \/ Surrender(p)
         \/ AgreeDraw(p) \/ AskEngine(p) \/ ReadEngineReply(p)
  PROVE  ClockInv'
  <1>1. now \in Nat
    BY DEF ClockInv
  <1>2. CASE Submit(p) \/ ReadEvent(p) \/ ReadCursor(p) \/ AskEngine(p) \/ ReadEngineReply(p)
    BY <1>1, <1>2, SessionStep DEF Submit, ReadEvent, ReadCursor, AskEngine, ReadEngineReply
  <1>3. CASE ReadReply(p)
    <2>1. UNCHANGED <<db, now>>
      BY <1>3 DEF ReadReply
    <2>2. CASE Alive /\ Apply(Resolve(session, now))
      BY <2>1, <2>2, AliveWound, AppliedStep
    <2>3. CASE UNCHANGED <<session, queue>>
      BY <1>1, <2>1, <2>3, SessionStep
    <2> QED
      BY <1>3, <2>2, <2>3 DEF ReadReply, Loads
  <1>4. CASE Load(p)
    BY <1>4, AliveWound, AppliedStep DEF Load, Loads
  <1>5. ASSUME NEW reason, End(p, reason) PROVE ClockInv'
    <2>1. DidGood(Finish(session, reason))
      BY <1>5, AliveWound, FinishClocked DEF End
    <2> QED
      BY <1>5, <2>1, AppliedStep DEF End
  <1>6. CASE Surrender(p) \/ AgreeDraw(p)
    BY <1>5, <1>6 DEF Surrender, AgreeDraw
  <1> QED
    BY <1>2, <1>3, <1>4, <1>6

LEMMA ClockNext == ClockInv /\ [Next]_vars => ClockInv'
  <1> SUFFICES ASSUME ClockInv, [Next]_vars PROVE ClockInv'
    OBVIOUS
  <1>1. CASE Next
    BY <1>1, ServerClock, MoveClock, EngineClock, PageClock DEF Next
  <1>2. CASE UNCHANGED vars
    BY <1>2, SessionStep DEF vars, ClockInv
  <1> QED
    BY <1>1, <1>2

-----------------------------------------------------------------------------
(* What the log tells.                                                     *)

Telling(s) == DOMAIN s = Fields /\ IsSeq(s.log) /\ Told(s)

\* u shows what s shows.
ShowsAs(s, u) ==
  /\ DOMAIN u = Fields
  /\ u.log = s.log /\ u.untold = s.untold /\ u.seq = s.seq
  /\ u.plies = s.plies /\ u.turn = s.turn /\ u.status = s.status

LEMMA ShowsAsTells ==
  ASSUME NEW s, Telling(s), NEW u, ShowsAs(s, u)
  PROVE  Telling(u)
  <1>1. Shows(u) = Shows(s)
    BY DEF ShowsAs, Shows
  <1> QED
    BY <1>1 DEF ShowsAs, Telling, Told

LEMMA ClockShowsAs ==
  ASSUME NEW s, DOMAIN s = Fields, NEW t
  PROVE  ShowsAs(s, NoTimer(s)) /\ ShowsAs(s, Synced(s, t)) /\ ShowsAs(s, Fired(s))
  BY DEF ShowsAs, NoTimer, Synced, Fired, Fields

\* Whatever the log told before, an event shows the state.
LEMMA TellTells ==
  ASSUME NEW s, DOMAIN s = Fields, IsSeq(s.log), NEW type \in {"move", "over"}, NEW id
  PROVE  Telling(Tell(s, type, id)) /\ Tell(s, type, id).untold = FALSE
  <1> DEFINE told == [s EXCEPT !.seq = s.next]
             e == [type |-> type, id |-> id, seq |-> s.next, shows |-> Shows(told)]
             u == Tell(s, type, id)
  <1>1. /\ DOMAIN u = Fields /\ u.log = Append(s.log, e) /\ u.untold = FALSE
        /\ u.seq = s.next /\ u.plies = s.plies /\ u.turn = s.turn /\ u.status = s.status
    BY DEF Tell, Fields
  <1>2. told.seq = s.next /\ told.plies = s.plies /\ told.turn = s.turn /\ told.status = s.status
    BY DEF Fields
  <1>3. Shows(u) = Shows(told)
    BY <1>1, <1>2 DEF Shows
  <1>4. e.type # "chat" /\ e.shows = Shows(u) /\ e.seq = u.seq
    BY <1>1, <1>3
  <1> HIDE DEF told, e, u
  <1>5. /\ IsSeq(u.log) /\ DOMAIN u.log = DOMAIN s.log \cup {Len(s.log) + 1}
        /\ u.log[Len(s.log) + 1] = e /\ DOMAIN s.log = 1..Len(s.log) /\ Len(s.log) \in Nat
    BY <1>1, AppendFacts, SeqFacts
  <1>6. ASSUME NEW i \in DOMAIN u.log, \A j \in DOMAIN u.log : j > i => u.log[j].type = "chat"
        PROVE  u.log[i] = e
    <2>1. i = Len(s.log) + 1
      BY <1>4, <1>5, <1>6
    <2> QED
      BY <1>5, <2>1
  <1>7. Told(u)
    BY <1>4, <1>6 DEF Told
  <1> QED
    BY <1>1, <1>5, <1>7 DEF Telling, u

LEMMA FinishTells ==
  ASSUME NEW s, DOMAIN s = Fields, IsSeq(s.log), NEW reason
  PROVE  Telling(Finish(s, reason).s)
  <1> DEFINE over == [NoTimer(s) EXCEPT !.status = "finished", !.reason = reason]
  <1>1. DOMAIN over = Fields /\ over.log = s.log
    BY DEF NoTimer, Fields
  <1>2. Finish(s, reason).s = Tell(over, "over", 0)
    BY DEF Finish, Did
  <1> HIDE DEF over
  <1> QED
    BY <1>1, <1>2, TellTells

LEMMA ExpireTells ==
  ASSUME NEW s, Telling(s), NEW c
  PROVE  Telling(Expire(s, c).s)
  BY FinishTells DEF Expire, Did, Telling

LEMMA ResolveTells ==
  ASSUME NEW s, Telling(s), NEW t
  PROVE  Telling(Resolve(s, t).s) /\ Telling(Synced(s, t))
  <1>1. Telling(Synced(s, t))
    BY ClockShowsAs, ShowsAsTells DEF Telling
  <1>2. Telling(Finish(Synced(s, t), "time").s)
    BY <1>1, FinishTells DEF Telling
  <1> QED
    BY <1>1, <1>2 DEF Resolve, Did

LEMMA ScheduleTells ==
  ASSUME NEW s, Telling(s), NEW t
  PROVE  Telling(Schedule(s, t).s)
  <1> DEFINE z == NoTimer(Synced(s, t))
             u == [z EXCEPT !.timer = [state |-> "armed", color |-> s.active,
                                       due |-> t + z.bank[s.active]]]
  <1>1. Telling(Synced(s, t))
    BY ResolveTells
  <1>2. Telling(z)
    BY <1>1, ClockShowsAs, ShowsAsTells DEF Telling
  <1> HIDE DEF z
  <1>3. Telling(Expire(z, s.active).s)
    BY <1>2, ExpireTells
  <1>4. ShowsAs(z, u)
    BY <1>2 DEF ShowsAs, Telling, Fields
  <1>5. Telling(u)
    BY <1>2, <1>4, ShowsAsTells
  <1> QED
    BY <1>3, <1>5 DEF Schedule, Did, z

LEMMA BuiltTells ==
  ASSUME NEW t
  PROVE  Telling(Built(t).s)
  <1> DEFINE s == [status |-> db.status, reason |-> IF db.status = "active" THEN "none" ELSE "saved",
            plies |-> db.last.plies, turn |-> db.last.turn, bank |-> db.last.bank,
            active |-> db.last.turn, anchor |-> db.at,
            timer |-> [state |-> "none", color |-> "w", due |-> 0], calling |-> {},
            seq |-> db.ply, next |-> db.ply + 1, log |-> <<>>, known |-> <<>>, untold |-> FALSE]
  <1>1. DOMAIN s = Fields /\ s.log = <<>>
    BY DEF Fields
  <1>2. IsSeq(<<>>) /\ DOMAIN <<>> = {}
    <2>1. <<>> \in Seq({})
      OBVIOUS
    <2> QED
      BY <2>1 DEF IsSeq
  <1> HIDE DEF s
  <1>3. Telling(s)
    BY <1>1, <1>2 DEF Telling, Told
  <1>4. Telling(Resolve(s, t).s)
    BY <1>3, ResolveTells
  <1>5. Telling(Schedule(Resolve(s, t).s, t).s)
    BY <1>4, ScheduleTells
  <1>6. Built(t) = IF Resolve(s, t).s.status = "active" THEN Schedule(Resolve(s, t).s, t)
                   ELSE Resolve(s, t)
    BY DEF Built, s
  <1> QED
    BY <1>4, <1>5, <1>6

LEMMA ChatTells ==
  ASSUME NEW s, Telling(s), NEW shows,
         NEW u, u = [s EXCEPT !.next = @ + 1,
                       !.log = Append(@, [type |-> "chat", id |-> 0, seq |-> s.next,
                                          shows |-> shows])]
  PROVE  Telling(u)
  <1> DEFINE e == [type |-> "chat", id |-> 0, seq |-> s.next, shows |-> shows]
  <1>1. /\ DOMAIN u = Fields /\ u.log = Append(s.log, e) /\ u.untold = s.untold
        /\ u.seq = s.seq /\ u.plies = s.plies /\ u.turn = s.turn /\ u.status = s.status
    BY DEF Telling, Fields
  <1>2. e.type = "chat"
    OBVIOUS
  <1> HIDE DEF e
  <1>3. Shows(u) = Shows(s)
    BY <1>1 DEF Shows
  <1>4. /\ IsSeq(u.log) /\ DOMAIN u.log = DOMAIN s.log \cup {Len(s.log) + 1}
        /\ u.log[Len(s.log) + 1] = e /\ \A i \in DOMAIN s.log : u.log[i] = s.log[i]
        /\ DOMAIN s.log = 1..Len(s.log) /\ Len(s.log) \in Nat
    BY <1>1, AppendFacts, SeqFacts DEF Telling
  <1>5. ASSUME NEW i \in DOMAIN u.log, ~u.untold, u.log[i].type # "chat",
               \A j \in DOMAIN u.log : j > i => u.log[j].type = "chat"
        PROVE  u.log[i].shows = Shows(u) /\ u.log[i].seq = u.seq
    <2>1. i \in DOMAIN s.log /\ u.log[i] = s.log[i]
      BY <1>2, <1>4, <1>5
    <2>2. \A j \in DOMAIN s.log : j > i => s.log[j].type = "chat"
      BY <1>4, <1>5
    <2> QED
      BY <1>1, <1>3, <1>5, <2>1, <2>2 DEF Telling, Told
  <1> QED
    BY <1>1, <1>4, <1>5 DEF Telling, Told

LEMMA RaisesTells ==
  ASSUME NEW s, Telling(s), NEW ply, NEW t
  PROVE  Telling(Raises(s, ply, t))
  <1>1. /\ DOMAIN Raises(s, ply, t) = Fields /\ Raises(s, ply, t).log = s.log
        /\ Raises(s, ply, t).untold = TRUE
    BY DEF Raises, Ticked, Telling, Fields
  <1> QED
    BY <1>1 DEF Telling, Told

LEMMA CommitTells ==
  ASSUME NEW s, Telling(s), NEW ply, NEW king \in BOOLEAN, NEW t
  PROVE  Telling(Commit(s, ply, king, t).s)
  <1> DEFINE moved == [Ticked(s, t) EXCEPT !.plies = Append(@, ply), !.turn = Other(@),
                         !.status = IF king THEN "finished" ELSE @,
                         !.reason = IF king THEN "board" ELSE @]
             told == Tell(moved, "move", ply.id)
             kept == Kept(told)
  <1>1. DOMAIN moved = Fields /\ moved.log = s.log
    BY DEF Ticked, Telling, Fields
  <1> HIDE DEF moved
  <1>2. Telling(told)
    BY <1>1, TellTells DEF Telling
  <1> HIDE DEF told
  <1>3. ShowsAs(told, kept)
    BY <1>2 DEF Kept, ShowsAs, Telling, Fields
  <1>4. Telling(kept)
    BY <1>2, <1>3, ShowsAsTells
  <1> HIDE DEF kept
  <1>5. CASE king
    <2>1. Telling(Tell(NoTimer(kept), "over", 0))
      BY <1>4, ClockShowsAs, TellTells DEF Telling, ShowsAs
    <2>2. Commit(s, ply, king, t).s = Tell(NoTimer(kept), "over", 0)
      BY <1>5 DEF Commit, Did, Kept, moved, told, kept
    <2> QED
      BY <2>1, <2>2
  <1>6. CASE ~king
    <2>1. Telling(Schedule(kept, t).s)
      BY <1>4, ScheduleTells
    <2>2. Schedule(kept, t).s = Commit(s, ply, king, t).s
      BY <1>6 DEF Commit, Did, Schedule, Expire, Finish, Kept, moved, told, kept
    <2> QED
      BY <2>1, <2>2
  <1> QED
    BY <1>5, <1>6

TellsInv == Alive => Telling(session)

\* The steps of the session, and those of the pages that reach it.
LEMMA TellsStep ==
  ASSUME TellsInv, Next
  PROVE  session' = session \/ session' = NoSession \/ Telling(session')
  <1>1. Alive => /\ Telling(session) /\ Telling(Synced(session, now))
                 /\ Telling(Resolve(session, now).s)
    BY ResolveTells DEF TellsInv
  <1>2. CASE TimerFires \/ Callback \/ Refresh \/ Chat \/ Hydrate
    <2>1. CASE TimerFires
      BY <1>1, <2>1, ClockShowsAs, ShowsAsTells DEF TimerFires, Telling
    <2>2. CASE Callback
      <3>1. PICK c \in session.calling :
              session' = Expire([session EXCEPT !.calling = @ \ {c}], c).s
        BY <2>2 DEF Callback, Apply
      <3> DEFINE s == [session EXCEPT !.calling = @ \ {c}]
      <3>2. ShowsAs(session, s)
        BY <1>1, <2>2 DEF Callback, ShowsAs, Telling, Fields
      <3>3. Telling(Expire(s, c).s)
        BY <1>1, <2>2, <3>2, ShowsAsTells, ExpireTells DEF Callback
      <3> QED
        BY <3>1, <3>3
    <2>3. CASE Refresh
      BY <1>1, <2>3 DEF Refresh, Apply
    <2>4. CASE Chat
      BY <1>1, <2>4, ChatTells DEF Chat
    <2>5. CASE Hydrate
      BY <2>5, BuiltTells DEF Hydrate, Apply
    <2> QED
      BY <1>2, <2>1, <2>2, <2>3, <2>4, <2>5
  <1>3. ASSUME NEW r \in posts,
               MoveKnown(r) \/ MoveTooLate(r) \/ MovePlayed(r) \/ MoveRaises(r)
        PROVE  Telling(session')
    <2>1. Alive
      BY <1>3 DEF MoveKnown, MoveTooLate, MovePlayed, MoveRaises, Arrives
    <2>2. CASE MoveKnown(r)
      <3>1. PICK k \in Answered(session, r.id) : session' = [session EXCEPT !.known = Recall(@, k)]
        BY <2>2 DEF MoveKnown
      <3>2. ShowsAs(session, session')
        BY <1>1, <2>1, <3>1 DEF ShowsAs, Telling, Fields
      <3> QED
        BY <1>1, <2>1, <3>2, ShowsAsTells
    <2>3. CASE MoveTooLate(r)
      BY <1>1, <2>1, <2>3 DEF MoveTooLate, Apply
    <2>4. CASE MovePlayed(r)
      BY <1>1, <2>1, <2>4, CommitTells DEF MovePlayed, Apply
    <2>5. CASE MoveRaises(r)
      BY <1>1, <2>1, <2>5, RaisesTells DEF MoveRaises
    <2> QED
      BY <1>3, <2>2, <2>3, <2>4, <2>5
  <1>4. ASSUME NEW p \in Pages, EngineMoves(p) \/ EngineRaises(p) \/ EngineTooLate(p)
        PROVE  Telling(session')
    <2> DEFINE s == Synced(session, now)
               ply == [id |-> 0, by |-> s.turn, engine |-> TRUE]
    <2>1. Telling(s) /\ Telling(Resolve(session, now).s)
      BY <1>1, <1>4 DEF EngineMoves, EngineRaises, EngineTooLate, EngineMayMove
    <2>2. CASE EngineMoves(p)
      <3>1. PICK d \in 0..MaxThink, king \in BOOLEAN :
              \E t \in {s, Fired(s)} : session' = Commit(t, ply, king, now + d).s
        BY <2>2 DEF EngineMoves, Apply
      <3>2. PICK t \in {s, Fired(s)} : session' = Commit(t, ply, king, now + d).s
        BY <3>1
      <3> HIDE DEF s, ply
      <3>3. Telling(t)
        BY <2>1, <3>2, ClockShowsAs, ShowsAsTells DEF Telling
      <3> QED
        BY <3>2, <3>3, CommitTells
    <2>3. CASE EngineRaises(p)
      BY <2>1, <2>3, RaisesTells DEF EngineRaises
    <2>4. CASE EngineTooLate(p)
      BY <2>1, <2>4 DEF EngineTooLate, Apply
    <2> QED
      BY <1>4, <2>2, <2>3, <2>4
  <1>5. ASSUME NEW p \in Pages, ReadReply(p) \/ Load(p) \/ Surrender(p) \/ AgreeDraw(p)
        PROVE  session' = session \/ Telling(session')
    <2>1. CASE ReadReply(p) \/ Load(p)
      BY <1>1, <2>1 DEF ReadReply, Load, Loads, Apply
    <2>2. CASE Surrender(p) \/ AgreeDraw(p)
      <3>1. PICK reason \in {"surrender", "draw"} : Alive /\ session' = Finish(session, reason).s
        BY <2>2 DEF Surrender, AgreeDraw, End, Apply
      <3> QED
        BY <1>1, <3>1, FinishTells DEF Telling
    <2> QED
      BY <1>5, <2>1, <2>2
  <1>6. Tick \/ WorkerSaves => session' = session
    BY DEF Tick, WorkerSaves
  <1>7. Evict \/ Crash => session' = NoSession
    BY DEF Evict, Crash
  <1>8. ASSUME NEW r \in posts, MoveRefused(r) PROVE session' = session
    BY <1>8 DEF MoveRefused
  <1>9. ASSUME NEW p \in Pages,
               \/ Submit(p) \/ ReadEvent(p) \/ ReadCursor(p) \/ AskEngine(p) \/ LookAtSeat(p)
               \/ ReadEngineReply(p) \/ EngineRefused(p)
        PROVE  session' = session
    BY <1>9 DEF Submit, ReadEvent, ReadCursor, AskEngine, LookAtSeat, ReadEngineReply, EngineRefused
  <1> QED
    BY <1>2, <1>3, <1>4, <1>5, <1>6, <1>7, <1>8, <1>9 DEF Next

LEMMA TellsNext == TellsInv /\ [Next]_vars => TellsInv'
  <1> SUFFICES ASSUME TellsInv, [Next]_vars PROVE TellsInv'
    OBVIOUS
  <1>1. session' = session \/ session' = NoSession \/ Telling(session')
    BY TellsStep DEF vars
  <1> QED
    BY <1>1 DEF TellsInv, Alive

LEMMA TellsInit == Init => TellsInv
  BY BuiltTells DEF Init, TellsInv

-----------------------------------------------------------------------------
\* A session plays a move once, however often its post arrives and however many
\* ids are remembered (_lookup_cached, _assert_seq).
THEOREM PlaysMovesOnce == Spec => []MoveOnce
  <1>1. IInv => MoveOnce
    BY DEF IInv, MoveOnce, Alive, Good, PlayedOnce
  <1> QED
    BY <1>1, InitInv, NextInv, PTL DEF Spec

\* No move is told after the end of the game, whatever overtakes the engine's
\* search (apply_engine_move, _commit_move, _emit_game_over).
THEOREM EndIsTheEnd == Spec => []NoMoveAfterEnd
  <1>1. IInv => NoMoveAfterEnd
    BY DEF IInv, NoMoveAfterEnd, Alive, Good, EndsLast
  <1> QED
    BY <1>1, InitInv, NextInv, PTL DEF Spec

\* The clock that runs is that of the player to move, whatever fires or raises
\* meanwhile, and its timer is due when that clock runs out (apply_move,
\* sync_wall_clock, schedule_expiry).
THEOREM ClockIsTheMovers == Spec => []ClockFollowsTurn
  <1>1. ClockInv => ClockFollowsTurn
    <2>1. ClockInv /\ session = NoSession => ClockFollowsTurn
      BY DEF NoSession, ClockFollowsTurn
    <2>2. ClockInv /\ session # NoSession => ClockFollowsTurn
      BY DEF ClockInv, ClockFollowsTurn, Wound, OnTurn, TimerSet
    <2> QED
      BY <2>1, <2>2
  <1> QED
    BY <1>1, ClockInit, ClockNext, PTL DEF Spec

\* What the log tells last of the game is what the session holds, under the
\* number that the next move must expect (_commit_move, _emit_game_over,
\* publish_chat_messages).
THEOREM LogTellsTheGame == Spec => []LogShowsGame
  <1>1. TellsInv => LogShowsGame
    BY DEF TellsInv, LogShowsGame, Telling
  <1> QED
    BY <1>1, TellsInit, TellsNext, PTL DEF Spec
=============================================================================
