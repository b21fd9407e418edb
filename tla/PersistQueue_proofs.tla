------------------------ MODULE PersistQueue_proofs ------------------------
(***************************************************************************)
(* Proofs about PersistQueue, for any set of jobs, threads and callers, any *)
(* number of workers and any queue size.                                   *)
(***************************************************************************)
EXTENDS PersistQueue, FiniteSetTheorems, TLAPS

Items == Jobs \cup {Sentinel}

\* put_nowait: what Append does to a queue.
LEMMA PutFacts ==
  ASSUME NEW q \in Seq(Items), NEW x \in Items
  PROVE  /\ Append(q, x) \in Seq(Items)
         /\ Len(Append(q, x)) = Len(q) + 1
         /\ DOMAIN Append(q, x) = DOMAIN q \cup {Len(q) + 1}
         /\ Append(q, x)[Len(q) + 1] = x
         /\ \A i \in DOMAIN q : Append(q, x)[i] = q[i]
         /\ Len(q) + 1 \notin DOMAIN q
  OBVIOUS

\* get: what Head and Tail do to a queue that is not empty.
LEMMA TakeFacts ==
  ASSUME NEW q \in Seq(Items), q # <<>>
  PROVE  /\ Tail(q) \in Seq(Items)
         /\ Len(Tail(q)) = Len(q) - 1
         /\ Head(q) = q[1]
         /\ 1 \in DOMAIN q
         /\ Head(q) \in Items
         /\ \A i \in DOMAIN Tail(q) : i + 1 \in DOMAIN q /\ Tail(q)[i] = q[i + 1]
         /\ \A i \in DOMAIN q : i # 1 => i - 1 \in DOMAIN Tail(q) /\ Tail(q)[i - 1] = q[i]
  OBVIOUS

LEMMA TypeInit == Init => TypeOK
  <1> SUFFICES ASSUME Init PROVE TypeOK
    OBVIOUS
  <1>1. queue \in Seq(Items) /\ Len(queue) <= MaxQueueSize
    BY MaxQueueSizeAssumption DEF Init
  <1>2. pc \in [Actors -> {"unborn", "get", "dispatch", "exited", "idle", "accepted", "refused"}]
    BY DEF Init
  <1>3. counters \in [Counters -> Nat] /\ unsent \in Nat /\ rows \in [Jobs -> Nat]
        /\ tries \in [Actors -> 0..1]
    BY DEF Init
  <1>4. running \in BOOLEAN /\ alive \in BOOLEAN
    BY Zenon DEF Init
  <1>5. /\ workers \subseteq Threads
        /\ stopping \in {"no", "signal", "join"}
        /\ job \in [Actors -> Jobs \cup {NoJob}]
        /\ unsubmitted \subseteq Jobs
        /\ outcome \in [Jobs -> {"none", "ok", "fail", "drop"}]
    BY DEF Init
  <1> QED
    BY <1>1, <1>2, <1>3, <1>4, <1>5, Zenon DEF TypeOK, Items
-----------------------------------------------------------------------------
\* The inductive invariant.  RowsMatchOutcome needs to know that a queued job
\* is in no thread's hands (OnePlace), and OnePlace that a thread outside
\* _dispatch holds nothing (HandsMatchPc).
IInv == TypeOK /\ HandsMatchPc /\ OnePlace /\ RowsMatchOutcome

LEMMA IInvInit == Init => IInv
  <1> SUFFICES ASSUME Init PROVE IInv
    OBVIOUS
  <1>1. TypeOK
    BY TypeInit
  <1>2. HandsMatchPc
    BY DEF Init, HandsMatchPc
  <1>3. queue = <<>> /\ DOMAIN queue = {}
    BY DEF Init
  <1>4. OnePlace
    BY <1>3, NoJobAssumption DEF Init, OnePlace, Placed, QueuedOnce, HeldOnce, Queued, Held
  <1>5. RowsMatchOutcome
    BY NoJobAssumption DEF Init, RowsMatchOutcome
  <1> QED
    BY <1>1, <1>2, <1>4, <1>5 DEF IInv

\* Steps that touch neither the queue nor a job's place: start, and the parts
\* of stop that put no sentinel, and the return of enqueue.
LEMMA QuietStep ==
  ASSUME IInv, TypeOK',
         UNCHANGED <<queue, job, tries, unsubmitted, outcome, rows>>,
         \A a \in Actors : (pc[a] = "dispatch") <=> (pc'[a] = "dispatch")
  PROVE  IInv'
  <1>1. HandsMatchPc'
    BY DEF IInv, HandsMatchPc
  <1>2. OnePlace'
    BY DEF IInv, OnePlace, Placed, QueuedOnce, HeldOnce, Queued, Held
  <1>3. RowsMatchOutcome'
    BY DEF IInv, RowsMatchOutcome, Queued
  <1> QED
    BY <1>1, <1>2, <1>3 DEF IInv

LEMMA StartStep ==
  ASSUME IInv, NEW new \in SUBSET Threads, Start(new)
  PROVE  IInv'
  <1>1. pc' \in [Actors -> {"unborn", "get", "dispatch", "exited", "idle", "accepted", "refused"}]
    BY DEF IInv, TypeOK, Start
  <1>2. \A a \in Actors : (pc[a] = "dispatch") <=> (pc'[a] = "dispatch")
    BY DEF Start, IInv, TypeOK
  <1>3. running' \in BOOLEAN /\ alive' \in BOOLEAN
    BY Zenon DEF IInv, TypeOK, Start
  <1>4. workers' \subseteq Threads
    BY DEF IInv, TypeOK, Start
  <1>5. TypeOK'
    BY <1>1, <1>3, <1>4, Zenon DEF IInv, TypeOK, Start
  <1> QED
    BY <1>2, <1>5, QuietStep, Zenon DEF Start

\* stop's put_nowait: a sentinel joins the queue, or does not fit.
LEMMA StopSignalStep ==
  ASSUME IInv, StopSignal
  PROVE  IInv'
  <1> USE DEF IInv
  <1>1. queue \in Seq(Items) /\ Len(queue) <= MaxQueueSize /\ Sentinel \in Items
    BY DEF TypeOK, Items
  <1>2. queue' = queue \/ (queue' = Append(queue, Sentinel) /\ Len(queue) < MaxQueueSize)
    BY DEF StopSignal
  <1>3. queue' \in Seq(Items) /\ Len(queue') <= MaxQueueSize
    BY <1>1, <1>2, PutFacts, MaxQueueSizeAssumption
  <1>4. unsent' \in Nat
    BY DEF StopSignal, TypeOK
  <1>5. TypeOK'
    BY <1>3, <1>4, Zenon DEF TypeOK, StopSignal, Items
  <1>6. ASSUME queue' = Append(queue, Sentinel) PROVE IInv'
    <2>1. DOMAIN queue' = DOMAIN queue \cup {Len(queue) + 1}
          /\ queue'[Len(queue) + 1] = Sentinel
          /\ \A i \in DOMAIN queue : queue'[i] = queue[i]
      BY <1>1, <1>6, PutFacts
    <2>2. \A j \in Jobs : Queued(j)' <=> Queued(j)
      BY <2>1, NoJobAssumption DEF Queued
    <2>3. UNCHANGED <<pc, job, tries, unsubmitted, outcome, rows>>
      BY DEF StopSignal
    <2>4. HandsMatchPc'
      BY <2>3 DEF HandsMatchPc
    <2>5. Placed'
      BY <2>2, <2>3, Zenon DEF OnePlace, Placed, Held
    <2>6. QueuedOnce'
      BY <2>1 DEF OnePlace, QueuedOnce
    <2>7. HeldOnce'
      BY <2>3 DEF OnePlace, HeldOnce
    <2>8. RowsMatchOutcome'
      BY <2>2, <2>3, Zenon DEF RowsMatchOutcome
    <2> QED
      BY <1>5, <2>4, <2>5, <2>6, <2>7, <2>8 DEF OnePlace
  <1> QED
    BY <1>2, <1>5, <1>6, QuietStep, Zenon DEF StopSignal

LEMMA StopStep ==
  ASSUME IInv, Stop
  PROVE  IInv'
  <1>1. CASE StopBegin
    <2>1. Cardinality(workers) \in Nat
      BY ThreadsAssumption, FS_Subset, FS_CardinalityType DEF IInv, TypeOK
    <2>2. running' \in BOOLEAN
      BY <1>1, Zenon DEF StopBegin
    <2>3. stopping' \in {"no", "signal", "join"}
      BY <1>1, Zenon DEF StopBegin
    <2>4. TypeOK'
      BY <1>1, <2>1, <2>2, <2>3, Zenon DEF IInv, TypeOK, StopBegin
    <2> QED
      BY <1>1, <2>4, QuietStep, Zenon DEF StopBegin
  <1>2. CASE StopSignal
    BY <1>2, StopSignalStep
  <1>3. CASE StopJoin
    <2>1. TypeOK'
      BY <1>3, Zenon DEF IInv, TypeOK, StopJoin
    <2> QED
      BY <1>3, <2>1, QuietStep, Zenon DEF StopJoin
  <1>4. CASE StopEnd
    <2>1. TypeOK'
      BY <1>4, Zenon DEF IInv, TypeOK, StopEnd
    <2> QED
      BY <1>4, <2>1, QuietStep, Zenon DEF StopEnd
  <1> QED
    BY <1>1, <1>2, <1>3, <1>4 DEF Stop

-----------------------------------------------------------------------------
\* enqueue and persist_now.
LEMMA EnqueuePutStep ==
  ASSUME IInv, NEW c \in Callers, NEW j \in Jobs, EnqueuePut(c, j)
  PROVE  IInv'
  <1> USE DEF IInv
  <1>1. queue \in Seq(Items) /\ Len(queue) < MaxQueueSize /\ j \in Items
    BY DEF TypeOK, Items, EnqueuePut
  <1>2. queue' = Append(queue, j) /\ unsubmitted' = unsubmitted \ {j}
        /\ j \in unsubmitted /\ UNCHANGED <<job, tries, outcome, rows>>
        /\ pc' = [pc EXCEPT ![c] = "accepted"] /\ pc[c] = "idle"
    BY DEF EnqueuePut
  <1>3. queue' \in Seq(Items) /\ Len(queue') <= MaxQueueSize
    BY <1>1, <1>2, PutFacts, MaxQueueSizeAssumption
  <1>4. pc' \in [Actors -> {"unborn", "get", "dispatch", "exited", "idle", "accepted", "refused"}]
    BY <1>2 DEF TypeOK
  <1>5. unsubmitted' \subseteq Jobs
    BY <1>2 DEF TypeOK
  <1>6. TypeOK'
    BY <1>3, <1>4, <1>5, Zenon DEF TypeOK, EnqueuePut, Items
  <1>7. DOMAIN queue' = DOMAIN queue \cup {Len(queue) + 1}
        /\ queue'[Len(queue) + 1] = j
        /\ \A i \in DOMAIN queue : queue'[i] = queue[i]
    BY <1>1, <1>2, PutFacts
  <1>8. ~Queued(j) /\ ~Held(j) /\ outcome[j] = "none" /\ rows[j] = 0
    BY <1>2 DEF OnePlace, Placed, RowsMatchOutcome
  <1>9. \A k \in Jobs : Queued(k)' <=> Queued(k) \/ k = j
    BY <1>7 DEF Queued
  <1>10. HandsMatchPc'
    BY <1>2 DEF HandsMatchPc, TypeOK
  <1>11. Placed'
    BY <1>2, <1>8, <1>9 DEF OnePlace, Placed, Held
  <1>12. QueuedOnce'
    BY <1>7, <1>8 DEF OnePlace, QueuedOnce, Queued
  <1>13. HeldOnce'
    BY <1>2 DEF OnePlace, HeldOnce
  <1>14. RowsMatchOutcome'
    BY <1>2, <1>8, <1>9 DEF RowsMatchOutcome
  <1> QED
    BY <1>6, <1>10, <1>11, <1>12, <1>13, <1>14 DEF OnePlace

LEMMA EnqueueFullStep ==
  ASSUME IInv, NEW c \in Callers, NEW j \in Jobs, EnqueueFull(c, j)
  PROVE  IInv'
  <1> USE DEF IInv
  <1>1. unsubmitted' = unsubmitted \ {j} /\ j \in unsubmitted
        /\ outcome' = [outcome EXCEPT ![j] = "drop"]
        /\ pc' = [pc EXCEPT ![c] = "refused"] /\ pc[c] = "idle"
        /\ UNCHANGED <<queue, job, tries, rows>>
    BY DEF EnqueueFull
  <1>2. pc' \in [Actors -> {"unborn", "get", "dispatch", "exited", "idle", "accepted", "refused"}]
        /\ outcome' \in [Jobs -> {"none", "ok", "fail", "drop"}]
        /\ unsubmitted' \subseteq Jobs
    BY <1>1 DEF TypeOK
  <1>3. TypeOK'
    BY <1>2, Zenon DEF TypeOK, EnqueueFull
  <1>4. ~Queued(j) /\ ~Held(j) /\ outcome[j] = "none" /\ rows[j] = 0
    BY <1>1 DEF OnePlace, Placed, RowsMatchOutcome
  <1>5. HandsMatchPc'
    BY <1>1 DEF HandsMatchPc, TypeOK
  <1>6. outcome \in [Jobs -> {"none", "ok", "fail", "drop"}] /\ outcome'[j] = "drop"
        /\ \A k \in Jobs : k # j => outcome'[k] = outcome[k]
    BY <1>1 DEF TypeOK
  <1>7. Placed'
    BY <1>1, <1>4, <1>6 DEF OnePlace, Placed, Held, Queued
  <1>8. QueuedOnce' /\ HeldOnce'
    BY <1>1 DEF OnePlace, QueuedOnce, HeldOnce
  <1>9. RowsMatchOutcome'
    BY <1>1, <1>4, <1>6 DEF RowsMatchOutcome, Queued
  <1> QED
    BY <1>3, <1>5, <1>7, <1>8, <1>9 DEF OnePlace

LEMMA EnqueueReturnStep ==
  ASSUME IInv, NEW c \in Callers, EnqueueReturn(c)
  PROVE  IInv'
  <1>1. pc' \in [Actors -> {"unborn", "get", "dispatch", "exited", "idle", "accepted", "refused"}]
        /\ \A a \in Actors : (pc[a] = "dispatch") <=> (pc'[a] = "dispatch")
    BY DEF IInv, TypeOK, EnqueueReturn
  <1>2. counters' \in [Counters -> Nat]
    BY DEF IInv, TypeOK, EnqueueReturn, Count, Counters
  <1>3. TypeOK'
    BY <1>1, <1>2, Zenon DEF IInv, TypeOK, EnqueueReturn
  <1> QED
    BY <1>1, <1>3, QuietStep, Zenon DEF EnqueueReturn

LEMMA PersistNowStep ==
  ASSUME IInv, NEW c \in Callers, NEW j \in Jobs, PersistNow(c, j)
  PROVE  IInv'
  <1> USE DEF IInv
  <1>1. c \in Actors /\ j \in unsubmitted /\ unsubmitted' = unsubmitted \ {j}
        /\ pc' = [pc EXCEPT ![c] = "dispatch"] /\ pc[c] = "idle"
        /\ job' = [job EXCEPT ![c] = j] /\ tries' = [tries EXCEPT ![c] = 0]
        /\ UNCHANGED <<queue, outcome, rows>>
    BY DEF PersistNow, Actors
  <1>2. pc' \in [Actors -> {"unborn", "get", "dispatch", "exited", "idle", "accepted", "refused"}]
        /\ job' \in [Actors -> Jobs \cup {NoJob}] /\ tries' \in [Actors -> 0..1]
        /\ unsubmitted' \subseteq Jobs
    BY <1>1 DEF TypeOK
  <1>3. TypeOK'
    BY <1>2, Zenon DEF TypeOK, PersistNow
  <1>4. ~Queued(j) /\ ~Held(j) /\ outcome[j] = "none" /\ rows[j] = 0
    BY <1>1 DEF OnePlace, Placed, RowsMatchOutcome
  <1>5. job[c] = NoJob
    BY <1>1 DEF HandsMatchPc
  <1>6. job'[c] = j /\ tries'[c] = 0
        /\ \A a \in Actors : a # c => job'[a] = job[a] /\ tries'[a] = tries[a]
    BY <1>1 DEF TypeOK
  <1>7. HandsMatchPc'
    BY <1>1, <1>6, NoJobAssumption DEF HandsMatchPc, TypeOK
  <1>8. \A k \in Jobs : Held(k)' <=> Held(k) \/ k = j
    BY <1>1, <1>5, <1>6, NoJobAssumption DEF Held
  <1>9. Placed'
    BY <1>1, <1>4, <1>8 DEF OnePlace, Placed, Queued
  <1>10. QueuedOnce'
    BY <1>1 DEF OnePlace, QueuedOnce
  <1>11. HeldOnce'
    BY <1>4, <1>6 DEF OnePlace, HeldOnce, Held
  <1>12. RowsMatchOutcome'
    BY <1>1, <1>4, <1>6 DEF RowsMatchOutcome, Queued
  <1> QED
    BY <1>3, <1>7, <1>9, <1>10, <1>11, <1>12 DEF OnePlace

-----------------------------------------------------------------------------
\* The worker's loop.
LEMMA TakeJobStep ==
  ASSUME IInv, NEW t \in Threads, TakeJob(t)
  PROVE  IInv'
  <1> USE DEF IInv
  <1> DEFINE j == Head(queue)
  <1>1. t \in Actors /\ queue # <<>> /\ j # Sentinel /\ queue' = Tail(queue)
        /\ pc' = [pc EXCEPT ![t] = "dispatch"] /\ pc[t] = "get"
        /\ job' = [job EXCEPT ![t] = j] /\ tries' = [tries EXCEPT ![t] = 0]
        /\ UNCHANGED <<unsubmitted, outcome, rows>>
    BY DEF TakeJob, Actors
  <1>2. queue \in Seq(Items) /\ Len(queue) <= MaxQueueSize
    BY DEF TypeOK, Items
  <1>3. /\ queue' \in Seq(Items) /\ Len(queue') = Len(queue) - 1
        /\ j = queue[1] /\ 1 \in DOMAIN queue /\ j \in Items
        /\ \A i \in DOMAIN queue' : i + 1 \in DOMAIN queue /\ queue'[i] = queue[i + 1]
        /\ \A i \in DOMAIN queue : i # 1 => i - 1 \in DOMAIN queue' /\ queue'[i - 1] = queue[i]
    BY <1>1, <1>2, TakeFacts
  <1>4. j \in Jobs
    BY <1>1, <1>3 DEF Items
  <1>5. Len(queue') <= MaxQueueSize
    BY <1>2, <1>3, MaxQueueSizeAssumption
  <1>6. pc' \in [Actors -> {"unborn", "get", "dispatch", "exited", "idle", "accepted", "refused"}]
        /\ job' \in [Actors -> Jobs \cup {NoJob}] /\ tries' \in [Actors -> 0..1]
    BY <1>1, <1>4 DEF TypeOK
  <1>7. TypeOK'
    BY <1>3, <1>5, <1>6, Zenon DEF TypeOK, TakeJob, Items
  <1>8. Queued(j) /\ ~Held(j) /\ j \notin unsubmitted /\ outcome[j] = "none" /\ rows[j] = 0
    BY <1>3, <1>4 DEF OnePlace, Placed, RowsMatchOutcome, Queued
  <1>9. job[t] = NoJob
    BY <1>1 DEF HandsMatchPc
  <1>10. job'[t] = j /\ tries'[t] = 0
         /\ \A a \in Actors : a # t => job'[a] = job[a] /\ tries'[a] = tries[a]
    BY <1>1 DEF TypeOK
  <1>11. \A k \in Jobs : Queued(k)' <=> Queued(k) /\ k # j
    <2>1. ASSUME NEW k \in Jobs, Queued(k)' PROVE Queued(k) /\ k # j
      <3>1. PICK i \in DOMAIN queue' : queue'[i] = k
        BY <2>1 DEF Queued
      <3>2. i + 1 \in DOMAIN queue /\ queue[i + 1] = k /\ i + 1 # 1
        BY <1>2, <1>3, <3>1
      <3>3. k # j
        BY <1>1, <1>3, <3>2 DEF OnePlace, QueuedOnce
      <3> QED
        BY <3>2, <3>3 DEF Queued
    <2>2. ASSUME NEW k \in Jobs, Queued(k), k # j PROVE Queued(k)'
      <3>1. PICK i \in DOMAIN queue : queue[i] = k
        BY <2>2 DEF Queued
      <3> QED
        BY <1>3, <2>2, <3>1 DEF Queued
    <2> QED
      BY <2>1, <2>2
  <1>12. \A k \in Jobs : Held(k)' <=> Held(k) \/ k = j
    BY <1>1, <1>9, <1>10, NoJobAssumption DEF Held
  <1>13. HandsMatchPc'
    BY <1>1, <1>4, <1>10, NoJobAssumption DEF HandsMatchPc, TypeOK
  <1>14. Placed'
    BY <1>1, <1>4, <1>8, <1>11, <1>12 DEF OnePlace, Placed
  <1>15. QueuedOnce'
    <2> SUFFICES ASSUME NEW i \in DOMAIN queue', NEW k \in DOMAIN queue',
                        queue'[i] = queue'[k], queue'[i] # Sentinel
                 PROVE  i = k
      BY DEF QueuedOnce
    <2>1. i + 1 = k + 1
      BY <1>3 DEF OnePlace, QueuedOnce
    <2> QED
      BY <1>2, <1>3, <2>1
  <1>16. HeldOnce'
    BY <1>8, <1>10 DEF OnePlace, HeldOnce, Held
  <1>17. RowsMatchOutcome'
    BY <1>1, <1>8, <1>10, <1>11 DEF RowsMatchOutcome
  <1> QED
    BY <1>7, <1>13, <1>14, <1>15, <1>16, <1>17 DEF OnePlace

LEMMA TakeSentinelStep ==
  ASSUME IInv, NEW t \in Threads, TakeSentinel(t)
  PROVE  IInv'
  <1> USE DEF IInv
  <1>1. queue # <<>> /\ Head(queue) = Sentinel /\ queue' = Tail(queue)
        /\ pc' = [pc EXCEPT ![t] = "exited"] /\ pc[t] = "get"
        /\ UNCHANGED <<job, tries, unsubmitted, outcome, rows>>
    BY DEF TakeSentinel
  <1>2. queue \in Seq(Items) /\ Len(queue) <= MaxQueueSize
    BY DEF TypeOK, Items
  <1>3. /\ queue' \in Seq(Items) /\ Len(queue') = Len(queue) - 1
        /\ queue[1] = Sentinel
        /\ \A i \in DOMAIN queue' : i + 1 \in DOMAIN queue /\ queue'[i] = queue[i + 1]
        /\ \A i \in DOMAIN queue : i # 1 => i - 1 \in DOMAIN queue' /\ queue'[i - 1] = queue[i]
    BY <1>1, <1>2, TakeFacts
  <1>4. Len(queue') <= MaxQueueSize
    BY <1>2, <1>3, MaxQueueSizeAssumption
  <1>5. pc' \in [Actors -> {"unborn", "get", "dispatch", "exited", "idle", "accepted", "refused"}]
    BY <1>1 DEF TypeOK
  <1>6. TypeOK'
    BY <1>3, <1>4, <1>5, Zenon DEF TypeOK, TakeSentinel, Items
  <1>7. \A k \in Jobs : Queued(k)' <=> Queued(k)
    BY <1>3, NoJobAssumption DEF Queued
  <1>8. HandsMatchPc'
    BY <1>1 DEF HandsMatchPc, TypeOK
  <1>9. Placed'
    BY <1>1, <1>7 DEF OnePlace, Placed, Held
  <1>10. QueuedOnce'
    <2> SUFFICES ASSUME NEW i \in DOMAIN queue', NEW k \in DOMAIN queue',
                        queue'[i] = queue'[k], queue'[i] # Sentinel
                 PROVE  i = k
      BY DEF QueuedOnce
    <2>1. i + 1 = k + 1
      BY <1>3 DEF OnePlace, QueuedOnce
    <2> QED
      BY <1>2, <1>3, <2>1
  <1>11. HeldOnce'
    BY <1>1 DEF OnePlace, HeldOnce
  <1>12. RowsMatchOutcome'
    BY <1>1, <1>7 DEF RowsMatchOutcome
  <1> QED
    BY <1>6, <1>8, <1>9, <1>10, <1>11, <1>12 DEF OnePlace

-----------------------------------------------------------------------------
\* _dispatch.  A thread there holds a job that is neither queued nor settled.
LEMMA DispatcherHolds ==
  ASSUME IInv, NEW a \in Actors, pc[a] = "dispatch"
  PROVE  /\ job[a] \in Jobs
         /\ job[a] \notin unsubmitted
         /\ outcome[job[a]] = "none"
         /\ ~Queued(job[a])
         /\ rows[job[a]] <= tries[a]
         /\ \A b \in Actors : b # a => job[b] # job[a]
  <1>1. job[a] \in Jobs /\ Held(job[a])
    BY DEF IInv, HandsMatchPc, TypeOK, Held
  <1>2. job[a] \notin unsubmitted /\ outcome[job[a]] = "none" /\ ~Queued(job[a])
    BY <1>1 DEF IInv, OnePlace, Placed
  <1>3. rows[job[a]] <= tries[a]
    BY <1>1 DEF IInv, RowsMatchOutcome
  <1>4. \A b \in Actors : b # a => job[b] # job[a]
    BY <1>1, NoJobAssumption DEF IInv, OnePlace, HeldOnce
  <1> QED
    BY <1>1, <1>2, <1>3, <1>4

\* The end of _dispatch, whichever way it ends: the row count may have grown by
\* one, and the job is settled.
LEMMA SettleStep ==
  ASSUME IInv, NEW a \in Actors, pc[a] = "dispatch",
         NEW result \in {"ok", "fail"}, Settle(a, result),
         NEW n \in 0..1, result = "ok" => n = 1,
         rows' = [rows EXCEPT ![job[a]] = @ + n],
         UNCHANGED <<queue, unsubmitted>>, TypeOK'
  PROVE  IInv'
  <1> USE DEF IInv
  <1>1. job[a] \in Jobs /\ job[a] \notin unsubmitted /\ outcome[job[a]] = "none"
        /\ ~Queued(job[a]) /\ rows[job[a]] <= tries[a]
        /\ \A b \in Actors : b # a => job[b] # job[a]
    BY DispatcherHolds
  <1>2. tries[a] \in 0..1 /\ rows[job[a]] \in Nat
    BY <1>1 DEF TypeOK
  <1>3. pc'[a] # "dispatch" /\ job'[a] = NoJob /\ tries'[a] = 0
        /\ \A b \in Actors : b # a => /\ pc'[b] = pc[b] /\ job'[b] = job[b]
                                       /\ tries'[b] = tries[b]
    BY DEF Settle, TypeOK
  <1>4. outcome'[job[a]] = result /\ rows'[job[a]] = rows[job[a]] + n
        /\ \A k \in Jobs : k # job[a] => outcome'[k] = outcome[k] /\ rows'[k] = rows[k]
    BY <1>1 DEF Settle, TypeOK
  <1>5. HandsMatchPc'
    BY <1>3 DEF HandsMatchPc
  <1>6. \A k \in Jobs : Held(k)' <=> Held(k) /\ k # job[a]
    BY <1>1, <1>3, NoJobAssumption DEF Held
  <1>7. \A k \in Jobs : Queued(k)' <=> Queued(k)
    BY DEF Queued
  <1>8. Placed'
    BY <1>1, <1>4, <1>6, <1>7 DEF OnePlace, Placed
  <1>9. QueuedOnce'
    BY DEF OnePlace, QueuedOnce
  <1>10. HeldOnce'
    BY <1>3 DEF OnePlace, HeldOnce
  <1>11. RowsMatchOutcome'
    <2> SUFFICES ASSUME NEW k \in Jobs
                 PROVE  /\ rows'[k] <= 2
                        /\ outcome'[k] = "ok" => rows'[k] >= 1
                        /\ outcome'[k] = "drop" => rows'[k] = 0
                        /\ (k \in unsubmitted' \/ Queued(k)') => rows'[k] = 0
                        /\ \A b \in Actors : job'[b] = k => rows'[k] <= tries'[b]
      BY DEF RowsMatchOutcome
    <2>1. CASE k = job[a]
      <3>1. rows'[k] <= 2 /\ (result = "ok" => rows'[k] >= 1)
        BY <1>1, <1>2, <1>4, <2>1
      <3>2. outcome'[k] = result /\ k \notin unsubmitted' /\ ~Queued(k)'
        BY <1>1, <1>4, <1>7, <2>1
      <3>3. \A b \in Actors : job'[b] # k
        BY <1>1, <1>3, <2>1, NoJobAssumption
      <3> QED
        BY <3>1, <3>2, <3>3
    <2>2. CASE k # job[a]
      BY <1>3, <1>4, <1>7, <2>2, NoJobAssumption DEF RowsMatchOutcome
    <2> QED
      BY <2>1, <2>2
  <1> QED
    BY <1>5, <1>8, <1>9, <1>10, <1>11 DEF OnePlace

\* What the end of _dispatch leaves well typed.
LEMMA SettleType ==
  ASSUME TypeOK, NEW a \in Actors, NEW result \in {"ok", "fail"}, Settle(a, result)
  PROVE  /\ pc' \in [Actors -> {"unborn", "get", "dispatch", "exited", "idle", "accepted", "refused"}]
         /\ job' \in [Actors -> Jobs \cup {NoJob}]
         /\ tries' \in [Actors -> 0..1]
         /\ outcome' \in [Jobs -> {"none", "ok", "fail", "drop"}]
  <1>1. pc' \in [Actors -> {"unborn", "get", "dispatch", "exited", "idle", "accepted", "refused"}]
    BY DEF Settle, TypeOK
  <1>2. job' \in [Actors -> Jobs \cup {NoJob}]
    BY DEF Settle, TypeOK
  <1>3. tries' \in [Actors -> 0..1]
    BY DEF Settle, TypeOK
  <1>4. outcome' \in [Jobs -> {"none", "ok", "fail", "drop"}]
    BY DEF Settle, TypeOK
  <1> QED
    BY <1>1, <1>2, <1>3, <1>4

LEMMA PersistOkStep ==
  ASSUME IInv, NEW a \in Actors, PersistOk(a)
  PROVE  IInv'
  <1>1. job[a] \in Jobs
    BY DispatcherHolds DEF PersistOk
  <1>2. rows' \in [Jobs -> Nat] /\ rows' = [rows EXCEPT ![job[a]] = @ + 1]
    BY <1>1 DEF PersistOk, IInv, TypeOK
  <1>3. counters' \in [Counters -> Nat]
    BY DEF PersistOk, Count, Counters, IInv, TypeOK
  <1>4. TypeOK'
    BY <1>2, <1>3, SettleType, Zenon DEF PersistOk, IInv, TypeOK
  <1>5. pc[a] = "dispatch" /\ Settle(a, "ok") /\ UNCHANGED <<queue, unsubmitted>>
    BY Zenon DEF PersistOk
  <1>6. 1 \in 0..1 /\ "ok" \in {"ok", "fail"}
    OBVIOUS
  <1> QED
    BY <1>2, <1>4, <1>5, <1>6, SettleStep, Zenon

LEMMA PersistRaisesStep ==
  ASSUME IInv, NEW a \in Actors, NEW stored \in BOOLEAN, PersistRaises(a, stored)
  PROVE  IInv'
  <1> USE DEF IInv
  <1>1. pc[a] = "dispatch" /\ UNCHANGED <<queue, unsubmitted>>
    BY DEF PersistRaises
  <1>2. job[a] \in Jobs /\ job[a] \notin unsubmitted /\ outcome[job[a]] = "none"
        /\ ~Queued(job[a]) /\ rows[job[a]] <= tries[a]
        /\ \A b \in Actors : b # a => job[b] # job[a]
    BY <1>1, DispatcherHolds
  <1>3. PICK n \in 0..1 : rows' = [rows EXCEPT ![job[a]] = @ + n]
    <2>1. CASE stored
      BY <2>1 DEF PersistRaises
    <2>2. CASE ~stored
      <3>1. rows' = rows /\ rows = [rows EXCEPT ![job[a]] = @ + 0]
        BY <1>2, <2>2 DEF PersistRaises, TypeOK
      <3> QED
        BY <3>1
    <2> QED
      BY <2>1, <2>2
  <1>4. rows' \in [Jobs -> Nat]
    BY <1>2, <1>3 DEF TypeOK
  <1>5. CASE tries[a] = 1 /\ Settle(a, "fail") /\ Count("persist_fail_count")
    <2>1. counters' \in [Counters -> Nat]
      BY <1>5 DEF Count, Counters, TypeOK
    <2>2. TypeOK'
      BY <1>4, <1>5, <2>1, SettleType, Zenon DEF PersistRaises, TypeOK
    <2> QED
      BY <1>1, <1>3, <1>5, <2>2, SettleStep
  <1>6. CASE tries[a] = 0 /\ tries' = [tries EXCEPT ![a] = 1]
             /\ UNCHANGED <<pc, job, outcome, counters>>
    <2>1. tries' \in [Actors -> 0..1]
      BY <1>6 DEF TypeOK
    <2>2. TypeOK'
      BY <1>4, <1>6, <2>1, Zenon DEF PersistRaises, TypeOK
    <2>3. HandsMatchPc' /\ OnePlace'
      BY <1>1, <1>6 DEF HandsMatchPc, OnePlace, Placed, QueuedOnce, HeldOnce, Queued, Held
    <2>4. tries'[a] = 1 /\ (\A b \in Actors : b # a => tries'[b] = tries[b])
          /\ rows'[job[a]] = rows[job[a]] + n
          /\ \A k \in Jobs : k # job[a] => rows'[k] = rows[k]
      BY <1>2, <1>3, <1>6 DEF TypeOK
    <2>5. RowsMatchOutcome'
      <3> SUFFICES ASSUME NEW k \in Jobs
                   PROVE  /\ rows'[k] <= 2
                          /\ outcome'[k] = "ok" => rows'[k] >= 1
                          /\ outcome'[k] = "drop" => rows'[k] = 0
                          /\ (k \in unsubmitted' \/ Queued(k)') => rows'[k] = 0
                          /\ \A b \in Actors : job'[b] = k => rows'[k] <= tries'[b]
        BY DEF RowsMatchOutcome
      <3>1. rows[k] \in Nat /\ (Queued(k)' <=> Queued(k))
        BY <1>1 DEF TypeOK, Queued
      <3>2. CASE k = job[a]
        BY <1>1, <1>2, <1>6, <2>4, <3>1, <3>2
      <3>3. CASE k # job[a]
        BY <1>1, <1>6, <2>4, <3>1, <3>3 DEF RowsMatchOutcome
      <3> QED
        BY <3>2, <3>3
    <2> QED
      BY <2>2, <2>3, <2>5
  <1>7. \/ tries[a] = 0 /\ tries' = [tries EXCEPT ![a] = 1] /\ UNCHANGED <<pc, job, outcome, counters>>
        \/ tries[a] = 1 /\ Settle(a, "fail") /\ Count("persist_fail_count")
    BY Zenon DEF PersistRaises
  <1> QED
    BY <1>5, <1>6, <1>7, Zenon

-----------------------------------------------------------------------------
LEMMA NextStep ==
  ASSUME IInv, Next
  PROVE  IInv'
  <1>1. ASSUME NEW new \in SUBSET Threads, Start(new) PROVE IInv'
    BY <1>1, StartStep
  <1>2. CASE Stop
    BY <1>2, StopStep
  <1>3. ASSUME NEW c \in Callers, NEW j \in Jobs,
               EnqueuePut(c, j) \/ EnqueueFull(c, j) \/ PersistNow(c, j)
        PROVE  IInv'
    BY <1>3, EnqueuePutStep, EnqueueFullStep, PersistNowStep, Zenon
  <1>4. ASSUME NEW c \in Callers, EnqueueReturn(c) PROVE IInv'
    BY <1>4, EnqueueReturnStep
  <1>5. ASSUME NEW t \in Threads, Run(t) PROVE IInv'
    BY <1>5, TakeJobStep, TakeSentinelStep, Zenon DEF Run
  <1>6. ASSUME NEW a \in Actors, Dispatch(a) PROVE IInv'
    BY <1>6, PersistOkStep, PersistRaisesStep, Zenon DEF Dispatch
  <1>7. CASE Crash
    <2>1. alive' \in BOOLEAN
      BY <1>7, Zenon DEF Crash
    <2>2. TypeOK'
      BY <1>7, <2>1, Zenon DEF Crash, IInv, TypeOK
    <2> QED
      BY <1>7, <2>2, QuietStep, Zenon DEF Crash
  <1> QED
    BY <1>1, <1>2, <1>3, <1>4, <1>5, <1>6, <1>7, Zenon DEF Next, Enqueue

LEMMA StutterStep ==
  ASSUME IInv, UNCHANGED vars
  PROVE  IInv'
  BY Zenon DEF vars, IInv, TypeOK, HandsMatchPc, OnePlace, Placed, QueuedOnce, HeldOnce,
           Queued, Held, RowsMatchOutcome

LEMMA Invariance == Spec => []IInv
  <1>1. IInv /\ [Next]_vars => IInv'
    BY NextStep, StutterStep
  <1> QED
    BY IInvInit, <1>1, PTL DEF Spec

\* In every reachable state the queue respects max_queue_size, and every
\* variable has its type (PersistQueue.__init__).
THEOREM TypeCorrect == Spec => []TypeOK
  <1>1. IInv => TypeOK
    BY DEF IInv
  <1> QED
    BY <1>1, Invariance, PTL

\* A move is in exactly one place and there once, whatever workers, callers and
\* stop do (PersistQueue._run, _dispatch, enqueue, persist_now, stop).
THEOREM JobsInOnePlace == Spec => []OnePlace
  <1>1. IInv => OnePlace
    BY DEF IInv
  <1> QED
    BY <1>1, Invariance, PTL

\* What the process counts agrees with what the database holds: a success has
\* its row, a dropped move none, and the retry leaves at most two rows
\* (PersistQueue._dispatch).
THEOREM RowsCorrect == Spec => []RowsMatchOutcome
  <1>1. IInv => RowsMatchOutcome
    BY DEF IInv
  <1> QED
    BY <1>1, Invariance, PTL
-----------------------------------------------------------------------------
(* Enough workers.                                                         *)

SentinelsIn(q) == {i \in DOMAIN q : q[i] = Sentinel}

LEMMA SentinelsFinite ==
  ASSUME NEW q \in Seq(Items)
  PROVE  IsFiniteSet(SentinelsIn(q)) /\ Cardinality(SentinelsIn(q)) \in Nat
  <1>1. DOMAIN q = 1..Len(q) /\ Len(q) \in Nat
    OBVIOUS
  <1>2. IsFiniteSet(1..Len(q))
    BY <1>1, FS_Interval
  <1>3. SentinelsIn(q) \in SUBSET (1..Len(q))
    BY <1>1 DEF SentinelsIn
  <1> QED
    BY <1>2, <1>3, FS_Subset, FS_CardinalityType

LEMMA SentinelsPut ==
  ASSUME NEW q \in Seq(Items), NEW x \in Items
  PROVE  Cardinality(SentinelsIn(Append(q, x))) =
           Cardinality(SentinelsIn(q)) + IF x = Sentinel THEN 1 ELSE 0
  <1>1. IsFiniteSet(SentinelsIn(q)) /\ Len(q) + 1 \notin SentinelsIn(q)
        /\ Cardinality(SentinelsIn(q)) \in Nat
    BY SentinelsFinite, PutFacts DEF SentinelsIn
  <1>2. CASE x = Sentinel
    <2>1. SentinelsIn(Append(q, x)) = SentinelsIn(q) \cup {Len(q) + 1}
      BY <1>2, PutFacts DEF SentinelsIn
    <2> QED
      BY <1>1, <1>2, <2>1, FS_AddElement
  <1>3. CASE x # Sentinel
    <2>1. SentinelsIn(Append(q, x)) = SentinelsIn(q)
      BY <1>3, PutFacts DEF SentinelsIn
    <2> QED
      BY <1>1, <1>3, <2>1
  <1> QED
    BY <1>2, <1>3

LEMMA SentinelsTake ==
  ASSUME NEW q \in Seq(Items), q # <<>>
  PROVE  Cardinality(SentinelsIn(Tail(q))) =
           Cardinality(SentinelsIn(q)) - IF Head(q) = Sentinel THEN 1 ELSE 0
  <1> DEFINE S == SentinelsIn(Tail(q))
             T == SentinelsIn(q) \ {1}
             f == [i \in S |-> i + 1]
  <1>1. IsFiniteSet(S)
    BY TakeFacts, SentinelsFinite
  <1>2. \A i \in S : i \in Nat /\ i + 1 \in T
    BY TakeFacts DEF SentinelsIn
  <1>3. \A i \in T : i - 1 \in S /\ (i - 1) + 1 = i
    BY TakeFacts DEF SentinelsIn
  <1>4. f \in Bijection(S, T)
    <2>1. f \in [S -> T] /\ \A i, j \in S : f[i] = f[j] => i = j
      BY <1>2
    <2>2. \A k \in T : \E i \in S : f[i] = k
      BY <1>3
    <2> HIDE DEF f, S, T
    <2> QED
      BY <2>1, <2>2 DEF Bijection, Injection, Surjection, IsInjective
  <1>5. Cardinality(T) = Cardinality(S)
    BY <1>1, <1>4, FS_Bijection DEF ExistsBijection
  <1>6. IsFiniteSet(SentinelsIn(q)) /\ Cardinality(SentinelsIn(q)) \in Nat
    BY SentinelsFinite
  <1>7. 1 \in SentinelsIn(q) <=> Head(q) = Sentinel
    BY TakeFacts DEF SentinelsIn
  <1>8. Cardinality(T) = IF 1 \in SentinelsIn(q) THEN Cardinality(SentinelsIn(q)) - 1
                         ELSE Cardinality(SentinelsIn(q))
    BY <1>6, FS_RemoveElement
  <1> QED
    BY <1>5, <1>6, <1>7, <1>8

\* Between two calls of stop the threads that a start made are the workers, and
\* there are at most max_workers of them.
Staffed ==
  /\ WorkersOutliveSentinels
  /\ running => stopping # "signal"
  /\ stopping = "no" => Cardinality(workers) <= (IF running THEN MaxWorkers ELSE 0)

LEMMA StaffFacts ==
  ASSUME TypeOK
  PROVE  /\ IsFiniteSet(Live) /\ Cardinality(Live) \in Nat
         /\ IsFiniteSet(workers) /\ Cardinality(workers) \in Nat
         /\ Sentinels = Cardinality(SentinelsIn(queue)) /\ Sentinels \in Nat
         /\ unsent \in Nat /\ queue \in Seq(Items) /\ MaxWorkers \in Nat
  <1>1. Live \in SUBSET Threads /\ workers \in SUBSET Threads /\ IsFiniteSet(Threads)
    BY ThreadsAssumption DEF TypeOK, Live
  <1>2. queue \in Seq(Items)
    BY DEF TypeOK, Items
  <1>3. Sentinels = Cardinality(SentinelsIn(queue))
    BY DEF Sentinels, SentinelsIn
  <1>4. unsent \in Nat /\ MaxWorkers \in Nat
    BY MaxWorkersAssumption DEF TypeOK
  <1> QED
    BY <1>1, <1>2, <1>3, <1>4, FS_Subset, FS_CardinalityType, SentinelsFinite

LEMMA StaffInit == Init => Staffed
  <1> SUFFICES ASSUME Init PROVE Staffed
    OBVIOUS
  <1>1. TypeOK
    BY TypeInit
  <1>2. Cardinality(Live) \in Nat
    BY <1>1, StaffFacts
  <1>3. {i \in DOMAIN queue : queue[i] = Sentinel} = {}
    BY DEF Init
  <1>4. Sentinels = 0 /\ Cardinality(workers) = 0
    BY <1>3, FS_EmptySet DEF Sentinels, Init
  <1> QED
    BY <1>2, <1>4 DEF Init, Staffed, WorkersOutliveSentinels

\* A step that changes no worker, sentinel or flag.
LEMMA StaffQuiet ==
  ASSUME Staffed, Live' = Live, Sentinels' = Sentinels,
         UNCHANGED <<unsent, running, stopping, workers>>
  PROVE  Staffed'
  BY DEF Staffed, WorkersOutliveSentinels

LEMMA StartStaff ==
  ASSUME TypeOK, Staffed, NEW new \in SUBSET Threads, Start(new)
  PROVE  Staffed'
  <1>1. IsFiniteSet(new) /\ Cardinality(new) = MaxWorkers /\ running = FALSE
        /\ running' = TRUE /\ stopping # "signal" /\ workers' = workers \cup new
        /\ UNCHANGED <<queue, stopping, unsent>>
    BY ThreadsAssumption, FS_Subset DEF Start
  <1>2. Live' = Live \cup new /\ Live \cap new = {}
    BY DEF Start, Live, Actors, TypeOK
  <1>3. Cardinality(Live') = Cardinality(Live) + Cardinality(new)
    <2>1. Cardinality(Live \cup new) =
            Cardinality(Live) + Cardinality(new) - Cardinality(Live \cap new)
      BY <1>1, StaffFacts, FS_Union
    <2>2. Cardinality(Live \cap new) = 0
      BY <1>2, FS_EmptySet
    <2> QED
      BY <1>1, <1>2, <2>1, <2>2, StaffFacts
  <1>4. Sentinels' = Sentinels
    BY <1>1 DEF Sentinels
  <1>5. stopping = "no" => Cardinality(workers \cup new) <= MaxWorkers
    <2> SUFFICES ASSUME stopping = "no" PROVE Cardinality(workers \cup new) <= MaxWorkers
      OBVIOUS
    <2>1. Cardinality(workers) = 0
      BY <1>1, StaffFacts DEF Staffed
    <2>2. workers = {}
      BY <2>1, StaffFacts, FS_EmptySet
    <2>3. workers \cup new = new
      BY <2>2
    <2>4. Cardinality(workers \cup new) = MaxWorkers
      BY <1>1, <2>3, Zenon
    <2> QED
      BY <2>4, StaffFacts
  <1> QED
    BY <1>1, <1>3, <1>4, <1>5, StaffFacts DEF Staffed, WorkersOutliveSentinels

LEMMA StopStaff ==
  ASSUME TypeOK, Staffed, Stop
  PROVE  Staffed'
  <1>1. Live' = Live
    BY DEF Stop, StopBegin, StopSignal, StopJoin, StopEnd, Live
  <1>2. CASE StopBegin
    <2>1. Sentinels' = Sentinels
      BY <1>2 DEF StopBegin, Sentinels
    <2>2. /\ running = TRUE /\ stopping = "no" /\ running' = FALSE /\ stopping' = "signal"
          /\ unsent' = Cardinality(workers) /\ workers' = workers
      BY <1>2 DEF StopBegin, TypeOK
    <2> QED
      BY <1>1, <2>1, <2>2, StaffFacts DEF Staffed, WorkersOutliveSentinels
  <1>3. CASE StopSignal
    <2>1. /\ unsent' = unsent - 1 /\ unsent > 0
          /\ UNCHANGED <<running, stopping, workers>>
          /\ queue' = Append(queue, Sentinel) \/ queue' = queue
      BY <1>3 DEF StopSignal
    <2>2. Cardinality(SentinelsIn(queue')) <= Cardinality(SentinelsIn(queue)) + 1
      <3>1. Sentinel \in Items /\ queue \in Seq(Items)
        BY StaffFacts DEF Items
      <3>2. Cardinality(SentinelsIn(Append(queue, Sentinel))) = Cardinality(SentinelsIn(queue)) + 1
        BY <3>1, SentinelsPut
      <3>3. Cardinality(SentinelsIn(queue)) \in Nat
        BY <3>1, SentinelsFinite
      <3>4. CASE queue' = Append(queue, Sentinel)
        <4>1. Cardinality(SentinelsIn(queue')) = Cardinality(SentinelsIn(Append(queue, Sentinel)))
          BY <3>4, Zenon
        <4> QED
          BY <3>2, <3>3, <4>1
      <3>5. CASE queue' = queue
        <4>1. Cardinality(SentinelsIn(queue')) = Cardinality(SentinelsIn(queue))
          BY <3>5, Zenon
        <4> QED
          BY <3>3, <4>1
      <3> QED
        BY <2>1, <3>4, <3>5
    <2>3. Sentinels' = Cardinality(SentinelsIn(queue'))
      BY DEF Sentinels, SentinelsIn
    <2>4. queue' \in Seq(Items)
      BY <2>1, StaffFacts, PutFacts DEF Items
    <2>5. Sentinels' \in Nat /\ Sentinels' <= Sentinels + 1
      BY <2>2, <2>3, <2>4, StaffFacts, SentinelsFinite
    <2> QED
      BY <1>1, <2>1, <2>5, StaffFacts DEF Staffed, WorkersOutliveSentinels
  <1>4. CASE StopJoin
    BY <1>1, <1>4 DEF StopJoin, Staffed, WorkersOutliveSentinels, Sentinels
  <1>5. CASE StopEnd
    <2>1. Cardinality(workers') = 0
      BY <1>5, FS_EmptySet DEF StopEnd
    <2> QED
      BY <1>1, <1>5, <2>1, MaxWorkersAssumption
      DEF StopEnd, Staffed, WorkersOutliveSentinels, Sentinels
  <1> QED
    BY <1>2, <1>3, <1>4, <1>5 DEF Stop

LEMMA RunStaff ==
  ASSUME TypeOK, Staffed, NEW t \in Threads, Run(t)
  PROVE  Staffed'
  <1>1. queue # <<>> /\ queue' = Tail(queue) /\ UNCHANGED <<unsent, running, stopping, workers>>
    BY DEF Run, TakeJob, TakeSentinel
  <1>2. Sentinels' = Sentinels - IF Head(queue) = Sentinel THEN 1 ELSE 0
    BY <1>1, StaffFacts, SentinelsTake DEF Sentinels, SentinelsIn
  <1>3. CASE TakeJob(t)
    <2>1. Live' = Live
      BY <1>3 DEF TakeJob, Live, TypeOK, Actors
    <2>2. Sentinels' = Sentinels
      BY <1>2, <1>3, StaffFacts DEF TakeJob
    <2> QED
      BY <1>1, <2>1, <2>2, StaffQuiet
  <1>4. CASE TakeSentinel(t)
    <2>1. Live' = Live \ {t} /\ t \in Live
      BY <1>4 DEF TakeSentinel, Live, TypeOK, Actors
    <2>2. Cardinality(Live') = Cardinality(Live) - 1
      BY <2>1, StaffFacts, FS_RemoveElement
    <2>3. Sentinels' = Sentinels - 1
      BY <1>2, <1>4 DEF TakeSentinel
    <2> QED
      BY <1>1, <2>2, <2>3, StaffFacts DEF Staffed, WorkersOutliveSentinels
  <1> QED
    BY <1>3, <1>4 DEF Run

LEMMA CallerStaff ==
  ASSUME TypeOK, Staffed, NEW c \in Callers, NEW j \in Jobs,
         EnqueuePut(c, j) \/ EnqueueFull(c, j) \/ EnqueueReturn(c) \/ PersistNow(c, j)
  PROVE  Staffed'
  <1>1. UNCHANGED <<unsent, running, stopping, workers>>
    BY DEF EnqueuePut, EnqueueFull, EnqueueReturn, PersistNow
  <1>2. c \notin Threads
    BY ThreadsAssumption
  <1>3. Live' = Live
    BY <1>2 DEF EnqueuePut, EnqueueFull, EnqueueReturn, PersistNow, Live, TypeOK, Actors
  <1>4. Sentinels' = Sentinels
    <2>1. CASE EnqueuePut(c, j)
      <3>1. queue' = Append(queue, j) /\ j \in Items /\ j # Sentinel
        BY <2>1, NoJobAssumption DEF EnqueuePut, Items
      <3>2. Cardinality(SentinelsIn(queue')) = Cardinality(SentinelsIn(queue))
        BY <3>1, StaffFacts, SentinelsPut
      <3> QED
        BY <3>2 DEF Sentinels, SentinelsIn
    <2>2. CASE queue' = queue
      BY <2>2 DEF Sentinels
    <2> QED
      BY <2>1, <2>2 DEF EnqueueFull, EnqueueReturn, PersistNow
  <1> QED
    BY <1>1, <1>3, <1>4, StaffQuiet

LEMMA DispatchStaff ==
  ASSUME TypeOK, Staffed, NEW a \in Actors, Dispatch(a)
  PROVE  Staffed'
  <1>1. UNCHANGED <<unsent, running, stopping, workers, queue>>
    BY DEF Dispatch, PersistOk, PersistRaises
  <1>2. pc[a] = "dispatch"
        /\ (pc' = pc \/ pc' = [pc EXCEPT ![a] = IF a \in Threads THEN "get" ELSE "idle"])
    BY Zenon DEF Dispatch, PersistOk, PersistRaises, Settle
  <1>3. Live' = Live
    BY <1>2 DEF Live, TypeOK, Actors
  <1>4. Sentinels' = Sentinels
    BY <1>1 DEF Sentinels
  <1> QED
    BY <1>1, <1>3, <1>4, StaffQuiet

LEMMA StaffNext == TypeOK /\ Staffed /\ [Next]_vars => Staffed'
  <1> SUFFICES ASSUME TypeOK, Staffed, [Next]_vars PROVE Staffed'
    OBVIOUS
  <1>1. ASSUME NEW c \in Callers, EnqueueReturn(c) PROVE Staffed'
    <2>1. UNCHANGED <<unsent, running, stopping, workers, queue>>
      BY <1>1 DEF EnqueueReturn
    <2>2. c \notin Threads
      BY ThreadsAssumption
    <2>3. Live' = Live
      BY <1>1, <2>2 DEF EnqueueReturn, Live, TypeOK, Actors
    <2>4. Sentinels' = Sentinels
      BY <2>1 DEF Sentinels
    <2> QED
      BY <2>1, <2>3, <2>4, StaffQuiet
  <1>2. ASSUME UNCHANGED <<unsent, running, stopping, workers, queue, pc>> PROVE Staffed'
    BY <1>2, StaffQuiet DEF Live, Sentinels
  <1>3. Crash \/ UNCHANGED vars => UNCHANGED <<unsent, running, stopping, workers, queue, pc>>
    BY DEF Crash, vars
  <1> QED
    BY <1>1, <1>2, <1>3, StartStaff, StopStaff, CallerStaff, RunStaff, DispatchStaff, Zenon
    DEF Next, Enqueue

\* However stops, starts and sentinels overlap, a running queue has max_workers
\* threads that no sentinel will end, for any number of workers
\* (PersistQueue.start, stop, _run).
THEOREM QueueIsDrained == Spec => []WorkersOutliveSentinels
  <1>1. IInv => TypeOK
    BY DEF IInv
  <1>2. Staffed => WorkersOutliveSentinels
    BY DEF Staffed
  <1> QED
    BY <1>1, <1>2, StaffInit, StaffNext, Invariance, PTL DEF Spec
=============================================================================
