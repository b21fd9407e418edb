---------------------------- MODULE PersistQueue ----------------------------
(***************************************************************************)
(* The bounded write-behind queue of platform/backend/persist.py.  Request *)
(* threads (Callers) hand it moves (Jobs): enqueue leaves the job to a     *)
(* worker thread and never blocks, persist_now runs the job in the caller. *)
(* Either way _dispatch calls the database at most twice; a call commits   *)
(* its row and returns, commits and raises (the reply was lost), or raises *)
(* without committing.  stop signals the workers with one sentinel each.   *)
(*                                                                         *)
(* An action is what one thread does between two operations other threads  *)
(* can observe; the lock around the counters makes each update atomic.     *)
(***************************************************************************)
EXTENDS Naturals, Sequences, FiniteSets

CONSTANTS Jobs,          \* the moves the sessions hand over, one dict each
          Threads,       \* the worker threads there can ever be (bounds restarts)
          Callers,       \* the request threads
          MaxWorkers,    \* max_workers
          MaxQueueSize,  \* max_queue_size
          NoJob,         \* "holds no job"
          Sentinel       \* _stop_sentinel

ASSUME MaxWorkersAssumption   == MaxWorkers \in Nat \ {0}
ASSUME MaxQueueSizeAssumption == MaxQueueSize \in Nat \ {0}
ASSUME ThreadsAssumption      == IsFiniteSet(Threads) /\ Threads \cap Callers = {}
ASSUME NoJobAssumption        == NoJob \notin Jobs /\ Sentinel \notin Jobs

VARIABLES running,   \* _running
          workers,   \* _workers
          queue,     \* _queue
          stopping,  \* where the call of stop is: "no", "signal", "join"
          unsent,    \* sentinels stop has still to put
          pc,        \* what each thread is doing
          job,       \* the job each thread holds
          tries,     \* the calls of _persist it has made for that job
          unsubmitted, \* the jobs no session has handed over yet
          outcome,   \* what became of each job, as the process knows it
          rows,      \* the rows each job has left in the database
          counters,  \* _counters
          alive      \* the process runs

vars == <<running, workers, queue, stopping, unsent, pc, job, tries,
          unsubmitted, outcome, rows, counters, alive>>

Actors == Threads \cup Callers

Counters == {"enqueue_count", "persist_ok_count", "persist_fail_count", "drop_count"}

TypeOK ==
  /\ running \in BOOLEAN /\ alive \in BOOLEAN
  /\ workers \subseteq Threads
  /\ queue \in Seq(Jobs \cup {Sentinel}) /\ Len(queue) <= MaxQueueSize
  /\ stopping \in {"no", "signal", "join"}
  /\ unsent \in Nat
  /\ pc \in [Actors -> {"unborn", "get", "dispatch", "exited", "idle", "accepted", "refused"}]
  /\ job \in [Actors -> Jobs \cup {NoJob}]
  /\ tries \in [Actors -> 0..1]
  /\ unsubmitted \subseteq Jobs
  /\ outcome \in [Jobs -> {"none", "ok", "fail", "drop"}]
  /\ rows \in [Jobs -> Nat]
  /\ counters \in [Counters -> Nat]

Init ==
  /\ running = FALSE /\ alive = TRUE
  /\ workers = {} /\ queue = <<>>
  /\ stopping = "no" /\ unsent = 0
  /\ pc = [a \in Actors |-> IF a \in Threads THEN "unborn" ELSE "idle"]
  /\ job = [a \in Actors |-> NoJob]
  /\ tries = [a \in Actors |-> 0]
  /\ unsubmitted = Jobs
  /\ outcome = [j \in Jobs |-> "none"]
  /\ rows = [j \in Jobs |-> 0]
  /\ counters = [k \in Counters |-> 0]

Count(k) == counters' = [counters EXCEPT ![k] = @ + 1]

Live == {t \in Threads : pc[t] \in {"get", "dispatch"}}

-----------------------------------------------------------------------------
\* Mutant of Start: range(1, max_workers) starts one thread too few.
StartOneShort(new) ==
  /\ alive /\ ~running /\ stopping # "signal"
  /\ new \subseteq {t \in Threads : pc[t] = "unborn"}
  /\ Cardinality(new) + 1 = MaxWorkers
  /\ running' = TRUE
  /\ workers' = workers \cup new
  /\ pc' = [a \in Actors |-> IF a \in new THEN "get" ELSE pc[a]]
  /\ UNCHANGED <<queue, stopping, unsent, job, tries, unsubmitted, outcome, rows,
                 counters, alive>>

\* start: idempotent while running; one new thread per worker.  It waits for
\* the lock while stop is putting sentinels.
Start(new) ==
  /\ alive /\ ~running /\ stopping # "signal"
  /\ new \subseteq {t \in Threads : pc[t] = "unborn"}
  /\ Cardinality(new) = MaxWorkers
  /\ running' = TRUE
  /\ workers' = workers \cup new
  /\ pc' = [a \in Actors |-> IF a \in new THEN "get" ELSE pc[a]]
  /\ UNCHANGED <<queue, stopping, unsent, job, tries, unsubmitted, outcome, rows,
                 counters, alive>>

\* stop, first part (under the lock): clear the flag.
StopBegin ==
  /\ alive /\ running /\ stopping = "no"
  /\ running' = FALSE
  /\ stopping' = "signal"
  /\ unsent' = Cardinality(workers)
  /\ UNCHANGED <<workers, queue, pc, job, tries, unsubmitted, outcome, rows, counters, alive>>

\* stop, one turn of its loop: put_nowait of a sentinel, skipped when full.
StopSignal ==
  /\ alive /\ stopping = "signal" /\ unsent > 0
  /\ unsent' = unsent - 1
  /\ queue' = IF Len(queue) < MaxQueueSize THEN Append(queue, Sentinel) ELSE queue
  /\ UNCHANGED <<running, workers, stopping, pc, job, tries, unsubmitted, outcome,
                 rows, counters, alive>>

\* stop releases the lock and joins the workers.
StopJoin ==
  /\ alive /\ stopping = "signal" /\ unsent = 0
  /\ stopping' = "join"
  /\ UNCHANGED <<running, workers, queue, unsent, pc, job, tries, unsubmitted,
                 outcome, rows, counters, alive>>

\* stop returns: every join ended, by the worker's exit or by its timeout.
StopEnd ==
  /\ alive /\ stopping = "join"
  /\ stopping' = "no"
  /\ workers' = {}
  /\ UNCHANGED <<running, queue, unsent, pc, job, tries, unsubmitted, outcome, rows,
                 counters, alive>>

-----------------------------------------------------------------------------
\* persist_now: the caller becomes the dispatcher of its job.
PersistNow(c, j) ==
  /\ alive /\ pc[c] = "idle" /\ j \in unsubmitted
  /\ unsubmitted' = unsubmitted \ {j}
  /\ pc' = [pc EXCEPT ![c] = "dispatch"]
  /\ job' = [job EXCEPT ![c] = j]
  /\ tries' = [tries EXCEPT ![c] = 0]
  /\ UNCHANGED <<running, workers, queue, stopping, unsent, outcome, rows, counters, alive>>

\* enqueue with room in the queue; the count follows, under the lock.
EnqueuePut(c, j) ==
  /\ alive /\ pc[c] = "idle" /\ j \in unsubmitted
  /\ Len(queue) < MaxQueueSize
  /\ unsubmitted' = unsubmitted \ {j}
  /\ queue' = Append(queue, j)
  /\ pc' = [pc EXCEPT ![c] = "accepted"]
  /\ UNCHANGED <<running, workers, stopping, unsent, job, tries, outcome, rows, counters, alive>>

\* enqueue on a full queue: the move is dropped.
EnqueueFull(c, j) ==
  /\ alive /\ pc[c] = "idle" /\ j \in unsubmitted
  /\ Len(queue) >= MaxQueueSize
  /\ unsubmitted' = unsubmitted \ {j}
  /\ outcome' = [outcome EXCEPT ![j] = "drop"]
  /\ pc' = [pc EXCEPT ![c] = "refused"]
  /\ UNCHANGED <<running, workers, queue, stopping, unsent, job, tries, rows, counters, alive>>

\* enqueue, after the put: count what happened and return.
EnqueueReturn(c) ==
  /\ alive /\ pc[c] \in {"accepted", "refused"} /\ stopping # "signal"
  /\ Count(IF pc[c] = "accepted" THEN "enqueue_count" ELSE "drop_count")
  /\ pc' = [pc EXCEPT ![c] = "idle"]
  /\ UNCHANGED <<running, workers, queue, stopping, unsent, job, tries, unsubmitted,
                 outcome, rows, alive>>

-----------------------------------------------------------------------------
\* Mutants of TakeJob: the item is peeked at and left in the queue; or the loop
\* runs only while _running is set.
TakeJobPeek(t) ==
  /\ alive /\ pc[t] = "get" /\ queue # <<>> /\ Head(queue) # Sentinel
  /\ pc' = [pc EXCEPT ![t] = "dispatch"]
  /\ job' = [job EXCEPT ![t] = Head(queue)]
  /\ tries' = [tries EXCEPT ![t] = 0]
  /\ UNCHANGED <<running, workers, queue, stopping, unsent, unsubmitted, outcome, rows,
                 counters, alive>>

TakeJobWhileRunning(t) ==
  /\ alive /\ running /\ pc[t] = "get" /\ queue # <<>> /\ Head(queue) # Sentinel
  /\ queue' = Tail(queue)
  /\ pc' = [pc EXCEPT ![t] = "dispatch"]
  /\ job' = [job EXCEPT ![t] = Head(queue)]
  /\ tries' = [tries EXCEPT ![t] = 0]
  /\ UNCHANGED <<running, workers, stopping, unsent, unsubmitted, outcome, rows, counters, alive>>

\* _run: take the oldest item; a sentinel ends the thread.
TakeJob(t) ==
  /\ alive /\ pc[t] = "get" /\ queue # <<>> /\ Head(queue) # Sentinel
  /\ queue' = Tail(queue)
  /\ pc' = [pc EXCEPT ![t] = "dispatch"]
  /\ job' = [job EXCEPT ![t] = Head(queue)]
  /\ tries' = [tries EXCEPT ![t] = 0]
  /\ UNCHANGED <<running, workers, stopping, unsent, unsubmitted, outcome, rows, counters, alive>>

TakeSentinel(t) ==
  /\ alive /\ pc[t] = "get" /\ queue # <<>> /\ Head(queue) = Sentinel
  /\ queue' = Tail(queue)
  /\ pc' = [pc EXCEPT ![t] = "exited"]
  /\ UNCHANGED <<running, workers, stopping, unsent, job, tries, unsubmitted, outcome,
                 rows, counters, alive>>

\* The dispatcher is done with its job: a worker takes the next, a caller of
\* persist_now returns.
Settle(a, result) ==
  /\ outcome' = [outcome EXCEPT ![job[a]] = result]
  /\ job' = [job EXCEPT ![a] = NoJob]
  /\ tries' = [tries EXCEPT ![a] = 0]
  /\ pc' = [pc EXCEPT ![a] = IF a \in Threads THEN "get" ELSE "idle"]

\* _dispatch: _persist returned.
PersistOk(a) ==
  /\ alive /\ pc[a] = "dispatch"
  /\ rows' = [rows EXCEPT ![job[a]] = @ + 1]
  /\ Settle(a, "ok")
  /\ Count("persist_ok_count")
  /\ UNCHANGED <<running, workers, queue, stopping, unsent, unsubmitted, alive>>

\* Mutants of PersistRaises: an exception of the second call is counted as a
\* success; or the loop retries until a call returns.
PersistRaisesAsOk(a, stored) ==
  /\ alive /\ pc[a] = "dispatch"
  /\ rows' = IF stored THEN [rows EXCEPT ![job[a]] = @ + 1] ELSE rows
  /\ \/ /\ tries[a] = 0
        /\ tries' = [tries EXCEPT ![a] = 1]
        /\ UNCHANGED <<pc, job, outcome, counters>>
     \/ /\ tries[a] = 1
        /\ Settle(a, "ok")
        /\ Count("persist_ok_count")
  /\ UNCHANGED <<running, workers, queue, stopping, unsent, unsubmitted, alive>>

PersistRaisesForever(a, stored) ==
  /\ alive /\ pc[a] = "dispatch" /\ ~stored
  /\ tries' = [tries EXCEPT ![a] = 1 - @]
  /\ UNCHANGED <<running, workers, queue, stopping, unsent, pc, job, unsubmitted,
                 outcome, rows, counters, alive>>

\* _dispatch: _persist raised, having committed its row (stored) or not.  The
\* first exception is retried at once, the second is counted.
PersistRaises(a, stored) ==
  /\ alive /\ pc[a] = "dispatch"
  /\ rows' = IF stored THEN [rows EXCEPT ![job[a]] = @ + 1] ELSE rows
  /\ \/ /\ tries[a] = 0
        /\ tries' = [tries EXCEPT ![a] = 1]
        /\ UNCHANGED <<pc, job, outcome, counters>>
     \/ /\ tries[a] = 1
        /\ Settle(a, "fail")
        /\ Count("persist_fail_count")
  /\ UNCHANGED <<running, workers, queue, stopping, unsent, unsubmitted, alive>>

\* The process dies: the threads are daemons, queued jobs are gone.
Crash ==
  /\ alive
  /\ alive' = FALSE
  /\ UNCHANGED <<running, workers, queue, stopping, unsent, pc, job, tries,
                 unsubmitted, outcome, rows, counters>>

-----------------------------------------------------------------------------
Dispatch(a) == PersistOk(a) \/ \E stored \in BOOLEAN : PersistRaises(a, stored)

Stop == StopBegin \/ StopSignal \/ StopJoin \/ StopEnd

Enqueue(c) == (\E j \in Jobs : EnqueuePut(c, j) \/ EnqueueFull(c, j)) \/ EnqueueReturn(c)

Run(t) == TakeJob(t) \/ TakeSentinel(t)

Next ==
  \/ \E new \in SUBSET Threads : Start(new)
  \/ Stop
  \/ \E c \in Callers : Enqueue(c) \/ \E j \in Jobs : PersistNow(c, j)
  \/ \E t \in Threads : Run(t)
  \/ \E a \in Actors : Dispatch(a)
  \/ Crash

Spec == Init /\ [][Next]_vars

\* A thread blocked on the queue wakes when an item is there, and a call of the
\* database returns or raises.  Nothing makes a caller submit or stop.
Fairness == /\ \A t \in Threads : WF_vars(Run(t))
            /\ \A a \in Actors : WF_vars(Dispatch(a))

FairSpec == Spec /\ Fairness

-----------------------------------------------------------------------------
Queued(j) == \E i \in DOMAIN queue : queue[i] = j
Held(j)   == \E a \in Actors : job[a] = j

\* A thread holds a job exactly while it is in _dispatch.
HandsMatchPc == \A a \in Actors : (pc[a] = "dispatch") <=> (job[a] # NoJob)

\* A job was never handed over, or sits in the queue, or is in some thread's
\* hands, or is settled: exactly one of the four.
Placed ==
  \A j \in Jobs :
    \/ j \in unsubmitted /\ outcome[j] = "none" /\ ~Queued(j) /\ ~Held(j)
    \/ j \notin unsubmitted /\ outcome[j] = "none" /\ Queued(j) /\ ~Held(j)
    \/ j \notin unsubmitted /\ outcome[j] = "none" /\ ~Queued(j) /\ Held(j)
    \/ j \notin unsubmitted /\ outcome[j] # "none" /\ ~Queued(j) /\ ~Held(j)

QueuedOnce == \A i, k \in DOMAIN queue : queue[i] = queue[k] /\ queue[i] # Sentinel => i = k

HeldOnce == \A a, b \in Actors : job[a] = job[b] /\ job[a] # NoJob => a = b

\* A job is in one place, once.  Two workers never write the same move because
\* both took it, and no accepted move vanishes uncounted (persist.py _run and
\* _dispatch).
OnePlace == Placed /\ QueuedOnce /\ HeldOnce

\* What the counters call a success is in the database; a dropped move left
\* nothing; no move leaves more rows than the two calls the retry allows, and
\* one that is still being tried no more than the calls that raised.
RowsMatchOutcome ==
  \A j \in Jobs :
    /\ rows[j] <= 2
    /\ outcome[j] = "ok" => rows[j] >= 1
    /\ outcome[j] = "drop" => rows[j] = 0
    /\ (j \in unsubmitted \/ Queued(j)) => rows[j] = 0
    /\ \A a \in Actors : job[a] = j => rows[j] <= tries[a]

Sentinels == Cardinality({i \in DOMAIN queue : queue[i] = Sentinel})

\* A queue that runs has max_workers threads left after every sentinel of an
\* earlier stop has ended one, whichever thread takes which sentinel: a start
\* after a stop is never left with a queue nobody drains.
WorkersOutliveSentinels ==
  Cardinality(Live) >= Sentinels + unsent + (IF running THEN MaxWorkers ELSE 0)

\* A move accepted while the queue runs is settled unless the process dies,
\* even when stop is called meanwhile: the sentinels queue behind it.
AcceptedIsSettled ==
  \A j \in Jobs : (Queued(j) /\ running) ~> (outcome[j] # "none" \/ ~alive)

\* A caller of persist_now gets its thread back unless the process dies.
PersistNowReturns ==
  \A c \in Callers : (pc[c] = "dispatch") ~> (pc[c] = "idle" \/ ~alive)
=============================================================================
