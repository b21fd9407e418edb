---------------------------- MODULE ChezzSearch ----------------------------
(***************************************************************************)
(* The search of the Chezz engine: start_search and its threads            *)
(* (negamax/manage_search.c), negamax with its alpha-beta window           *)
(* (negamax/negamax.c), and the transposition table that every thread of   *)
(* every search of the process shares, one lock per slot (negamax/tt.c).   *)
(*                                                                         *)
(* A position is a model value, with the moves the generator lists for it. *)
(* Its hash is the position itself and the cluster the hash selects is     *)
(* Cluster[p]; the moves' ordering scores are Order; evaluate is worth, of *)
(* which nothing is assumed.  Depth is counted from the root, which is 0.  *)
(***************************************************************************)
EXTENDS Integers, Sequences, FiniteSets

CONSTANTS Positions, None,
          Side,        \* the color to move: 1 for White, -1 for Black
          Moves,       \* the positions after each legal move, as generated
          Order,       \* their move-ordering scores
          Fallen,      \* the colors whose king is gone
          Worths,      \* the evaluations to check, from White's side
          Cluster,     \* the cluster of the table a position hashes to
          CLUSTER_SIZE,
          INFINITY,
          max_depth,
          MaxCpus,     \* bound on the processors of the machine
          Searches,    \* calls of engine_best_move
          Root         \* the position each is given

ASSUME TreeAssumption ==
    /\ None \notin Positions
    /\ Side \in [Positions -> {1, -1}]
    /\ Moves \in [Positions -> Seq(Positions)]
    /\ \A p \in Positions : \A i \in DOMAIN Moves[p] : Side[Moves[p][i]] = -Side[p]
    /\ Order \in [Positions -> Int]
    /\ Fallen \in [Positions -> SUBSET {1, -1}]
    /\ Root \in [Searches -> Positions]

ASSUME WorthAssumption ==
    /\ INFINITY \in Nat /\ Worths \subseteq [Positions -> Int]
    /\ \A w \in Worths : \A p \in Positions : w[p] > -INFINITY /\ w[p] < INFINITY

ASSUME BoundAssumption ==
    {CLUSTER_SIZE, max_depth, MaxCpus} \subseteq Nat \ {0}

Slots == {Cluster[p] : p \in Positions} \X (1 .. CLUSTER_SIZE)
Threads == Searches \X (1 .. MaxCpus)

ASSUME HolderAssumption == None \notin Threads

VARIABLES worth,   \* the evaluation of every position
          TT,      \* slot -> entry
          lock,    \* slot -> the thread that holds it over two steps, or None
          state,   \* search -> its SearchState, and how far start_search is
          thread   \* thread -> its moves, its locals and its stack

vars == <<worth, TT, lock, state, thread>>

-----------------------------------------------------------------------------
MAX(a, b) == IF a > b THEN a ELSE b
MIN(a, b) == IF a < b THEN a ELSE b

start_depth == 1

(* tt_cleanup: what an empty slot holds.                                   *)
Cleaned == [board |-> None, score |-> 0, depth |-> 0, flag |-> "EXACT"]

(* select_best_move: the first of the moves left with the highest score is *)
(* taken, and the first move left takes its place.                         *)
Best(moves) ==
    CHOOSE i \in DOMAIN moves :
        /\ \A j \in DOMAIN moves : Order[moves[j]] <= Order[moves[i]]
        /\ \A j \in 1 .. i - 1 : Order[moves[j]] < Order[moves[i]]

Taken(moves) == moves[Best(moves)]
Left(moves) == Tail([moves EXCEPT ![Best(moves)] = moves[1]])

InSearchOrder[moves \in Seq(Positions)] ==
    IF moves = <<>> THEN <<>>
    ELSE <<Taken(moves)>> \o InSearchOrder[Left(moves)]

(* The moves of thread i out of n: the first (number of moves % n) threads *)
(* take one more than the others.                                          *)
Share(moves, n, i) ==
    LET each == Len(moves) \div n
        extra == Len(moves) % n
        before == (i - 1) * each + MIN(i - 1, extra)
    IN SubSeq(moves, before + 1, before + each + (IF i <= extra THEN 1 ELSE 0))

-----------------------------------------------------------------------------
(* One call of negamax: its arguments, its locals, and the moves that      *)
(* valid_moves still holds.                                                *)
Call(p, depth, alpha, beta) ==
    [pos |-> p, depth |-> depth, alpha |-> alpha, beta |-> beta,
     original_alpha |-> alpha, best_score |-> -INFINITY, valid_moves |-> <<>>]

Idle == [pc |-> "idle", moves |-> <<>>, score |-> -INFINITY,
         best_score |-> -INFINITY, move |-> None, stack |-> <<>>,
         slot |-> 1, depth |-> 0, flag |-> "EXACT", worst |-> 1]

Top(t) == thread[t].stack[1]
SlotOf(t) == <<Cluster[Top(t).pos], thread[t].slot>>
Go(t, th) == thread' = [thread EXCEPT ![t] = th]
To(t, pc) == Go(t, [thread[t] EXCEPT !.pc = pc, !.slot = 1])
NextSlot(t) == Go(t, [thread[t] EXCEPT !.slot = @ + 1])

(* A call ends: its caller takes the negated score, raises alpha and goes  *)
(* on, or the thread's own loop does when it was the outermost one.        *)
Return(t, value) ==
    LET th == thread[t]
    IN IF Len(th.stack) = 1
       THEN LET score == MAX(th.score, -value)
            IN Go(t, [th EXCEPT !.stack = <<>>, !.score = score,
                                !.pc = IF score > th.best_score THEN "report" ELSE "next",
                                !.best_score = MAX(@, score)])
       ELSE LET caller == th.stack[2]
                best == MAX(caller.best_score, -value)
            IN Go(t, [th EXCEPT
                   !.stack = <<[caller EXCEPT !.best_score = best,
                                              !.alpha = MAX(@, best)]>> \o Tail(Tail(@)),
                   !.pc = "explore"])

-----------------------------------------------------------------------------
(* start_search up to the last pthread_create.  Without moves it returns   *)
(* the board it was given.                                                 *)
StartSearch(s) ==
    /\ state[s].status = "idle"
    /\ UNCHANGED <<worth, TT, lock>>
    /\ LET moves == Moves[Root[s]]
       IN \/ /\ moves = <<>>
             /\ state' = [state EXCEPT ![s].status = "returned", ![s].best_move = Root[s]]
             /\ UNCHANGED thread
          \/ /\ moves # <<>>
             /\ state' = [state EXCEPT ![s] =
                    [status |-> "searching", alpha |-> -INFINITY, beta |-> INFINITY,
                     best_score |-> -INFINITY - 1, best_move |-> moves[1]]]
             /\ \E cpu_count \in 1 .. MaxCpus :
                    LET num_threads == MIN(cpu_count, Len(moves))
                    IN thread' = [t \in Threads |->
                           IF t[1] = s /\ t[2] <= num_threads
                           THEN [Idle EXCEPT
                                     !.pc = "next",
                                     !.moves = Share(InSearchOrder[moves], num_threads, t[2])]
                           ELSE thread[t]]

(* search_thread: the next of its moves, with the bounds as they are now.  *)
NextMove(t) ==
    LET th == thread[t]
        s == state[t[1]]
    IN /\ th.pc = "next"
       /\ IF th.moves = <<>> \/ s.alpha >= s.beta
          THEN Go(t, [th EXCEPT !.pc = "done"])
          ELSE Go(t, [th EXCEPT
                   !.pc = "probe", !.slot = 1,
                   !.move = th.moves[1], !.moves = Tail(@),
                   !.stack = <<Call(th.moves[1], start_depth, -s.beta, -s.alpha)>>])
       /\ UNCHANGED <<worth, TT, lock, state>>

(* Mutant of ReportBest: a score that only equals the best takes its place.*)
ReportTies(t) ==
    LET th == thread[t]
        s == t[1]
    IN /\ th.pc = "report"
       /\ state' = IF th.best_score >= state[s].best_score
                   THEN [state EXCEPT ![s].best_score = th.best_score,
                                      ![s].alpha = th.best_score,
                                      ![s].best_move = th.move]
                   ELSE state
       /\ To(t, "next")
       /\ UNCHANGED <<worth, TT, lock>>

(* The thread's best score against the search's, under its lock.           *)
ReportBest(t) ==
    LET th == thread[t]
        s == t[1]
    IN /\ th.pc = "report"
       /\ state' = IF th.best_score > state[s].best_score
                   THEN [state EXCEPT ![s].best_score = th.best_score,
                                      ![s].alpha = th.best_score,
                                      ![s].best_move = th.move]
                   ELSE state
       /\ To(t, "next")
       /\ UNCHANGED <<worth, TT, lock>>

(* Mutant of JoinThreads: it waits for threads it has not created.         *)
JoinAllThreads(s) ==
    /\ state[s].status = "searching"
    /\ \A i \in 1 .. MaxCpus : thread[<<s, i>>].pc = "done"
    /\ state' = [state EXCEPT ![s].status = "returned"]
    /\ UNCHANGED <<worth, TT, lock, thread>>

(* start_search has joined its threads.                                    *)
JoinThreads(s) ==
    /\ state[s].status = "searching"
    /\ \A i \in 1 .. MaxCpus : thread[<<s, i>>].pc \in {"idle", "done"}
    /\ state' = [state EXCEPT ![s].status = "returned"]
    /\ UNCHANGED <<worth, TT, lock, thread>>

-----------------------------------------------------------------------------
(* tt_probe: slot by slot under the slot's lock.  It returns a pointer to  *)
(* the entry, which negamax then reads without the lock.                   *)
Probe(t) ==
    /\ thread[t].pc = "probe"
    /\ lock[SlotOf(t)] = None
    /\ IF TT[SlotOf(t)].board = Top(t).pos
       THEN Go(t, [thread[t] EXCEPT !.pc = "depth"])
       ELSE IF thread[t].slot < CLUSTER_SIZE THEN NextSlot(t)
       ELSE To(t, "enter")
    /\ UNCHANGED <<worth, TT, lock, state>>

ReadDepth(t) ==
    /\ thread[t].pc = "depth"
    /\ IF TT[SlotOf(t)].depth >= Top(t).depth
       THEN Go(t, [thread[t] EXCEPT !.pc = "flag"])
       ELSE To(t, "enter")
    /\ UNCHANGED <<worth, TT, lock, state>>

ReadFlag(t) ==
    /\ thread[t].pc = "flag"
    /\ Go(t, [thread[t] EXCEPT !.pc = "score", !.flag = TT[SlotOf(t)].flag])
    /\ UNCHANGED <<worth, TT, lock, state>>

(* An exact score ends the call; a bound narrows the window, and ends the  *)
(* call when nothing is left of it.                                        *)
ReadScore(t) ==
    LET th == thread[t]
        score == TT[SlotOf(t)].score
        alpha == IF th.flag = "LOWER" THEN MAX(Top(t).alpha, score) ELSE Top(t).alpha
        beta == IF th.flag = "UPPER" THEN MIN(Top(t).beta, score) ELSE Top(t).beta
    IN /\ th.pc = "score"
       /\ IF th.flag = "EXACT" \/ alpha >= beta
          THEN Return(t, score)
          ELSE Go(t, [th EXCEPT !.pc = "enter", !.slot = 1,
                                !.stack[1].alpha = alpha, !.stack[1].beta = beta])
       /\ UNCHANGED <<worth, TT, lock, state>>

(* The base cases come before the moves: the depth limit first, then a     *)
(* king that is gone.                                                      *)
evaluate(p, color) == color * worth[p]

Enter(t) ==
    LET f == Top(t)
        color == Side[f.pos]
    IN /\ thread[t].pc = "enter"
       /\ IF f.depth >= max_depth THEN Return(t, evaluate(f.pos, color))
          ELSE IF color \in Fallen[f.pos] THEN Return(t, -INFINITY)
          ELSE IF -color \in Fallen[f.pos] THEN Return(t, INFINITY)
          ELSE Go(t, [thread[t] EXCEPT !.pc = "explore",
                                       !.stack[1].valid_moves = Moves[f.pos]])
       /\ UNCHANGED <<worth, TT, lock, state>>

(* The move exploration loop, up to a cutoff.                              *)
Explore(t) ==
    LET f == Top(t)
    IN /\ thread[t].pc = "explore"
       /\ IF f.valid_moves = <<>> \/ f.alpha >= f.beta
          THEN To(t, "update")
          ELSE Go(t, [thread[t] EXCEPT
                   !.pc = "probe", !.slot = 1,
                   !.stack = <<Call(Taken(f.valid_moves), f.depth + 1, -f.beta, -f.alpha),
                               [f EXCEPT !.valid_moves = Left(@)]>> \o Tail(@)])
       /\ UNCHANGED <<worth, TT, lock, state>>

-----------------------------------------------------------------------------
(* Mutant of FlagOf: compared with the alpha the moves have raised.        *)
FlagOfRaised(f) ==
    IF f.best_score <= f.alpha THEN "UPPER"
    ELSE IF f.best_score >= f.beta THEN "LOWER" ELSE "EXACT"

(* What negamax stores: a score that did not exceed the caller's alpha is  *)
(* an upper bound, one that reached beta a lower bound.                    *)
FlagOf(f) ==
    IF f.best_score <= f.original_alpha THEN "UPPER"
    ELSE IF f.best_score >= f.beta THEN "LOWER" ELSE "EXACT"

NewEntry(f) ==
    [board |-> f.pos, score |-> f.best_score, depth |-> f.depth, flag |-> FlagOf(f)]

(* tt_store, first pass: an entry of the same board is kept, or brought up *)
(* to date when it is of a lower depth.                                    *)
StoreUpdate(t) ==
    LET old == TT[SlotOf(t)]
    IN /\ thread[t].pc = "update"
       /\ lock[SlotOf(t)] = None
       /\ IF old.board = Top(t).pos
          THEN /\ TT' = IF Top(t).depth > old.depth
                        THEN [TT EXCEPT ![SlotOf(t)] = NewEntry(Top(t))] ELSE TT
               /\ Return(t, Top(t).best_score)
          ELSE /\ UNCHANGED TT
               /\ IF thread[t].slot < CLUSTER_SIZE THEN NextSlot(t) ELSE To(t, "insert")
       /\ UNCHANGED <<worth, lock, state>>

(* Second pass: the first empty slot.                                      *)
StoreInsert(t) ==
    /\ thread[t].pc = "insert"
    /\ lock[SlotOf(t)] = None
    /\ IF TT[SlotOf(t)].board = None
       THEN /\ TT' = [TT EXCEPT ![SlotOf(t)] = NewEntry(Top(t))]
            /\ Return(t, Top(t).best_score)
       ELSE /\ UNCHANGED TT
            /\ IF thread[t].slot < CLUSTER_SIZE THEN NextSlot(t) ELSE To(t, "worst")
    /\ UNCHANGED <<worth, lock, state>>

(* Third pass: look for the slot with the lowest depth,                    *)
FindWorst(t) ==
    LET th == thread[t]
        depth == TT[SlotOf(t)].depth
        lower == th.slot = 1 \/ depth < th.depth
        found == [th EXCEPT !.worst = IF lower THEN th.slot ELSE @,
                            !.depth = IF lower THEN depth ELSE @]
    IN /\ th.pc = "worst"
       /\ lock[SlotOf(t)] = None
       /\ Go(t, IF th.slot < CLUSTER_SIZE THEN [found EXCEPT !.slot = @ + 1]
                ELSE [found EXCEPT !.pc = "clean", !.slot = found.worst])
       /\ UNCHANGED <<worth, TT, lock, state>>

(* lock it and clean it,                                                   *)
CleanWorst(t) ==
    /\ thread[t].pc = "clean"
    /\ lock[SlotOf(t)] = None
    /\ TT' = [TT EXCEPT ![SlotOf(t)] = Cleaned]
    /\ lock' = [lock EXCEPT ![SlotOf(t)] = t]
    /\ Go(t, [thread[t] EXCEPT !.pc = "replace"])
    /\ UNCHANGED <<worth, state>>

(* and fill and unlock it.                                                 *)
StoreReplace(t) ==
    /\ thread[t].pc = "replace"
    /\ TT' = [TT EXCEPT ![SlotOf(t)] = NewEntry(Top(t))]
    /\ lock' = [lock EXCEPT ![SlotOf(t)] = None]
    /\ Return(t, Top(t).best_score)
    /\ UNCHANGED <<worth, state>>

-----------------------------------------------------------------------------
Init ==
    /\ worth \in Worths
    /\ TT = [x \in Slots |-> Cleaned]
    /\ lock = [x \in Slots |-> None]
    /\ state = [s \in Searches |->
                   [status |-> "idle", alpha |-> 0, beta |-> 0,
                    best_score |-> 0, best_move |-> None]]
    /\ thread = [t \in Threads |-> Idle]

ThreadStep(t) ==
    \/ NextMove(t) \/ ReportBest(t)
    \/ Probe(t) \/ ReadDepth(t) \/ ReadFlag(t) \/ ReadScore(t)
    \/ Enter(t) \/ Explore(t)
    \/ StoreUpdate(t) \/ StoreInsert(t)
    \/ FindWorst(t) \/ CleanWorst(t) \/ StoreReplace(t)

Next ==
    \/ \E s \in Searches : StartSearch(s) \/ JoinThreads(s)
    \/ \E t \in Threads : ThreadStep(t)

(* A thread the system has started gets to run, and pthread_join returns.  *)
Fairness ==
    /\ \A s \in Searches : WF_vars(JoinThreads(s))
    /\ \A t \in Threads : WF_vars(ThreadStep(t))

Spec == Init /\ [][Next]_vars /\ Fairness

-----------------------------------------------------------------------------
(* What a search would find without pruning, table or threads: the value   *)
(* of a position at a depth, for the side to move.                         *)
Highest(S) == CHOOSE x \in S : \A y \in S : y <= x

minimax[depth \in 0 .. max_depth] ==
    [p \in Positions |->
        IF depth = max_depth THEN evaluate(p, Side[p])
        ELSE IF Side[p] \in Fallen[p] THEN -INFINITY
        ELSE IF -Side[p] \in Fallen[p] THEN INFINITY
        ELSE IF Moves[p] = <<>> THEN -INFINITY
        ELSE Highest({-minimax[depth + 1][Moves[p][i]] : i \in DOMAIN Moves[p]})]

(* Whatever the threads do to each other's window and table, the move a    *)
(* search returns is one that no legal move beats, as a full search that   *)
(* prunes nothing would have it.                                           *)
ReturnsABestMove ==
    \A s \in Searches :
        state[s].status = "returned" /\ Moves[Root[s]] # <<>> =>
            LET moves == {Moves[Root[s]][i] : i \in DOMAIN Moves[Root[s]]}
            IN /\ state[s].best_move \in moves
               /\ \A m \in moves : minimax[start_depth][state[s].best_move]
                                       <= minimax[start_depth][m]

(* An entry is true for every reader, not only for the window of the call  *)
(* that stored it: an exact score is the position's value at that depth,   *)
(* and a bound bounds it, although alpha and beta have moved meanwhile and *)
(* the moves behind it were pruned or answered from the table.             *)
EntriesAreTrue ==
    \A x \in Slots :
        LET e == TT[x]
            value == minimax[e.depth][e.board]
        IN e.board # None =>
               CASE e.flag = "EXACT" -> value = e.score
                 [] e.flag = "LOWER" -> value >= e.score
                 [] e.flag = "UPPER" -> value <= e.score

(* Every search that starts returns.                                       *)
SearchReturns ==
    \A s \in Searches : state[s].status = "searching" ~> state[s].status = "returned"

(* What tt.c:60 says of the entry that tt_probe returns: it matches the    *)
(* hash, and board, asked about, when its score is read as well.           *)
UsedEntriesMatch ==
    \A t \in Threads :
        thread[t].pc = "score" => TT[SlotOf(t)].board = Top(t).pos

(* That, and that the entry is of the depth the call searches and has the  *)
(* flag that was read: what the answers of the table rest on.              *)
UsesOwnEntries ==
    \A t \in Threads :
        thread[t].pc = "score" =>
            LET e == TT[SlotOf(t)]
            IN /\ e.board = Top(t).pos
               /\ e.depth = Top(t).depth
               /\ e.flag = thread[t].flag

(* No thread is about to clean the entry that another one is reading.      *)
NoneReadsWhatIsCleaned ==
    \A t, u \in Threads :
        thread[t].pc = "clean" /\ thread[u].pc \in {"depth", "flag", "score"} =>
            SlotOf(t) # SlotOf(u)
=============================================================================
