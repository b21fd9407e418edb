------------------------- MODULE ChezzSearch_proofs --------------------------
(***************************************************************************)
(* Proofs about ChezzSearch: alpha-beta with threads and a shared table    *)
(* against a plain minimax, for any tree of positions, any evaluation, any *)
(* number of threads and searches, any table and any depth.                *)
(*                                                                         *)
(* IInv says what each call on a thread's stack knows of the value of its  *)
(* position: how far its window may have narrowed, and that the moves it   *)
(* has done with do not beat its best score.  Bounds move at any time, as  *)
(* the other threads find better moves, so a call is held to the window it *)
(* has now and not to the one it was asked with.  One lemma per action     *)
(* keeps it.                                                               *)
(*                                                                         *)
(* A step keeps IInv if the entry a thread reads is of its own position,   *)
(* depth and flag (UsesOwnEntries).  The code does not see to that:        *)
(* tt_probe returns a pointer that is read without the lock, an entry that *)
(* is replaced meanwhile makes the search answer for another position, and *)
(* negamax reuses an entry of another depth.  So no theorem assumes it;    *)
(* the last part proves it where neither can happen: with one thread, or   *)
(* as long as no entry is cleaned while it is read, in trees in which a    *)
(* position is met at one depth only.                                      *)
(***************************************************************************)
EXTENDS ChezzSearch, TLAPS, FiniteSetTheorems, WellFoundedInduction

-----------------------------------------------------------------------------
(***************************************************************************)
(* Induction over numbers as a statement about sets: the provers cannot    *)
(* instantiate a theorem that takes a predicate, but the finite sets are   *)
(* well founded, so a set of numbers has a least element.                  *)
(***************************************************************************)
LEMMA Least ==
    ASSUME NEW S \in SUBSET Nat, S # {}
    PROVE  \E m \in S : \A k \in S : m <= k
  <1>1. PICK n : n \in S
    OBVIOUS
  <1> DEFINE T == {0 .. k : k \in {l \in S : l <= n}}
  <1>2. IsWellFoundedOn(StrictSubsetOrdering(0 .. n), SUBSET (0 .. n))
    <2>1. IsFiniteSet(0 .. n)
      BY <1>1, FS_Interval
    <2>2. FiniteSubsetsOf(0 .. n) = SUBSET (0 .. n)
      BY <2>1, FS_FiniteSubsetsOfFinite
    <2>3. IsWellFoundedOn(StrictSubsetOrdering(0 .. n), FiniteSubsetsOf(0 .. n))
      BY FS_StrictSubsetOrderingWellFounded
    <2> QED
      BY <2>2, <2>3
  <1>3. T \subseteq SUBSET (0 .. n) /\ T # {}
    BY <1>1
  <1>4. PICK X \in T : \A Y \in T : <<Y, X>> \notin StrictSubsetOrdering(0 .. n)
    <2> HIDE DEF T
    <2> QED
      BY <1>2, <1>3, WFMin
  <1>5. PICK m \in S : X = 0 .. m /\ m <= n
    BY <1>4
  <1>6. ASSUME NEW k \in S, k < m
        PROVE  FALSE
    <2>1. 0 .. k \in T
      <3>1. k \in {l \in S : l <= n}
        BY <1>1, <1>5, <1>6
      <3> QED
        BY <3>1
    <2>2. <<0 .. k, X>> \in StrictSubsetOrdering(0 .. n)
      <3>1. 0 .. k \subseteq X /\ m \in X /\ m \notin 0 .. k
        BY <1>5, <1>6
      <3>2. X \subseteq 0 .. n
        BY <1>3, <1>4
      <3> QED
        BY <3>1, <3>2 DEF StrictSubsetOrdering
    <2> QED
      BY <1>4, <2>1, <2>2
  <1> QED
    BY <1>5, <1>6

(* What 0 has and every number hands on, n has.                            *)
LEMMA Induct ==
    ASSUME NEW n \in Nat, NEW S, 0 \in S, \A k \in 0 .. n - 1 : k \in S => k + 1 \in S
    PROVE  n \in S
  <1> SUFFICES ASSUME n \notin S PROVE FALSE
    OBVIOUS
  <1> DEFINE T == {k \in Nat : k \notin S /\ k <= n}
  <1>1. PICK m \in T : \A k \in T : m <= k
    <2>1. T \in SUBSET Nat /\ T # {}
      OBVIOUS
    <2> QED
      BY <2>1, Least
  <1>2. m # 0
    BY <1>1
  <1>3. m - 1 \in Nat /\ m - 1 \notin T
    BY <1>1, <1>2
  <1> QED
    BY <1>1, <1>2, <1>3

(* Whole numbers that keep below a bound have a greatest.                  *)
LEMMA Greatest ==
    ASSUME NEW S \in SUBSET Int, S # {}, NEW b \in Int, \A x \in S : x <= b
    PROVE  \E m \in S : \A x \in S : x <= m
  <1> DEFINE T == {b - x : x \in S}
  <1>1. T \in SUBSET Nat
    OBVIOUS
  <1>2. T # {}
    OBVIOUS
  <1>3. PICK k \in T : \A l \in T : k <= l
    <2> HIDE DEF T
    <2> QED
      BY <1>1, <1>2, Least
  <1>4. PICK m \in S : k = b - m
    BY <1>3
  <1>5. ASSUME NEW x \in S
        PROVE  x <= m
    <2>1. k <= b - x
      BY <1>3
    <2> QED
      BY <1>4, <2>1
  <1> QED
    BY <1>5

(* A step can be repeated: what a recursive function is made of.           *)
Repeats(f, n, x, F) == f[0] = x /\ \A k \in 0 .. n - 1 : f[k + 1] = F[f[k]]

LEMMA RepeatsOnce ==
    ASSUME NEW n \in Nat, NEW x, NEW F, NEW f, NEW g, NEW i \in Nat, NEW j \in Nat,
           n <= i, n <= j, Repeats(f, i, x, F), Repeats(g, j, x, F)
    PROVE  f[n] = g[n]
  <1> DEFINE S == {k \in Nat : f[k] = g[k]}
  <1>1. 0 \in S
    BY DEF Repeats
  <1>2. ASSUME NEW k \in 0 .. n - 1, k \in S
        PROVE  k + 1 \in S
    BY <1>2 DEF Repeats
  <1>3. n \in S
    <2> HIDE DEF S
    <2> QED
      BY <1>1, <1>2, Induct
  <1> QED
    BY <1>3

Repeatable(S, x, F) ==
    \E f \in [Nat -> S] : f[0] = x /\ \A n \in Nat : f[n + 1] = F[f[n]]

LEMMA Repetition ==
    ASSUME NEW S, NEW x \in S, NEW F \in [S -> S]
    PROVE  Repeatable(S, x, F)
  <1> DEFINE some(n) == \E g \in [0 .. n -> S] : Repeats(g, n, x, F)
             N == {n \in Nat : some(n)}
  <1>1. 0 \in N
    <2>1. [k \in 0 .. 0 |-> x] \in [0 .. 0 -> S] /\ Repeats([k \in 0 .. 0 |-> x], 0, x, F)
      BY DEF Repeats
    <2> QED
      BY <2>1
  <1>2. ASSUME NEW n \in Nat, n \in N
        PROVE  n + 1 \in N
    <2>1. PICK g \in [0 .. n -> S] : Repeats(g, n, x, F)
      BY <1>2
    <2> DEFINE h == [k \in 0 .. n + 1 |-> IF k <= n THEN g[k] ELSE F[g[n]]]
    <2>2. h \in [0 .. n + 1 -> S]
      BY <2>1
    <2>3. Repeats(h, n + 1, x, F)
      <3>1. h[0] = x
        BY <2>1 DEF Repeats
      <3>2. ASSUME NEW k \in 0 .. n
            PROVE  h[k + 1] = F[h[k]]
        <4>1. CASE k = n
          BY <4>1
        <4>2. CASE k # n
          BY <2>1, <4>2 DEF Repeats
        <4> QED
          BY <4>1, <4>2
      <3> QED
        BY <3>1, <3>2 DEF Repeats
    <2> HIDE DEF h
    <2> QED
      BY <2>2, <2>3
  <1>3. \A n \in Nat : some(n)
    <2> SUFFICES ASSUME NEW n \in Nat PROVE n \in N
      OBVIOUS
    <2> HIDE DEF N
    <2>1. \A k \in 0 .. n - 1 : k \in N => k + 1 \in N
      BY <1>2
    <2> QED
      BY <1>1, <2>1, Induct
  <1> DEFINE of(n) == CHOOSE g \in [0 .. n -> S] : Repeats(g, n, x, F)
             f == [n \in Nat |-> of(n)[n]]
  <1>4. \A n \in Nat : of(n) \in [0 .. n -> S] /\ Repeats(of(n), n, x, F)
    BY <1>3
  <1> HIDE DEF of
  <1>5. f \in [Nat -> S]
    <2> SUFFICES ASSUME NEW n \in Nat PROVE of(n)[n] \in S
      OBVIOUS
    <2> QED
      BY <1>4
  <1>6. f[0] = x
    BY <1>4 DEF Repeats
  <1>7. ASSUME NEW n \in Nat
        PROVE  f[n + 1] = F[f[n]]
    <2>1. of(n + 1)[n + 1] = F[of(n + 1)[n]]
      BY <1>4 DEF Repeats
    <2>2. of(n + 1)[n] = of(n)[n]
      <3>1. Repeats(of(n + 1), n + 1, x, F) /\ Repeats(of(n), n, x, F)
        BY <1>4
      <3> QED
        BY <3>1, RepeatsOnce
    <2> QED
      BY <2>1, <2>2
  <1> QED
    BY <1>5, <1>6, <1>7 DEF Repeatable

-----------------------------------------------------------------------------
Elements(q) == {q[i] : i \in DOMAIN q}
Replies(p) == Elements(Moves[p])

Flags == {"EXACT", "LOWER", "UPPER"}
Entries == [board : Positions \cup {None}, score : Int, depth : 0 .. max_depth, flag : Flags]

Calls == [pos : Positions, depth : 1 .. max_depth, alpha : Int, beta : Int,
          original_alpha : Int, best_score : Int, valid_moves : Seq(Positions)]

Looking == {"probe", "depth", "flag", "score"}
Storing == {"update", "insert", "worst", "clean", "replace"}
Inside == Looking \cup {"enter", "explore"} \cup Storing

ThreadRecords ==
    [pc : Inside \cup {"idle", "next", "report", "done"}, moves : Seq(Positions),
     score : Int, best_score : Int, move : Positions \cup {None}, stack : Seq(Calls),
     slot : 1 .. CLUSTER_SIZE, depth : Int, flag : Flags, worst : 1 .. CLUSTER_SIZE]

SearchRecords ==
    [status : {"idle", "searching", "returned"}, alpha : Int, beta : Int,
     best_score : Int, best_move : Positions \cup {None}]

TypeOK ==
    /\ worth \in Worths
    /\ TT \in [Slots -> Entries]
    /\ state \in [Searches -> SearchRecords]
    /\ thread \in [Threads -> ThreadRecords]

-----------------------------------------------------------------------------
(* What the flag of an entry says of a value, and what the answer of a     *)
(* call does that was asked with the window lo .. hi.                      *)
Tells(flag, score, value) ==
    /\ flag \in {"EXACT", "LOWER"} => value >= score
    /\ flag \in {"EXACT", "UPPER"} => value <= score

Answers(score, value, lo, hi) ==
    /\ score > lo => value >= score
    /\ score < hi => value <= score

(* The window of a call may have become narrower than the one it was asked *)
(* with, as far as the table or its moves know better.  hi is the beta it  *)
(* was asked with, or a bound that is lower by now.                        *)
Narrowed(f, value, hi) ==
    /\ f.original_alpha <= f.alpha
    /\ f.original_alpha < f.beta
    /\ f.alpha > f.original_alpha => value >= f.alpha
    /\ f.beta >= hi \/ value <= f.beta

Asked(f, hi) ==
    /\ f.alpha = f.original_alpha /\ f.alpha < f.beta /\ f.beta >= hi
    /\ f.best_score = -INFINITY

Ready(f, value, hi) ==
    Narrowed(f, value, hi) /\ f.alpha < f.beta /\ f.best_score = -INFINITY

(* A call in its loop, of whose moves those in waiting are being looked    *)
(* at: the others are taken from valid_moves or do not beat the best.      *)
Open(f, value, hi, waiting) ==
    /\ Narrowed(f, value[f.depth][f.pos], hi)
    /\ f.depth < max_depth /\ Fallen[f.pos] = {}
    /\ -INFINITY <= f.best_score /\ f.best_score <= f.alpha
    /\ f.alpha < f.beta \/ f.alpha = f.best_score
    /\ Elements(f.valid_moves) \subseteq Replies(f.pos)
    /\ f.best_score < f.beta =>
           \A m \in Replies(f.pos) :
               m \in Elements(f.valid_moves) \/ m \in waiting
                   \/ -value[f.depth + 1][m] <= f.best_score

(* The stack of a thread.  Under the outermost call is the search itself.  *)
Under(f, caller) ==
    /\ f.pos \in Replies(caller.pos) /\ f.depth = caller.depth + 1
    /\ f.original_alpha = -caller.beta
    /\ f.original_alpha >= -INFINITY /\ f.beta <= INFINITY

Caller(q, k, search) == IF k = Len(q) THEN search ELSE q[k + 1]

Stacked(q, value, search) ==
    /\ \A k \in 1 .. Len(q) : Under(q[k], Caller(q, k, search))
    /\ \A k \in 2 .. Len(q) : /\ Open(q[k], value, -Caller(q, k, search).alpha, {q[k - 1].pos})
                              /\ q[k].alpha < q[k].beta

(* What the innermost call has come to.                                    *)
Reached(pc, f, value, hi) ==
    /\ pc \in Looking => Asked(f, hi)
    /\ pc = "enter" => Ready(f, value[f.depth][f.pos], hi)
    /\ pc \in Storing \cup {"explore"} => Open(f, value, hi, {})
    /\ pc \in Storing => f.valid_moves = <<>> \/ f.alpha >= f.beta

ThreadGood(th, value, search) ==
    /\ th.score = th.best_score /\ th.best_score >= -INFINITY
    /\ th.pc \in Inside <=> th.stack # <<>>
    /\ Stacked(th.stack, value, search)
    /\ th.pc \in Inside =>
           /\ Reached(th.pc, th.stack[1], value, -Caller(th.stack, 1, search).alpha)
           /\ th.stack[Len(th.stack)].pos = th.move
    /\ Elements(th.moves) \subseteq Replies(search.pos)
    /\ th.pc # "report" => th.best_score <= search.alpha
    /\ th.pc = "report" =>
           /\ th.move \in Replies(search.pos) /\ th.best_score > -INFINITY
           /\ -value[start_depth][th.move] <= th.best_score
           /\ th.best_score > search.alpha => -value[start_depth][th.move] >= th.best_score
    /\ th.pc = "idle" => th.moves = <<>>
    /\ th.pc = "done" => th.moves = <<>> \/ search.alpha >= INFINITY

AsCaller(s) == [pos |-> Root[s], depth |-> 0, alpha |-> state[s].alpha, beta |-> INFINITY]

(* A search that runs: its bounds, and that no move is forgotten.          *)
Expects(th, m, value) ==
    \/ m \in Elements(th.moves)
    \/ th.stack # <<>> /\ m = th.move
    \/ th.pc = "report" /\ -value[start_depth][m] <= th.best_score

ThreadsOf(s) == {t \in Threads : t[1] = s}

Running(s, value) ==
    LET c == state[s]
    IN /\ c.beta = INFINITY /\ c.alpha >= -INFINITY
       /\ c.best_move \in Replies(Root[s])
       /\ \/ c.best_score = c.alpha /\ -value[start_depth][c.best_move] >= c.best_score
          \/ c.best_score = -INFINITY - 1 /\ c.alpha = -INFINITY
       /\ \A m \in Replies(Root[s]) :
              \/ -value[start_depth][m] <= c.alpha
              \/ \E t \in ThreadsOf(s) : Expects(thread[t], m, value)

BestOf(s, value) ==
    Moves[Root[s]] # <<>> =>
        /\ state[s].best_move \in Replies(Root[s])
        /\ \A m \in Replies(Root[s]) :
               value[start_depth][state[s].best_move] <= value[start_depth][m]

SearchGood(s, value) ==
    /\ state[s].status = "idle" => \A t \in ThreadsOf(s) : thread[t] = Idle
    /\ state[s].status = "searching" => Running(s, value)
    /\ state[s].status = "returned" =>
           /\ \A t \in ThreadsOf(s) : thread[t].pc \in {"idle", "done"}
           /\ BestOf(s, value)

EntriesTell(value) ==
    \A x \in Slots : TT[x].board # None =>
        Tells(TT[x].flag, TT[x].score, value[TT[x].depth][TT[x].board])

Good(value) ==
    /\ EntriesTell(value)
    /\ \A t \in Threads : ThreadGood(thread[t], value, AsCaller(t[1]))
    /\ \A s \in Searches : SearchGood(s, value)
-----------------------------------------------------------------------------
(* What the value of a position is, from the values of its replies: all    *)
(* that is needed of minimax.                                              *)
Depths == 0 .. max_depth
Scores == -INFINITY .. INFINITY

Body(p, depth, value) ==
    IF depth = max_depth THEN evaluate(p, Side[p])
    ELSE IF Side[p] \in Fallen[p] THEN -INFINITY
    ELSE IF -Side[p] \in Fallen[p] THEN INFINITY
    ELSE IF Moves[p] = <<>> THEN -INFINITY
    ELSE Highest({-value[depth + 1][Moves[p][i]] : i \in DOMAIN Moves[p]})

LEMMA Tree ==
    /\ max_depth \in Nat \ {0} /\ CLUSTER_SIZE \in Nat \ {0} /\ MaxCpus \in Nat \ {0}
    /\ INFINITY \in Nat
    /\ \A p \in Positions : /\ Side[p] \in {1, -1} /\ Moves[p] \in Seq(Positions)
                            /\ Order[p] \in Int /\ Fallen[p] \in SUBSET {1, -1}
    /\ \A s \in Searches : Root[s] \in Positions
    /\ \A w \in Worths : \A p \in Positions : w[p] \in Int /\ w[p] > -INFINITY /\ w[p] < INFINITY
    /\ None \notin Positions
  BY TreeAssumption, WorthAssumption, BoundAssumption

LEMMA HighestIs ==
    ASSUME NEW S \in SUBSET Scores, S # {}
    PROVE  Highest(S) \in S /\ \A x \in S : x <= Highest(S)
  <1>1. \E m \in S : \A x \in S : x <= m
    <2>1. S \in SUBSET Int /\ INFINITY \in Int /\ \A x \in S : x <= INFINITY
      BY Tree DEF Scores
    <2> QED
      BY <2>1, Greatest
  <1> QED
    BY <1>1 DEF Highest

LEMMA MinimaxIs ==
    ASSUME worth \in Worths
    PROVE  /\ minimax \in [Depths -> [Positions -> Scores]]
           /\ \A p \in Positions : \A d \in Depths : minimax[d][p] = Body(p, d, minimax)
  <1> SUFFICES ASSUME NEW w \in Worths, worth = w
               PROVE  /\ minimax \in [Depths -> [Positions -> Scores]]
                      /\ \A p \in Positions : \A d \in Depths :
                             minimax[d][p] = Body(p, d, minimax)
    OBVIOUS
  <1> DEFINE R == [Positions -> Scores]
             highest(g, p) == Highest({-g[Moves[p][i]] : i \in DOMAIN Moves[p]})
             of(g, p) == IF Side[p] \in Fallen[p] THEN -INFINITY
                         ELSE IF -Side[p] \in Fallen[p] THEN INFINITY
                         ELSE IF Moves[p] = <<>> THEN -INFINITY
                         ELSE highest(g, p)
             G(g) == [p \in Positions |-> of(g, p)]
             x == [p \in Positions |-> Side[p] * w[p]]
             F == [g \in R |-> G(g)]
  <1>1. x \in R
    <2> SUFFICES ASSUME NEW p \in Positions PROVE Side[p] * w[p] \in Scores
      OBVIOUS
    <2>1. /\ Side[p] \in {1, -1} /\ INFINITY \in Nat
          /\ w[p] \in Int /\ w[p] > -INFINITY /\ w[p] < INFINITY
      BY Tree
    <2>2. CASE Side[p] = 1
      BY <2>1, <2>2 DEF Scores
    <2>3. CASE Side[p] = -1
      BY <2>1, <2>3 DEF Scores
    <2> QED
      BY <2>1, <2>2, <2>3
  <1>a. ASSUME NEW g \in R, NEW p \in Positions, Moves[p] # <<>>
        PROVE  highest(g, p) \in Scores
    <2> DEFINE S == {-g[Moves[p][i]] : i \in DOMAIN Moves[p]}
    <2>1. Moves[p] \in Seq(Positions) /\ Moves[p] # <<>>
      BY <1>a, Tree
    <2>2. S \subseteq Scores
      <3> SUFFICES ASSUME NEW i \in DOMAIN Moves[p] PROVE -g[Moves[p][i]] \in Scores
        OBVIOUS
      <3>1. Moves[p][i] \in Positions
        BY <2>1
      <3>2. g[Moves[p][i]] \in Scores /\ INFINITY \in Nat
        BY <3>1, Tree
      <3> QED
        BY <3>2 DEF Scores
    <2>3. S # {}
      <3>1. 1 \in DOMAIN Moves[p]
        BY <2>1
      <3> QED
        BY <3>1
    <2> HIDE DEF S
    <2>4. Highest(S) \in Scores
      BY <2>2, <2>3, HighestIs
    <2> QED
      BY <2>4 DEF S
  <1> HIDE DEF highest
  <1>b. \A g \in R, p \in Positions : of(g, p) \in Scores
    <2> SUFFICES ASSUME NEW g \in R, NEW p \in Positions PROVE of(g, p) \in Scores
      OBVIOUS
    <2>1. -INFINITY \in Scores /\ INFINITY \in Scores
      BY Tree DEF Scores
    <2>2. Moves[p] # <<>> => highest(g, p) \in Scores
      BY <1>a
    <2> QED
      BY <2>1, <2>2
  <1> HIDE DEF of, x
  <1>2. F \in [R -> R] /\ \A g \in R : F[g] = G(g)
    BY <1>b
  <1> HIDE DEF F
  <1>3. PICK f \in [Nat -> R] : f[0] = x /\ \A n \in Nat : f[n + 1] = F[f[n]]
    <2>1. F \in [R -> R]
      BY <1>2
    <2> HIDE DEF R
    <2>2. Repeatable(R, x, F)
      BY <1>1, <2>1, Repetition
    <2> QED
      BY <2>2 DEF Repeatable
  <1> DEFINE h == [depth \in 0 .. max_depth |-> f[max_depth - depth]]
  <1>4. h \in [Depths -> R]
    <2> HIDE DEF R
    <2> QED
      BY <1>3, Tree DEF Depths
  <1>5. \A d \in Depths : h[d] = f[max_depth - d]
    BY DEF Depths
  <1>6. ASSUME NEW p \in Positions, NEW d \in Depths
        PROVE  h[d][p] = Body(p, d, h)
    <2>1. CASE d = max_depth
      <3>1. h[d] = f[0]
        BY <1>5, <2>1, Tree
      <3> QED
        BY <1>3, <2>1, <3>1 DEF Body, x, evaluate
    <2>2. CASE d # max_depth
      <3> DEFINE n == max_depth - (d + 1)
      <3>1. n \in Nat /\ n + 1 = max_depth - d /\ d + 1 \in Depths
        BY <2>2, Tree DEF Depths
      <3>2. f[n] \in R /\ f[n + 1] = F[f[n]]
        BY <1>3, <3>1
      <3>3. h[d] = F[f[n]] /\ h[d + 1] = f[n]
        BY <1>5, <3>1, <3>2
      <3>4. h[d] = G(h[d + 1])
        BY <1>2, <3>2, <3>3
      <3>5. h[d][p] = of(h[d + 1], p)
        BY <3>4
      <3> HIDE DEF n, h
      <3> QED
        BY <2>2, <3>5 DEF Body, of, highest
    <2> QED
      BY <2>1, <2>2
  <1> DEFINE Is(g) == g = [depth \in 0 .. max_depth |->
                 [p \in Positions |->
                     IF depth = max_depth THEN evaluate(p, Side[p])
                     ELSE IF Side[p] \in Fallen[p] THEN -INFINITY
                     ELSE IF -Side[p] \in Fallen[p] THEN INFINITY
                     ELSE IF Moves[p] = <<>> THEN -INFINITY
                     ELSE Highest({-g[depth + 1][Moves[p][i]] : i \in DOMAIN Moves[p]})]]
  <1>7. Is(h)
    <2> DEFINE k == [depth \in 0 .. max_depth |-> [p \in Positions |-> Body(p, depth, h)]]
    <2> HIDE DEF h
    <2>1. ASSUME NEW d \in 0 .. max_depth
          PROVE  h[d] = [p \in Positions |-> Body(p, d, h)]
      BY <1>4, <1>6, <2>1 DEF Depths
    <2>2. h = k
      BY <1>4, <2>1 DEF Depths
    <2> QED
      BY <2>2 DEF Body
  <1> HIDE DEF h
  <1>8. minimax = CHOOSE g : Is(g)
    BY DEF minimax
  <1> HIDE DEF Is
  <1>9. Is(minimax)
    BY <1>7, <1>8
  <1>10. ASSUME NEW p \in Positions, NEW d \in Depths
         PROVE  minimax[d][p] = Body(p, d, minimax)
    <2>1. p \in Positions /\ d \in 0 .. max_depth
      BY DEF Depths
    <2> DEFINE b(q, e) == Body(q, e, minimax)
    <2>2. minimax = [e \in 0 .. max_depth |-> [q \in Positions |-> b(q, e)]]
      BY <1>9 DEF Is, Body
    <2> HIDE DEF b
    <2>3. minimax[d][p] = b(p, d)
      BY <2>1, <2>2
    <2> QED
      BY <2>3 DEF b
  <1>11. /\ DOMAIN minimax = Depths
         /\ minimax[max_depth] = x
         /\ \A d \in Depths : d # max_depth => minimax[d] = G(minimax[d + 1])
    <2>1. DOMAIN minimax = Depths
      BY <1>9 DEF Is, Depths
    <2>2. \A d \in Depths : minimax[d] = [p \in Positions |-> Body(p, d, minimax)]
      BY <1>9 DEF Is, Body, Depths
    <2>3. minimax[max_depth] = x
      <3>1. max_depth \in Depths
        BY Tree DEF Depths
      <3> QED
        BY <2>2, <3>1 DEF Body, x, evaluate
    <2>4. ASSUME NEW d \in Depths, d # max_depth
          PROVE  minimax[d] = G(minimax[d + 1])
      <3>1. \A p \in Positions : Body(p, d, minimax) = of(minimax[d + 1], p)
        BY <2>4 DEF Body, of, highest
      <3> QED
        BY <2>2, <3>1
    <2> QED
      BY <2>1, <2>3, <2>4
  <1> HIDE DEF R
  <1>12. ASSUME NEW d \in Depths
         PROVE  minimax[d] \in R
    <2> DEFINE S == {n \in Depths : minimax[max_depth - n] \in R}
               N == max_depth - d
    <2>1. 0 \in S
      BY <1>1, <1>11, Tree DEF Depths
    <2>2. N \in Nat /\ N <= max_depth /\ max_depth - N = d /\ max_depth \in Nat
      BY Tree DEF Depths
    <2> HIDE DEF N
    <2>3. ASSUME NEW n \in 0 .. N - 1, n \in S
          PROVE  n + 1 \in S
      <3> DEFINE e == max_depth - (n + 1)
      <3>1. e \in Depths /\ e # max_depth /\ e + 1 = max_depth - n /\ n + 1 \in Depths
        BY <2>2 DEF Depths
      <3>2. minimax[e + 1] \in R
        BY <2>3, <3>1
      <3>3. minimax[e] = F[minimax[e + 1]]
        BY <1>2, <1>11, <3>1, <3>2
      <3>4. minimax[e] \in R
        BY <1>2, <3>2, <3>3
      <3> QED
        BY <3>1, <3>4
    <2> HIDE DEF S
    <2>4. N \in S
      BY <2>1, <2>2, <2>3, Induct
    <2> QED
      BY <2>2, <2>4 DEF S
  <1>13. minimax \in [Depths -> R]
    <2>1. minimax = [d \in Depths |-> minimax[d]]
      BY <1>9, <1>11 DEF Is, Depths
    <2> QED
      BY <1>12, <2>1
  <1> QED
    BY <1>10, <1>13 DEF R

(* What the other lemmas use of the values.                                *)
Valued(value) ==
    /\ value \in [Depths -> [Positions -> Scores]]
    /\ \A d \in Depths : \A p \in Positions :
           /\ d = max_depth => value[d][p] = evaluate(p, Side[p])
           /\ d # max_depth =>
                  /\ Side[p] \in Fallen[p] => value[d][p] = -INFINITY
                  /\ Side[p] \notin Fallen[p] /\ -Side[p] \in Fallen[p] => value[d][p] = INFINITY
                  /\ Fallen[p] = {} =>
                         /\ \A m \in Replies(p) : value[d][p] >= -value[d + 1][m]
                         /\ \A b \in Int :
                                b >= -INFINITY /\ (\A m \in Replies(p) : -value[d + 1][m] <= b)
                                    => value[d][p] <= b

LEMMA MinimaxValued ==
    ASSUME worth \in Worths
    PROVE  Valued(minimax)
  <1> DEFINE V == minimax
  <1>1. /\ V \in [Depths -> [Positions -> Scores]]
        /\ \A p \in Positions : \A d \in Depths : V[d][p] = Body(p, d, V)
    BY MinimaxIs
  <1> HIDE DEF V
  <1>2. ASSUME NEW d \in Depths, NEW p \in Positions
        PROVE  /\ d = max_depth => V[d][p] = evaluate(p, Side[p])
               /\ d # max_depth =>
                  /\ Side[p] \in Fallen[p] => V[d][p] = -INFINITY
                  /\ Side[p] \notin Fallen[p] /\ -Side[p] \in Fallen[p] => V[d][p] = INFINITY
    BY <1>1 DEF Body
  <1>3. ASSUME NEW d \in Depths, NEW p \in Positions, d # max_depth, Fallen[p] = {}
        PROVE  /\ \A m \in Replies(p) : V[d][p] >= -V[d + 1][m]
               /\ \A b \in Int :
                      b >= -INFINITY /\ (\A m \in Replies(p) : -V[d + 1][m] <= b)
                          => V[d][p] <= b
    <2> DEFINE S == {-V[d + 1][Moves[p][i]] : i \in DOMAIN Moves[p]}
    <2>1. Moves[p] \in Seq(Positions) /\ d + 1 \in Depths /\ INFINITY \in Nat
      BY <1>3, Tree DEF Depths
    <2>2. \A i \in DOMAIN Moves[p] : Moves[p][i] \in Positions
      BY <2>1
    <2>3. \A m \in Positions : V[d + 1][m] \in Scores /\ -V[d + 1][m] \in Scores
      BY <1>1, <2>1 DEF Scores
    <2>4. V[d][p] = IF Moves[p] = <<>> THEN -INFINITY ELSE Highest(S)
      BY <1>1, <1>3 DEF Body
    <2>5. S = {-V[d + 1][m] : m \in Replies(p)}
      BY DEF Replies, Elements
    <2>6. Replies(p) \subseteq Positions /\ (Moves[p] = <<>> <=> Replies(p) = {})
      <3>1. Moves[p] # <<>> <=> DOMAIN Moves[p] # {}
        <4>1. DOMAIN Moves[p] = 1 .. Len(Moves[p]) /\ Len(Moves[p]) \in Nat
              /\ (Moves[p] # <<>> <=> Len(Moves[p]) # 0)
          BY <2>1
        <4>2. Moves[p] # <<>> => 1 \in DOMAIN Moves[p]
          BY <4>1
        <4>3. Moves[p] = <<>> => DOMAIN Moves[p] = {}
          BY <4>1
        <4> QED
          BY <4>2, <4>3
      <3> QED
        BY <2>2, <3>1, Zenon DEF Replies, Elements
    <2> HIDE DEF S
    <2>7. CASE Moves[p] = <<>>
      BY <2>1, <2>4, <2>6, <2>7
    <2>8. CASE Moves[p] # <<>>
      <3>1. S \in SUBSET Scores /\ S # {}
        BY <2>3, <2>5, <2>6, <2>8
      <3>2. Highest(S) \in S /\ \A x \in S : x <= Highest(S)
        BY <3>1, HighestIs
      <3>3. V[d][p] \in S /\ \A x \in S : x <= V[d][p]
        BY <2>4, <2>8, <3>2
      <3>4. ASSUME NEW m \in Replies(p)
            PROVE  V[d][p] >= -V[d + 1][m]
        <4>1. -V[d + 1][m] \in S
          BY <2>5
        <4> QED
          BY <3>1, <3>3, <4>1, <2>1 DEF Scores
      <3>5. ASSUME NEW b \in Int, \A m \in Replies(p) : -V[d + 1][m] <= b
            PROVE  V[d][p] <= b
        BY <2>5, <3>3, <3>5
      <3> QED
        BY <3>4, <3>5
    <2> QED
      BY <2>7, <2>8
  <1>4. Valued(V)
    BY <1>1, <1>2, <1>3 DEF Valued
  <1> QED
    BY <1>4 DEF V

-----------------------------------------------------------------------------
(* Sequences of moves: the best is taken, the others are left.             *)
LEMMA BestIs ==
    ASSUME NEW moves \in Seq(Positions), moves # <<>>
    PROVE  Best(moves) \in DOMAIN moves
  <1> DEFINE worth_of(i) == Order[moves[i]]
             top(i, n) == \A j \in 1 .. n : worth_of(j) <= worth_of(i)
             N == {n \in 0 .. Len(moves) : n = 0 \/ \E i \in 1 .. n : top(i, n)}
  <1>1. Len(moves) \in Nat /\ Len(moves) # 0 /\ DOMAIN moves = 1 .. Len(moves)
    OBVIOUS
  <1>2. \A i \in 1 .. Len(moves) : worth_of(i) \in Int
    BY Tree
  <1> HIDE DEF worth_of
  <1>3. ASSUME NEW n \in 0 .. Len(moves) - 1, n \in N
        PROVE  n + 1 \in N
    <2>1. CASE n = 0
      <3>1. top(1, 1)
        BY <1>1, <1>2
      <3> QED
        BY <1>1, <2>1, <3>1
    <2>2. CASE n # 0
      <3>1. PICK i \in 1 .. n : top(i, n)
        BY <1>3, <2>2
      <3>2. \A j \in 1 .. n + 1 : j \in 1 .. n \/ j = n + 1
        OBVIOUS
      <3>3. CASE worth_of(n + 1) <= worth_of(i)
        <4>1. top(i, n + 1)
          BY <3>1, <3>2, <3>3
        <4> QED
          BY <1>1, <3>1, <4>1
      <3>4. CASE ~(worth_of(n + 1) <= worth_of(i))
        <4>1. ASSUME NEW j \in 1 .. n
              PROVE  worth_of(j) <= worth_of(n + 1)
          <5>1. worth_of(j) <= worth_of(i)
            BY <3>1
          <5>2. /\ worth_of(j) \in Int /\ worth_of(i) \in Int /\ worth_of(n + 1) \in Int
            BY <1>1, <1>2, <3>1
          <5> QED
            BY <3>4, <5>1, <5>2
        <4>2. worth_of(n + 1) <= worth_of(n + 1)
          BY <1>1, <1>2
        <4>3. top(n + 1, n + 1)
          BY <3>2, <4>1, <4>2
        <4> QED
          BY <1>1, <4>3
      <3> QED
        BY <3>3, <3>4
    <2> QED
      BY <2>1, <2>2
  <1>4. \E i \in DOMAIN moves : \A j \in DOMAIN moves : worth_of(j) <= worth_of(i)
    <2>1. 0 \in N
      BY <1>1
    <2> HIDE DEF N
    <2>2. Len(moves) \in N
      BY <1>1, <1>3, <2>1, Induct
    <2> QED
      BY <1>1, <2>2 DEF N
  <1> DEFINE T == {i \in DOMAIN moves : \A j \in DOMAIN moves : worth_of(j) <= worth_of(i)}
  <1>5. PICK i \in T : \A k \in T : i <= k
    <2>1. T \in SUBSET Nat /\ T # {}
      BY <1>1, <1>4
    <2> HIDE DEF T
    <2> QED
      BY <2>1, Least
  <1>6. ASSUME NEW j \in 1 .. i - 1
        PROVE  worth_of(j) < worth_of(i)
    <2>1. j \in DOMAIN moves /\ j \notin T
      BY <1>1, <1>5
    <2>2. PICK k \in DOMAIN moves : ~(worth_of(k) <= worth_of(j))
      BY <2>1
    <2>3. worth_of(k) <= worth_of(i)
      BY <1>5
    <2>4. worth_of(j) \in Int /\ worth_of(k) \in Int /\ worth_of(i) \in Int
      BY <1>1, <1>2, <1>5, <2>1
    <2> QED
      BY <2>2, <2>3, <2>4
  <1>7. /\ i \in DOMAIN moves
        /\ \A j \in DOMAIN moves : Order[moves[j]] <= Order[moves[i]]
        /\ \A j \in 1 .. i - 1 : Order[moves[j]] < Order[moves[i]]
    BY <1>5, <1>6 DEF worth_of
  <1> QED
    BY <1>7, Zenon DEF Best

LEMMA LeftIs ==
    ASSUME NEW moves \in Seq(Positions), moves # <<>>
    PROVE  /\ Taken(moves) \in Positions
           /\ Left(moves) \in Seq(Positions)
           /\ Len(Left(moves)) = Len(moves) - 1
           /\ Elements(moves) = {Taken(moves)} \cup Elements(Left(moves))
  <1> DEFINE b == Best(moves)
             q == [moves EXCEPT ![b] = moves[1]]
  <1>1. b \in DOMAIN moves
    BY BestIs
  <1> HIDE DEF b
  <1>2. /\ Len(moves) \in Nat /\ Len(moves) # 0 /\ DOMAIN moves = 1 .. Len(moves)
        /\ \A i \in 1 .. Len(moves) : moves[i] \in Positions
    OBVIOUS
  <1>3. q \in Seq(Positions) /\ Len(q) = Len(moves) /\ q # <<>>
    BY <1>1, <1>2
  <1>4. \A i \in 1 .. Len(moves) : q[i] = IF i = b THEN moves[1] ELSE moves[i]
    BY <1>1, <1>2
  <1>5. Left(moves) = Tail(q) /\ Taken(moves) = moves[b]
    BY DEF Left, Taken, b
  <1> HIDE DEF q
  <1>6. /\ Tail(q) \in Seq(Positions) /\ Len(Tail(q)) = Len(moves) - 1
        /\ DOMAIN Tail(q) = 1 .. Len(moves) - 1
        /\ \A i \in 1 .. Len(moves) - 1 : Tail(q)[i] = q[i + 1]
    BY <1>2, <1>3
  <1>7. ASSUME NEW i \in DOMAIN moves
        PROVE  moves[i] = moves[b] \/ \E j \in DOMAIN Tail(q) : Tail(q)[j] = moves[i]
    <2>1. CASE i = b
      BY <2>1
    <2>2. CASE i # b /\ i = 1
      <3>1. b - 1 \in DOMAIN Tail(q) /\ Tail(q)[b - 1] = moves[1]
        BY <1>1, <1>2, <1>4, <1>6, <2>2
      <3> QED
        BY <2>2, <3>1
    <2>3. CASE i # b /\ i # 1
      <3>1. i - 1 \in DOMAIN Tail(q) /\ Tail(q)[i - 1] = moves[i]
        BY <1>2, <1>4, <1>6, <2>3
      <3> QED
        BY <3>1
    <2> QED
      BY <2>1, <2>2, <2>3
  <1>8. ASSUME NEW j \in DOMAIN Tail(q)
        PROVE  \E i \in DOMAIN moves : Tail(q)[j] = moves[i]
    <2>1. j + 1 \in 1 .. Len(moves) /\ Tail(q)[j] = q[j + 1] /\ 1 \in DOMAIN moves
      BY <1>2, <1>6
    <2> QED
      BY <1>2, <1>4, <2>1
  <1>9. Elements(moves) = {moves[b]} \cup Elements(Tail(q))
    BY <1>1, <1>7, <1>8 DEF Elements
  <1> QED
    BY <1>1, <1>2, <1>5, <1>6, <1>9

LEMMA OrderIs ==
    ASSUME NEW moves \in Seq(Positions)
    PROVE  InSearchOrder[moves] = IF moves = <<>> THEN <<>>
                                  ELSE <<Taken(moves)>> \o InSearchOrder[Left(moves)]
  <1> DEFINE R == [Seq(Positions) -> Seq(Positions)]
             of(g, q) == IF q = <<>> THEN <<>> ELSE <<Taken(q)>> \o g[Left(q)]
             G(g) == [q \in Seq(Positions) |-> of(g, q)]
             F == [g \in R |-> G(g)]
             x == [q \in Seq(Positions) |-> <<>>]
  <1>1. x \in R
    OBVIOUS
  <1>2. ASSUME NEW g \in R, NEW q \in Seq(Positions)
        PROVE  of(g, q) \in Seq(Positions)
    <2>1. CASE q = <<>>
      BY <2>1
    <2>2. CASE q # <<>>
      <3>1. Taken(q) \in Positions /\ Left(q) \in Seq(Positions)
        BY <2>2, LeftIs
      <3>2. g[Left(q)] \in Seq(Positions)
        BY <3>1
      <3>3. <<Taken(q)>> \in Seq(Positions)
        BY <3>1
      <3>4. <<Taken(q)>> \o g[Left(q)] \in Seq(Positions)
        BY <3>2, <3>3
      <3> QED
        BY <2>2, <3>4
    <2> QED
      BY <2>1, <2>2
  <1> HIDE DEF of, x
  <1>3. F \in [R -> R] /\ \A g \in R : F[g] = G(g)
    BY <1>2
  <1> HIDE DEF F
  <1>4. PICK f \in [Nat -> R] : f[0] = x /\ \A n \in Nat : f[n + 1] = F[f[n]]
    <2>1. F \in [R -> R]
      BY <1>3
    <2> HIDE DEF R
    <2>2. Repeatable(R, x, F)
      BY <1>1, <2>1, Repetition
    <2> QED
      BY <2>2 DEF Repeatable
  <1> DEFINE h == [q \in Seq(Positions) |-> f[Len(q)][q]]
  <1>5. ASSUME NEW q \in Seq(Positions)
        PROVE  h[q] = of(h, q)
    <2>1. CASE q = <<>>
      <3>1. Len(q) = 0
        BY <2>1
      <3> QED
        BY <1>4, <2>1, <3>1 DEF of, x
    <2>2. CASE q # <<>>
      <3> DEFINE n == Len(q) - 1
      <3>1. n \in Nat /\ n + 1 = Len(q)
        BY <2>2
      <3>2. Left(q) \in Seq(Positions) /\ Len(Left(q)) = n
        BY <2>2, LeftIs
      <3> HIDE DEF n
      <3>3. f[n] \in R /\ f[n + 1] = G(f[n])
        BY <1>3, <1>4, <3>1
      <3>4. h[q] = of(f[n], q)
        BY <3>1, <3>3
      <3>5. h[Left(q)] = f[n][Left(q)]
        BY <3>2
      <3> HIDE DEF h
      <3> QED
        BY <2>2, <3>4, <3>5 DEF of
    <2> QED
      BY <2>1, <2>2
  <1> DEFINE Is(g) == g = [q \in Seq(Positions) |->
                 IF q = <<>> THEN <<>> ELSE <<Taken(q)>> \o g[Left(q)]]
  <1>6. Is(h)
    <2> DEFINE k == [q \in Seq(Positions) |-> of(h, q)]
    <2>1. h = k
      <3>1. \A q \in Seq(Positions) : f[Len(q)][q] = k[q]
        BY <1>5
      <3> HIDE DEF k
      <3>2. h = [q \in Seq(Positions) |-> k[q]]
        BY <3>1
      <3> HIDE DEF h
      <3> QED
        BY <3>2 DEF k
    <2> HIDE DEF h
    <2> QED
      BY <2>1 DEF of
  <1> HIDE DEF h
  <1>7. InSearchOrder = CHOOSE g : Is(g)
    BY DEF InSearchOrder
  <1> HIDE DEF Is
  <1>8. Is(InSearchOrder)
    BY <1>6, <1>7
  <1> QED
    BY <1>8 DEF Is

LEMMA OrderKeeps ==
    ASSUME NEW moves \in Seq(Positions)
    PROVE  /\ InSearchOrder[moves] \in Seq(Positions)
           /\ Len(InSearchOrder[moves]) = Len(moves)
           /\ Elements(InSearchOrder[moves]) = Elements(moves)
  <1> DEFINE O(q) == InSearchOrder[q]
             kept(q) == /\ O(q) \in Seq(Positions) /\ Len(O(q)) = Len(q)
                        /\ Elements(O(q)) = Elements(q)
             N == {n \in Nat : \A q \in Seq(Positions) : Len(q) = n => kept(q)}
  <1>1. 0 \in N
    <2> SUFFICES ASSUME NEW q \in Seq(Positions), Len(q) = 0 PROVE kept(q)
      OBVIOUS
    <2>1. q = <<>>
      OBVIOUS
    <2>2. O(q) = <<>>
      BY <2>1, OrderIs
    <2> QED
      BY <2>1, <2>2
  <1>2. ASSUME NEW n \in Nat, n \in N
        PROVE  n + 1 \in N
    <2> SUFFICES ASSUME NEW q \in Seq(Positions), Len(q) = n + 1 PROVE kept(q)
      OBVIOUS
    <2>1. q # <<>>
      OBVIOUS
    <2> DEFINE l == Left(q)
               a == Taken(q)
    <2>2. /\ a \in Positions /\ l \in Seq(Positions) /\ Len(l) = n
          /\ Elements(q) = {a} \cup Elements(l)
      BY <2>1, LeftIs
    <2>3. O(q) = <<a>> \o O(l)
      BY <2>1, OrderIs
    <2>4. kept(l)
      BY <1>2, <2>2
    <2> HIDE DEF O, l, a
    <2>5. /\ O(q) \in Seq(Positions) /\ Len(O(q)) = n + 1
          /\ O(q)[1] = a /\ \A i \in 1 .. n : O(q)[i + 1] = O(l)[i]
      BY <2>2, <2>3, <2>4
    <2>6. Elements(O(q)) = {a} \cup Elements(O(l))
      <3>1. DOMAIN O(q) = 1 .. n + 1 /\ DOMAIN O(l) = 1 .. n
        BY <2>2, <2>4, <2>5
      <3>2. ASSUME NEW i \in 1 .. n + 1
            PROVE  O(q)[i] = a \/ \E j \in 1 .. n : O(q)[i] = O(l)[j]
        <4>1. CASE i = 1
          BY <2>5, <4>1
        <4>2. CASE i # 1
          <5>1. i - 1 \in 1 .. n /\ (i - 1) + 1 = i
            BY <4>2
          <5> QED
            BY <2>5, <5>1
        <4> QED
          BY <4>1, <4>2
      <3>3. ASSUME NEW j \in 1 .. n
            PROVE  \E i \in 1 .. n + 1 : O(q)[i] = O(l)[j]
        <4>1. j + 1 \in 1 .. n + 1
          OBVIOUS
        <4> QED
          BY <2>5, <4>1
      <3>4. 1 \in 1 .. n + 1
        OBVIOUS
      <3>5. Elements(O(q)) \subseteq {a} \cup Elements(O(l))
        BY <3>1, <3>2 DEF Elements
      <3>6. {a} \subseteq Elements(O(q))
        BY <2>5, <3>1, <3>4 DEF Elements
      <3>7. Elements(O(l)) \subseteq Elements(O(q))
        <4> SUFFICES ASSUME NEW j \in 1 .. n PROVE O(l)[j] \in Elements(O(q))
          BY <3>1, Zenon DEF Elements
        <4> QED
          BY <3>1, <3>3, Zenon DEF Elements
      <3> QED
        BY <3>5, <3>6, <3>7
    <2> QED
      BY <2>2, <2>4, <2>5, <2>6
  <1>3. Len(moves) \in N
    <2> HIDE DEF N
    <2> QED
      BY <1>1, <1>2, Induct
  <1> QED
    BY <1>3

(* The shares of the threads: every move is in one.                        *)
LEMMA SharesCover ==
    ASSUME NEW moves \in Seq(Positions), NEW n \in 1 .. Len(moves)
    PROVE  /\ \A i \in 1 .. n : /\ Share(moves, n, i) \in Seq(Positions)
                                /\ Elements(Share(moves, n, i)) \subseteq Elements(moves)
           /\ \A m \in Elements(moves) : \E i \in 1 .. n : m \in Elements(Share(moves, n, i))
  <1> DEFINE L == Len(moves)
             each == L \div n
             extra == L % n
             before(i) == (i - 1) * each + MIN(i - 1, extra)
             upto(i) == before(i) + each + (IF i <= extra THEN 1 ELSE 0)
  <1>1. /\ L \in Nat /\ n \in Nat \ {0} /\ each \in Nat /\ extra \in 0 .. n - 1
        /\ L = n * each + extra
    OBVIOUS
  <1> HIDE DEF each, extra
  <1>2. \A i \in 1 .. n : (i - 1) * each \in Nat /\ i * each = (i - 1) * each + each
    BY <1>1
  <1>3. \A i \in 1 .. n : before(i) \in Nat /\ upto(i) \in Nat /\ before(i) <= upto(i)
    BY <1>1, <1>2 DEF MIN
  <1>4. before(1) = 0
    <2>1. (1 - 1) * each = 0
      BY <1>1
    <2> QED
      BY <1>1, <2>1 DEF MIN
  <1>5. upto(n) = L
    <2>1. n * each = (n - 1) * each + each
      BY <1>1, <1>2
    <2> QED
      BY <1>1, <1>2, <2>1 DEF MIN
  <1>6. ASSUME NEW i \in 1 .. n - 1
        PROVE  upto(i) = before(i + 1)
    <2>1. i * each = (i - 1) * each + each /\ (i + 1) - 1 = i /\ i \in 1 .. n
      BY <1>1, <1>2
    <2> QED
      BY <1>1, <2>1 DEF MIN
  <1>7. \A i \in 1 .. n : Share(moves, n, i) = SubSeq(moves, before(i) + 1, upto(i))
    BY DEF Share, each, extra
  <1> HIDE DEF before, upto
  <1>8. \A i \in 1 .. n : upto(i) <= L
    <2> DEFINE T == {i \in 1 .. n : upto(i) > L}
    <2> SUFFICES ASSUME T # {} PROVE FALSE
      BY <1>1, <1>3
    <2> DEFINE U == {n - i : i \in T}
    <2>1. PICK k \in U : \A l \in U : k <= l
      <3>1. U \in SUBSET Nat /\ U # {}
        BY <1>1
      <3> HIDE DEF U
      <3> QED
        BY <3>1, Least
    <2>2. PICK i \in T : k = n - i
      BY <2>1
    <2>3. i # n
      BY <1>1, <1>5, <2>2
    <2>4. i \in 1 .. n - 1 /\ i + 1 \in 1 .. n /\ upto(i + 1) >= before(i + 1)
      BY <1>1, <1>3, <2>2, <2>3
    <2>5. upto(i + 1) > L
      BY <1>1, <1>3, <1>6, <2>2, <2>4
    <2>6. n - (i + 1) \in U
      <3>1. i + 1 \in T
        BY <2>4, <2>5
      <3> QED
        BY <3>1
    <2>7. k <= n - (i + 1)
      BY <2>1, <2>6
    <2> QED
      BY <1>1, <2>2, <2>4, <2>7
  <1>9. ASSUME NEW i \in 1 .. n
        PROVE  /\ Share(moves, n, i) \in Seq(Positions)
               /\ \A m : m \in Elements(Share(moves, n, i)) <=>
                             \E k \in before(i) + 1 .. upto(i) : m = moves[k]
    <2> DEFINE a == before(i) + 1
               e == upto(i)
               q == SubSeq(moves, a, e)
    <2>1. a \in Nat /\ a >= 1 /\ e \in Nat /\ a <= e + 1 /\ e <= L
      BY <1>1, <1>3, <1>8
    <2> HIDE DEF a, e
    <2>2. /\ q \in Seq(Positions) /\ Len(q) = e - a + 1
          /\ \A j \in 1 .. e - a + 1 : q[j] = moves[a + j - 1]
      BY <2>1
    <2> HIDE DEF q
    <2>3. DOMAIN q = 1 .. e - a + 1
      BY <2>1, <2>2
    <2>4. ASSUME NEW k \in a .. e
          PROVE  \E j \in DOMAIN q : q[j] = moves[k]
      <3>1. k - a + 1 \in 1 .. e - a + 1 /\ a + (k - a + 1) - 1 = k
        BY <2>1
      <3> QED
        BY <2>2, <2>3, <3>1
    <2>5. ASSUME NEW j \in DOMAIN q
          PROVE  \E k \in a .. e : q[j] = moves[k]
      <3>1. a + j - 1 \in a .. e
        BY <2>1, <2>3
      <3> QED
        BY <2>2, <2>3, <3>1
    <2>6. \A m : m \in Elements(q) <=> \E k \in a .. e : m = moves[k]
      BY <2>4, <2>5, Zenon DEF Elements
    <2>7. Share(moves, n, i) = q
      BY <1>7 DEF q, a, e
    <2> QED
      BY <2>2, <2>6, <2>7 DEF a, e
  <1>10. ASSUME NEW i \in 1 .. n
         PROVE  Elements(Share(moves, n, i)) \subseteq Elements(moves)
    <2>1. \A k \in before(i) + 1 .. upto(i) : k \in DOMAIN moves
      BY <1>1, <1>3, <1>8
    <2> QED
      BY <1>9, <2>1 DEF Elements
  <1>11. ASSUME NEW k \in 1 .. L
         PROVE  \E i \in 1 .. n : k \in before(i) + 1 .. upto(i)
    <2> DEFINE T == {i \in 1 .. n : k <= upto(i)}
    <2>1. PICK i \in T : \A l \in T : i <= l
      <3>1. T \in SUBSET Nat /\ T # {}
        BY <1>1, <1>5
      <3> HIDE DEF T
      <3> QED
        BY <3>1, Least
    <2>2. before(i) < k
      <3>1. CASE i = 1
        BY <1>4, <3>1
      <3>2. CASE i # 1
        <4>1. i - 1 \in 1 .. n - 1 /\ i - 1 \in 1 .. n /\ (i - 1) + 1 = i /\ i - 1 \notin T
          BY <1>1, <2>1, <3>2
        <4>2. upto(i - 1) = before(i)
          BY <1>6, <4>1
        <4> QED
          BY <1>3, <4>1, <4>2
      <3> QED
        BY <3>1, <3>2
    <2> QED
      BY <1>3, <2>1, <2>2
  <1>12. ASSUME NEW m \in Elements(moves)
         PROVE  \E i \in 1 .. n : m \in Elements(Share(moves, n, i))
    <2>1. PICK k \in 1 .. L : m = moves[k]
      BY DEF Elements
    <2>2. PICK i \in 1 .. n : k \in before(i) + 1 .. upto(i)
      BY <1>11
    <2> QED
      BY <1>9, <2>1, <2>2
  <1> QED
    BY <1>9, <1>10, <1>12

-----------------------------------------------------------------------------
(* One call.  What is known of it when its moves are done, and what an     *)
(* answer to one of its moves adds.                                        *)
LEMMA CallFields ==
    ASSUME NEW f \in Calls
    PROVE  /\ f.pos \in Positions /\ f.depth \in 1 .. max_depth /\ f.depth \in Depths
           /\ f.depth \in Nat
           /\ f.alpha \in Int /\ f.beta \in Int /\ f.original_alpha \in Int /\ f.best_score \in Int
           /\ f.valid_moves \in Seq(Positions)
  BY Tree DEF Calls, Depths

LEMMA RepliesArePositions ==
    ASSUME NEW p \in Positions
    PROVE  Replies(p) \subseteq Positions
  <1>1. Moves[p] \in Seq(Positions)
    BY Tree
  <1> QED
    BY <1>1 DEF Replies, Elements

LEMMA ValueFields ==
    ASSUME NEW value, Valued(value), NEW d \in Depths, NEW p \in Positions
    PROVE  /\ value[d][p] \in Int /\ -INFINITY <= value[d][p] /\ value[d][p] <= INFINITY
           /\ INFINITY \in Nat
  <1>1. value[d][p] \in Scores
    BY DEF Valued
  <1> QED
    BY <1>1, Tree DEF Scores

LEMMA OpenAnswers ==
    ASSUME NEW value, Valued(value), NEW f \in Calls, NEW hi \in Int,
           Open(f, value, hi, {}), f.valid_moves = <<>> \/ f.alpha >= f.beta
    PROVE  /\ Tells(FlagOf(f), f.best_score, value[f.depth][f.pos])
           /\ Answers(f.best_score, value[f.depth][f.pos], f.original_alpha, hi)
  <1> DEFINE v == value[f.depth][f.pos]
             best == f.best_score
  <1>1. /\ best \in Int /\ f.alpha \in Int /\ f.beta \in Int /\ f.original_alpha \in Int
        /\ f.depth \in Depths /\ f.pos \in Positions /\ f.depth # max_depth /\ f.depth + 1 \in Depths
    BY CallFields, Tree DEF Open, Depths
  <1>2. v \in Int
    BY <1>1, ValueFields
  <1> HIDE DEF v
  <1>3. /\ f.original_alpha <= f.alpha /\ f.original_alpha < f.beta
        /\ f.alpha > f.original_alpha => v >= f.alpha
        /\ f.beta >= hi \/ v <= f.beta
        /\ -INFINITY <= best /\ best <= f.alpha
        /\ f.alpha < f.beta \/ f.alpha = best
    BY DEF Open, Narrowed, v
  <1>4. best > f.original_alpha => v >= best
    BY <1>1, <1>2, <1>3
  <1>5. best < f.beta => v <= best
    <2> SUFFICES ASSUME best < f.beta PROVE v <= best
      OBVIOUS
    <2>1. f.valid_moves = <<>>
      BY <1>1, <1>3
    <2>2. Elements(f.valid_moves) = {}
      BY <2>1 DEF Elements
    <2>3. \A m \in Replies(f.pos) : -value[f.depth + 1][m] <= best
      BY <2>2 DEF Open
    <2>4. Fallen[f.pos] = {}
      BY DEF Open
    <2> QED
      BY <1>1, <1>3, <2>3, <2>4 DEF Valued, v
  <1>6. FlagOf(f) = IF best <= f.original_alpha THEN "UPPER"
                    ELSE IF best >= f.beta THEN "LOWER" ELSE "EXACT"
    BY DEF FlagOf
  <1> HIDE DEF best
  <1>7. Tells(FlagOf(f), best, v)
    BY <1>1, <1>2, <1>3, <1>4, <1>5, <1>6 DEF Tells
  <1>8. Answers(best, v, f.original_alpha, hi)
    BY <1>1, <1>2, <1>3, <1>4, <1>5 DEF Answers
  <1> QED
    BY <1>7, <1>8 DEF v, best

AfterAnswer(f, score) ==
    LET best == MAX(f.best_score, -score)
    IN [f EXCEPT !.best_score = best, !.alpha = MAX(@, best)]

LEMMA OpenHears ==
    ASSUME NEW value, Valued(value), NEW f \in Calls, NEW hi \in Int, NEW m \in Replies(f.pos),
           Open(f, value, hi, {m}), f.alpha < f.beta,
           NEW score \in Int, Answers(score, value[f.depth + 1][m], -f.beta, -f.alpha)
    PROVE  LET g == AfterAnswer(f, score)
           IN /\ g \in Calls /\ Open(g, value, hi, {})
              /\ g.pos = f.pos /\ g.depth = f.depth /\ g.beta = f.beta
              /\ g.original_alpha = f.original_alpha
  <1> DEFINE best == MAX(f.best_score, -score)
             alpha == MAX(f.alpha, best)
             g == [f EXCEPT !.best_score = best, !.alpha = MAX(@, best)]
             v == value[f.depth][f.pos]
             u == -value[f.depth + 1][m]
  <1>1. /\ f.best_score \in Int /\ f.alpha \in Int /\ f.beta \in Int /\ f.original_alpha \in Int
        /\ f.depth \in Depths /\ f.pos \in Positions /\ f.depth # max_depth /\ f.depth + 1 \in Depths
        /\ Fallen[f.pos] = {} /\ INFINITY \in Nat
    BY CallFields, Tree DEF Open, Depths
  <1>2. m \in Positions
    BY <1>1, RepliesArePositions
  <1>3. v \in Int /\ value[f.depth + 1][m] \in Int /\ v >= u
    BY <1>1, <1>2, ValueFields DEF Valued
  <1>4. /\ f.original_alpha <= f.alpha /\ f.original_alpha < f.beta
        /\ f.alpha > f.original_alpha => v >= f.alpha
        /\ f.beta >= hi \/ v <= f.beta
        /\ -INFINITY <= f.best_score /\ f.best_score <= f.alpha
    BY DEF Open, Narrowed
  <1>5. /\ best \in Int /\ alpha \in Int
        /\ best >= f.best_score /\ best >= -score /\ alpha >= f.alpha /\ alpha >= best
        /\ alpha = f.alpha \/ alpha = -score
    BY <1>1, <1>4 DEF MAX
  <1>6. alpha < f.beta \/ alpha = best
    BY <1>1, <1>4 DEF MAX
  <1>7. best < f.beta => u <= best
    BY <1>1, <1>3, <1>5 DEF Answers
  <1>8. alpha > f.original_alpha => v >= alpha
    BY <1>1, <1>3, <1>4, <1>5 DEF Answers
  <1>9. /\ g \in Calls
        /\ g.pos = f.pos /\ g.depth = f.depth /\ g.beta = f.beta
        /\ g.original_alpha = f.original_alpha /\ g.valid_moves = f.valid_moves
        /\ g.best_score = best /\ g.alpha = alpha
    BY <1>5 DEF Calls
  <1> HIDE DEF g, best, alpha, v
  <1>10. Narrowed(g, v, hi)
    BY <1>1, <1>4, <1>5, <1>8, <1>9 DEF Narrowed
  <1>11. best < f.beta => \A r \in Replies(f.pos) :
             r \in Elements(f.valid_moves) \/ -value[f.depth + 1][r] <= best
    <2> SUFFICES ASSUME best < f.beta, NEW r \in Replies(f.pos), r \notin Elements(f.valid_moves)
                 PROVE  -value[f.depth + 1][r] <= best
      OBVIOUS
    <2>1. CASE r = m
      BY <1>7, <2>1
    <2>2. CASE r # m
      <3>1. -value[f.depth + 1][r] <= f.best_score
        BY <1>1, <1>5, <2>2 DEF Open
      <3>2. value[f.depth + 1][r] \in Int
        BY <1>1, RepliesArePositions, ValueFields
      <3> QED
        BY <1>1, <1>5, <3>1, <3>2
    <2> QED
      BY <2>1, <2>2
  <1>12. Open(g, value, hi, {})
    <2>1. g.depth < max_depth /\ Fallen[g.pos] = {}
          /\ Elements(g.valid_moves) \subseteq Replies(g.pos)
      BY <1>9 DEF Open
    <2>2. -INFINITY <= g.best_score /\ g.best_score <= g.alpha
      BY <1>1, <1>4, <1>5, <1>9
    <2> QED
      BY <1>6, <1>9, <1>10, <1>11, <2>1, <2>2 DEF Open, v
  <1> QED
    BY <1>9, <1>12 DEF g, best, AfterAnswer

(* The next of its moves is taken, and called.                             *)
LEMMA OpenCalls ==
    ASSUME NEW value, Valued(value), NEW f \in Calls, NEW hi \in Int,
           Open(f, value, hi, {}), f.valid_moves # <<>>, f.alpha < f.beta,
           -INFINITY <= f.original_alpha, f.beta <= INFINITY
    PROVE  LET m == Taken(f.valid_moves)
               g == [f EXCEPT !.valid_moves = Left(@)]
               c == Call(m, f.depth + 1, -f.beta, -f.alpha)
           IN /\ g \in Calls /\ Open(g, value, hi, {m}) /\ g.alpha < g.beta
              /\ g.pos = f.pos /\ g.depth = f.depth /\ g.beta = f.beta
              /\ g.alpha = f.alpha /\ g.original_alpha = f.original_alpha
              /\ c \in Calls /\ Under(c, g) /\ Asked(c, -g.alpha) /\ c.pos = m
  <1> DEFINE m == Taken(f.valid_moves)
             g == [f EXCEPT !.valid_moves = Left(@)]
             c == Call(m, f.depth + 1, -f.beta, -f.alpha)
  <1>1. /\ f.best_score \in Int /\ f.alpha \in Int /\ f.beta \in Int /\ f.original_alpha \in Int
        /\ f.depth \in 1 .. max_depth /\ f.depth < max_depth /\ f.pos \in Positions
        /\ f.valid_moves \in Seq(Positions) /\ max_depth \in Nat /\ INFINITY \in Nat
    BY CallFields, Tree DEF Open
  <1>2. /\ m \in Positions /\ Left(f.valid_moves) \in Seq(Positions)
        /\ Elements(f.valid_moves) = {m} \cup Elements(Left(f.valid_moves))
    BY <1>1, LeftIs
  <1>3. /\ g \in Calls /\ g.pos = f.pos /\ g.depth = f.depth /\ g.beta = f.beta
        /\ g.alpha = f.alpha /\ g.original_alpha = f.original_alpha
        /\ g.best_score = f.best_score /\ g.valid_moves = Left(f.valid_moves)
    BY <1>2 DEF Calls
  <1> HIDE DEF m
  <1>4. /\ c \in Calls /\ c.pos = m /\ c.depth = f.depth + 1 /\ c.alpha = -f.beta
        /\ c.beta = -f.alpha /\ c.original_alpha = -f.beta /\ c.best_score = -INFINITY
    BY <1>1, <1>2 DEF Calls, Call
  <1> HIDE DEF g, c
  <1>5. Open(g, value, hi, {m})
    BY <1>2, <1>3 DEF Open, Narrowed
  <1>6. m \in Replies(f.pos)
    BY <1>2 DEF Open
  <1>7. f.original_alpha <= f.alpha
    BY DEF Open, Narrowed
  <1>8. Under(c, g)
    BY <1>1, <1>3, <1>4, <1>6, <1>7 DEF Under
  <1>9. Asked(c, -g.alpha)
    BY <1>1, <1>3, <1>4 DEF Asked
  <1> QED
    BY <1>3, <1>4, <1>5, <1>8, <1>9 DEF m, g, c

(* What the table says to a call, and what a call that enters finds.       *)
AfterScore(f, flag, score) ==
    [f EXCEPT !.alpha = IF flag = "LOWER" THEN MAX(f.alpha, score) ELSE f.alpha,
              !.beta = IF flag = "UPPER" THEN MIN(f.beta, score) ELSE f.beta]

LEMMA AskedHears ==
    ASSUME NEW v \in Int, NEW f \in Calls, NEW hi \in Int, Asked(f, hi),
           NEW flag \in Flags, NEW score \in Int, Tells(flag, score, v)
    PROVE  LET alpha == IF flag = "LOWER" THEN MAX(f.alpha, score) ELSE f.alpha
               beta == IF flag = "UPPER" THEN MIN(f.beta, score) ELSE f.beta
               g == AfterScore(f, flag, score)
           IN IF flag = "EXACT" \/ alpha >= beta
              THEN Answers(score, v, f.original_alpha, hi)
              ELSE /\ g \in Calls /\ Ready(g, v, hi) /\ g.beta <= f.beta
                   /\ g.pos = f.pos /\ g.depth = f.depth /\ g.original_alpha = f.original_alpha
  <1> DEFINE alpha == IF flag = "LOWER" THEN MAX(f.alpha, score) ELSE f.alpha
             beta == IF flag = "UPPER" THEN MIN(f.beta, score) ELSE f.beta
             g == [f EXCEPT !.alpha = alpha, !.beta = beta]
  <1>1. /\ f.alpha \in Int /\ f.beta \in Int /\ f.original_alpha \in Int
        /\ f.alpha = f.original_alpha /\ f.alpha < f.beta /\ f.beta >= hi
        /\ f.best_score = -INFINITY
    BY CallFields DEF Asked
  <1>2. /\ alpha \in Int /\ beta \in Int /\ alpha >= f.alpha /\ beta <= f.beta
        /\ alpha > f.alpha => v >= alpha
        /\ beta < f.beta => v <= beta
    BY <1>1 DEF MAX, MIN, Tells
  <1>3. ASSUME flag = "EXACT" \/ alpha >= beta
        PROVE  Answers(score, v, f.original_alpha, hi)
    <2>1. CASE flag = "EXACT"
      BY <1>1, <2>1 DEF Answers, Tells
    <2>2. CASE flag = "LOWER"
      BY <1>1, <1>3, <2>2 DEF Answers, Tells, MAX
    <2>3. CASE flag = "UPPER"
      BY <1>1, <1>3, <2>3 DEF Answers, Tells, MIN
    <2> QED
      BY <2>1, <2>2, <2>3 DEF Flags
  <1>4. /\ g \in Calls /\ g.pos = f.pos /\ g.depth = f.depth
        /\ g.original_alpha = f.original_alpha /\ g.alpha = alpha /\ g.beta = beta
        /\ g.best_score = f.best_score
    BY <1>2 DEF Calls
  <1>5. ASSUME ~(flag = "EXACT" \/ alpha >= beta)
        PROVE  Ready(g, v, hi)
    <2>1. alpha < beta
      BY <1>2, <1>5
    <2> HIDE DEF alpha, beta, g
    <2> QED
      BY <1>1, <1>2, <1>4, <2>1 DEF Ready, Narrowed
  <1> QED
    BY <1>2, <1>3, <1>4, <1>5 DEF AfterScore

LEMMA AskedIsReady ==
    ASSUME NEW v, NEW f \in Calls, NEW hi \in Int, Asked(f, hi)
    PROVE  Ready(f, v, hi)
  BY CallFields DEF Asked, Ready, Narrowed

LEMMA ReadyEnters ==
    ASSUME NEW value, Valued(value), NEW f \in Calls, NEW hi \in Int,
           Ready(f, value[f.depth][f.pos], hi), -INFINITY <= f.original_alpha
    PROVE  LET color == Side[f.pos]
               g == [f EXCEPT !.valid_moves = Moves[f.pos]]
           IN /\ f.depth >= max_depth => value[f.depth][f.pos] = evaluate(f.pos, color)
              /\ f.depth < max_depth /\ color \in Fallen[f.pos] =>
                     value[f.depth][f.pos] = -INFINITY
              /\ f.depth < max_depth /\ color \notin Fallen[f.pos] /\ -color \in Fallen[f.pos] =>
                     value[f.depth][f.pos] = INFINITY
              /\ f.depth < max_depth /\ color \notin Fallen[f.pos] /\ -color \notin Fallen[f.pos] =>
                     /\ g \in Calls /\ Open(g, value, hi, {})
                     /\ g.pos = f.pos /\ g.depth = f.depth
                     /\ g.original_alpha = f.original_alpha /\ g.beta = f.beta
  <1> DEFINE color == Side[f.pos]
             g == [f EXCEPT !.valid_moves = Moves[f.pos]]
  <1>1. /\ f.pos \in Positions /\ f.depth \in Depths /\ f.depth \in Nat /\ f.depth <= max_depth
        /\ f.alpha \in Int /\ f.beta \in Int /\ f.original_alpha \in Int
        /\ max_depth \in Nat /\ INFINITY \in Nat
    BY CallFields, Tree DEF Depths
  <1>2. /\ Side[f.pos] \in {1, -1} /\ Fallen[f.pos] \in SUBSET {1, -1}
        /\ Moves[f.pos] \in Seq(Positions)
    BY <1>1, Tree
  <1>3. f.depth >= max_depth => f.depth = max_depth
    BY <1>1
  <1>4. f.depth < max_depth => f.depth # max_depth
    BY <1>1
  <1>5. ASSUME f.depth < max_depth, color \notin Fallen[f.pos], -color \notin Fallen[f.pos]
        PROVE  /\ g \in Calls /\ Open(g, value, hi, {})
               /\ g.pos = f.pos /\ g.depth = f.depth
               /\ g.original_alpha = f.original_alpha /\ g.beta = f.beta
    <2>1. Fallen[f.pos] = {}
      BY <1>2, <1>5
    <2>2. /\ g \in Calls /\ g.pos = f.pos /\ g.depth = f.depth
          /\ g.original_alpha = f.original_alpha /\ g.alpha = f.alpha /\ g.beta = f.beta
          /\ g.best_score = f.best_score /\ g.valid_moves = Moves[f.pos]
      BY <1>2 DEF Calls
    <2>3. /\ f.alpha < f.beta /\ f.best_score = -INFINITY /\ f.original_alpha <= f.alpha
          /\ Narrowed(f, value[f.depth][f.pos], hi)
      BY DEF Ready, Narrowed
    <2> HIDE DEF g
    <2>4. Narrowed(g, value[g.depth][g.pos], hi)
      BY <2>2, <2>3 DEF Narrowed
    <2>5. -INFINITY <= g.best_score /\ g.best_score <= g.alpha
      BY <1>1, <2>2, <2>3
    <2>6. Open(g, value, hi, {})
      BY <1>5, <2>1, <2>2, <2>3, <2>4, <2>5 DEF Open, Replies
    <2> QED
      BY <2>2, <2>6
  <1>6. f.depth >= max_depth => value[f.depth][f.pos] = evaluate(f.pos, color)
    BY <1>1, <1>3 DEF Valued
  <1>7. f.depth < max_depth /\ color \in Fallen[f.pos] =>
            value[f.depth][f.pos] = -INFINITY
    BY <1>1, <1>4 DEF Valued
  <1>8. f.depth < max_depth /\ color \notin Fallen[f.pos] /\ -color \in Fallen[f.pos] =>
            value[f.depth][f.pos] = INFINITY
    BY <1>1, <1>4 DEF Valued
  <1> QED
    BY <1>5, <1>6, <1>7, <1>8

LEMMA ExactAnswers ==
    ASSUME NEW v \in Int, NEW lo, NEW hi
    PROVE  Answers(v, v, lo, hi)
  BY DEF Answers

-----------------------------------------------------------------------------
(* The stack of calls.                                                     *)
Search(c) == c.pos \in Positions /\ c.depth = 0 /\ c.alpha \in Int /\ c.beta = INFINITY

LEMMA StackFields ==
    ASSUME NEW q \in Seq(Calls), q # <<>>
    PROVE  /\ Len(q) \in Nat /\ Len(q) >= 1 /\ DOMAIN q = 1 .. Len(q)
           /\ \A k \in 1 .. Len(q) : q[k] \in Calls
  OBVIOUS

LEMMA CallerAlpha ==
    ASSUME NEW q \in Seq(Calls), NEW k \in 1 .. Len(q), NEW c, Search(c)
    PROVE  Caller(q, k, c).alpha \in Int /\ -Caller(q, k, c).alpha \in Int
  <1>1. CASE k = Len(q)
    BY <1>1 DEF Caller, Search
  <1>2. CASE k # Len(q)
    <2>1. q[k + 1] \in Calls
      BY <1>2
    <2> QED
      BY <1>2, <2>1, CallFields DEF Caller
  <1> QED
    BY <1>1, <1>2

(* The innermost call changes, but for its place under its caller.         *)
LEMMA StackTurns ==
    ASSUME NEW q \in Seq(Calls), q # <<>>, NEW value, NEW c, Stacked(q, value, c),
           NEW g \in Calls, g.pos = q[1].pos, g.depth = q[1].depth,
           g.original_alpha = q[1].original_alpha, g.beta <= q[1].beta
    PROVE  LET r == [q EXCEPT ![1] = g]
           IN /\ r \in Seq(Calls) /\ r # <<>> /\ Len(r) = Len(q) /\ r[1] = g
              /\ r[Len(r)].pos = q[Len(q)].pos
              /\ Stacked(r, value, c)
              /\ Caller(r, 1, c) = Caller(q, 1, c)
  <1> DEFINE r == [q EXCEPT ![1] = g]
  <1>1. /\ Len(q) \in Nat /\ Len(q) >= 1 /\ DOMAIN q = 1 .. Len(q)
        /\ \A k \in 1 .. Len(q) : q[k] \in Calls
    BY StackFields
  <1>2. /\ r \in Seq(Calls) /\ r # <<>> /\ Len(r) = Len(q) /\ r[1] = g
        /\ \A k \in 2 .. Len(q) : r[k] = q[k]
    BY <1>1
  <1> HIDE DEF r
  <1>3. r[Len(r)].pos = q[Len(q)].pos
    BY <1>1, <1>2
  <1>4. \A k \in 1 .. Len(q) : Caller(r, k, c) = Caller(q, k, c)
    <2> SUFFICES ASSUME NEW k \in 1 .. Len(q) PROVE Caller(r, k, c) = Caller(q, k, c)
      OBVIOUS
    <2>1. CASE k = Len(q)
      BY <1>2, <2>1 DEF Caller
    <2>2. CASE k # Len(q)
      <3> DEFINE n == Len(q)
      <3>1. n \in Nat /\ k \in 1 .. n /\ k # n
        BY <1>1, <2>2
      <3> HIDE DEF n
      <3>2. k + 1 \in 2 .. n
        BY <3>1
      <3> QED
        BY <1>2, <2>2, <3>2 DEF Caller, n
    <2> QED
      BY <2>1, <2>2
  <1>5. ASSUME NEW k \in 1 .. Len(q)
        PROVE  Under(r[k], Caller(r, k, c))
    <2>1. Under(q[k], Caller(q, k, c))
      BY DEF Stacked
    <2>2. CASE k = 1
      <3>1. g.beta \in Int /\ q[1].beta \in Int /\ INFINITY \in Nat
        BY <1>1, CallFields, Tree
      <3> QED
        BY <1>2, <1>4, <2>1, <2>2, <3>1 DEF Under
    <2>3. CASE k # 1
      BY <1>2, <1>4, <2>1, <2>3
    <2> QED
      BY <2>2, <2>3
  <1>6. ASSUME NEW k \in 2 .. Len(q)
        PROVE  /\ Open(r[k], value, -Caller(r, k, c).alpha, {r[k - 1].pos})
               /\ r[k].alpha < r[k].beta
    <2>1. /\ Open(q[k], value, -Caller(q, k, c).alpha, {q[k - 1].pos})
          /\ q[k].alpha < q[k].beta
      BY DEF Stacked
    <2>2. r[k - 1].pos = q[k - 1].pos
      <3>1. CASE k = 2
        BY <1>2, <3>1
      <3>2. CASE k # 2
        <4>1. k - 1 \in 2 .. Len(q)
          BY <3>2
        <4> QED
          BY <1>2, <4>1
      <3> QED
        BY <3>1, <3>2
    <2> QED
      BY <1>1, <1>2, <1>4, <2>1, <2>2
  <1>7. Stacked(r, value, c)
    BY <1>2, <1>5, <1>6 DEF Stacked
  <1>8. Caller(r, 1, c) = Caller(q, 1, c)
    <2>1. 1 \in 1 .. Len(q)
      BY <1>1
    <2> QED
      BY <1>4, <2>1
  <1> QED
    BY <1>2, <1>3, <1>7, <1>8 DEF r

(* The innermost call, g by then, calls f.                                 *)
Pushed(q, f, g) == <<f, g>> \o Tail(q)

Grown(q, r, f, g, value, c) ==
    /\ r \in Seq(Calls) /\ r # <<>> /\ r[1] = f
    /\ r[Len(r)].pos = q[Len(q)].pos
    /\ Stacked(r, value, c)
    /\ Caller(r, 1, c) = g

LEMMA StackGrows ==
    ASSUME NEW q \in Seq(Calls), NEW value, NEW c, NEW g \in Calls, NEW f \in Calls,
           q # <<>>, Stacked(q, value, c), g.pos = q[1].pos, g.depth = q[1].depth,
           g.original_alpha = q[1].original_alpha, g.beta = q[1].beta, g.alpha = q[1].alpha,
           Under(f, g), g.alpha < g.beta,
           Open(g, value, -Caller(q, 1, c).alpha, {f.pos})
    PROVE  Grown(q, Pushed(q, f, g), f, g, value, c)
  <1> DEFINE r == <<f, g>> \o Tail(q)
  <1>1. /\ Len(q) \in Nat /\ Len(q) >= 1 /\ DOMAIN q = 1 .. Len(q)
        /\ \A k \in 1 .. Len(q) : q[k] \in Calls
    BY StackFields
  <1>2. /\ Tail(q) \in Seq(Calls) /\ Len(Tail(q)) = Len(q) - 1
        /\ \A k \in 1 .. Len(q) - 1 : Tail(q)[k] = q[k + 1]
    OBVIOUS
  <1>3. <<f, g>> \in Seq(Calls) /\ Len(<<f, g>>) = 2
    OBVIOUS
  <1>4. /\ r \in Seq(Calls) /\ r # <<>> /\ Len(r) = Len(q) + 1 /\ r[1] = f /\ r[2] = g
        /\ \A k \in 3 .. Len(q) + 1 : r[k] = q[k - 1]
    <2>1. r \in Seq(Calls) /\ Len(r) = Len(q) + 1
      BY <1>1, <1>2, <1>3
    <2>2. r[1] = f /\ r[2] = g
      BY <1>1, <1>2, <1>3
    <2>3. ASSUME NEW k \in 3 .. Len(q) + 1
          PROVE  r[k] = q[k - 1]
      <3>1. r[k] = Tail(q)[k - 2] /\ k - 2 \in 1 .. Len(q) - 1 /\ (k - 2) + 1 = k - 1
        BY <1>1, <1>2, <1>3
      <3> QED
        BY <1>2, <3>1
    <2> QED
      BY <1>1, <2>1, <2>2, <2>3
  <1> HIDE DEF r
  <1>5. r[Len(r)].pos = q[Len(q)].pos
    <2>1. CASE Len(q) = 1
      BY <1>4, <2>1
    <2>2. CASE Len(q) # 1
      <3>1. Len(q) + 1 \in 3 .. Len(q) + 1 /\ (Len(q) + 1) - 1 = Len(q)
        BY <1>1, <2>2
      <3> QED
        BY <1>4, <3>1
    <2> QED
      BY <2>1, <2>2
  <1>6. Caller(r, 1, c) = g
    BY <1>1, <1>4 DEF Caller
  <1>7. \A k \in 2 .. Len(r) : Caller(r, k, c) = Caller(q, k - 1, c)
    <2> SUFFICES ASSUME NEW k \in 2 .. Len(r) PROVE Caller(r, k, c) = Caller(q, k - 1, c)
      OBVIOUS
    <2>1. CASE k = Len(r)
      BY <1>1, <1>4, <2>1 DEF Caller
    <2>2. CASE k # Len(r)
      <3>1. k + 1 \in 3 .. Len(q) + 1 /\ (k + 1) - 1 = k /\ (k - 1) + 1 = k /\ k - 1 # Len(q)
        BY <1>1, <1>4, <2>2
      <3> QED
        BY <1>4, <2>2, <3>1 DEF Caller
    <2> QED
      BY <2>1, <2>2
  <1>8. ASSUME NEW k \in 1 .. Len(r)
        PROVE  Under(r[k], Caller(r, k, c))
    <2>1. CASE k = 1
      BY <1>4, <1>6, <2>1
    <2>2. CASE k # 1
      <3>1. k - 1 \in 1 .. Len(q) /\ k \in 2 .. Len(r)
        BY <1>1, <1>4, <2>2
      <3>2. Under(q[k - 1], Caller(q, k - 1, c))
        BY <3>1 DEF Stacked
      <3>3. CASE k = 2
        BY <1>4, <1>7, <3>1, <3>2, <3>3 DEF Under
      <3>4. CASE k # 2
        <4>1. k \in 3 .. Len(q) + 1
          BY <1>1, <1>4, <2>2, <3>4
        <4> QED
          BY <1>4, <1>7, <3>1, <3>2, <4>1
      <3> QED
        BY <3>3, <3>4
    <2> QED
      BY <2>1, <2>2
  <1>9. ASSUME NEW k \in 2 .. Len(r)
        PROVE  /\ Open(r[k], value, -Caller(r, k, c).alpha, {r[k - 1].pos})
               /\ r[k].alpha < r[k].beta
    <2>1. CASE k = 2
      <3>1. Caller(r, 2, c) = Caller(q, 1, c) /\ k - 1 = 1
        BY <1>7, <2>1
      <3> QED
        BY <1>4, <2>1, <3>1
    <2>2. CASE k # 2
      <3>1. k \in 3 .. Len(q) + 1 /\ k - 1 \in 2 .. Len(q) /\ (k - 1) - 1 = k - 2
        BY <1>1, <1>4, <2>2
      <3>2. /\ Open(q[k - 1], value, -Caller(q, k - 1, c).alpha, {q[(k - 1) - 1].pos})
            /\ q[k - 1].alpha < q[k - 1].beta
        BY <3>1 DEF Stacked
      <3>3. r[k - 1].pos = q[(k - 1) - 1].pos
        <4>1. CASE k = 3
          BY <1>4, <4>1
        <4>2. CASE k # 3
          <5>1. k - 1 \in 3 .. Len(q) + 1
            BY <3>1, <4>2
          <5> QED
            BY <1>4, <5>1
        <4> QED
          BY <4>1, <4>2
      <3> QED
        BY <1>4, <1>7, <3>1, <3>2, <3>3
    <2> QED
      BY <2>1, <2>2
  <1>10. Stacked(r, value, c)
    BY <1>8, <1>9 DEF Stacked
  <1> QED
    BY <1>4, <1>5, <1>6, <1>10 DEF r, Pushed, Grown

(* The innermost call has returned to its caller.                          *)
LEMMA StackShrinks ==
    ASSUME NEW q \in Seq(Calls), Len(q) > 1, NEW value, NEW c, Stacked(q, value, c),
           NEW g \in Calls, g.pos = q[2].pos, g.depth = q[2].depth,
           g.original_alpha = q[2].original_alpha, g.beta = q[2].beta
    PROVE  LET r == <<g>> \o Tail(Tail(q))
           IN /\ r \in Seq(Calls) /\ r # <<>> /\ r[1] = g
              /\ r[Len(r)].pos = q[Len(q)].pos
              /\ Stacked(r, value, c)
              /\ Caller(r, 1, c) = Caller(q, 2, c)
  <1> DEFINE r == <<g>> \o Tail(Tail(q))
  <1>1. /\ Len(q) \in Nat /\ Len(q) >= 2 /\ DOMAIN q = 1 .. Len(q)
        /\ \A k \in 1 .. Len(q) : q[k] \in Calls
    OBVIOUS
  <1>2. /\ Tail(q) \in Seq(Calls) /\ Len(Tail(q)) = Len(q) - 1
        /\ \A k \in 1 .. Len(q) - 1 : Tail(q)[k] = q[k + 1]
    BY <1>1
  <1>3. /\ Tail(Tail(q)) \in Seq(Calls) /\ Len(Tail(Tail(q))) = Len(q) - 2
        /\ \A k \in 1 .. Len(q) - 2 : Tail(Tail(q))[k] = q[k + 2]
    <2> DEFINE p == Tail(q)
    <2>1. p \in Seq(Calls) /\ Len(p) = Len(q) - 1 /\ p # <<>>
      <3>1. p \in Seq(Calls) /\ Len(p) = Len(q) - 1
        BY <1>2
      <3> HIDE DEF p
      <3>2. Len(p) # 0
        BY <1>1, <3>1
      <3> QED
        BY <3>1, <3>2
    <2>2. \A k \in 1 .. Len(q) - 2 : k + 1 \in 1 .. Len(q) - 1 /\ (k + 1) + 1 = k + 2
      BY <1>1
    <2>3. \A k \in 1 .. Len(q) - 2 : p[k + 1] = q[k + 2]
      BY <1>2, <2>2
    <2> HIDE DEF p
    <2>4. /\ Tail(p) \in Seq(Calls) /\ Len(Tail(p)) = Len(p) - 1
          /\ \A k \in 1 .. Len(p) - 1 : Tail(p)[k] = p[k + 1]
      BY <2>1
    <2>5. Len(p) - 1 = Len(q) - 2
      BY <1>1, <2>1
    <2> QED
      BY <2>3, <2>4, <2>5 DEF p
  <1>4. /\ r \in Seq(Calls) /\ r # <<>> /\ Len(r) = Len(q) - 1 /\ r[1] = g
        /\ \A k \in 2 .. Len(q) - 1 : r[k] = q[k + 1]
    <2> DEFINE p == Tail(Tail(q))
    <2>1. <<g>> \in Seq(Calls) /\ Len(<<g>>) = 1
      OBVIOUS
    <2> HIDE DEF p
    <2>2. r = <<g>> \o p /\ p \in Seq(Calls) /\ Len(p) = Len(q) - 2
      BY <1>3 DEF p
    <2> HIDE DEF r
    <2>3. r \in Seq(Calls) /\ Len(r) = Len(q) - 1 /\ r[1] = g
      <3>1. r \in Seq(Calls) /\ Len(r) = 1 + Len(p) /\ r[1] = g
        BY <2>1, <2>2
      <3> DEFINE n == Len(q)
      <3>2. n \in Nat /\ Len(p) = n - 2 /\ Len(r) = 1 + Len(p)
        BY <1>1, <2>2, <3>1
      <3> HIDE DEF n
      <3>3. Len(r) = n - 1
        BY <3>2
      <3> QED
        BY <3>1, <3>3 DEF n
    <2>4. ASSUME NEW k \in 2 .. Len(q) - 1
          PROVE  r[k] = q[k + 1]
      <3>1. r[k] = p[k - 1] /\ k - 1 \in 1 .. Len(q) - 2 /\ (k - 1) + 2 = k + 1
        BY <1>1, <2>1, <2>2
      <3> QED
        BY <1>3, <3>1 DEF p
    <2> QED
      BY <1>1, <2>3, <2>4
  <1> HIDE DEF r
  <1>5. \A k \in 1 .. Len(r) : Caller(r, k, c) = Caller(q, k + 1, c)
    <2> SUFFICES ASSUME NEW k \in 1 .. Len(r) PROVE Caller(r, k, c) = Caller(q, k + 1, c)
      OBVIOUS
    <2>1. CASE k = Len(r)
      BY <1>1, <1>4, <2>1 DEF Caller
    <2>2. CASE k # Len(r)
      <3> DEFINE n == Len(q)
                 l == Len(r)
      <3>1. n \in Nat /\ l = n - 1 /\ k \in 1 .. l /\ k # l
        BY <1>1, <1>4, <2>2
      <3> HIDE DEF n, l
      <3>4. k + 1 \in 2 .. n - 1 /\ k + 1 # n
        BY <3>1
      <3>2. k + 1 \in 2 .. Len(q) - 1 /\ k + 1 # Len(q)
        BY <3>4 DEF n
      <3>3. r[k + 1] = q[(k + 1) + 1]
        BY <1>4, <3>2
      <3> QED
        BY <2>2, <3>2, <3>3 DEF Caller
    <2> QED
      BY <2>1, <2>2
  <1>6. r[Len(r)].pos = q[Len(q)].pos
    <2>1. CASE Len(q) = 2
      BY <1>4, <2>1
    <2>2. CASE Len(q) # 2
      <3>1. Len(q) - 1 \in 2 .. Len(q) - 1 /\ (Len(q) - 1) + 1 = Len(q)
        BY <1>1, <2>2
      <3> QED
        BY <1>4, <3>1
    <2> QED
      BY <2>1, <2>2
  <1>7. ASSUME NEW k \in 1 .. Len(r)
        PROVE  Under(r[k], Caller(r, k, c))
    <2>1. k + 1 \in 1 .. Len(q)
      BY <1>1, <1>4
    <2>2. Under(q[k + 1], Caller(q, k + 1, c))
      BY <2>1 DEF Stacked
    <2>3. CASE k = 1
      BY <1>4, <1>5, <2>2, <2>3 DEF Under
    <2>4. CASE k # 1
      <3>1. k \in 2 .. Len(q) - 1
        BY <1>1, <1>4, <2>4
      <3> QED
        BY <1>4, <1>5, <2>2, <3>1
    <2> QED
      BY <2>3, <2>4
  <1>8. ASSUME NEW k \in 2 .. Len(r)
        PROVE  /\ Open(r[k], value, -Caller(r, k, c).alpha, {r[k - 1].pos})
               /\ r[k].alpha < r[k].beta
    <2>1. k + 1 \in 2 .. Len(q) /\ (k + 1) - 1 = k /\ k \in 2 .. Len(q) - 1 /\ k \in 1 .. Len(r)
      BY <1>1, <1>4
    <2>2. /\ Open(q[k + 1], value, -Caller(q, k + 1, c).alpha, {q[(k + 1) - 1].pos})
          /\ q[k + 1].alpha < q[k + 1].beta
      BY <2>1 DEF Stacked
    <2>3. r[k - 1].pos = q[k].pos
      <3>1. CASE k = 2
        BY <1>4, <3>1
      <3>2. CASE k # 2
        <4>1. k - 1 \in 2 .. Len(q) - 1 /\ (k - 1) + 1 = k
          BY <2>1, <3>2
        <4> QED
          BY <1>4, <4>1
      <3> QED
        BY <3>1, <3>2
    <2> QED
      BY <1>4, <1>5, <2>1, <2>2, <2>3
  <1>9. Stacked(r, value, c)
    BY <1>7, <1>8 DEF Stacked
  <1>10. 1 \in 1 .. Len(r) /\ 1 + 1 = 2
    BY <1>1, <1>4
  <1>11. Caller(r, 1, c) = Caller(q, 2, c)
    BY <1>5, <1>10
  <1> QED
    BY <1>4, <1>6, <1>9, <1>11 DEF r

-----------------------------------------------------------------------------
(* A thread whose innermost call ends with a value.                        *)
LEMMA ThreadFields ==
    ASSUME NEW th \in ThreadRecords
    PROVE  /\ th.pc \in Inside \cup {"idle", "next", "report", "done"}
           /\ th.moves \in Seq(Positions) /\ th.stack \in Seq(Calls)
           /\ th.score \in Int /\ th.best_score \in Int
           /\ th.move \in Positions \cup {None}
           /\ th.slot \in 1 .. CLUSTER_SIZE /\ th.worst \in 1 .. CLUSTER_SIZE
           /\ th.depth \in Int /\ th.flag \in Flags
  BY DEF ThreadRecords

AfterReturn(th, value) ==
    IF Len(th.stack) = 1
    THEN LET score == MAX(th.score, -value)
         IN [th EXCEPT !.stack = <<>>, !.score = score,
                       !.pc = IF score > th.best_score THEN "report" ELSE "next",
                       !.best_score = MAX(@, score)]
    ELSE LET caller == th.stack[2]
             best == MAX(caller.best_score, -value)
         IN [th EXCEPT
                !.stack = <<[caller EXCEPT !.best_score = best,
                                           !.alpha = MAX(@, best)]>> \o Tail(Tail(@)),
                !.pc = "explore"]

LEMMA ReturnIs ==
    ASSUME NEW t, NEW value, Return(t, value)
    PROVE  Go(t, AfterReturn(thread[t], value))
  <1>1. CASE Len(thread[t].stack) = 1
    BY <1>1 DEF Return, AfterReturn
  <1>2. CASE Len(thread[t].stack) # 1
    BY <1>2 DEF Return, AfterReturn
  <1> QED
    BY <1>1, <1>2

(* The moves a thread answers for, after a step of its own.                *)
KeepsWatch(th, new, value, c) ==
    \A m \in Replies(c.pos) :
        Expects(th, m, value) => Expects(new, m, value) \/ -value[start_depth][m] <= c.alpha

Going(th) == th.pc \notin {"idle", "done"}

LEMMA LastReturns ==
    ASSUME NEW value, Valued(value), NEW c, Search(c),
           NEW th \in ThreadRecords, ThreadGood(th, value, c), th.pc \in Inside,
           Len(th.stack) = 1, NEW score \in Int,
           Answers(score, value[th.stack[1].depth][th.stack[1].pos],
                   th.stack[1].original_alpha, -Caller(th.stack, 1, c).alpha)
    PROVE  LET new == AfterReturn(th, score)
           IN /\ new \in ThreadRecords /\ ThreadGood(new, value, c) /\ new.pc # "done"
              /\ new.pc # "idle" /\ KeepsWatch(th, new, value, c)
  <1> DEFINE f == th.stack[1]
             b == th.best_score
             s == MAX(b, -score)
             new == AfterReturn(th, score)
             v == value[1][f.pos]
  <1>1. /\ th.stack \in Seq(Calls) /\ th.stack # <<>> /\ f \in Calls
        /\ b \in Int /\ th.score = b /\ b >= -INFINITY /\ th.move = f.pos
        /\ th.pc # "report" /\ th.pc # "idle" /\ th.pc # "done" /\ th.pc # "next"
    <2>1. th.stack \in Seq(Calls) /\ th.best_score \in Int
      BY ThreadFields
    <2>2. th.stack # <<>>
      BY DEF ThreadGood
    <2>3. f \in Calls
      BY <2>1, <2>2
    <2>4. th.stack[Len(th.stack)].pos = th.move /\ th.score = th.best_score
          /\ th.best_score >= -INFINITY
      BY DEF ThreadGood
    <2> QED
      BY <2>1, <2>2, <2>3, <2>4 DEF Inside, Looking, Storing
  <1>2. b <= c.alpha /\ Elements(th.moves) \subseteq Replies(c.pos)
    BY <1>1 DEF ThreadGood
  <1>3. Under(f, c)
    BY DEF ThreadGood, Stacked, Caller
  <1>4. /\ f.pos \in Replies(c.pos) /\ f.depth = 1 /\ f.original_alpha = -INFINITY
        /\ Caller(th.stack, 1, c) = c /\ c.alpha \in Int /\ INFINITY \in Nat
    BY <1>3, Tree DEF Under, Search, Caller
  <1>5. v \in Int /\ v >= -INFINITY
    <2>1. f.pos \in Positions /\ 1 \in Depths
      BY <1>1, CallFields, Tree DEF Depths
    <2> QED
      BY <2>1, ValueFields
  <1>6. Answers(score, v, -INFINITY, -c.alpha)
    BY <1>4
  <1>7. v >= score
    BY <1>4, <1>5, <1>6 DEF Answers
  <1>8. s \in Int /\ s >= b /\ s >= -score /\ (s > b => s = -score) /\ MAX(b, s) = s
    BY <1>1 DEF MAX
  <1>9. /\ new \in ThreadRecords
        /\ new.stack = <<>> /\ new.score = s /\ new.best_score = s
        /\ new.pc = (IF s > b THEN "report" ELSE "next")
        /\ new.moves = th.moves /\ new.move = th.move
    <2> HIDE DEF s, b
    <2>1. new = [th EXCEPT !.stack = <<>>, !.score = s,
                           !.pc = IF s > b THEN "report" ELSE "next",
                           !.best_score = s]
      BY <1>1, <1>8 DEF AfterReturn, s, b
    <2> DEFINE pc == IF s > b THEN "report" ELSE "next"
    <2>2. pc \in {"report", "next"} /\ <<>> \in Seq(Calls)
      OBVIOUS
    <2> HIDE DEF pc
    <2>3. new = [th EXCEPT !.stack = <<>>, !.score = s, !.pc = pc, !.best_score = s]
      BY <2>1 DEF pc
    <2> HIDE DEF new
    <2>4. new \in ThreadRecords
      BY <1>8, <2>2, <2>3 DEF ThreadRecords
    <2>5. /\ new.stack = <<>> /\ new.score = s /\ new.best_score = s
          /\ new.pc = pc /\ new.moves = th.moves /\ new.move = th.move
      BY <2>3 DEF ThreadRecords
    <2> QED
      BY <2>4, <2>5 DEF pc
  <1> HIDE DEF new, s, v, f
  <1>10. Stacked(new.stack, value, c)
    BY <1>9 DEF Stacked
  <1>11. s > b => -v <= s /\ s > -INFINITY /\ (s > c.alpha => -v >= s)
    <2>1. s > b => -v <= s
      BY <1>1, <1>5, <1>7, <1>8
    <2>2. s > b => s > -INFINITY
      BY <1>1, <1>4, <1>8
    <2>3. s > b /\ s > c.alpha => -v >= s
      BY <1>1, <1>4, <1>5, <1>6, <1>8 DEF Answers
    <2> QED
      BY <2>1, <2>2, <2>3
  <1>12. ~(s > b) => s = b /\ -v <= c.alpha
    BY <1>1, <1>2, <1>4, <1>5, <1>7, <1>8
  <1>13. ThreadGood(new, value, c)
    <2>1. CASE s > b
      <3>1. new.pc = "report" /\ new.move \in Replies(c.pos)
        BY <1>1, <1>4, <1>9, <2>1
      <3>2. new.best_score >= -INFINITY
        BY <1>1, <1>4, <1>8, <1>9
      <3>3. /\ new.best_score > -INFINITY /\ -value[1][new.move] <= new.best_score
            /\ new.best_score > c.alpha => -value[1][new.move] >= new.best_score
        BY <1>1, <1>9, <1>11, <2>1 DEF v
      <3> QED
        BY <1>2, <1>9, <1>10, <3>1, <3>2, <3>3
        DEF ThreadGood, Inside, Looking, Storing, start_depth
    <2>2. CASE ~(s > b)
      BY <1>1, <1>2, <1>4, <1>9, <1>10, <1>12, <2>2
      DEF ThreadGood, Inside, Looking, Storing, v, start_depth
    <2> QED
      BY <2>1, <2>2
  <1>14. KeepsWatch(th, new, value, c)
    <2> SUFFICES ASSUME NEW m \in Replies(c.pos), Expects(th, m, value)
                 PROVE  Expects(new, m, value) \/ -value[1][m] <= c.alpha
      BY DEF KeepsWatch, start_depth
    <2>1. CASE m \in Elements(th.moves)
      BY <1>9, <2>1 DEF Expects
    <2>2. CASE m = f.pos
      BY <1>9, <1>11, <1>12, <2>2 DEF Expects, v, start_depth
    <2> QED
      BY <1>1, <2>1, <2>2 DEF Expects
  <1> QED
    BY <1>9, <1>13, <1>14 DEF new

LEMMA InnerReturns ==
    ASSUME NEW value, Valued(value), NEW c, Search(c),
           NEW th \in ThreadRecords, ThreadGood(th, value, c), th.pc \in Inside,
           Len(th.stack) # 1, NEW score \in Int,
           Answers(score, value[th.stack[1].depth][th.stack[1].pos],
                   th.stack[1].original_alpha, -Caller(th.stack, 1, c).alpha)
    PROVE  LET new == AfterReturn(th, score)
           IN /\ new \in ThreadRecords /\ ThreadGood(new, value, c) /\ new.pc # "done"
              /\ new.pc # "idle" /\ KeepsWatch(th, new, value, c)
  <1> DEFINE q == th.stack
             f == q[1]
             k == q[2]
             g == AfterAnswer(k, score)
             r == <<g>> \o Tail(Tail(q))
             new == AfterReturn(th, score)
             hi == -Caller(q, 2, c).alpha
  <1>1. /\ q \in Seq(Calls) /\ Len(q) > 1 /\ Stacked(q, value, c)
        /\ th.score = th.best_score /\ th.best_score >= -INFINITY
        /\ th.pc # "report" /\ th.best_score <= c.alpha
        /\ Elements(th.moves) \subseteq Replies(c.pos)
        /\ q[Len(q)].pos = th.move
    <2>1. q \in Seq(Calls) /\ q # <<>>
      BY ThreadFields DEF ThreadGood
    <2>2. Len(q) > 1
      <3> DEFINE n == Len(q)
      <3>1. n \in Nat /\ n >= 1 /\ n # 1
        BY <2>1, StackFields
      <3> HIDE DEF n
      <3>2. n > 1
        BY <3>1
      <3> QED
        BY <3>2 DEF n
    <2>3. th.pc # "report"
      BY DEF Inside, Looking, Storing
    <2> QED
      BY <2>1, <2>2, <2>3 DEF ThreadGood
  <1> HIDE DEF q
  <1>2. /\ f \in Calls /\ k \in Calls /\ 1 \in 1 .. Len(q) /\ 2 \in 1 .. Len(q)
        /\ 2 \in 2 .. Len(q) /\ 1 # Len(q) /\ 1 + 1 = 2 /\ 2 - 1 = 1
    BY <1>1
  <1>3. Caller(q, 1, c) = k
    BY <1>2 DEF Caller
  <1>4. Under(f, k)
    BY <1>1, <1>2, <1>3 DEF Stacked
  <1>5. hi \in Int
    BY <1>1, <1>2, CallerAlpha
  <1>6. Open(k, value, hi, {f.pos}) /\ k.alpha < k.beta
    BY <1>1, <1>2 DEF Stacked
  <1>7. Answers(score, value[k.depth + 1][f.pos], -k.beta, -k.alpha)
    BY <1>3, <1>4 DEF Under, q
  <1> HIDE DEF hi
  <1>8. /\ g \in Calls /\ Open(g, value, hi, {})
        /\ g.pos = k.pos /\ g.depth = k.depth /\ g.beta = k.beta
        /\ g.original_alpha = k.original_alpha
    <2>1. f.pos \in Replies(k.pos)
      BY <1>4 DEF Under
    <2> DEFINE m == f.pos
    <2>2. /\ m \in Replies(k.pos) /\ Open(k, value, hi, {m})
          /\ Answers(score, value[k.depth + 1][m], -k.beta, -k.alpha)
      BY <1>6, <1>7, <2>1
    <2> HIDE DEF m, k
    <2> QED
      BY <1>2, <1>5, <1>6, <2>2, OpenHears
  <1>9. /\ r \in Seq(Calls) /\ r # <<>> /\ r[1] = g
        /\ r[Len(r)].pos = q[Len(q)].pos
        /\ Stacked(r, value, c)
        /\ Caller(r, 1, c) = Caller(q, 2, c)
    <2> HIDE DEF g
    <2> QED
      BY <1>1, <1>8, StackShrinks
  <1>10. new = [th EXCEPT !.stack = r, !.pc = "explore"]
    BY DEF AfterReturn, AfterAnswer, q
  <1> HIDE DEF r, g
  <1>11. new \in ThreadRecords
    <2>1. "explore" \in Inside
      BY DEF Inside
    <2> HIDE DEF new
    <2> QED
      BY <1>9, <1>10, <2>1 DEF ThreadRecords
  <1>12. /\ new.stack = r /\ new.pc = "explore" /\ new.score = th.score
         /\ new.best_score = th.best_score /\ new.moves = th.moves /\ new.move = th.move
    <2> HIDE DEF new
    <2> QED
      BY <1>10 DEF ThreadRecords
  <1> HIDE DEF new
  <1>13. Reached(new.pc, r[1], value, -Caller(r, 1, c).alpha)
    BY <1>8, <1>9, <1>12 DEF Reached, Looking, Storing, hi
  <1>14. ThreadGood(new, value, c)
    <2>1. new.pc \in Inside
      BY <1>12 DEF Inside
    <2> QED
      BY <1>1, <1>9, <1>12, <1>13, <2>1 DEF ThreadGood
  <1>15. KeepsWatch(th, new, value, c)
    BY <1>1, <1>9, <1>12 DEF KeepsWatch, Expects
  <1> QED
    BY <1>11, <1>12, <1>14, <1>15 DEF new

LEMMA ReturnGood ==
    ASSUME NEW value, Valued(value), NEW c, Search(c),
           NEW th \in ThreadRecords, ThreadGood(th, value, c), th.pc \in Inside,
           NEW score \in Int,
           Answers(score, value[th.stack[1].depth][th.stack[1].pos],
                   th.stack[1].original_alpha, -Caller(th.stack, 1, c).alpha)
    PROVE  LET new == AfterReturn(th, score)
           IN /\ new \in ThreadRecords /\ ThreadGood(new, value, c) /\ new.pc # "done"
              /\ new.pc # "idle" /\ KeepsWatch(th, new, value, c)
  <1>1. CASE Len(th.stack) = 1
    BY <1>1, LastReturns
  <1>2. CASE Len(th.stack) # 1
    BY <1>2, InnerReturns
  <1> QED
    BY <1>1, <1>2

-----------------------------------------------------------------------------
(* A step of one thread, and what the others see of it.                    *)
LEMMA StateFields ==
    ASSUME TypeOK, NEW t \in Threads
    PROVE  /\ t[1] \in Searches /\ thread[t] \in ThreadRecords
           /\ state[t[1]] \in SearchRecords /\ state[t[1]].alpha \in Int
           /\ Root[t[1]] \in Positions
  BY Tree DEF TypeOK, Threads, SearchRecords

LEMMA AsCallerIs ==
    ASSUME NEW s
    PROVE  /\ AsCaller(s).pos = Root[s] /\ AsCaller(s).depth = 0
           /\ AsCaller(s).alpha = state[s].alpha /\ AsCaller(s).beta = INFINITY
  BY DEF AsCaller

LEMMA IsSearching ==
    ASSUME NEW value, TypeOK, Good(value), NEW t \in Threads, Going(thread[t])
    PROVE  state[t[1]].status = "searching"
  <1> DEFINE s == t[1]
  <1>1. s \in Searches /\ state[s] \in SearchRecords /\ t \in ThreadsOf(s)
    BY StateFields DEF ThreadsOf
  <1>2. SearchGood(s, value)
    BY <1>1 DEF Good
  <1>3. state[s].status # "idle"
    BY <1>1, <1>2 DEF SearchGood, Going, Idle
  <1>4. state[s].status # "returned"
    BY <1>1, <1>2 DEF SearchGood, Going
  <1> QED
    BY <1>1, <1>3, <1>4 DEF SearchRecords

LEMMA IsSearch ==
    ASSUME TypeOK, NEW s \in Searches
    PROVE  Search(AsCaller(s))
  BY Tree DEF TypeOK, SearchRecords, Search, AsCaller

LEMMA StepKeeps ==
    ASSUME NEW value, Valued(value), TypeOK, Good(value),
           NEW t \in Threads, Going(thread[t]), NEW th \in ThreadRecords, Go(t, th),
           ThreadGood(th, value, AsCaller(t[1])),
           KeepsWatch(thread[t], th, value, AsCaller(t[1])),
           state' = state, worth' = worth, TT' \in [Slots -> Entries], EntriesTell(value)'
    PROVE  TypeOK' /\ Good(value)'
  <1>1. /\ thread \in [Threads -> ThreadRecords]
        /\ thread' \in [Threads -> ThreadRecords] /\ thread'[t] = th
        /\ \A u \in Threads : u # t => thread'[u] = thread[u]
    BY DEF TypeOK, Go
  <1>2. TypeOK'
    BY <1>1 DEF TypeOK
  <1>3. \A s : AsCaller(s)' = AsCaller(s)
    BY DEF AsCaller
  <1>4. ASSUME NEW u \in Threads
        PROVE  ThreadGood(thread[u], value, AsCaller(u[1]))'
    <2>1. CASE u = t
      BY <1>1, <1>3, <2>1
    <2>2. CASE u # t
      BY <1>1, <1>3, <2>2 DEF Good
    <2> QED
      BY <2>1, <2>2
  <1>5. ASSUME NEW s \in Searches
        PROVE  SearchGood(s, value)'
    <2>1. SearchGood(s, value)
      BY DEF Good
    <2>2. CASE s # t[1]
      <3>1. \A u \in ThreadsOf(s) : u \in Threads /\ thread'[u] = thread[u]
        BY <1>1, <2>2 DEF ThreadsOf
      <3>2. ThreadsOf(s)' = ThreadsOf(s)
        BY DEF ThreadsOf
      <3>3. BestOf(s, value)' <=> BestOf(s, value)
        BY DEF BestOf
      <3>4. Running(s, value) => Running(s, value)'
        BY <3>1, <3>2 DEF Running
      <3> QED
        BY <2>1, <3>1, <3>2, <3>3, <3>4 DEF SearchGood
    <2>3. CASE s = t[1]
      <3>1. state[s].status = "searching"
        BY <2>3, IsSearching
      <3>2. Running(s, value)
        BY <2>1, <3>1 DEF SearchGood
      <3>3. ASSUME NEW m \in Replies(Root[s])
            PROVE  \/ -value[start_depth][m] <= state[s].alpha
                   \/ \E u \in ThreadsOf(s) : Expects(thread'[u], m, value)
        <4>1. CASE -value[start_depth][m] <= state[s].alpha
          BY <4>1
        <4>2. CASE ~(-value[start_depth][m] <= state[s].alpha)
          <5>1. PICK u \in ThreadsOf(s) : Expects(thread[u], m, value)
            BY <3>2, <4>2 DEF Running
          <5>2. CASE u = t
            <6>1. Expects(th, m, value)
              BY <2>3, <4>2, <5>1, <5>2, AsCallerIs DEF KeepsWatch
            <6> QED
              BY <1>1, <5>1, <5>2, <6>1
          <5>3. CASE u # t
            BY <1>1, <5>1, <5>3 DEF ThreadsOf
          <5> QED
            BY <5>2, <5>3
        <4> QED
          BY <4>1, <4>2
      <3>4. Running(s, value)'
        BY <3>2, <3>3 DEF Running, ThreadsOf
      <3> QED
        BY <3>1, <3>4 DEF SearchGood
    <2> QED
      BY <2>2, <2>3
  <1> QED
    BY <1>2, <1>4, <1>5 DEF Good

(* Alpha of the search rises under a thread.                               *)
LEMMA ThreadGoodRises ==
    ASSUME NEW value, NEW c, Search(c), NEW d, Search(d), d.pos = c.pos, c.alpha <= d.alpha,
           NEW th \in ThreadRecords, ThreadGood(th, value, c)
    PROVE  ThreadGood(th, value, d)
  <1> DEFINE q == th.stack
  <1>1. /\ q \in Seq(Calls) /\ th.best_score \in Int /\ c.alpha \in Int /\ d.alpha \in Int
        /\ c.depth = d.depth /\ c.beta = d.beta /\ INFINITY \in Nat
    BY ThreadFields, Tree DEF Search
  <1>2. Stacked(q, value, c) /\ (th.pc \in Inside <=> q # <<>>)
    BY DEF ThreadGood
  <1> HIDE DEF q
  <1>3. Len(q) \in Nat /\ \A k \in 1 .. Len(q) : q[k] \in Calls
    BY <1>1
  <1>4. ASSUME NEW k \in 1 .. Len(q)
        PROVE  /\ -Caller(q, k, d).alpha <= -Caller(q, k, c).alpha
               /\ -Caller(q, k, d).alpha \in Int /\ -Caller(q, k, c).alpha \in Int
               /\ Caller(q, k, d).pos = Caller(q, k, c).pos
               /\ Caller(q, k, d).depth = Caller(q, k, c).depth
               /\ Caller(q, k, d).beta = Caller(q, k, c).beta
    <2>1. CASE k = Len(q)
      BY <1>1, <2>1 DEF Caller
    <2>2. CASE k # Len(q)
      <3>1. Caller(q, k, d) = Caller(q, k, c)
        BY <2>2 DEF Caller
      <3>2. -Caller(q, k, c).alpha \in Int
        BY <1>1, CallerAlpha
      <3> QED
        BY <3>1, <3>2
    <2> QED
      BY <2>1, <2>2
  <1>5. ASSUME NEW f \in Calls, NEW hi \in Int, NEW lo \in Int, lo <= hi, NEW v,
               NEW waiting
        PROVE  /\ Asked(f, hi) => Asked(f, lo)
               /\ Narrowed(f, v, hi) => Narrowed(f, v, lo)
               /\ Ready(f, v, hi) => Ready(f, v, lo)
               /\ Open(f, value, hi, waiting) => Open(f, value, lo, waiting)
    <2>1. f.beta >= hi => f.beta >= lo
      BY <1>5, CallFields
    <2> QED
      BY <2>1 DEF Asked, Narrowed, Ready, Open
  <1>6. Stacked(q, value, d)
    <2>1. ASSUME NEW k \in 1 .. Len(q)
          PROVE  Under(q[k], Caller(q, k, d))
      BY <1>2, <1>4 DEF Stacked, Under
    <2>2. ASSUME NEW k \in 2 .. Len(q)
          PROVE  /\ Open(q[k], value, -Caller(q, k, d).alpha, {q[k - 1].pos})
                 /\ q[k].alpha < q[k].beta
      <3>1. k \in 1 .. Len(q)
        BY <1>3
      <3>2. Open(q[k], value, -Caller(q, k, c).alpha, {q[k - 1].pos}) /\ q[k].alpha < q[k].beta
        BY <1>2 DEF Stacked
      <3> DEFINE f == q[k]
                 hi == -Caller(q, k, c).alpha
                 lo == -Caller(q, k, d).alpha
                 waiting == {q[k - 1].pos}
      <3>3. f \in Calls /\ hi \in Int /\ lo \in Int /\ lo <= hi /\ Open(f, value, hi, waiting)
        BY <1>3, <1>4, <3>1, <3>2
      <3> HIDE DEF f, hi, lo, waiting
      <3>4. Open(f, value, lo, waiting)
        BY <1>5, <3>3
      <3> QED
        BY <3>2, <3>4 DEF f, lo, waiting
    <2> QED
      BY <2>1, <2>2 DEF Stacked
  <1>7. ASSUME th.pc \in Inside
        PROVE  /\ Reached(th.pc, q[1], value, -Caller(q, 1, d).alpha)
               /\ q[Len(q)].pos = th.move
    <2>1. q # <<>> /\ 1 \in 1 .. Len(q) /\ q[1] \in Calls
      BY <1>1, <1>2, <1>7
    <2>2. /\ Reached(th.pc, q[1], value, -Caller(q, 1, c).alpha)
          /\ q[Len(q)].pos = th.move
      BY <1>7 DEF ThreadGood, q
    <2> DEFINE hi == -Caller(q, 1, c).alpha
               lo == -Caller(q, 1, d).alpha
    <2>3. hi \in Int /\ lo \in Int /\ lo <= hi
      BY <1>4, <2>1
    <2> HIDE DEF hi, lo
    <2>4. Reached(th.pc, q[1], value, hi)
      BY <2>2 DEF hi
    <2>5. Reached(th.pc, q[1], value, lo)
      BY <1>5, <2>1, <2>3, <2>4 DEF Reached
    <2> QED
      BY <2>2, <2>5 DEF lo
  <1>8. /\ th.pc # "report" => th.best_score <= d.alpha
        /\ th.pc = "report" /\ th.best_score > d.alpha => th.best_score > c.alpha
        /\ c.alpha >= INFINITY => d.alpha >= INFINITY
    BY <1>1 DEF ThreadGood
  <1> QED
    BY <1>2, <1>6, <1>7, <1>8 DEF ThreadGood, q

-----------------------------------------------------------------------------
(* The steps of a thread inside a call.                                    *)
LEMMA NewCalls ==
    ASSUME NEW value, NEW c, NEW th \in ThreadRecords, ThreadGood(th, value, c),
           th.pc \in Inside, NEW new \in ThreadRecords,
           new.moves = th.moves, new.move = th.move, new.score = th.score,
           new.best_score = th.best_score, new.pc \in Inside,
           new.stack # <<>>, Stacked(new.stack, value, c),
           new.stack[Len(new.stack)].pos = th.move,
           Reached(new.pc, new.stack[1], value, -Caller(new.stack, 1, c).alpha)
    PROVE  ThreadGood(new, value, c) /\ KeepsWatch(th, new, value, c)
  <1>1. /\ th.pc # "report" /\ new.pc # "report" /\ new.pc # "idle" /\ new.pc # "done"
    BY DEF Inside, Looking, Storing
  <1>2. ThreadGood(new, value, c)
    BY <1>1 DEF ThreadGood
  <1>3. KeepsWatch(th, new, value, c)
    BY <1>1 DEF KeepsWatch, Expects
  <1> QED
    BY <1>2, <1>3

LEMMA SameCalls ==
    ASSUME NEW value, NEW c, NEW th \in ThreadRecords, ThreadGood(th, value, c),
           th.pc \in Inside, NEW new \in ThreadRecords,
           new.moves = th.moves, new.move = th.move, new.score = th.score,
           new.best_score = th.best_score, new.pc \in Inside, new.stack = th.stack,
           Reached(new.pc, th.stack[1], value, -Caller(th.stack, 1, c).alpha)
    PROVE  ThreadGood(new, value, c) /\ KeepsWatch(th, new, value, c)
  <1>1. th.stack # <<>> /\ Stacked(th.stack, value, c) /\ th.stack[Len(th.stack)].pos = th.move
    BY DEF ThreadGood
  <1> QED
    BY <1>1, NewCalls

Hi(t) == -Caller(thread[t].stack, 1, AsCaller(t[1])).alpha

LEMMA InsideIs ==
    ASSUME NEW value, TypeOK, Good(value), NEW t \in Threads, thread[t].pc \in Inside
    PROVE  /\ thread[t] \in ThreadRecords /\ Going(thread[t])
           /\ ThreadGood(thread[t], value, AsCaller(t[1])) /\ Search(AsCaller(t[1]))
           /\ thread[t].stack \in Seq(Calls) /\ thread[t].stack # <<>>
           /\ Stacked(thread[t].stack, value, AsCaller(t[1]))
           /\ thread[t].stack[Len(thread[t].stack)].pos = thread[t].move
           /\ Top(t) \in Calls /\ Top(t) = thread[t].stack[1]
           /\ SlotOf(t) \in Slots /\ TT[SlotOf(t)] \in Entries
           /\ Hi(t) \in Int /\ Reached(thread[t].pc, Top(t), value, Hi(t))
           /\ Top(t).original_alpha >= -INFINITY /\ Top(t).beta <= INFINITY
  <1> DEFINE th == thread[t]
             q == th.stack
             c == AsCaller(t[1])
  <1>1. th \in ThreadRecords /\ Search(c) /\ ThreadGood(th, value, c)
    BY StateFields, IsSearch DEF Good
  <1>2. q \in Seq(Calls) /\ q # <<>> /\ Stacked(q, value, c) /\ q[Len(q)].pos = th.move
        /\ Reached(th.pc, q[1], value, -Caller(q, 1, c).alpha)
    BY <1>1, ThreadFields DEF ThreadGood
  <1>3. 1 \in 1 .. Len(q) /\ q[1] \in Calls
    BY <1>2
  <1>4. Hi(t) \in Int
    <2>1. -Caller(q, 1, c).alpha \in Int
      BY <1>1, <1>2, <1>3, CallerAlpha
    <2> QED
      BY <2>1 DEF Hi
  <1>5. Under(q[1], Caller(q, 1, c))
    BY <1>2, <1>3 DEF Stacked
  <1>6. SlotOf(t) \in Slots
    <2>1. q[1].pos \in Positions /\ th.slot \in 1 .. CLUSTER_SIZE
      BY <1>1, <1>3, CallFields, ThreadFields
    <2> QED
      BY <2>1 DEF SlotOf, Slots, Top
  <1>7. TT[SlotOf(t)] \in Entries
    BY <1>6 DEF TypeOK
  <1>8. Going(th)
    BY DEF Going, Inside, Looking, Storing
  <1> QED
    BY <1>1, <1>2, <1>3, <1>4, <1>5, <1>6, <1>7, <1>8 DEF Top, Hi, Under

(* The table is left alone, and so are the other calls of the stack.       *)
LEMMA CallStep ==
    ASSUME NEW value, Valued(value), TypeOK, Good(value), NEW t \in Threads,
           thread[t].pc \in Inside, NEW new \in ThreadRecords, Go(t, new),
           ThreadGood(new, value, AsCaller(t[1])),
           KeepsWatch(thread[t], new, value, AsCaller(t[1])),
           UNCHANGED <<worth, TT, state>>
    PROVE  TypeOK' /\ Good(value)'
  <1>1. thread[t] \in ThreadRecords /\ Going(thread[t])
    BY InsideIs
  <1>2. EntriesTell(value)'
    BY DEF Good, EntriesTell
  <1>3. TT' \in [Slots -> Entries]
    BY DEF TypeOK
  <1> QED
    BY <1>1, <1>2, <1>3, StepKeeps

LEMMA PcStep ==
    ASSUME NEW value, Valued(value), TypeOK, Good(value), NEW t \in Threads,
           thread[t].pc \in Inside, NEW new \in ThreadRecords, Go(t, new),
           new.moves = thread[t].moves, new.move = thread[t].move,
           new.score = thread[t].score, new.best_score = thread[t].best_score,
           new.stack = thread[t].stack, new.pc \in Inside,
           Reached(new.pc, Top(t), value, Hi(t)),
           UNCHANGED <<worth, TT, state>>
    PROVE  TypeOK' /\ Good(value)'
  <1> DEFINE th == thread[t]
             c == AsCaller(t[1])
  <1>1. th \in ThreadRecords /\ ThreadGood(th, value, c) /\ Search(c) /\ Top(t) = th.stack[1]
    BY InsideIs
  <1>2. Reached(new.pc, th.stack[1], value, -Caller(th.stack, 1, c).alpha)
    BY <1>1 DEF Hi
  <1>3. ThreadGood(new, value, c) /\ KeepsWatch(th, new, value, c)
    BY <1>1, <1>2, SameCalls
  <1> QED
    BY <1>3, CallStep

(* What the steps of the table's loops make of a thread.                   *)
LEMMA ToIs ==
    ASSUME NEW th \in ThreadRecords, NEW pc \in Inside
    PROVE  LET new == [th EXCEPT !.pc = pc, !.slot = 1]
           IN /\ new \in ThreadRecords /\ new.pc = pc /\ new.stack = th.stack
              /\ new.moves = th.moves /\ new.move = th.move /\ new.score = th.score
              /\ new.best_score = th.best_score
  <1> DEFINE new == [th EXCEPT !.pc = pc, !.slot = 1]
  <1>1. 1 \in 1 .. CLUSTER_SIZE
    BY Tree
  <1>2. new \in ThreadRecords
    BY <1>1 DEF ThreadRecords
  <1> QED
    BY <1>2 DEF ThreadRecords

LEMMA PcIs ==
    ASSUME NEW th \in ThreadRecords, NEW pc \in Inside
    PROVE  LET new == [th EXCEPT !.pc = pc]
           IN /\ new \in ThreadRecords /\ new.pc = pc /\ new.stack = th.stack
              /\ new.moves = th.moves /\ new.move = th.move /\ new.score = th.score
              /\ new.best_score = th.best_score
  BY DEF ThreadRecords

LEMMA NextSlotIs ==
    ASSUME NEW th \in ThreadRecords, th.slot < CLUSTER_SIZE
    PROVE  LET new == [th EXCEPT !.slot = @ + 1]
           IN /\ new \in ThreadRecords /\ new.pc = th.pc /\ new.stack = th.stack
              /\ new.moves = th.moves /\ new.move = th.move /\ new.score = th.score
              /\ new.best_score = th.best_score
  <1> DEFINE s == th.slot + 1
             new == [th EXCEPT !.slot = s]
  <1>1. s \in 1 .. CLUSTER_SIZE
    BY ThreadFields, Tree
  <1> HIDE DEF s
  <1>2. /\ new \in ThreadRecords /\ new.pc = th.pc /\ new.stack = th.stack
        /\ new.moves = th.moves /\ new.move = th.move /\ new.score = th.score
        /\ new.best_score = th.best_score
    BY <1>1 DEF ThreadRecords
  <1> QED
    BY <1>2 DEF s

LEMMA ProbeGood ==
    ASSUME NEW value, Valued(value), TypeOK, Good(value), NEW t \in Threads, Probe(t)
    PROVE  TypeOK' /\ Good(value)'
  <1> DEFINE th == thread[t]
  <1>1. th.pc = "probe" /\ th.pc \in Inside /\ UNCHANGED <<worth, TT, state>>
    BY DEF Probe, Inside, Looking
  <1>2. th \in ThreadRecords /\ Top(t) \in Calls /\ Hi(t) \in Int
        /\ Reached(th.pc, Top(t), value, Hi(t))
    BY <1>1, InsideIs
  <1>3. Asked(Top(t), Hi(t))
    BY <1>1, <1>2 DEF Reached, Looking
  <1>4. Ready(Top(t), value[Top(t).depth][Top(t).pos], Hi(t))
    BY <1>2, <1>3, AskedIsReady
  <1>5. /\ Reached("depth", Top(t), value, Hi(t))
        /\ Reached("enter", Top(t), value, Hi(t))
    BY <1>3, <1>4 DEF Reached, Looking, Storing
  <1>6. "depth" \in Inside /\ "enter" \in Inside
    BY DEF Inside, Looking
  <1>7. CASE TT[SlotOf(t)].board = Top(t).pos
    <2> DEFINE new == [th EXCEPT !.pc = "depth"]
    <2>1. Go(t, new)
      BY <1>7 DEF Probe
    <2>2. /\ new \in ThreadRecords /\ new.pc = "depth" /\ new.stack = th.stack
          /\ new.moves = th.moves /\ new.move = th.move /\ new.score = th.score
          /\ new.best_score = th.best_score
      BY <1>2, <1>6, PcIs
    <2> HIDE DEF new
    <2> QED
      BY <1>1, <1>5, <1>6, <2>1, <2>2, PcStep
  <1>8. CASE TT[SlotOf(t)].board # Top(t).pos /\ th.slot < CLUSTER_SIZE
    <2> DEFINE new == [th EXCEPT !.slot = @ + 1]
    <2>1. Go(t, new)
      BY <1>8 DEF Probe, NextSlot
    <2>2. /\ new \in ThreadRecords /\ new.pc = th.pc /\ new.stack = th.stack
          /\ new.moves = th.moves /\ new.move = th.move /\ new.score = th.score
          /\ new.best_score = th.best_score
      BY <1>2, <1>8, NextSlotIs
    <2> HIDE DEF new
    <2> QED
      BY <1>1, <1>2, <2>1, <2>2, PcStep
  <1>9. CASE TT[SlotOf(t)].board # Top(t).pos /\ ~(th.slot < CLUSTER_SIZE)
    <2> DEFINE new == [th EXCEPT !.pc = "enter", !.slot = 1]
    <2>1. Go(t, new)
      BY <1>9 DEF Probe, To
    <2>2. /\ new \in ThreadRecords /\ new.pc = "enter" /\ new.stack = th.stack
          /\ new.moves = th.moves /\ new.move = th.move /\ new.score = th.score
          /\ new.best_score = th.best_score
      BY <1>2, <1>6, ToIs
    <2> HIDE DEF new
    <2> QED
      BY <1>1, <1>5, <1>6, <2>1, <2>2, PcStep
  <1> QED
    BY <1>7, <1>8, <1>9

LEMMA ReadDepthGood ==
    ASSUME NEW value, Valued(value), TypeOK, Good(value), NEW t \in Threads, ReadDepth(t)
    PROVE  TypeOK' /\ Good(value)'
  <1> DEFINE th == thread[t]
  <1>1. th.pc = "depth" /\ th.pc \in Inside /\ UNCHANGED <<worth, TT, state>>
    BY DEF ReadDepth, Inside, Looking
  <1>2. th \in ThreadRecords /\ Top(t) \in Calls /\ Hi(t) \in Int
        /\ Reached(th.pc, Top(t), value, Hi(t))
    BY <1>1, InsideIs
  <1>3. Asked(Top(t), Hi(t))
    BY <1>1, <1>2 DEF Reached, Looking
  <1>4. Ready(Top(t), value[Top(t).depth][Top(t).pos], Hi(t))
    BY <1>2, <1>3, AskedIsReady
  <1>5. /\ Reached("flag", Top(t), value, Hi(t))
        /\ Reached("enter", Top(t), value, Hi(t))
    BY <1>3, <1>4 DEF Reached, Looking, Storing
  <1>6. "flag" \in Inside /\ "enter" \in Inside
    BY DEF Inside, Looking
  <1>7. CASE TT[SlotOf(t)].depth >= Top(t).depth
    <2> DEFINE new == [th EXCEPT !.pc = "flag"]
    <2>1. Go(t, new)
      BY <1>7 DEF ReadDepth
    <2>2. /\ new \in ThreadRecords /\ new.pc = "flag" /\ new.stack = th.stack
          /\ new.moves = th.moves /\ new.move = th.move /\ new.score = th.score
          /\ new.best_score = th.best_score
      BY <1>2, <1>6, PcIs
    <2> HIDE DEF new
    <2> QED
      BY <1>1, <1>5, <1>6, <2>1, <2>2, PcStep
  <1>8. CASE ~(TT[SlotOf(t)].depth >= Top(t).depth)
    <2> DEFINE new == [th EXCEPT !.pc = "enter", !.slot = 1]
    <2>1. Go(t, new)
      BY <1>8 DEF ReadDepth, To
    <2>2. /\ new \in ThreadRecords /\ new.pc = "enter" /\ new.stack = th.stack
          /\ new.moves = th.moves /\ new.move = th.move /\ new.score = th.score
          /\ new.best_score = th.best_score
      BY <1>2, <1>6, ToIs
    <2> HIDE DEF new
    <2> QED
      BY <1>1, <1>5, <1>6, <2>1, <2>2, PcStep
  <1> QED
    BY <1>7, <1>8

LEMMA ReadFlagGood ==
    ASSUME NEW value, Valued(value), TypeOK, Good(value), NEW t \in Threads, ReadFlag(t)
    PROVE  TypeOK' /\ Good(value)'
  <1> DEFINE th == thread[t]
             flag == TT[SlotOf(t)].flag
             new == [th EXCEPT !.pc = "score", !.flag = flag]
  <1>1. th.pc = "flag" /\ th.pc \in Inside /\ UNCHANGED <<worth, TT, state>> /\ Go(t, new)
    BY DEF ReadFlag, Inside, Looking
  <1>2. th \in ThreadRecords /\ Top(t) \in Calls /\ Hi(t) \in Int
        /\ Reached(th.pc, Top(t), value, Hi(t)) /\ TT[SlotOf(t)] \in Entries
    BY <1>1, InsideIs
  <1>3. Reached("score", Top(t), value, Hi(t))
    BY <1>1, <1>2 DEF Reached, Looking, Storing
  <1>4. flag \in Flags
    BY <1>2 DEF Entries
  <1>5. "score" \in Inside
    BY DEF Inside, Looking
  <1> HIDE DEF flag
  <1>6. /\ new \in ThreadRecords /\ new.pc = "score" /\ new.stack = th.stack
        /\ new.moves = th.moves /\ new.move = th.move /\ new.score = th.score
        /\ new.best_score = th.best_score
    BY <1>2, <1>4, <1>5 DEF ThreadRecords
  <1> HIDE DEF new
  <1> QED
    BY <1>1, <1>3, <1>5, <1>6, PcStep

(* A call ends: with the table as it was, or with what it stored.          *)
LEMMA ReturnStep ==
    ASSUME NEW value, Valued(value), TypeOK, Good(value), NEW t \in Threads,
           thread[t].pc \in Inside, NEW score \in Int, Return(t, score),
           Answers(score, value[Top(t).depth][Top(t).pos], Top(t).original_alpha, Hi(t)),
           UNCHANGED <<worth, state>>, TT' \in [Slots -> Entries], EntriesTell(value)'
    PROVE  TypeOK' /\ Good(value)'
  <1> DEFINE th == thread[t]
             c == AsCaller(t[1])
             new == AfterReturn(th, score)
  <1>1. th \in ThreadRecords /\ ThreadGood(th, value, c) /\ Search(c) /\ Going(th)
        /\ Top(t) = th.stack[1]
    BY InsideIs
  <1>2. Answers(score, value[th.stack[1].depth][th.stack[1].pos],
                th.stack[1].original_alpha, -Caller(th.stack, 1, c).alpha)
    BY <1>1 DEF Hi
  <1>3. new \in ThreadRecords /\ ThreadGood(new, value, c) /\ KeepsWatch(th, new, value, c)
    BY <1>1, <1>2, ReturnGood
  <1>4. Go(t, new)
    BY ReturnIs
  <1> HIDE DEF new
  <1> QED
    BY <1>1, <1>3, <1>4, StepKeeps

LEMMA TableKept ==
    ASSUME NEW value, TypeOK, Good(value), UNCHANGED TT
    PROVE  TT' \in [Slots -> Entries] /\ EntriesTell(value)'
  BY DEF TypeOK, Good, EntriesTell

Windowed(th, alpha, beta) ==
    [th EXCEPT !.pc = "enter", !.slot = 1, !.stack[1].alpha = alpha, !.stack[1].beta = beta]

WithWindow(f, alpha, beta) == [f EXCEPT !.alpha = alpha, !.beta = beta]

Turned(th, q, g) == [th EXCEPT !.pc = "enter", !.slot = 1, !.stack = [q EXCEPT ![1] = g]]

LEMMA WindowIs ==
    ASSUME NEW th \in ThreadRecords, NEW q \in Seq(Calls), q = th.stack, q # <<>>,
           NEW alpha, NEW beta, NEW f \in Calls, f = q[1]
    PROVE  Windowed(th, alpha, beta) = Turned(th, q, WithWindow(f, alpha, beta))
  <1> DEFINE g == [f EXCEPT !.alpha = alpha]
             h == [f EXCEPT !.alpha = alpha, !.beta = beta]
             r == [q EXCEPT ![1] = g]
  <1>1. r[1] = g /\ h = [g EXCEPT !.beta = beta]
    OBVIOUS
  <1> HIDE DEF g, h
  <1>2. [r EXCEPT ![1] = h] = [q EXCEPT ![1] = h]
    OBVIOUS
  <1> HIDE DEF r
  <1> DEFINE x == [th EXCEPT !.pc = "enter", !.slot = 1, !.stack = r]
  <1>3. x = [th EXCEPT !.pc = "enter", !.slot = 1, !.stack[1].alpha = alpha]
    BY DEF ThreadRecords, r, g
  <1>4. x.stack = r
    BY DEF ThreadRecords
  <1>5. [x EXCEPT !.stack = [q EXCEPT ![1] = h]]
            = [th EXCEPT !.pc = "enter", !.slot = 1, !.stack = [q EXCEPT ![1] = h]]
    BY DEF ThreadRecords
  <1> HIDE DEF x
  <1>6. [x EXCEPT !.stack[1].beta = beta] = [x EXCEPT !.stack = [r EXCEPT ![1] = h]]
    BY <1>1, <1>4
  <1> QED
    BY <1>2, <1>3, <1>5, <1>6 DEF h, Windowed, Turned, WithWindow

LEMMA ReadScoreGood ==
    ASSUME NEW value, Valued(value), TypeOK, Good(value), NEW t \in Threads, ReadScore(t),
           UsesOwnEntries
    PROVE  TypeOK' /\ Good(value)'
  <1> DEFINE th == thread[t]
             f == Top(t)
             e == TT[SlotOf(t)]
             score == e.score
             flag == th.flag
             alpha == IF flag = "LOWER" THEN MAX(f.alpha, score) ELSE f.alpha
             beta == IF flag = "UPPER" THEN MIN(f.beta, score) ELSE f.beta
             g == AfterScore(f, flag, score)
             v == value[f.depth][f.pos]
             c == AsCaller(t[1])
             q == th.stack
             over == flag = "EXACT" \/ alpha >= beta
  <1>1. th.pc = "score" /\ th.pc \in Inside /\ UNCHANGED <<worth, TT, state>>
    BY DEF ReadScore, Inside, Looking
  <1>2. /\ th \in ThreadRecords /\ f \in Calls /\ Hi(t) \in Int /\ Search(c)
        /\ Reached(th.pc, f, value, Hi(t)) /\ e \in Entries /\ SlotOf(t) \in Slots
        /\ q \in Seq(Calls) /\ q # <<>> /\ Stacked(q, value, c) /\ f = q[1]
        /\ ThreadGood(th, value, c) /\ q[Len(q)].pos = th.move
    BY <1>1, InsideIs
  <1>3. Asked(f, Hi(t))
    BY <1>1, <1>2 DEF Reached, Looking
  <1>4. /\ score \in Int /\ flag \in Flags /\ v \in Int
        /\ f.pos \in Positions /\ f.depth \in Depths
    BY <1>2, CallFields, ThreadFields, ValueFields DEF Entries
  <1>5. Tells(flag, score, v)
    <2>1. e.board = f.pos /\ e.depth = f.depth /\ e.flag = flag
      BY <1>1 DEF UsesOwnEntries
    <2>2. e.board # None
      BY <1>4, <2>1, Tree
    <2>3. Tells(e.flag, e.score, value[e.depth][e.board])
      BY <1>2, <2>2 DEF Good, EntriesTell
    <2> QED
      BY <2>1, <2>3
  <1>6. IF over THEN Return(t, score)
        ELSE Go(t, [th EXCEPT !.pc = "enter", !.slot = 1,
                              !.stack[1].alpha = alpha, !.stack[1].beta = beta])
    BY DEF ReadScore
  <1>7. IF over THEN Answers(score, v, f.original_alpha, Hi(t))
        ELSE /\ g \in Calls /\ Ready(g, v, Hi(t)) /\ g.beta <= f.beta
             /\ g.pos = f.pos /\ g.depth = f.depth /\ g.original_alpha = f.original_alpha
    <2> HIDE DEF f, score, flag, v
    <2> QED
      BY <1>2, <1>3, <1>4, <1>5, AskedHears
  <1>8. CASE over
    <2> HIDE DEF over, score
    <2> QED
      BY <1>1, <1>2, <1>4, <1>6, <1>7, <1>8, TableKept, ReturnStep
  <1>9. CASE ~over
    <2> DEFINE r == [q EXCEPT ![1] = g]
               new == [th EXCEPT !.pc = "enter", !.slot = 1, !.stack = r]
    <2>1. Go(t, new)
      <3>1. Go(t, [th EXCEPT !.pc = "enter", !.slot = 1,
                             !.stack[1].alpha = alpha, !.stack[1].beta = beta])
        BY <1>6, <1>9
      <3>2. [th EXCEPT !.pc = "enter", !.slot = 1,
                       !.stack[1].alpha = alpha, !.stack[1].beta = beta] = new
        <4> HIDE DEF alpha, beta, q, f
        <4>1. g = WithWindow(f, alpha, beta)
          BY DEF AfterScore, WithWindow, alpha, beta
        <4>2. q = th.stack
          BY DEF q
        <4> HIDE DEF g, th
        <4>3. Windowed(th, alpha, beta) = Turned(th, q, g)
          BY <1>2, <4>1, <4>2, WindowIs
        <4> QED
          BY <4>3 DEF Windowed, Turned
      <3> QED
        BY <3>1, <3>2
    <2>2. /\ g \in Calls /\ Ready(g, v, Hi(t)) /\ g.beta <= f.beta
          /\ g.pos = f.pos /\ g.depth = f.depth /\ g.original_alpha = f.original_alpha
      BY <1>7, <1>9
    <2> HIDE DEF g
    <2>3. /\ r \in Seq(Calls) /\ r # <<>> /\ Len(r) = Len(q) /\ r[1] = g
          /\ r[Len(r)].pos = q[Len(q)].pos
          /\ Stacked(r, value, c)
          /\ Caller(r, 1, c) = Caller(q, 1, c)
      <3> HIDE DEF q, c
      <3> QED
        BY <1>2, <2>2, StackTurns
    <2> HIDE DEF r
    <2>4. "enter" \in Inside /\ 1 \in 1 .. CLUSTER_SIZE
      BY Tree DEF Inside
    <2>5. /\ new \in ThreadRecords /\ new.pc = "enter" /\ new.stack = r
          /\ new.moves = th.moves /\ new.move = th.move /\ new.score = th.score
          /\ new.best_score = th.best_score
      BY <1>2, <2>3, <2>4 DEF ThreadRecords
    <2> HIDE DEF new
    <2>6. Ready(g, value[g.depth][g.pos], Hi(t))
      BY <2>2
    <2>7. Reached("enter", g, value, Hi(t))
      BY <2>6 DEF Reached, Looking, Storing
    <2>8. Hi(t) = -Caller(r, 1, c).alpha
      BY <2>3 DEF Hi
    <2>9. ThreadGood(new, value, c) /\ KeepsWatch(th, new, value, c)
      BY <1>1, <1>2, <2>3, <2>4, <2>5, <2>7, <2>8, NewCalls
    <2> QED
      BY <1>1, <2>1, <2>5, <2>9, CallStep
  <1> QED
    BY <1>8, <1>9

LEMMA EnterGood ==
    ASSUME NEW value, Valued(value), TypeOK, Good(value), NEW t \in Threads, Enter(t)
    PROVE  TypeOK' /\ Good(value)'
  <1> DEFINE th == thread[t]
             f == Top(t)
             color == Side[f.pos]
             g == [f EXCEPT !.valid_moves = Moves[f.pos]]
             v == value[f.depth][f.pos]
             c == AsCaller(t[1])
             q == th.stack
  <1>1. th.pc = "enter" /\ th.pc \in Inside /\ UNCHANGED <<worth, TT, state>>
    BY DEF Enter, Inside
  <1>2. /\ th \in ThreadRecords /\ f \in Calls /\ Hi(t) \in Int /\ Search(c)
        /\ Reached(th.pc, f, value, Hi(t)) /\ f.original_alpha >= -INFINITY
        /\ q \in Seq(Calls) /\ q # <<>> /\ Stacked(q, value, c) /\ f = q[1]
        /\ ThreadGood(th, value, c) /\ q[Len(q)].pos = th.move
    BY <1>1, InsideIs
  <1>3. Ready(f, v, Hi(t))
    BY <1>1, <1>2 DEF Reached
  <1>4. /\ f.pos \in Positions /\ f.depth \in Depths /\ f.depth \in Nat /\ v \in Int
        /\ f.original_alpha \in Int /\ max_depth \in Nat /\ INFINITY \in Nat
    BY <1>2, CallFields, ValueFields, Tree
  <1>5. -INFINITY <= f.original_alpha
    BY <1>2, <1>4
  <1>6. /\ f.depth >= max_depth => v = evaluate(f.pos, color)
        /\ f.depth < max_depth /\ color \in Fallen[f.pos] => v = -INFINITY
        /\ f.depth < max_depth /\ color \notin Fallen[f.pos] /\ -color \in Fallen[f.pos] =>
               v = INFINITY
        /\ f.depth < max_depth /\ color \notin Fallen[f.pos] /\ -color \notin Fallen[f.pos] =>
               /\ g \in Calls /\ Open(g, value, Hi(t), {})
               /\ g.pos = f.pos /\ g.depth = f.depth
               /\ g.original_alpha = f.original_alpha /\ g.beta = f.beta
    <2> HIDE DEF f
    <2> QED
      BY <1>2, <1>3, <1>5, ReadyEnters
  <1>7. ASSUME Return(t, v)
        PROVE  TypeOK' /\ Good(value)'
    <2>1. Answers(v, v, f.original_alpha, Hi(t))
      BY <1>4, ExactAnswers
    <2> HIDE DEF v
    <2>2. Answers(v, value[Top(t).depth][Top(t).pos], Top(t).original_alpha, Hi(t))
      BY <2>1 DEF v
    <2> QED
      BY <1>1, <1>4, <1>7, <2>2, TableKept, ReturnStep
  <1>8. f.depth < max_depth <=> ~(f.depth >= max_depth)
    BY <1>4
  <1>9. CASE f.depth >= max_depth
    BY <1>6, <1>7, <1>9 DEF Enter
  <1>10. CASE f.depth < max_depth /\ color \in Fallen[f.pos]
    BY <1>6, <1>7, <1>8, <1>10 DEF Enter
  <1>11. CASE f.depth < max_depth /\ color \notin Fallen[f.pos] /\ -color \in Fallen[f.pos]
    BY <1>6, <1>7, <1>8, <1>11 DEF Enter
  <1>12. CASE f.depth < max_depth /\ color \notin Fallen[f.pos] /\ -color \notin Fallen[f.pos]
    <2> DEFINE r == [q EXCEPT ![1] = g]
               new == [th EXCEPT !.pc = "explore", !.stack = r]
    <2>1. Go(t, new)
      <3>1. Go(t, [th EXCEPT !.pc = "explore", !.stack[1].valid_moves = Moves[f.pos]])
        BY <1>8, <1>12 DEF Enter
      <3>2. [th EXCEPT !.pc = "explore", !.stack[1].valid_moves = Moves[f.pos]] = new
        BY <1>2 DEF ThreadRecords
      <3> QED
        BY <3>1, <3>2
    <2>2. /\ g \in Calls /\ Open(g, value, Hi(t), {})
          /\ g.pos = f.pos /\ g.depth = f.depth
          /\ g.original_alpha = f.original_alpha /\ g.beta = f.beta
      BY <1>6, <1>12
    <2> HIDE DEF g
    <2>3. /\ r \in Seq(Calls) /\ r # <<>> /\ Len(r) = Len(q) /\ r[1] = g
          /\ r[Len(r)].pos = q[Len(q)].pos
          /\ Stacked(r, value, c)
          /\ Caller(r, 1, c) = Caller(q, 1, c)
      <3>1. g.beta <= f.beta
        BY <1>2, <2>2, CallFields
      <3> HIDE DEF q, c
      <3> QED
        BY <1>2, <2>2, <3>1, StackTurns
    <2> HIDE DEF r
    <2>4. "explore" \in Inside
      BY DEF Inside
    <2>5. /\ new \in ThreadRecords /\ new.pc = "explore" /\ new.stack = r
          /\ new.moves = th.moves /\ new.move = th.move /\ new.score = th.score
          /\ new.best_score = th.best_score
      BY <1>2, <2>3, <2>4 DEF ThreadRecords
    <2> HIDE DEF new
    <2>6. Reached("explore", g, value, Hi(t))
      BY <2>2 DEF Reached, Looking, Storing
    <2>7. Hi(t) = -Caller(r, 1, c).alpha
      BY <2>3 DEF Hi
    <2>8. ThreadGood(new, value, c) /\ KeepsWatch(th, new, value, c)
      BY <1>1, <1>2, <2>3, <2>4, <2>5, <2>6, <2>7, NewCalls
    <2> QED
      BY <1>1, <2>1, <2>5, <2>8, CallStep
  <1> QED
    BY <1>4, <1>9, <1>10, <1>11, <1>12

LEMMA ExploreGood ==
    ASSUME NEW value, Valued(value), TypeOK, Good(value), NEW t \in Threads, Explore(t)
    PROVE  TypeOK' /\ Good(value)'
  <1> DEFINE th == thread[t]
             f == Top(t)
             c == AsCaller(t[1])
             q == th.stack
             over == f.valid_moves = <<>> \/ f.alpha >= f.beta
  <1>1. th.pc = "explore" /\ th.pc \in Inside /\ UNCHANGED <<worth, TT, state>>
    BY DEF Explore, Inside
  <1>2. /\ th \in ThreadRecords /\ f \in Calls /\ Hi(t) \in Int /\ Search(c)
        /\ Reached(th.pc, f, value, Hi(t))
        /\ f.original_alpha >= -INFINITY /\ f.beta <= INFINITY
        /\ q \in Seq(Calls) /\ q # <<>> /\ Stacked(q, value, c) /\ f = q[1]
        /\ ThreadGood(th, value, c) /\ q[Len(q)].pos = th.move
    BY <1>1, InsideIs
  <1>3. Open(f, value, Hi(t), {})
    BY <1>1, <1>2 DEF Reached
  <1>4. /\ f.alpha \in Int /\ f.beta \in Int /\ f.original_alpha \in Int /\ INFINITY \in Nat
    BY <1>2, CallFields, Tree
  <1>5. CASE over
    <2> DEFINE new == [th EXCEPT !.pc = "update", !.slot = 1]
    <2>1. Go(t, new)
      BY <1>5 DEF Explore, To
    <2>2. "update" \in Inside
      BY DEF Inside, Storing
    <2>3. /\ new \in ThreadRecords /\ new.pc = "update" /\ new.stack = th.stack
          /\ new.moves = th.moves /\ new.move = th.move /\ new.score = th.score
          /\ new.best_score = th.best_score
      BY <1>2, <2>2, ToIs
    <2> HIDE DEF new
    <2>4. Reached("update", f, value, Hi(t))
      BY <1>3, <1>5 DEF Reached, Looking
    <2> QED
      BY <1>1, <2>1, <2>2, <2>3, <2>4, PcStep
  <1>6. CASE ~over
    <2> DEFINE m == Taken(f.valid_moves)
               g == [f EXCEPT !.valid_moves = Left(@)]
               k == Call(m, f.depth + 1, -f.beta, -f.alpha)
               r == Pushed(q, k, g)
    <2>1. Go(t, [th EXCEPT !.pc = "probe", !.slot = 1, !.stack = r])
      BY <1>6 DEF Explore, Pushed
    <2>2. f.valid_moves # <<>> /\ f.alpha < f.beta /\ -INFINITY <= f.original_alpha
      BY <1>2, <1>4, <1>6
    <2>3. /\ g \in Calls /\ Open(g, value, Hi(t), {m}) /\ g.alpha < g.beta
          /\ g.pos = f.pos /\ g.depth = f.depth /\ g.beta = f.beta
          /\ g.alpha = f.alpha /\ g.original_alpha = f.original_alpha
          /\ k \in Calls /\ Under(k, g) /\ Asked(k, -g.alpha) /\ k.pos = m
      <3> HIDE DEF f
      <3> QED
        BY <1>2, <1>3, <2>2, OpenCalls
    <2> HIDE DEF m, g, k
    <2>4. Open(g, value, -Caller(q, 1, c).alpha, {k.pos})
      BY <2>3 DEF Hi
    <2>5. /\ r \in Seq(Calls) /\ r # <<>> /\ r[1] = k
          /\ r[Len(r)].pos = q[Len(q)].pos
          /\ Stacked(r, value, c)
          /\ Caller(r, 1, c) = g
      <3>1. /\ g.pos = q[1].pos /\ g.depth = q[1].depth /\ g.beta = q[1].beta
            /\ g.alpha = q[1].alpha /\ g.original_alpha = q[1].original_alpha
        BY <1>2, <2>3
      <3>2. q \in Seq(Calls) /\ q # <<>> /\ Stacked(q, value, c)
        BY <1>2
      <3>3. g \in Calls /\ k \in Calls /\ Under(k, g) /\ g.alpha < g.beta
        BY <2>3
      <3> HIDE DEF q, c, f, r
      <3>4. Grown(q, r, k, g, value, c)
        BY <2>4, <3>1, <3>2, <3>3, StackGrows DEF r
      <3> QED
        BY <3>4 DEF Grown
    <2> HIDE DEF r
    <2> DEFINE now == [th EXCEPT !.pc = "probe", !.slot = 1, !.stack = r]
    <2>6. "probe" \in Inside /\ "probe" \in Looking /\ 1 \in 1 .. CLUSTER_SIZE
      BY Tree DEF Inside, Looking
    <2>7. /\ now \in ThreadRecords /\ now.pc = "probe" /\ now.stack = r
          /\ now.moves = th.moves /\ now.move = th.move /\ now.score = th.score
          /\ now.best_score = th.best_score
      BY <1>2, <2>5, <2>6 DEF ThreadRecords
    <2> HIDE DEF now
    <2>8. Reached("probe", k, value, -g.alpha)
      BY <2>3 DEF Reached, Looking, Storing
    <2>9. ThreadGood(now, value, c) /\ KeepsWatch(th, now, value, c)
      BY <1>1, <1>2, <2>5, <2>6, <2>7, <2>8, NewCalls
    <2> QED
      BY <1>1, <2>1, <2>7, <2>9, CallStep DEF now
  <1> QED
    BY <1>5, <1>6

-----------------------------------------------------------------------------
(* What a call stores.                                                     *)
LEMMA Stores ==
    ASSUME NEW value, Valued(value), TypeOK, Good(value), NEW t \in Threads,
           thread[t].pc \in Storing
    PROVE  /\ thread[t].pc \in Inside
           /\ thread[t] \in ThreadRecords /\ Top(t) \in Calls
           /\ SlotOf(t) \in Slots /\ Hi(t) \in Int
           /\ NewEntry(Top(t)) \in Entries
           /\ LET e == NewEntry(Top(t)) IN Tells(e.flag, e.score, value[e.depth][e.board])
           /\ Answers(Top(t).best_score, value[Top(t).depth][Top(t).pos],
                      Top(t).original_alpha, Hi(t))
           /\ Top(t).best_score \in Int
           /\ \A pc \in Storing : Reached(pc, Top(t), value, Hi(t))
  <1> DEFINE f == Top(t)
             e == NewEntry(f)
  <1>1. thread[t].pc \in Inside
    BY DEF Inside
  <1>2. /\ thread[t] \in ThreadRecords /\ f \in Calls /\ Hi(t) \in Int
        /\ SlotOf(t) \in Slots /\ Reached(thread[t].pc, f, value, Hi(t))
    BY <1>1, InsideIs
  <1>3. Open(f, value, Hi(t), {}) /\ (f.valid_moves = <<>> \/ f.alpha >= f.beta)
    BY <1>2 DEF Reached
  <1>4. /\ Tells(FlagOf(f), f.best_score, value[f.depth][f.pos])
        /\ Answers(f.best_score, value[f.depth][f.pos], f.original_alpha, Hi(t))
    <2> HIDE DEF f
    <2> QED
      BY <1>2, <1>3, OpenAnswers
  <1>5. /\ f.pos \in Positions /\ f.best_score \in Int /\ f.depth \in 0 .. max_depth
    BY <1>2, CallFields DEF Depths
  <1>6. FlagOf(f) \in Flags
    BY DEF FlagOf, Flags
  <1> HIDE DEF f
  <1>7. /\ e \in Entries /\ e.flag = FlagOf(f) /\ e.score = f.best_score
        /\ e.depth = f.depth /\ e.board = f.pos
    BY <1>5, <1>6 DEF NewEntry, Entries
  <1>8. \A pc \in Storing : Reached(pc, f, value, Hi(t))
    BY <1>3 DEF Reached, Storing, Looking
  <1> HIDE DEF e
  <1>9. Tells(e.flag, e.score, value[e.depth][e.board])
    BY <1>4, <1>7
  <1> QED
    BY <1>1, <1>2, <1>4, <1>5, <1>7, <1>8, <1>9 DEF f, e

LEMMA TableTells ==
    ASSUME NEW value, TypeOK, Good(value), NEW x \in Slots, NEW e \in Entries,
           e.board # None => Tells(e.flag, e.score, value[e.depth][e.board]),
           TT' = [TT EXCEPT ![x] = e]
    PROVE  TT' \in [Slots -> Entries] /\ EntriesTell(value)'
  <1>1. TT \in [Slots -> Entries] /\ EntriesTell(value)
    BY DEF TypeOK, Good
  <1>2. TT' \in [Slots -> Entries]
    BY <1>1
  <1>3. ASSUME NEW y \in Slots, TT'[y].board # None
        PROVE  Tells(TT'[y].flag, TT'[y].score, value[TT'[y].depth][TT'[y].board])
    <2>1. CASE y = x
      BY <1>1, <1>3, <2>1
    <2>2. CASE y # x
      <3>1. TT'[y] = TT[y]
        BY <1>1, <2>2
      <3> QED
        BY <1>1, <1>3, <3>1 DEF EntriesTell
    <2> QED
      BY <2>1, <2>2
  <1> QED
    BY <1>2, <1>3 DEF EntriesTell

LEMMA StoreUpdateGood ==
    ASSUME NEW value, Valued(value), TypeOK, Good(value), NEW t \in Threads, StoreUpdate(t)
    PROVE  TypeOK' /\ Good(value)'
  <1> DEFINE th == thread[t]
             f == Top(t)
             x == SlotOf(t)
             e == NewEntry(f)
  <1>1. th.pc = "update" /\ th.pc \in Storing /\ UNCHANGED <<worth, state>>
    BY DEF StoreUpdate, Storing
  <1>2. /\ th.pc \in Inside /\ th \in ThreadRecords /\ x \in Slots /\ e \in Entries
        /\ Tells(e.flag, e.score, value[e.depth][e.board])
        /\ Answers(f.best_score, value[f.depth][f.pos], f.original_alpha, Hi(t))
        /\ f.best_score \in Int
        /\ \A pc \in Storing : Reached(pc, f, value, Hi(t))
    BY <1>1, Stores
  <1>3. "update" \in Inside /\ "insert" \in Inside /\ "insert" \in Storing
    BY DEF Inside, Storing
  <1>4. CASE TT[x].board = f.pos
    <2>1. Return(t, f.best_score)
      BY <1>4 DEF StoreUpdate
    <2>2. TT' = [TT EXCEPT ![x] = e] \/ TT' = TT
      BY <1>4 DEF StoreUpdate
    <2>3. TT' \in [Slots -> Entries] /\ EntriesTell(value)'
      <3> HIDE DEF x, e
      <3> QED
        BY <1>2, <2>2, TableKept, TableTells
    <2> QED
      BY <1>1, <1>2, <2>1, <2>3, ReturnStep
  <1>5. CASE TT[x].board # f.pos /\ th.slot < CLUSTER_SIZE
    <2> DEFINE new == [th EXCEPT !.slot = @ + 1]
    <2>1. Go(t, new) /\ UNCHANGED TT
      BY <1>5 DEF StoreUpdate, NextSlot
    <2>2. /\ new \in ThreadRecords /\ new.pc = th.pc /\ new.stack = th.stack
          /\ new.moves = th.moves /\ new.move = th.move /\ new.score = th.score
          /\ new.best_score = th.best_score
      BY <1>2, <1>5, NextSlotIs
    <2> HIDE DEF new
    <2> QED
      BY <1>1, <1>2, <2>1, <2>2, PcStep
  <1>6. CASE TT[x].board # f.pos /\ ~(th.slot < CLUSTER_SIZE)
    <2> DEFINE new == [th EXCEPT !.pc = "insert", !.slot = 1]
    <2>1. Go(t, new) /\ UNCHANGED TT
      BY <1>6 DEF StoreUpdate, To
    <2>2. /\ new \in ThreadRecords /\ new.pc = "insert" /\ new.stack = th.stack
          /\ new.moves = th.moves /\ new.move = th.move /\ new.score = th.score
          /\ new.best_score = th.best_score
      BY <1>2, <1>3, ToIs
    <2> HIDE DEF new
    <2> QED
      BY <1>1, <1>2, <1>3, <2>1, <2>2, PcStep
  <1> QED
    BY <1>4, <1>5, <1>6

LEMMA StoreInsertGood ==
    ASSUME NEW value, Valued(value), TypeOK, Good(value), NEW t \in Threads, StoreInsert(t)
    PROVE  TypeOK' /\ Good(value)'
  <1> DEFINE th == thread[t]
             f == Top(t)
             x == SlotOf(t)
             e == NewEntry(f)
  <1>1. th.pc = "insert" /\ th.pc \in Storing /\ UNCHANGED <<worth, state>>
    BY DEF StoreInsert, Storing
  <1>2. /\ th.pc \in Inside /\ th \in ThreadRecords /\ x \in Slots /\ e \in Entries
        /\ Tells(e.flag, e.score, value[e.depth][e.board])
        /\ Answers(f.best_score, value[f.depth][f.pos], f.original_alpha, Hi(t))
        /\ f.best_score \in Int
        /\ \A pc \in Storing : Reached(pc, f, value, Hi(t))
    BY <1>1, Stores
  <1>3. "worst" \in Inside /\ "worst" \in Storing
    BY DEF Inside, Storing
  <1>4. CASE TT[x].board = None
    <2>1. Return(t, f.best_score) /\ TT' = [TT EXCEPT ![x] = e]
      BY <1>4 DEF StoreInsert
    <2>2. TT' \in [Slots -> Entries] /\ EntriesTell(value)'
      <3> HIDE DEF x, e
      <3> QED
        BY <1>2, <2>1, TableTells
    <2> QED
      BY <1>1, <1>2, <2>1, <2>2, ReturnStep
  <1>5. CASE TT[x].board # None /\ th.slot < CLUSTER_SIZE
    <2> DEFINE new == [th EXCEPT !.slot = @ + 1]
    <2>1. Go(t, new) /\ UNCHANGED TT
      BY <1>5 DEF StoreInsert, NextSlot
    <2>2. /\ new \in ThreadRecords /\ new.pc = th.pc /\ new.stack = th.stack
          /\ new.moves = th.moves /\ new.move = th.move /\ new.score = th.score
          /\ new.best_score = th.best_score
      BY <1>2, <1>5, NextSlotIs
    <2> HIDE DEF new
    <2> QED
      BY <1>1, <1>2, <2>1, <2>2, PcStep
  <1>6. CASE TT[x].board # None /\ ~(th.slot < CLUSTER_SIZE)
    <2> DEFINE new == [th EXCEPT !.pc = "worst", !.slot = 1]
    <2>1. Go(t, new) /\ UNCHANGED TT
      BY <1>6 DEF StoreInsert, To
    <2>2. /\ new \in ThreadRecords /\ new.pc = "worst" /\ new.stack = th.stack
          /\ new.moves = th.moves /\ new.move = th.move /\ new.score = th.score
          /\ new.best_score = th.best_score
      BY <1>2, <1>3, ToIs
    <2> HIDE DEF new
    <2> QED
      BY <1>1, <1>2, <1>3, <2>1, <2>2, PcStep
  <1> QED
    BY <1>4, <1>5, <1>6

LEMMA FindWorstGood ==
    ASSUME NEW value, Valued(value), TypeOK, Good(value), NEW t \in Threads, FindWorst(t)
    PROVE  TypeOK' /\ Good(value)'
  <1> DEFINE th == thread[t]
             depth == TT[SlotOf(t)].depth
             lower == th.slot = 1 \/ depth < th.depth
             worst == IF lower THEN th.slot ELSE th.worst
             least == IF lower THEN depth ELSE th.depth
             found == [th EXCEPT !.worst = worst, !.depth = least]
  <1>1. th.pc = "worst" /\ th.pc \in Storing /\ UNCHANGED <<worth, TT, state>>
    BY DEF FindWorst, Storing
  <1>2. /\ th.pc \in Inside /\ th \in ThreadRecords
        /\ \A pc \in Storing : Reached(pc, Top(t), value, Hi(t))
    BY <1>1, Stores
  <1>3. "clean" \in Inside /\ "clean" \in Storing
    BY DEF Inside, Storing
  <1>4. worst \in 1 .. CLUSTER_SIZE /\ least \in Int
    <2>1. TT[SlotOf(t)] \in Entries
      BY <1>2, InsideIs
    <2>2. depth \in Int
      BY <2>1, Tree DEF Entries
    <2> HIDE DEF depth
    <2> QED
      BY <1>2, <2>2, ThreadFields
  <1>5. Go(t, IF th.slot < CLUSTER_SIZE THEN [found EXCEPT !.slot = @ + 1]
              ELSE [found EXCEPT !.pc = "clean", !.slot = found.worst])
    BY DEF FindWorst
  <1> HIDE DEF worst, least
  <1>6. /\ found \in ThreadRecords /\ found.pc = th.pc /\ found.stack = th.stack
        /\ found.moves = th.moves /\ found.move = th.move /\ found.score = th.score
        /\ found.best_score = th.best_score /\ found.slot = th.slot /\ found.worst = worst
    BY <1>2, <1>4 DEF ThreadRecords
  <1> HIDE DEF found
  <1>7. CASE th.slot < CLUSTER_SIZE
    <2> DEFINE new == [found EXCEPT !.slot = @ + 1]
    <2>1. Go(t, new)
      BY <1>5, <1>7
    <2>2. /\ new \in ThreadRecords /\ new.pc = th.pc /\ new.stack = th.stack
          /\ new.moves = th.moves /\ new.move = th.move /\ new.score = th.score
          /\ new.best_score = th.best_score
      BY <1>6, <1>7, NextSlotIs
    <2> HIDE DEF new
    <2> QED
      BY <1>1, <1>2, <2>1, <2>2, PcStep
  <1>8. CASE ~(th.slot < CLUSTER_SIZE)
    <2> DEFINE new == [found EXCEPT !.pc = "clean", !.slot = found.worst]
    <2>1. Go(t, new)
      BY <1>5, <1>8
    <2>2. /\ new \in ThreadRecords /\ new.pc = "clean" /\ new.stack = th.stack
          /\ new.moves = th.moves /\ new.move = th.move /\ new.score = th.score
          /\ new.best_score = th.best_score
      BY <1>3, <1>4, <1>6 DEF ThreadRecords
    <2> HIDE DEF new
    <2> QED
      BY <1>1, <1>2, <1>3, <2>1, <2>2, PcStep
  <1> QED
    BY <1>7, <1>8

LEMMA CleanWorstGood ==
    ASSUME NEW value, Valued(value), TypeOK, Good(value), NEW t \in Threads, CleanWorst(t)
    PROVE  TypeOK' /\ Good(value)'
  <1> DEFINE th == thread[t]
             c == AsCaller(t[1])
             new == [th EXCEPT !.pc = "replace"]
             x == SlotOf(t)
  <1>1. /\ th.pc = "clean" /\ th.pc \in Storing /\ UNCHANGED <<worth, state>> /\ Go(t, new)
        /\ TT' = [TT EXCEPT ![x] = Cleaned]
    BY DEF CleanWorst, Storing
  <1>2. /\ th.pc \in Inside /\ th \in ThreadRecords /\ x \in Slots
        /\ \A pc \in Storing : Reached(pc, Top(t), value, Hi(t))
    BY <1>1, Stores
  <1>3. ThreadGood(th, value, c) /\ Going(th) /\ Top(t) = th.stack[1]
    BY <1>2, InsideIs
  <1>4. "replace" \in Inside /\ "replace" \in Storing
    BY DEF Inside, Storing
  <1>5. /\ new \in ThreadRecords /\ new.pc = "replace" /\ new.stack = th.stack
        /\ new.moves = th.moves /\ new.move = th.move /\ new.score = th.score
        /\ new.best_score = th.best_score
    BY <1>2, <1>4, PcIs
  <1> HIDE DEF new
  <1>6. Reached(new.pc, th.stack[1], value, -Caller(th.stack, 1, c).alpha)
    BY <1>2, <1>3, <1>4, <1>5 DEF Hi
  <1>7. ThreadGood(new, value, c) /\ KeepsWatch(th, new, value, c)
    BY <1>2, <1>3, <1>4, <1>5, <1>6, SameCalls
  <1>8. Cleaned \in Entries /\ Cleaned.board = None
    BY Tree DEF Cleaned, Entries, Flags
  <1>9. TT' \in [Slots -> Entries] /\ EntriesTell(value)'
    <2> HIDE DEF x
    <2> QED
      BY <1>1, <1>2, <1>8, TableTells
  <1> QED
    BY <1>1, <1>2, <1>3, <1>5, <1>7, <1>9, StepKeeps

LEMMA StoreReplaceGood ==
    ASSUME NEW value, Valued(value), TypeOK, Good(value), NEW t \in Threads, StoreReplace(t)
    PROVE  TypeOK' /\ Good(value)'
  <1> DEFINE th == thread[t]
             f == Top(t)
             x == SlotOf(t)
             e == NewEntry(f)
  <1>1. /\ th.pc \in Storing /\ UNCHANGED <<worth, state>>
        /\ Return(t, f.best_score) /\ TT' = [TT EXCEPT ![x] = e]
    BY DEF StoreReplace, Storing
  <1>2. /\ th.pc \in Inside /\ x \in Slots /\ e \in Entries
        /\ Tells(e.flag, e.score, value[e.depth][e.board])
        /\ Answers(f.best_score, value[f.depth][f.pos], f.original_alpha, Hi(t))
        /\ f.best_score \in Int
    BY <1>1, Stores
  <1>3. TT' \in [Slots -> Entries] /\ EntriesTell(value)'
    <2> HIDE DEF x, e
    <2> QED
      BY <1>1, <1>2, TableTells
  <1> QED
    BY <1>1, <1>2, <1>3, ReturnStep

-----------------------------------------------------------------------------
(* The loop of a thread, and its search.                                   *)
LEMMA FirstOf ==
    ASSUME NEW moves \in Seq(Positions), moves # <<>>
    PROVE  /\ moves[1] \in Positions /\ Tail(moves) \in Seq(Positions)
           /\ Elements(moves) = {moves[1]} \cup Elements(Tail(moves))
  <1> DEFINE n == Len(moves)
             l == Tail(moves)
  <1>1. n \in Nat /\ n >= 1 /\ DOMAIN moves = 1 .. n /\ moves[1] \in Positions
    OBVIOUS
  <1>2. /\ l \in Seq(Positions) /\ DOMAIN l = 1 .. n - 1
        /\ \A i \in 1 .. n - 1 : l[i] = moves[i + 1]
    <2>1. l \in Seq(Positions) /\ Len(l) = n - 1
      OBVIOUS
    <2>2. DOMAIN l = 1 .. Len(l)
      BY <2>1
    <2> QED
      BY <2>1, <2>2
  <1> HIDE DEF n, l
  <1>3. ASSUME NEW i \in 1 .. n
        PROVE  moves[i] = moves[1] \/ \E j \in 1 .. n - 1 : l[j] = moves[i]
    <2>1. CASE i = 1
      BY <2>1
    <2>2. CASE i # 1
      <3>1. i - 1 \in 1 .. n - 1 /\ (i - 1) + 1 = i
        BY <1>1, <2>2
      <3> QED
        BY <1>2, <3>1
    <2> QED
      BY <2>1, <2>2
  <1>4. ASSUME NEW j \in 1 .. n - 1
        PROVE  \E i \in 1 .. n : l[j] = moves[i]
    <2>1. j + 1 \in 1 .. n
      BY <1>1
    <2> QED
      BY <1>2, <2>1
  <1>5. 1 \in 1 .. n
    BY <1>1
  <1>6. Elements(moves) = {moves[1]} \cup Elements(l)
    <2>1. Elements(moves) \subseteq {moves[1]} \cup Elements(l)
      <3> SUFFICES ASSUME NEW i \in 1 .. n, moves[i] # moves[1] PROVE moves[i] \in Elements(l)
        BY <1>1, Zenon DEF Elements
      <3> QED
        BY <1>2, <1>3, Zenon DEF Elements
    <2>2. moves[1] \in Elements(moves)
      BY <1>1, <1>5, Zenon DEF Elements
    <2>3. Elements(l) \subseteq Elements(moves)
      <3> SUFFICES ASSUME NEW j \in 1 .. n - 1 PROVE l[j] \in Elements(moves)
        BY <1>2, Zenon DEF Elements
      <3> QED
        BY <1>1, <1>4, Zenon DEF Elements
    <2> QED
      BY <2>1, <2>2, <2>3
  <1> QED
    BY <1>1, <1>2, <1>6 DEF l

LEMMA NextMoveGood ==
    ASSUME NEW value, Valued(value), TypeOK, Good(value), NEW t \in Threads, NextMove(t)
    PROVE  TypeOK' /\ Good(value)'
  <1> DEFINE th == thread[t]
             s == state[t[1]]
             c == AsCaller(t[1])
             over == th.moves = <<>> \/ s.alpha >= s.beta
  <1>1. th.pc = "next" /\ UNCHANGED <<worth, TT, state>> /\ th.pc \notin Inside
        /\ Going(th)
    BY DEF NextMove, Inside, Looking, Storing, Going
  <1>2. /\ th \in ThreadRecords /\ Search(c) /\ ThreadGood(th, value, c)
        /\ t[1] \in Searches /\ s.alpha \in Int /\ INFINITY \in Nat
    BY StateFields, IsSearch, Tree DEF Good
  <1>3. /\ th.moves \in Seq(Positions) /\ th.stack = <<>> /\ th.score = th.best_score
        /\ th.best_score <= c.alpha /\ th.best_score >= -INFINITY
        /\ Elements(th.moves) \subseteq Replies(c.pos)
    BY <1>1, <1>2, ThreadFields DEF ThreadGood
  <1>4. s.beta = INFINITY /\ s.alpha >= -INFINITY
    <2>1. s.status = "searching"
      BY <1>1, IsSearching
    <2>2. Running(t[1], value)
      BY <1>2, <2>1 DEF Good, SearchGood
    <2> QED
      BY <2>2 DEF Running
  <1>5. c.pos = Root[t[1]] /\ c.depth = 0 /\ c.alpha = s.alpha /\ c.beta = INFINITY
    BY AsCallerIs
  <1>6. TT' \in [Slots -> Entries] /\ EntriesTell(value)'
    BY <1>1, TableKept
  <1> HIDE DEF c, s
  <1>7. CASE over
    <2> DEFINE new == [th EXCEPT !.pc = "done"]
    <2>1. Go(t, new)
      BY <1>7 DEF NextMove, s
    <2>2. /\ new \in ThreadRecords /\ new.pc = "done" /\ new.stack = <<>>
          /\ new.moves = th.moves /\ new.move = th.move /\ new.score = th.score
          /\ new.best_score = th.best_score
      BY <1>2, <1>3 DEF ThreadRecords
    <2> HIDE DEF new
    <2>3. Stacked(new.stack, value, c)
      BY <2>2 DEF Stacked
    <2>4. ThreadGood(new, value, c)
      BY <1>3, <1>4, <1>5, <1>7, <2>2, <2>3 DEF ThreadGood, Inside, Looking, Storing
    <2>5. ASSUME NEW m \in Replies(c.pos), Expects(th, m, value)
          PROVE  -value[start_depth][m] <= c.alpha
      <3>1. m \in Elements(th.moves)
        BY <1>1, <1>3, <2>5 DEF Expects
      <3>2. th.moves # <<>>
        BY <3>1 DEF Elements
      <3>3. c.alpha >= INFINITY
        BY <1>4, <1>5, <1>7, <3>2
      <3>4. m \in Positions /\ start_depth \in Depths
        BY <1>2, RepliesArePositions, Tree DEF Search, start_depth, Depths
      <3>5. value[start_depth][m] \in Int /\ -INFINITY <= value[start_depth][m]
        BY <3>4, ValueFields
      <3> QED
        BY <1>2, <1>5, <3>3, <3>5
    <2>6. KeepsWatch(th, new, value, c)
      BY <2>5 DEF KeepsWatch
    <2> QED
      BY <1>1, <1>2, <1>6, <2>1, <2>2, <2>4, <2>6, StepKeeps DEF c
  <1>8. CASE ~over
    <2> DEFINE m == th.moves[1]
               k == Call(m, start_depth, -s.beta, -s.alpha)
               r == <<k>>
               l == Tail(th.moves)
               new == [th EXCEPT !.pc = "probe", !.slot = 1, !.move = m, !.moves = l, !.stack = r]
    <2>1. Go(t, new)
      BY <1>8 DEF NextMove, s
    <2>2. th.moves # <<>> /\ s.alpha < INFINITY
      BY <1>2, <1>4, <1>8
    <2>3. /\ m \in Positions /\ l \in Seq(Positions)
          /\ Elements(th.moves) = {m} \cup Elements(l)
      BY <1>3, <2>2, FirstOf
    <2> HIDE DEF m, l
    <2>4. 1 \in 1 .. max_depth /\ 1 \in 1 .. CLUSTER_SIZE
      BY Tree
    <2>5. /\ k \in Calls /\ k.pos = m /\ k.depth = 1 /\ k.alpha = -INFINITY
          /\ k.beta = -s.alpha /\ k.original_alpha = -INFINITY /\ k.best_score = -INFINITY
      BY <1>2, <1>4, <2>3, <2>4 DEF Call, Calls, start_depth
    <2> HIDE DEF k
    <2>6. r \in Seq(Calls) /\ Len(r) = 1 /\ r[1] = k /\ r # <<>>
      BY <2>5
    <2> HIDE DEF r
    <2>7. Caller(r, 1, c) = c
      BY <2>6 DEF Caller
    <2>8. Under(k, c)
      BY <1>2, <1>3, <1>4, <1>5, <2>2, <2>3, <2>5 DEF Under
    <2>9. Stacked(r, value, c)
      BY <2>6, <2>7, <2>8 DEF Stacked
    <2>10. Asked(k, -c.alpha)
      BY <1>2, <1>5, <2>2, <2>5 DEF Asked
    <2>11. Reached("probe", k, value, -c.alpha)
      BY <2>10 DEF Reached, Looking, Storing
    <2>12. "probe" \in Inside
      BY DEF Inside, Looking
    <2>13. /\ new \in ThreadRecords /\ new.pc = "probe" /\ new.stack = r
           /\ new.moves = l /\ new.move = m /\ new.score = th.score
           /\ new.best_score = th.best_score
      BY <1>2, <2>3, <2>4, <2>6, <2>12 DEF ThreadRecords
    <2> HIDE DEF new
    <2>14. ThreadGood(new, value, c)
      BY <1>3, <2>3, <2>5, <2>6, <2>7, <2>9, <2>11, <2>12, <2>13 DEF ThreadGood
    <2>15. KeepsWatch(th, new, value, c)
      BY <1>1, <1>3, <2>3, <2>6, <2>13 DEF KeepsWatch, Expects
    <2> QED
      BY <1>1, <1>2, <1>6, <2>1, <2>13, <2>14, <2>15, StepKeeps DEF c
  <1> QED
    BY <1>7, <1>8

LEMMA ReportBestGood ==
    ASSUME NEW value, Valued(value), TypeOK, Good(value), NEW t \in Threads, ReportBest(t)
    PROVE  TypeOK' /\ Good(value)'
  <1> DEFINE th == thread[t]
             s == t[1]
             old == state[s]
             now == state'[s]
             c == AsCaller(s)
             best == th.best_score
             new == [th EXCEPT !.pc = "next", !.slot = 1]
  <1>1. /\ th.pc = "report" /\ th.pc \notin Inside /\ Going(th) /\ UNCHANGED <<worth, TT>>
        /\ Go(t, new)
    BY DEF ReportBest, Inside, Looking, Storing, Going, To
  <1>2. /\ th \in ThreadRecords /\ Search(c) /\ ThreadGood(th, value, c)
        /\ s \in Searches /\ old \in SearchRecords /\ INFINITY \in Nat
        /\ best \in Int /\ th.move \in Positions \cup {None}
    BY StateFields, ThreadFields, IsSearch, Tree DEF Good
  <1>3. /\ old.status = "searching" /\ Running(s, value)
    BY <1>1, <1>2, IsSearching DEF Good, SearchGood
  <1>4. /\ old.alpha \in Int /\ old.best_score \in Int /\ old.alpha >= -INFINITY
        /\ old.beta = INFINITY /\ old.best_move \in Replies(Root[s])
        /\ \/ old.best_score = old.alpha /\ -value[start_depth][old.best_move] >= old.best_score
           \/ old.best_score = -INFINITY - 1 /\ old.alpha = -INFINITY
    BY <1>2, <1>3 DEF Running, SearchRecords
  <1>5. c.pos = Root[s] /\ c.alpha = old.alpha
    BY AsCallerIs
  <1>6. /\ th.stack = <<>> /\ th.score = best /\ best > -INFINITY
        /\ Elements(th.moves) \subseteq Replies(Root[s])
        /\ th.move \in Replies(Root[s]) /\ -value[start_depth][th.move] <= best
        /\ best > old.alpha => -value[start_depth][th.move] >= best
    BY <1>1, <1>2, <1>5 DEF ThreadGood
  <1>7. /\ state \in [Searches -> SearchRecords]
        /\ state' = IF best > old.best_score
                    THEN [state EXCEPT ![s].best_score = best, ![s].alpha = best,
                                       ![s].best_move = th.move]
                    ELSE state
    BY DEF TypeOK, ReportBest
  <1>8. /\ state' \in [Searches -> SearchRecords]
        /\ \A u \in Searches : u # s => state'[u] = state[u]
        /\ now.status = old.status /\ now.beta = old.beta
        /\ IF best > old.best_score
           THEN now.best_score = best /\ now.alpha = best /\ now.best_move = th.move
           ELSE now = old
    <2>1. CASE best > old.best_score
      <3> HIDE DEF th, best
      <3>1. state' = [state EXCEPT ![s].best_score = best, ![s].alpha = best,
                                   ![s].best_move = th.move]
        BY <1>7, <2>1 DEF best, th
      <3>2. now = [old EXCEPT !.best_score = best, !.alpha = best, !.best_move = th.move]
        BY <1>2, <1>7, <3>1
      <3>3. \A u \in Searches : u # s => state'[u] = state[u]
        BY <1>7, <3>1
      <3>4. now \in SearchRecords
        BY <1>2, <3>2 DEF SearchRecords
      <3>5. state' = [u \in Searches |-> state'[u]]
        BY <1>7, <3>1
      <3>6. state' \in [Searches -> SearchRecords]
        BY <1>7, <3>3, <3>4, <3>5
      <3>7. /\ now.status = old.status /\ now.beta = old.beta
            /\ now.best_score = best /\ now.alpha = best /\ now.best_move = th.move
        BY <1>2, <3>2 DEF SearchRecords
      <3> QED
        BY <2>1, <3>3, <3>6, <3>7
    <2>2. CASE ~(best > old.best_score)
      BY <1>7, <2>2
    <2> QED
      BY <2>1, <2>2
  <1> HIDE DEF now
  <1>9. /\ now.alpha \in Int /\ old.alpha <= now.alpha /\ best <= now.alpha
        /\ best > old.best_score => best > old.alpha
    BY <1>2, <1>4, <1>6, <1>8
  <1>10. /\ new \in ThreadRecords /\ new.pc = "next" /\ new.stack = <<>>
         /\ new.moves = th.moves /\ new.move = th.move /\ new.score = best
         /\ new.best_score = best
    <2>1. 1 \in 1 .. CLUSTER_SIZE
      BY Tree
    <2> QED
      BY <1>2, <1>6, <2>1 DEF ThreadRecords
  <1> HIDE DEF new
  <1>11. /\ thread \in [Threads -> ThreadRecords] /\ thread' \in [Threads -> ThreadRecords]
         /\ thread'[t] = new /\ \A u \in Threads : u # t => thread'[u] = thread[u]
    BY <1>1, <1>10 DEF TypeOK, Go
  <1>12. TypeOK'
    BY <1>1, <1>8, <1>11 DEF TypeOK
  <1>13. EntriesTell(value)'
    BY <1>1, TableKept
  <1> DEFINE d == [pos |-> Root[s], depth |-> 0, alpha |-> now.alpha, beta |-> INFINITY]
  <1>14. /\ AsCaller(s)' = d /\ d.pos = c.pos /\ c.alpha <= d.alpha /\ Search(d)
         /\ d.alpha = now.alpha /\ d.pos = Root[s]
    BY <1>2, <1>5, <1>9 DEF AsCaller, Search, now
  <1> HIDE DEF d
  <1>15. \A u \in Searches : u # s => AsCaller(u)' = AsCaller(u)
    BY <1>8 DEF AsCaller
  <1>16. ASSUME NEW u \in Threads
         PROVE  ThreadGood(thread[u], value, AsCaller(u[1]))'
    <2>1. /\ thread[u] \in ThreadRecords /\ u[1] \in Searches
          /\ ThreadGood(thread[u], value, AsCaller(u[1]))
      BY StateFields DEF Good
    <2>2. CASE u = t
      <3>1. Stacked(new.stack, value, d)
        BY <1>10 DEF Stacked
      <3>2. new.best_score >= -INFINITY /\ new.best_score <= d.alpha
        BY <1>2, <1>6, <1>9, <1>10, <1>14
      <3>3. ThreadGood(new, value, d)
        BY <1>6, <1>10, <1>14, <3>1, <3>2 DEF ThreadGood, Inside, Looking, Storing
      <3> QED
        BY <1>11, <1>14, <2>2, <3>3
    <2>3. CASE u # t /\ u[1] = s
      <3>1. ThreadGood(thread[u], value, d)
        BY <1>2, <1>14, <2>1, <2>3, ThreadGoodRises
      <3> QED
        BY <1>11, <1>14, <2>3, <3>1
    <2>4. CASE u # t /\ u[1] # s
      BY <1>11, <1>15, <2>1, <2>4
    <2> QED
      BY <2>2, <2>3, <2>4
  <1>17. ASSUME NEW u \in Searches
         PROVE  SearchGood(u, value)'
    <2>1. SearchGood(u, value)
      BY DEF Good
    <2>2. ThreadsOf(u)' = ThreadsOf(u)
      BY DEF ThreadsOf
    <2>3. CASE u # s
      <3>1. \A i \in ThreadsOf(u) : i \in Threads /\ thread'[i] = thread[i]
        BY <1>11, <2>3 DEF ThreadsOf
      <3>2. state'[u] = state[u]
        BY <1>8, <2>3
      <3>3. BestOf(u, value)' <=> BestOf(u, value)
        BY <3>2 DEF BestOf
      <3>4. Running(u, value) => Running(u, value)'
        BY <2>2, <3>1, <3>2 DEF Running
      <3> QED
        BY <2>1, <2>2, <3>1, <3>2, <3>3, <3>4 DEF SearchGood
    <2>4. CASE u = s
      <3>1. ASSUME NEW m \in Replies(Root[s])
            PROVE  \/ -value[start_depth][m] <= now.alpha
                   \/ \E i \in ThreadsOf(s) : Expects(thread'[i], m, value)
        <4>1. m \in Positions /\ start_depth \in Depths
          BY <1>2, RepliesArePositions, Tree DEF start_depth, Depths
        <4>2. value[start_depth][m] \in Int
          BY <4>1, ValueFields
        <4>3. CASE -value[start_depth][m] <= old.alpha
          BY <1>4, <1>9, <4>2, <4>3
        <4>4. CASE \E i \in ThreadsOf(s) : Expects(thread[i], m, value)
          <5>1. PICK i \in ThreadsOf(s) : Expects(thread[i], m, value)
            BY <4>4
          <5>2. CASE i # t
            BY <1>11, <5>1, <5>2 DEF ThreadsOf
          <5>3. CASE i = t /\ m \in Elements(th.moves)
            <6>1. Expects(new, m, value)
              BY <1>10, <5>3 DEF Expects
            <6> QED
              BY <1>11, <5>1, <5>3, <6>1
          <5>4. CASE i = t /\ m \notin Elements(th.moves)
            <6>1. -value[start_depth][m] <= best
              BY <1>6, <5>1, <5>4 DEF Expects
            <6> QED
              BY <1>2, <1>9, <4>2, <6>1
          <5> QED
            BY <5>2, <5>3, <5>4
        <4> QED
          BY <1>3, <4>3, <4>4 DEF Running
      <3>2. /\ now.beta = INFINITY /\ now.alpha >= -INFINITY
            /\ now.best_move \in Replies(Root[s])
            /\ \/ now.best_score = now.alpha /\ -value[start_depth][now.best_move] >= now.best_score
               \/ now.best_score = -INFINITY - 1 /\ now.alpha = -INFINITY
        <4>1. now.alpha >= -INFINITY
          BY <1>2, <1>4, <1>9
        <4>2. CASE best > old.best_score
          BY <1>4, <1>6, <1>8, <1>9, <4>1, <4>2
        <4>3. CASE ~(best > old.best_score)
          BY <1>4, <1>8, <4>1, <4>3
        <4> QED
          BY <4>2, <4>3
      <3>3. Running(s, value)'
        BY <2>2, <2>4, <3>1, <3>2 DEF Running, now
      <3>4. now.status = "searching"
        BY <1>3, <1>8
      <3> QED
        BY <2>4, <3>3, <3>4 DEF SearchGood, now
    <2> QED
      BY <2>3, <2>4
  <1> QED
    BY <1>12, <1>13, <1>16, <1>17 DEF Good

(* A search that its threads do not touch.                                 *)
LEMMA OthersKeep ==
    ASSUME NEW value, TypeOK, Good(value), NEW u \in Searches, state'[u] = state[u],
           \A i \in ThreadsOf(u) : thread'[i] = thread[i]
    PROVE  SearchGood(u, value)'
  <1>1. SearchGood(u, value) /\ ThreadsOf(u)' = ThreadsOf(u)
    BY DEF Good, ThreadsOf
  <1>2. BestOf(u, value)' <=> BestOf(u, value)
    BY DEF BestOf
  <1>3. Running(u, value) => Running(u, value)'
    BY <1>1 DEF Running
  <1> QED
    BY <1>1, <1>2, <1>3 DEF SearchGood

LEMMA JoinThreadsGood ==
    ASSUME NEW value, Valued(value), TypeOK, Good(value), NEW s \in Searches, JoinThreads(s)
    PROVE  TypeOK' /\ Good(value)'
  <1> DEFINE old == state[s]
             now == state'[s]
  <1>1. /\ old.status = "searching" /\ UNCHANGED <<worth, TT, thread>>
        /\ \A i \in 1 .. MaxCpus : thread[<<s, i>>].pc \in {"idle", "done"}
        /\ state' = [state EXCEPT ![s].status = "returned"]
    BY DEF JoinThreads
  <1>2. /\ state \in [Searches -> SearchRecords] /\ old \in SearchRecords
        /\ INFINITY \in Nat /\ Root[s] \in Positions
    BY Tree DEF TypeOK
  <1>3. now = [old EXCEPT !.status = "returned"] /\ \A u \in Searches : u # s => state'[u] = state[u]
    BY <1>1, <1>2
  <1>4. /\ now \in SearchRecords /\ now.status = "returned" /\ now.alpha = old.alpha
        /\ now.best_move = old.best_move
    BY <1>2, <1>3 DEF SearchRecords
  <1>5. state' \in [Searches -> SearchRecords]
    <2>1. state' = [u \in Searches |-> state'[u]]
      BY <1>1, <1>2
    <2> QED
      BY <1>2, <1>3, <1>4, <2>1
  <1>6. TypeOK'
    BY <1>1, <1>5 DEF TypeOK
  <1>7. EntriesTell(value)'
    BY <1>1, TableKept
  <1>8. \A u \in Searches : AsCaller(u)' = AsCaller(u)
    BY <1>3, <1>4 DEF AsCaller
  <1>9. \A u \in Threads : ThreadGood(thread[u], value, AsCaller(u[1]))'
    <2> SUFFICES ASSUME NEW u \in Threads PROVE ThreadGood(thread[u], value, AsCaller(u[1]))'
      OBVIOUS
    <2>1. ThreadGood(thread[u], value, AsCaller(u[1])) /\ u[1] \in Searches
      BY StateFields DEF Good
    <2> QED
      BY <1>1, <1>8, <2>1
  <1>10. ASSUME NEW t \in ThreadsOf(s)
         PROVE  /\ thread[t].pc \in {"idle", "done"} /\ thread[t].stack = <<>>
                /\ thread[t].moves = <<>> \/ old.alpha >= INFINITY
    <2>1. t \in Threads /\ t[1] = s /\ \E i \in 1 .. MaxCpus : t = <<s, i>>
      BY DEF ThreadsOf, Threads
    <2>2. thread[t].pc \in {"idle", "done"}
      BY <1>1, <2>1
    <2>3. ThreadGood(thread[t], value, AsCaller(s)) /\ AsCaller(s).alpha = old.alpha
      BY <2>1, AsCallerIs DEF Good
    <2> QED
      BY <2>2, <2>3 DEF ThreadGood, Inside, Looking, Storing
  <1>11. Running(s, value)
    BY <1>1 DEF Good, SearchGood
  <1>12. /\ old.alpha \in Int /\ old.best_score \in Int
         /\ old.best_move \in Replies(Root[s])
         /\ \/ old.best_score = old.alpha /\ -value[start_depth][old.best_move] >= old.best_score
            \/ old.best_score = -INFINITY - 1 /\ old.alpha = -INFINITY
    BY <1>2, <1>11 DEF Running, SearchRecords
  <1>13. \A m \in Replies(Root[s]) : /\ value[start_depth][m] \in Int
                                     /\ -INFINITY <= value[start_depth][m]
                                     /\ value[start_depth][m] <= INFINITY
    <2>1. Replies(Root[s]) \subseteq Positions /\ start_depth \in Depths
      BY <1>2, RepliesArePositions, Tree DEF start_depth, Depths
    <2> QED
      BY <2>1, ValueFields
  <1>14. ASSUME NEW m \in Replies(Root[s])
         PROVE  -value[start_depth][m] <= old.alpha
    <2>1. CASE \E t \in ThreadsOf(s) : Expects(thread[t], m, value)
      <3>1. PICK t \in ThreadsOf(s) : Expects(thread[t], m, value)
        BY <2>1
      <3>2. m \in Elements(thread[t].moves)
        BY <1>10, <3>1 DEF Expects
      <3>3. old.alpha >= INFINITY
        BY <1>10, <3>2 DEF Elements
      <3> QED
        BY <1>2, <1>12, <1>13, <3>3
    <2> QED
      BY <1>11, <2>1 DEF Running
  <1>15. BestOf(s, value)'
    <2>1. ASSUME NEW m \in Replies(Root[s])
          PROVE  value[start_depth][old.best_move] <= value[start_depth][m]
      BY <1>2, <1>12, <1>13, <1>14
    <2> QED
      BY <1>4, <1>12, <2>1 DEF BestOf
  <1>16. SearchGood(s, value)'
    BY <1>1, <1>4, <1>10, <1>15 DEF SearchGood, ThreadsOf
  <1>17. ASSUME NEW u \in Searches
         PROVE  SearchGood(u, value)'
    <2>1. CASE u = s
      BY <1>16, <2>1
    <2>2. CASE u # s
      BY <1>1, <1>3, <2>2, OthersKeep
    <2> QED
      BY <2>1, <2>2
  <1> QED
    BY <1>6, <1>7, <1>9, <1>17 DEF Good

LEMMA IdleIs ==
    /\ Idle \in ThreadRecords /\ Idle.moves = <<>> /\ Idle.stack = <<>> /\ Idle.pc = "idle"
    /\ Idle.score = -INFINITY /\ Idle.best_score = -INFINITY
  <1>1. 1 \in 1 .. CLUSTER_SIZE /\ -INFINITY \in Int
    BY Tree
  <1>2. "EXACT" \in Flags
    BY DEF Flags
  <1> QED
    BY <1>1, <1>2 DEF Idle, ThreadRecords

(* A thread that has nothing to look at yet.                               *)
LEMMA FreshGood ==
    ASSUME NEW value, NEW c, Search(c), NEW th, th.stack = <<>>,
           th.pc = "next" \/ (th.pc = "idle" /\ th.moves = <<>>),
           th.score = -INFINITY, th.best_score = -INFINITY,
           Elements(th.moves) \subseteq Replies(c.pos), c.alpha >= -INFINITY
    PROVE  ThreadGood(th, value, c)
  <1>1. -INFINITY \in Int /\ c.alpha \in Int
    BY Tree DEF Search
  <1>2. Stacked(th.stack, value, c)
    BY DEF Stacked
  <1> QED
    BY <1>1, <1>2 DEF ThreadGood, Inside, Looking, Storing

LEMMA StartSearchGood ==
    ASSUME NEW value, Valued(value), TypeOK, Good(value), NEW s \in Searches, StartSearch(s)
    PROVE  TypeOK' /\ Good(value)'
  <1> DEFINE moves == Moves[Root[s]]
             old == state[s]
             now == state'[s]
  <1>1. /\ old.status = "idle" /\ UNCHANGED <<worth, TT>>
    BY DEF StartSearch
  <1>2. /\ state \in [Searches -> SearchRecords] /\ thread \in [Threads -> ThreadRecords]
        /\ old \in SearchRecords /\ INFINITY \in Nat /\ Root[s] \in Positions
        /\ moves \in Seq(Positions) /\ Replies(Root[s]) = Elements(moves)
    BY Tree DEF TypeOK, Replies
  <1>3. \A t \in ThreadsOf(s) : t \in Threads /\ thread[t] = Idle
    BY <1>1 DEF Good, SearchGood, ThreadsOf
  <1>4. EntriesTell(value)'
    BY <1>1, TableKept
  <1>5. CASE moves = <<>>
    <2>1. /\ state' = [state EXCEPT ![s].status = "returned", ![s].best_move = Root[s]]
          /\ UNCHANGED thread
      BY <1>5 DEF StartSearch
    <2>2. /\ now = [old EXCEPT !.status = "returned", !.best_move = Root[s]]
          /\ \A u \in Searches : u # s => state'[u] = state[u]
      BY <1>2, <2>1
    <2>3. now \in SearchRecords /\ now.status = "returned" /\ now.alpha = old.alpha
      BY <1>2, <2>2 DEF SearchRecords
    <2>4. state' \in [Searches -> SearchRecords]
      <3>1. state' = [u \in Searches |-> state'[u]]
        BY <1>2, <2>1
      <3> QED
        BY <1>2, <2>2, <2>3, <3>1
    <2>5. TypeOK'
      BY <1>1, <2>1, <2>4 DEF TypeOK
    <2>6. \A u \in Searches : AsCaller(u)' = AsCaller(u)
      BY <2>2, <2>3 DEF AsCaller
    <2>7. \A u \in Threads : ThreadGood(thread[u], value, AsCaller(u[1]))'
      <3> SUFFICES ASSUME NEW u \in Threads PROVE ThreadGood(thread[u], value, AsCaller(u[1]))'
        OBVIOUS
      <3>1. ThreadGood(thread[u], value, AsCaller(u[1])) /\ u[1] \in Searches
        BY StateFields DEF Good
      <3> QED
        BY <2>1, <2>6, <3>1
    <2>8. SearchGood(s, value)'
      <3>1. \A t \in ThreadsOf(s) : thread[t].pc \in {"idle", "done"}
        BY <1>3, IdleIs
      <3> QED
        BY <1>5, <2>1, <2>3, <3>1 DEF SearchGood, BestOf, ThreadsOf
    <2>9. ASSUME NEW u \in Searches
          PROVE  SearchGood(u, value)'
      <3>1. CASE u = s
        BY <2>8, <3>1
      <3>2. CASE u # s
        BY <2>1, <2>2, <3>2, OthersKeep
      <3> QED
        BY <3>1, <3>2
    <2> QED
      BY <1>4, <2>5, <2>7, <2>9 DEF Good
  <1>6. CASE moves # <<>>
    <2> DEFINE r == [status |-> "searching", alpha |-> -INFINITY, beta |-> INFINITY,
                     best_score |-> -INFINITY - 1, best_move |-> moves[1]]
               ordered == InSearchOrder[moves]
               fresh(n, i) == [Idle EXCEPT !.pc = "next", !.moves = Share(ordered, n, i)]
    <2>1. state' = [state EXCEPT ![s] = r]
      BY <1>6 DEF StartSearch
    <2>2. PICK cpu_count \in 1 .. MaxCpus :
              LET num_threads == MIN(cpu_count, Len(moves))
              IN thread' = [t \in Threads |->
                     IF t[1] = s /\ t[2] <= num_threads THEN fresh(num_threads, t[2])
                     ELSE thread[t]]
      BY <1>6 DEF StartSearch
    <2> DEFINE n == MIN(cpu_count, Len(moves))
    <2>3. thread' = [t \in Threads |->
              IF t[1] = s /\ t[2] <= n THEN fresh(n, t[2]) ELSE thread[t]]
      BY <2>2
    <2>4. /\ Len(moves) \in Nat /\ Len(moves) >= 1 /\ moves[1] \in Elements(moves)
          /\ moves[1] \in Positions
      <3>1. Len(moves) \in Nat /\ Len(moves) >= 1 /\ DOMAIN moves = 1 .. Len(moves)
        BY <1>2, <1>6
      <3>2. 1 \in DOMAIN moves
        BY <3>1
      <3> HIDE DEF moves
      <3>3. moves[1] \in Positions
        BY <1>2, <3>2
      <3> QED
        BY <3>1, <3>2, <3>3 DEF Elements
    <2>5. n \in 1 .. Len(moves) /\ n \in 1 .. MaxCpus
      <3> DEFINE l == Len(moves)
      <3>1. l \in Nat /\ l >= 1 /\ MaxCpus \in Nat
        BY <2>4, Tree
      <3> HIDE DEF l
      <3>2. MIN(cpu_count, l) \in 1 .. l /\ MIN(cpu_count, l) \in 1 .. MaxCpus
        BY <3>1 DEF MIN
      <3> QED
        BY <3>2 DEF l
    <2> HIDE DEF n
    <2>6. ordered \in Seq(Positions) /\ Len(ordered) = Len(moves)
          /\ Elements(ordered) = Elements(moves)
      BY <1>2, OrderKeeps
    <2> HIDE DEF ordered, moves
    <2>7. /\ \A i \in 1 .. n : /\ Share(ordered, n, i) \in Seq(Positions)
                               /\ Elements(Share(ordered, n, i)) \subseteq Elements(moves)
          /\ \A m \in Elements(moves) : \E i \in 1 .. n : m \in Elements(Share(ordered, n, i))
      <3>1. n \in 1 .. Len(ordered)
        BY <2>5, <2>6
      <3>2. /\ \A i \in 1 .. n : /\ Share(ordered, n, i) \in Seq(Positions)
                                 /\ Elements(Share(ordered, n, i)) \subseteq Elements(ordered)
            /\ \A m \in Elements(ordered) :
                   \E i \in 1 .. n : m \in Elements(Share(ordered, n, i))
        BY <2>6, <3>1, SharesCover
      <3> QED
        BY <2>6, <3>2
    <2>8. ASSUME NEW i \in 1 .. n
          PROVE  /\ fresh(n, i) \in ThreadRecords /\ fresh(n, i).pc = "next"
                 /\ fresh(n, i).moves = Share(ordered, n, i)
                 /\ fresh(n, i).stack = <<>>
                 /\ fresh(n, i).score = -INFINITY /\ fresh(n, i).best_score = -INFINITY
      BY <2>7, IdleIs DEF ThreadRecords
    <2> HIDE DEF fresh
    <2>9. r \in SearchRecords /\ r.alpha = -INFINITY /\ r.beta = INFINITY
          /\ r.best_score = -INFINITY - 1 /\ r.best_move = moves[1] /\ r.status = "searching"
      BY <1>2, <2>4 DEF SearchRecords
    <2> HIDE DEF r
    <2>10. /\ state' \in [Searches -> SearchRecords] /\ state'[s] = r
           /\ \A u \in Searches : u # s => state'[u] = state[u]
      BY <1>2, <2>1, <2>9
    <2>11. ASSUME NEW t \in Threads
           PROVE  /\ t[1] \in Searches /\ t[2] \in 1 .. MaxCpus
                  /\ t[1] = s /\ t[2] <= n => thread'[t] = fresh(n, t[2]) /\ t[2] \in 1 .. n
                  /\ t[1] = s /\ ~(t[2] <= n) => thread'[t] = Idle
                  /\ t[1] # s => thread'[t] = thread[t]
      <3>1. t[1] \in Searches /\ t[2] \in 1 .. MaxCpus
        BY DEF Threads
      <3>2. t[2] <= n => t[2] \in 1 .. n
        BY <2>5, <3>1
      <3>3. t[1] = s => thread[t] = Idle
        BY <1>3 DEF ThreadsOf
      <3> QED
        BY <2>3, <3>1, <3>2, <3>3
    <2>12. thread' \in [Threads -> ThreadRecords]
      <3>1. \A t \in Threads : thread'[t] \in ThreadRecords
        BY <1>2, <2>8, <2>11, IdleIs
      <3>2. thread' = [t \in Threads |-> thread'[t]]
        BY <2>3
      <3> QED
        BY <3>1, <3>2
    <2>13. TypeOK'
      BY <1>1, <2>10, <2>12 DEF TypeOK
    <2> DEFINE d == [pos |-> Root[s], depth |-> 0, alpha |-> -INFINITY, beta |-> INFINITY]
    <2>14. /\ AsCaller(s)' = d /\ Search(d) /\ d.pos = Root[s] /\ d.alpha >= -INFINITY
      BY <1>2, <2>9, <2>10 DEF AsCaller, Search
    <2> HIDE DEF d
    <2>15. \A u \in Searches : u # s => AsCaller(u)' = AsCaller(u)
      BY <2>10 DEF AsCaller
    <2>16. ASSUME NEW t \in Threads
           PROVE  ThreadGood(thread[t], value, AsCaller(t[1]))'
      <3>1. CASE t[1] = s /\ t[2] <= n
        <4> DEFINE th == fresh(n, t[2])
        <4>1. /\ th.pc = "next" /\ th.stack = <<>> /\ th.score = -INFINITY
              /\ th.best_score = -INFINITY /\ Elements(th.moves) \subseteq Replies(d.pos)
              /\ thread'[t] = th
          BY <1>2, <2>7, <2>8, <2>11, <2>14, <3>1
        <4> HIDE DEF th
        <4>2. ThreadGood(th, value, d)
          BY <2>14, <4>1, FreshGood
        <4> QED
          BY <2>14, <3>1, <4>1, <4>2
      <3>2. CASE t[1] = s /\ ~(t[2] <= n)
        <4>1. Elements(Idle.moves) \subseteq Replies(d.pos)
          BY IdleIs DEF Elements
        <4>2. ThreadGood(Idle, value, d)
          BY <2>14, <4>1, IdleIs, FreshGood
        <4> QED
          BY <2>11, <2>14, <3>2, <4>2
      <3>3. CASE t[1] # s
        <4>1. ThreadGood(thread[t], value, AsCaller(t[1]))
          BY DEF Good
        <4> QED
          BY <2>11, <2>15, <3>3, <4>1
      <3> QED
        BY <3>1, <3>2, <3>3
    <2>17. ASSUME NEW m \in Replies(Root[s])
           PROVE  \E t \in ThreadsOf(s) : Expects(thread'[t], m, value)
      <3>1. PICK i \in 1 .. n : m \in Elements(Share(ordered, n, i))
        BY <1>2, <2>7
      <3> DEFINE t == <<s, i>>
      <3>2. t \in Threads /\ t \in ThreadsOf(s) /\ t[1] = s /\ t[2] = i
        <4>1. i \in 1 .. MaxCpus
          <5>1. n \in 1 .. MaxCpus /\ MaxCpus \in Nat /\ i \in 1 .. n
            BY <2>5, Tree
          <5> QED
            BY <5>1
        <4> QED
          BY <4>1 DEF Threads, ThreadsOf
      <3>3. i <= n
        BY <2>5
      <3>4. thread'[t].moves = Share(ordered, n, i)
        BY <2>8, <2>11, <3>2, <3>3
      <3>5. Expects(thread'[t], m, value)
        BY <3>1, <3>4 DEF Expects
      <3> QED
        BY <3>2, <3>5
    <2>18. SearchGood(s, value)'
      <3>1. Running(s, value)'
        <4>1. -INFINITY >= -INFINITY /\ moves[1] \in Replies(Root[s])
          BY <1>2, <2>4
        <4> QED
          BY <2>9, <2>10, <2>17, <4>1 DEF Running, ThreadsOf
      <3> QED
        BY <2>9, <2>10, <3>1 DEF SearchGood
    <2>19. ASSUME NEW u \in Searches
           PROVE  SearchGood(u, value)'
      <3>1. CASE u = s
        BY <2>18, <3>1
      <3>2. CASE u # s
        <4>1. \A i \in ThreadsOf(u) : thread'[i] = thread[i]
          BY <2>11, <3>2 DEF ThreadsOf
        <4> QED
          BY <2>10, <3>2, <4>1, OthersKeep
      <3> QED
        BY <3>1, <3>2
    <2> QED
      BY <1>4, <2>13, <2>16, <2>19 DEF Good
  <1> QED
    BY <1>5, <1>6

-----------------------------------------------------------------------------
(* The value of every position at every depth is the same in all states of *)
(* a behaviour: it is written V below, and what is kept is said of it.     *)
IInv == TypeOK /\ \A V : V = minimax => Good(V)

LEMMA StepGood ==
    ASSUME NEW value, Valued(value), TypeOK, Good(value), UsesOwnEntries, [Next]_vars
    PROVE  TypeOK' /\ Good(value)'
  <1>1. CASE UNCHANGED vars
    <2>1. UNCHANGED <<worth, TT, state, thread>>
      BY <1>1 DEF vars
    <2>2. TypeOK'
      BY <2>1 DEF TypeOK
    <2>3. \A s : AsCaller(s)' = AsCaller(s)
      BY <2>1 DEF AsCaller
    <2>4. EntriesTell(value)'
      BY <2>1, TableKept
    <2>5. \A t \in Threads : ThreadGood(thread[t], value, AsCaller(t[1]))'
      BY <2>1, <2>3 DEF Good
    <2>6. \A s \in Searches : SearchGood(s, value)'
      BY <2>1, OthersKeep
    <2> QED
      BY <2>2, <2>4, <2>5, <2>6 DEF Good
  <1>2. ASSUME NEW s \in Searches, StartSearch(s) \/ JoinThreads(s)
        PROVE  TypeOK' /\ Good(value)'
    BY <1>2, StartSearchGood, JoinThreadsGood
  <1>3. ASSUME NEW t \in Threads, ThreadStep(t)
        PROVE  TypeOK' /\ Good(value)'
    BY <1>3, NextMoveGood, ReportBestGood, ProbeGood, ReadDepthGood, ReadFlagGood,
       ReadScoreGood, EnterGood, ExploreGood, StoreUpdateGood, StoreInsertGood,
       FindWorstGood, CleanWorstGood, StoreReplaceGood DEF ThreadStep
  <1> QED
    BY <1>1, <1>2, <1>3 DEF Next

LEMMA InitGood ==
    ASSUME Init, NEW value
    PROVE  TypeOK /\ Good(value)
  <1>1. /\ worth \in Worths /\ TT = [x \in Slots |-> Cleaned]
        /\ thread = [t \in Threads |-> Idle]
        /\ state = [s \in Searches |->
                       [status |-> "idle", alpha |-> 0, beta |-> 0,
                        best_score |-> 0, best_move |-> None]]
    BY DEF Init
  <1>2. Cleaned \in Entries /\ Cleaned.board = None
    BY Tree DEF Cleaned, Entries, Flags
  <1>3. TypeOK
    BY <1>1, <1>2, IdleIs DEF TypeOK, SearchRecords
  <1>4. EntriesTell(value)
    BY <1>1, <1>2 DEF EntriesTell
  <1>5. ASSUME NEW t \in Threads
        PROVE  ThreadGood(thread[t], value, AsCaller(t[1]))
    <2>1. t[1] \in Searches /\ thread[t] = Idle /\ Search(AsCaller(t[1]))
      BY <1>1, <1>3, IsSearch DEF Threads
    <2>2. AsCaller(t[1]).alpha = 0 /\ 0 >= -INFINITY
      BY <1>1, <2>1, Tree DEF AsCaller
    <2>3. Elements(Idle.moves) \subseteq Replies(AsCaller(t[1]).pos)
      BY IdleIs DEF Elements
    <2>4. ThreadGood(Idle, value, AsCaller(t[1]))
      BY <2>1, <2>2, <2>3, IdleIs, FreshGood
    <2> QED
      BY <2>1, <2>4
  <1>6. \A s \in Searches : SearchGood(s, value)
    BY <1>1 DEF SearchGood, ThreadsOf
  <1> QED
    BY <1>3, <1>4, <1>5, <1>6 DEF Good

LEMMA MinimaxStays ==
    ASSUME worth' = worth
    PROVE  minimax' = minimax
  BY DEF minimax, evaluate

LEMMA WorthStays ==
    ASSUME [Next]_vars
    PROVE  worth' = worth
  <1>1. ASSUME NEW t \in Threads, ThreadStep(t)
        PROVE  worth' = worth
    BY <1>1 DEF ThreadStep, NextMove, ReportBest, Probe, ReadDepth, ReadFlag, ReadScore, Enter,
       Explore, StoreUpdate, StoreInsert, FindWorst, CleanWorst, StoreReplace
  <1>2. ASSUME NEW s \in Searches, StartSearch(s) \/ JoinThreads(s)
        PROVE  worth' = worth
    BY <1>2 DEF StartSearch, JoinThreads
  <1> QED
    BY <1>1, <1>2 DEF Next, vars

LEMMA IInvStays ==
    ASSUME IInv, UsesOwnEntries, [Next]_vars
    PROVE  IInv'
  <1>1. TypeOK /\ worth \in Worths
    BY DEF IInv, TypeOK
  <1>2. minimax' = minimax
    BY WorthStays, MinimaxStays
  <1>3. PICK V : V = minimax
    OBVIOUS
  <1>4. Valued(V) /\ Good(V)
    BY <1>1, <1>3, MinimaxValued DEF IInv
  <1>5. TypeOK' /\ Good(V)'
    BY <1>1, <1>4, StepGood
  <1> QED
    BY <1>2, <1>3, <1>5 DEF IInv

LEMMA IInvTrue ==
    ASSUME IInv
    PROVE  EntriesAreTrue
  <1>1. PICK V : V = minimax
    OBVIOUS
  <1>2. TypeOK /\ Valued(V) /\ Good(V)
    BY <1>1, MinimaxValued DEF IInv, TypeOK
  <1>3. ASSUME NEW x \in Slots, TT[x].board # None
        PROVE  LET e == TT[x]
                   v == V[e.depth][e.board]
               IN CASE e.flag = "EXACT" -> v = e.score
                    [] e.flag = "LOWER" -> v >= e.score
                    [] e.flag = "UPPER" -> v <= e.score
    <2> DEFINE e == TT[x]
               v == V[e.depth][e.board]
    <2>1. /\ e.flag \in Flags /\ e.score \in Int
          /\ e.board \in Positions /\ e.depth \in Depths
      BY <1>2, <1>3 DEF TypeOK, Entries, Depths
    <2>2. v \in Int
      BY <1>2, <2>1, ValueFields
    <2>3. Tells(e.flag, e.score, v)
      BY <1>2, <1>3 DEF Good, EntriesTell
    <2> HIDE DEF e, v
    <2>4. CASE e.flag = "EXACT"
      <3>1. v = e.score
        BY <2>1, <2>2, <2>3, <2>4 DEF Tells
      <3> QED
        BY <2>4, <3>1 DEF e, v
    <2>5. CASE e.flag = "LOWER"
      <3>1. v >= e.score
        BY <2>3, <2>5 DEF Tells
      <3> QED
        BY <2>5, <3>1 DEF e, v
    <2>6. CASE e.flag = "UPPER"
      <3>1. v <= e.score
        BY <2>3, <2>6 DEF Tells
      <3> QED
        BY <2>6, <3>1 DEF e, v
    <2> QED
      BY <2>1, <2>4, <2>5, <2>6 DEF Flags
  <1> QED
    BY <1>1, <1>3 DEF EntriesAreTrue

LEMMA IInvReturns ==
    ASSUME IInv
    PROVE  ReturnsABestMove
  <1>1. PICK V : V = minimax
    OBVIOUS
  <1>2. \A s \in Searches : state[s].status = "returned" => BestOf(s, V)
    BY <1>1 DEF IInv, Good, SearchGood
  <1> QED
    BY <1>1, <1>2 DEF ReturnsABestMove, BestOf, Replies, Elements

-----------------------------------------------------------------------------
(***************************************************************************)
(* When the threads use their own entries: no entry is cleaned while it is *)
(* read, and a position is met at one depth only.                          *)
(***************************************************************************)
(* Each position has its level: from every root it is as many moves away.  *)
Graded(level) ==
    /\ \A p \in Positions : \A m \in Replies(p) : level[m] = level[p] + 1
    /\ \A s \in Searches : Moves[Root[s]] # <<>> => level[Root[s]] = 0

Reading == {"depth", "flag", "score"}

(* What a thread reads, or is replacing.                                   *)
Own(t) ==
    /\ thread[t].pc \in Reading => TT[SlotOf(t)].board = Top(t).pos
    /\ thread[t].pc = "score" => TT[SlotOf(t)].flag = thread[t].flag
    /\ thread[t].pc = "replace" => lock[SlotOf(t)] = t /\ TT[SlotOf(t)].board = None

Kept(level) ==
    /\ lock \in [Slots -> Threads \cup {None}]
    /\ \A x \in Slots : TT[x].board # None => TT[x].depth = level[TT[x].board]
    /\ \A t \in Threads : Own(t)

LEMMA LevelIs ==
    ASSUME NEW level, Graded(level), IInv, NEW t \in Threads, thread[t].pc \in Inside
    PROVE  Top(t).depth = level[Top(t).pos]
  <1>1. PICK V : V = minimax
    OBVIOUS
  <1>2. TypeOK /\ Good(V)
    BY <1>1 DEF IInv
  <1> DEFINE q == thread[t].stack
             c == AsCaller(t[1])
  <1>3. q \in Seq(Calls) /\ q # <<>> /\ Stacked(q, V, c) /\ Top(t) = q[1] /\ Search(c)
    BY <1>2, InsideIs
  <1> DEFINE n == Len(q)
             S == {j \in 0 .. n - 1 : q[n - j].depth = level[q[n - j].pos]}
  <1>4. t[1] \in Searches /\ c.pos = Root[t[1]] /\ c.depth = 0 /\ Root[t[1]] \in Positions
    BY <1>2, StateFields, AsCallerIs
  <1> HIDE DEF q, c
  <1>5. n \in Nat /\ n >= 1 /\ \A k \in 1 .. n : q[k] \in Calls
    BY <1>3
  <1>6. \A k \in 1 .. n : Under(q[k], Caller(q, k, c))
    BY <1>3 DEF Stacked
  <1> HIDE DEF n
  <1>7. 0 \in S
    <2>1. Under(q[n], c)
      BY <1>5, <1>6 DEF Caller, n
    <2>2. q[n].pos \in Replies(c.pos) /\ q[n].depth = 1
      BY <1>4, <2>1 DEF Under
    <2>3. Moves[c.pos] # <<>>
      BY <2>2 DEF Replies, Elements
    <2>4. level[c.pos] = 0
      BY <1>4, <2>3 DEF Graded
    <2>5. level[q[n].pos] = 1
      BY <1>4, <2>2, <2>4 DEF Graded
    <2>6. n - 0 = n /\ 0 \in 0 .. n - 1
      BY <1>5
    <2> QED
      BY <2>2, <2>5, <2>6
  <1>8. ASSUME NEW j \in 0 .. (n - 1) - 1, j \in S
        PROVE  j + 1 \in S
    <2> DEFINE k == n - (j + 1)
    <2>1. k \in 1 .. n /\ k # n /\ k + 1 = n - j /\ j + 1 \in 0 .. n - 1 /\ k + 1 \in 1 .. n
      BY <1>5
    <2> HIDE DEF k
    <2>2. Under(q[k], q[k + 1])
      BY <1>6, <2>1 DEF Caller, n
    <2>3. q[k + 1].depth = level[q[k + 1].pos]
      BY <1>8, <2>1
    <2>4. q[k + 1].pos \in Positions /\ q[k].pos \in Replies(q[k + 1].pos)
          /\ q[k].depth = q[k + 1].depth + 1
      BY <1>5, <2>1, <2>2, CallFields DEF Under
    <2>5. q[k].depth = level[q[k].pos]
      BY <2>3, <2>4 DEF Graded
    <2> QED
      BY <2>1, <2>5 DEF k
  <1>9. n - 1 \in S
    <2>1. n - 1 \in Nat
      BY <1>5
    <2> HIDE DEF S
    <2> QED
      BY <1>7, <1>8, <2>1, Induct
  <1>10. n - (n - 1) = 1
    BY <1>5
  <1> QED
    BY <1>3, <1>9, <1>10

(* The entries the others read are left alone.                             *)
LEMMA KeptStep ==
    ASSUME NEW level, Kept(level), TypeOK, NEW t \in Threads,
           \A u \in Threads : u # t => thread'[u] = thread[u],
           lock' \in [Slots -> Threads \cup {None}],
           \A x \in Slots : TT'[x].board # None => TT'[x].depth = level[TT'[x].board],
           \A u \in Threads : u # t =>
               /\ thread[u].pc \in Reading \cup {"replace"} => TT'[SlotOf(u)] = TT[SlotOf(u)]
               /\ thread[u].pc = "replace" => lock'[SlotOf(u)] = u,
           Own(t)'
    PROVE  Kept(level)'
  <1>1. ASSUME NEW u \in Threads, u # t
        PROVE  Own(u)'
    <2>1. thread'[u] = thread[u] /\ Own(u)
      BY <1>1 DEF Kept
    <2>2. SlotOf(u)' = SlotOf(u) /\ Top(u)' = Top(u)
      BY <2>1 DEF SlotOf, Top
    <2> QED
      BY <1>1, <2>1, <2>2 DEF Own, Reading
  <1> QED
    BY <1>1 DEF Kept

LEMMA QuietStep ==
    ASSUME NEW level, Kept(level), TypeOK, NEW t \in Threads,
           \A u \in Threads : u # t => thread'[u] = thread[u],
           UNCHANGED <<TT, lock>>,
           thread'[t].pc \notin Reading \cup {"replace"}
    PROVE  Kept(level)'
  <1>1. Own(t)'
    BY DEF Own, Reading
  <1>2. \A u \in Threads : Own(u)
    BY DEF Kept
  <1> QED
    BY <1>1, <1>2, KeptStep DEF Kept, Own

LEMMA GoIs ==
    ASSUME TypeOK, NEW t \in Threads, NEW new, Go(t, new)
    PROVE  thread'[t] = new /\ \A u \in Threads : u # t => thread'[u] = thread[u]
  BY DEF TypeOK, Go

LEMMA ReturnPc ==
    ASSUME TypeOK, NEW t \in Threads, NEW score, Return(t, score)
    PROVE  /\ thread'[t].pc \in {"report", "next", "explore"}
           /\ \A u \in Threads : u # t => thread'[u] = thread[u]
  <1> DEFINE new == AfterReturn(thread[t], score)
  <1>1. Go(t, new)
    BY ReturnIs
  <1>2. thread[t] \in ThreadRecords
    BY StateFields
  <1>3. new.pc \in {"report", "next", "explore"}
    <2>1. CASE Len(thread[t].stack) = 1
      BY <1>2, <2>1 DEF AfterReturn, ThreadRecords
    <2>2. CASE Len(thread[t].stack) # 1
      BY <1>2, <2>2 DEF AfterReturn, ThreadRecords
    <2> QED
      BY <2>1, <2>2
  <1> HIDE DEF new
  <1> QED
    BY <1>1, <1>3, GoIs

LEMMA ReturnQuiet ==
    ASSUME NEW level, Kept(level), TypeOK, NEW t \in Threads, NEW score, Return(t, score),
           UNCHANGED <<TT, lock>>
    PROVE  Kept(level)'
  <1>1. /\ thread'[t].pc \in {"report", "next", "explore"}
        /\ \A u \in Threads : u # t => thread'[u] = thread[u]
    BY ReturnPc
  <1>2. thread'[t].pc \notin Reading \cup {"replace"}
    BY <1>1 DEF Reading
  <1> QED
    BY <1>1, <1>2, QuietStep

LEMMA WriteStep ==
    ASSUME NEW level, Kept(level), TypeOK, NEW t \in Threads, NEW x \in Slots,
           NEW e, NEW holder \in Threads \cup {None},
           \A u \in Threads : u # t => thread'[u] = thread[u],
           TT' = [TT EXCEPT ![x] = e], lock' = [lock EXCEPT ![x] = holder],
           e.board # None => e.depth = level[e.board],
           \A u \in Threads : u # t /\ thread[u].pc \in Reading \cup {"replace"} => SlotOf(u) # x,
           Own(t)'
    PROVE  Kept(level)'
  <1>1. lock' \in [Slots -> Threads \cup {None}]
    BY DEF Kept
  <1>2. \A y \in Slots : TT'[y] = IF y = x THEN e ELSE TT[y]
    BY DEF TypeOK
  <1>3. \A y \in Slots : TT'[y].board # None => TT'[y].depth = level[TT'[y].board]
    BY <1>2 DEF Kept
  <1>4. \A y : y # x => TT'[y] = TT[y] /\ lock'[y] = lock[y]
    BY DEF TypeOK, Kept
  <1>5. \A u \in Threads : u # t =>
           /\ thread[u].pc \in Reading \cup {"replace"} => TT'[SlotOf(u)] = TT[SlotOf(u)]
           /\ thread[u].pc = "replace" => lock'[SlotOf(u)] = u
    BY <1>4 DEF Kept, Own
  <1> QED
    BY <1>1, <1>3, <1>5, KeptStep

(* An entry that is read has a board, a slot that is being replaced has    *)
(* none but has its holder.                                                *)
LEMMA ReadHasBoard ==
    ASSUME NEW level, Kept(level), IInv, NEW u \in Threads, thread[u].pc \in Reading
    PROVE  TT[SlotOf(u)].board = Top(u).pos /\ TT[SlotOf(u)].board # None
  <1>1. PICK V : V = minimax
    OBVIOUS
  <1>2. TypeOK /\ Good(V)
    BY <1>1 DEF IInv
  <1>3. Top(u) \in Calls
    BY <1>2, InsideIs DEF Reading, Inside, Looking
  <1>4. Top(u).pos \in Positions
    BY <1>3, CallFields
  <1>5. Own(u)
    BY DEF Kept
  <1> QED
    BY <1>4, <1>5, Tree DEF Own

LEMMA EntryLevel ==
    ASSUME NEW level, Graded(level), IInv, NEW t \in Threads, thread[t].pc \in Inside
    PROVE  /\ NewEntry(Top(t)).board # None =>
                  NewEntry(Top(t)).depth = level[NewEntry(Top(t)).board]
           /\ SlotOf(t) \in Slots /\ thread[t] \in ThreadRecords /\ TypeOK
  <1>1. PICK V : V = minimax
    OBVIOUS
  <1>2. TypeOK /\ Good(V)
    BY <1>1 DEF IInv
  <1>3. SlotOf(t) \in Slots /\ thread[t] \in ThreadRecords
    BY <1>2, InsideIs
  <1>4. Top(t).depth = level[Top(t).pos]
    BY LevelIs
  <1> QED
    BY <1>2, <1>3, <1>4 DEF NewEntry

LEMMA Walks ==
    ASSUME TypeOK, NEW t \in Threads, NEW pc, NextSlot(t) \/ To(t, pc)
    PROVE  /\ thread'[t].pc \in {thread[t].pc, pc}
           /\ \A u \in Threads : u # t => thread'[u] = thread[u]
  <1>1. thread[t] \in ThreadRecords
    BY StateFields
  <1>2. CASE NextSlot(t)
    <2> DEFINE new == [thread[t] EXCEPT !.slot = @ + 1]
    <2>1. Go(t, new)
      BY <1>2 DEF NextSlot
    <2>2. new.pc = thread[t].pc
      BY <1>1 DEF ThreadRecords
    <2> HIDE DEF new
    <2> QED
      BY <2>1, <2>2, GoIs
  <1>3. CASE To(t, pc)
    <2> DEFINE new == [thread[t] EXCEPT !.pc = pc, !.slot = 1]
    <2>1. Go(t, new)
      BY <1>3 DEF To
    <2>2. new.pc = pc
      BY <1>1 DEF ThreadRecords
    <2> HIDE DEF new
    <2> QED
      BY <2>1, <2>2, GoIs
  <1> QED
    BY <1>2, <1>3

LEMMA StoreInsertKept ==
    ASSUME NEW level, Graded(level), Kept(level), IInv, NEW t \in Threads, StoreInsert(t)
    PROVE  Kept(level)'
  <1>1. thread[t].pc = "insert" /\ thread[t].pc \in Inside /\ lock[SlotOf(t)] = None
        /\ lock' = lock
    BY DEF StoreInsert, Inside, Storing
  <1>2. SlotOf(t) \in Slots /\ thread[t] \in ThreadRecords /\ TypeOK
    BY <1>1, EntryLevel
  <1>3. CASE TT[SlotOf(t)].board = None
    <2> DEFINE x == SlotOf(t)
               e == NewEntry(Top(t))
    <2>1. TT' = [TT EXCEPT ![x] = e] /\ Return(t, Top(t).best_score)
      BY <1>3 DEF StoreInsert
    <2>2. /\ thread'[t].pc \in {"report", "next", "explore"}
          /\ \A u \in Threads : u # t => thread'[u] = thread[u]
      BY <1>2, <2>1, ReturnPc
    <2>3. Own(t)'
      BY <2>2 DEF Own, Reading
    <2>4. lock' = [lock EXCEPT ![x] = None]
      BY <1>1, <1>2 DEF Kept
    <2>5. e.board # None => e.depth = level[e.board]
      BY <1>1, EntryLevel
    <2>6. ASSUME NEW u \in Threads, u # t, thread[u].pc \in Reading \cup {"replace"}
          PROVE  SlotOf(u) # x
      <3>1. CASE thread[u].pc \in Reading
        BY <1>3, <3>1, ReadHasBoard
      <3>2. CASE thread[u].pc = "replace"
        BY <1>1, <3>2, HolderAssumption DEF Kept, Own
      <3> QED
        BY <2>6, <3>1, <3>2
    <2>7. x \in Slots
      BY <1>2
    <2> HIDE DEF x, e
    <2> QED
      BY <1>2, <2>1, <2>2, <2>3, <2>4, <2>5, <2>6, <2>7, WriteStep
  <1>4. CASE TT[SlotOf(t)].board # None
    <2>1. UNCHANGED TT /\ (NextSlot(t) \/ To(t, "worst"))
      BY <1>4 DEF StoreInsert
    <2>2. /\ thread'[t].pc \in {"insert", "worst"}
          /\ \A u \in Threads : u # t => thread'[u] = thread[u]
      BY <1>1, <1>2, <2>1, Walks
    <2> QED
      BY <1>1, <1>2, <2>1, <2>2, QuietStep DEF Reading
  <1> QED
    BY <1>3, <1>4

LEMMA CleanWorstKept ==
    ASSUME NEW level, Graded(level), Kept(level), IInv, NoneReadsWhatIsCleaned,
           NEW t \in Threads, CleanWorst(t)
    PROVE  Kept(level)'
  <1>1. /\ thread[t].pc = "clean" /\ thread[t].pc \in Inside /\ lock[SlotOf(t)] = None
        /\ TT' = [TT EXCEPT ![SlotOf(t)] = Cleaned]
        /\ lock' = [lock EXCEPT ![SlotOf(t)] = t]
        /\ Go(t, [thread[t] EXCEPT !.pc = "replace"])
    BY DEF CleanWorst, Inside, Storing
  <1>2. SlotOf(t) \in Slots /\ thread[t] \in ThreadRecords /\ TypeOK
    BY <1>1, EntryLevel
  <1> DEFINE x == SlotOf(t)
  <1>3. /\ thread'[t] = [thread[t] EXCEPT !.pc = "replace"]
        /\ \A u \in Threads : u # t => thread'[u] = thread[u]
    BY <1>1, <1>2, GoIs
  <1>4. /\ thread'[t].pc = "replace" /\ thread'[t].slot = thread[t].slot
        /\ thread'[t].stack = thread[t].stack
    BY <1>2, <1>3 DEF ThreadRecords
  <1>5. SlotOf(t)' = x
    BY <1>4 DEF SlotOf, Top
  <1>6. TT'[x] = Cleaned /\ lock'[x] = t
    BY <1>1, <1>2 DEF Kept, TypeOK
  <1>7. Own(t)'
    BY <1>4, <1>5, <1>6 DEF Own, Cleaned, Reading
  <1>8. ASSUME NEW u \in Threads, u # t, thread[u].pc \in Reading \cup {"replace"}
        PROVE  SlotOf(u) # x
    <2>1. CASE thread[u].pc \in Reading
      BY <1>1, <2>1 DEF NoneReadsWhatIsCleaned, Reading
    <2>2. CASE thread[u].pc = "replace"
      BY <1>1, <2>2, HolderAssumption DEF Kept, Own
    <2> QED
      BY <1>8, <2>1, <2>2
  <1>9. Cleaned.board = None
    BY DEF Cleaned
  <1>10. x \in Slots
    BY <1>2
  <1> HIDE DEF x
  <1> QED
    BY <1>1, <1>2, <1>3, <1>7, <1>8, <1>9, <1>10, WriteStep DEF x

LEMMA StoreReplaceKept ==
    ASSUME NEW level, Graded(level), Kept(level), IInv, NEW t \in Threads, StoreReplace(t)
    PROVE  Kept(level)'
  <1> DEFINE x == SlotOf(t)
             e == NewEntry(Top(t))
  <1>1. /\ thread[t].pc = "replace" /\ thread[t].pc \in Inside
        /\ TT' = [TT EXCEPT ![x] = e]
        /\ lock' = [lock EXCEPT ![x] = None]
        /\ Return(t, Top(t).best_score)
    BY DEF StoreReplace, Inside, Storing
  <1>2. SlotOf(t) \in Slots /\ TypeOK /\ (e.board # None => e.depth = level[e.board])
    BY <1>1, EntryLevel
  <1>3. /\ thread'[t].pc \in {"report", "next", "explore"}
        /\ \A u \in Threads : u # t => thread'[u] = thread[u]
    BY <1>1, <1>2, ReturnPc
  <1>4. Own(t)'
    BY <1>3 DEF Own, Reading
  <1>5. lock[x] = t /\ TT[x].board = None
    BY <1>1 DEF Kept, Own
  <1>6. ASSUME NEW u \in Threads, u # t, thread[u].pc \in Reading \cup {"replace"}
        PROVE  SlotOf(u) # x
    <2>1. CASE thread[u].pc \in Reading
      BY <1>5, <2>1, ReadHasBoard
    <2>2. CASE thread[u].pc = "replace"
      BY <1>5, <1>6, <2>2 DEF Kept, Own
    <2> QED
      BY <1>6, <2>1, <2>2
  <1>7. x \in Slots
    BY <1>2
  <1> HIDE DEF x, e
  <1> QED
    BY <1>1, <1>2, <1>3, <1>4, <1>6, <1>7, WriteStep

(* An update finds an entry of the depth it would store.                   *)
LEMMA StoreUpdateKept ==
    ASSUME NEW level, Graded(level), Kept(level), IInv, NEW t \in Threads, StoreUpdate(t)
    PROVE  Kept(level)'
  <1>1. thread[t].pc = "update" /\ thread[t].pc \in Inside /\ lock' = lock
    BY DEF StoreUpdate, Inside, Storing
  <1>2. SlotOf(t) \in Slots /\ TypeOK
    BY <1>1, EntryLevel
  <1>3. CASE TT[SlotOf(t)].board = Top(t).pos
    <2>1. Top(t).depth = level[Top(t).pos] /\ Top(t).pos # None /\ Top(t).depth \in Int
      <3>1. PICK V : V = minimax
        OBVIOUS
      <3>2. Top(t) \in Calls
        BY <1>1, <3>1, InsideIs DEF IInv
      <3> QED
        BY <1>1, <3>2, LevelIs, CallFields, Tree
    <2>2. TT[SlotOf(t)].depth = Top(t).depth
      BY <1>2, <1>3, <2>1 DEF Kept
    <2>3. TT' = TT /\ Return(t, Top(t).best_score)
      BY <1>3, <2>1, <2>2 DEF StoreUpdate
    <2> QED
      BY <1>1, <1>2, <2>3, ReturnQuiet
  <1>4. CASE TT[SlotOf(t)].board # Top(t).pos
    <2>1. UNCHANGED TT /\ (NextSlot(t) \/ To(t, "insert"))
      BY <1>4 DEF StoreUpdate
    <2>2. /\ thread'[t].pc \in {"update", "insert"}
          /\ \A u \in Threads : u # t => thread'[u] = thread[u]
      BY <1>1, <1>2, <2>1, Walks
    <2>3. thread'[t].pc \notin Reading \cup {"replace"}
      BY <2>2 DEF Reading
    <2> QED
      BY <1>1, <1>2, <2>1, <2>2, <2>3, QuietStep
  <1> QED
    BY <1>3, <1>4

LEMMA QuietGo ==
    ASSUME NEW level, Kept(level), TypeOK, NEW t \in Threads, NEW new, Go(t, new),
           new.pc \notin Reading \cup {"replace"}, UNCHANGED <<TT, lock>>
    PROVE  Kept(level)'
  BY GoIs, QuietStep

LEMMA QuietWalk ==
    ASSUME NEW level, Kept(level), TypeOK, NEW t \in Threads, NEW pc,
           NextSlot(t) \/ To(t, pc), {thread[t].pc, pc} \cap (Reading \cup {"replace"}) = {},
           UNCHANGED <<TT, lock>>
    PROVE  Kept(level)'
  BY Walks, QuietStep

(* A step of a thread that finds its own entry and goes on reading it.     *)
LEMMA ReadsOn ==
    ASSUME NEW level, Kept(level), TypeOK, NEW t \in Threads, NEW new, Go(t, new),
           UNCHANGED <<TT, lock>>,
           new.slot = thread[t].slot, new.stack = thread[t].stack,
           new.pc \in Reading, TT[SlotOf(t)].board = Top(t).pos,
           new.pc = "score" => TT[SlotOf(t)].flag = new.flag
    PROVE  Kept(level)'
  <1>1. thread'[t] = new /\ \A u \in Threads : u # t => thread'[u] = thread[u]
    BY GoIs
  <1>2. SlotOf(t)' = SlotOf(t) /\ Top(t)' = Top(t)
    BY <1>1 DEF SlotOf, Top
  <1>3. Own(t)'
    BY <1>1, <1>2 DEF Own, Reading
  <1> QED
    BY <1>1, <1>3, KeptStep DEF Kept, Own

LEMMA LookingKept ==
    ASSUME NEW level, Kept(level), IInv, NEW t \in Threads,
           Probe(t) \/ ReadDepth(t) \/ ReadFlag(t) \/ ReadScore(t)
    PROVE  Kept(level)'
  <1>1. TypeOK /\ thread[t] \in ThreadRecords
    BY StateFields DEF IInv
  <1>2. CASE Probe(t)
    <2>1. thread[t].pc = "probe" /\ UNCHANGED <<TT, lock>>
      BY <1>2 DEF Probe
    <2>2. CASE TT[SlotOf(t)].board = Top(t).pos
      <3> DEFINE new == [thread[t] EXCEPT !.pc = "depth"]
      <3>1. Go(t, new)
        BY <1>2, <2>2 DEF Probe
      <3>2. /\ new.slot = thread[t].slot /\ new.stack = thread[t].stack
            /\ new.pc \in Reading /\ new.pc # "score"
        BY <1>1 DEF ThreadRecords, Reading
      <3> HIDE DEF new
      <3> QED
        BY <1>1, <2>1, <2>2, <3>1, <3>2, ReadsOn
    <2>3. CASE TT[SlotOf(t)].board # Top(t).pos
      <3>1. NextSlot(t) \/ To(t, "enter")
        BY <1>2, <2>3 DEF Probe
      <3>2. {thread[t].pc, "enter"} \cap (Reading \cup {"replace"}) = {}
        BY <2>1 DEF Reading
      <3> QED
        BY <1>1, <2>1, <3>1, <3>2, QuietWalk
    <2> QED
      BY <2>2, <2>3
  <1>3. CASE ReadDepth(t)
    <2>1. thread[t].pc = "depth" /\ UNCHANGED <<TT, lock>>
      BY <1>3 DEF ReadDepth
    <2>2. CASE TT[SlotOf(t)].depth >= Top(t).depth
      <3> DEFINE new == [thread[t] EXCEPT !.pc = "flag"]
      <3>1. Go(t, new)
        BY <1>3, <2>2 DEF ReadDepth
      <3>2. /\ new.slot = thread[t].slot /\ new.stack = thread[t].stack
            /\ new.pc \in Reading /\ new.pc # "score"
        BY <1>1 DEF ThreadRecords, Reading
      <3>3. TT[SlotOf(t)].board = Top(t).pos
        BY <2>1 DEF Kept, Own, Reading
      <3> HIDE DEF new
      <3> QED
        BY <1>1, <2>1, <3>1, <3>2, <3>3, ReadsOn
    <2>3. CASE ~(TT[SlotOf(t)].depth >= Top(t).depth)
      <3> DEFINE new == [thread[t] EXCEPT !.pc = "enter", !.slot = 1]
      <3>1. Go(t, new)
        BY <1>3, <2>3 DEF ReadDepth, To
      <3>2. new.pc \notin Reading \cup {"replace"}
        BY <1>1 DEF ThreadRecords, Reading
      <3> HIDE DEF new
      <3> QED
        BY <1>1, <2>1, <3>1, <3>2, QuietGo
    <2> QED
      BY <2>2, <2>3
  <1>4. CASE ReadFlag(t)
    <2> DEFINE new == [thread[t] EXCEPT !.pc = "score", !.flag = TT[SlotOf(t)].flag]
    <2>1. thread[t].pc = "flag" /\ UNCHANGED <<TT, lock>> /\ Go(t, new)
      BY <1>4 DEF ReadFlag
    <2>2. /\ new.slot = thread[t].slot /\ new.stack = thread[t].stack
          /\ new.pc \in Reading /\ TT[SlotOf(t)].flag = new.flag
      BY <1>1 DEF ThreadRecords, Reading
    <2>3. TT[SlotOf(t)].board = Top(t).pos
      BY <2>1 DEF Kept, Own, Reading
    <2> HIDE DEF new
    <2> QED
      BY <1>1, <2>1, <2>2, <2>3, ReadsOn
  <1>5. CASE ReadScore(t)
    <2> DEFINE score == TT[SlotOf(t)].score
               alpha == IF thread[t].flag = "LOWER" THEN MAX(Top(t).alpha, score)
                        ELSE Top(t).alpha
               beta == IF thread[t].flag = "UPPER" THEN MIN(Top(t).beta, score)
                       ELSE Top(t).beta
               new == [thread[t] EXCEPT !.pc = "enter", !.slot = 1,
                                !.stack[1].alpha = alpha, !.stack[1].beta = beta]
    <2>1. UNCHANGED <<TT, lock>>
      BY <1>5 DEF ReadScore
    <2>2. Return(t, score) \/ Go(t, new)
      BY <1>5 DEF ReadScore
    <2>3. new.pc = "enter"
      BY <1>1 DEF ThreadRecords
    <2> HIDE DEF new, score
    <2>4. CASE Return(t, score)
      BY <1>1, <2>1, <2>4, ReturnQuiet
    <2>5. CASE Go(t, new)
      <3>1. new.pc \notin Reading \cup {"replace"}
        BY <2>3 DEF Reading
      <3> QED
        BY <1>1, <2>1, <2>5, <3>1, QuietGo
    <2> QED
      BY <2>2, <2>4, <2>5
  <1> QED
    BY <1>2, <1>3, <1>4, <1>5

LEMMA OthersKept ==
    ASSUME NEW level, Kept(level), IInv, NEW t \in Threads,
           NextMove(t) \/ ReportBest(t) \/ Enter(t) \/ Explore(t) \/ FindWorst(t)
    PROVE  Kept(level)'
  <1>1. TypeOK /\ thread[t] \in ThreadRecords
    BY StateFields DEF IInv
  <1>2. CASE NextMove(t)
    <2>1. PICK new : Go(t, new) /\ new.pc \in {"done", "probe"}
      <3> DEFINE s == state[t[1]]
                 done == [thread[t] EXCEPT !.pc = "done"]
                 next == [thread[t] EXCEPT
                             !.pc = "probe", !.slot = 1,
                             !.move = thread[t].moves[1], !.moves = Tail(@),
                             !.stack = <<Call(thread[t].moves[1], start_depth,
                                              -s.beta, -s.alpha)>>]
      <3>1. Go(t, done) \/ Go(t, next)
        BY <1>2 DEF NextMove
      <3>2. done.pc = "done" /\ next.pc = "probe"
        BY <1>1 DEF ThreadRecords
      <3> HIDE DEF done, next
      <3> QED
        BY <3>1, <3>2
    <2>2. UNCHANGED <<TT, lock>>
      BY <1>2 DEF NextMove
    <2>3. new.pc \notin Reading \cup {"replace"}
      BY <2>1 DEF Reading
    <2> QED
      BY <1>1, <2>1, <2>2, <2>3, QuietGo
  <1>3. CASE ReportBest(t)
    <2>1. thread[t].pc = "report" /\ To(t, "next") /\ UNCHANGED <<TT, lock>>
      BY <1>3 DEF ReportBest
    <2>2. {thread[t].pc, "next"} \cap (Reading \cup {"replace"}) = {}
      BY <2>1 DEF Reading
    <2> QED
      BY <1>1, <2>1, <2>2, QuietWalk
  <1>4. CASE Enter(t)
    <2> DEFINE new == [thread[t] EXCEPT !.pc = "explore",
                                        !.stack[1].valid_moves = Moves[Top(t).pos]]
    <2>1. UNCHANGED <<TT, lock>>
      BY <1>4 DEF Enter
    <2>2. (\E score : Return(t, score)) \/ Go(t, new)
      <3>1. \/ Return(t, evaluate(Top(t).pos, Side[Top(t).pos]))
            \/ Return(t, -INFINITY) \/ Return(t, INFINITY) \/ Go(t, new)
        BY <1>4 DEF Enter
      <3> HIDE DEF new
      <3> QED
        BY <3>1
    <2>3. new.pc = "explore"
      BY <1>1 DEF ThreadRecords
    <2> HIDE DEF new
    <2>4. CASE \E score : Return(t, score)
      BY <1>1, <2>1, <2>4, ReturnQuiet
    <2>5. CASE Go(t, new)
      <3>1. new.pc \notin Reading \cup {"replace"}
        BY <2>3 DEF Reading
      <3> QED
        BY <1>1, <2>1, <2>5, <3>1, QuietGo
    <2> QED
      BY <2>2, <2>4, <2>5
  <1>5. CASE Explore(t)
    <2> DEFINE f == Top(t)
               new == [thread[t] EXCEPT
                   !.pc = "probe", !.slot = 1,
                   !.stack = <<Call(Taken(f.valid_moves), f.depth + 1, -f.beta, -f.alpha),
                               [f EXCEPT !.valid_moves = Left(@)]>> \o Tail(@)]
    <2>1. UNCHANGED <<TT, lock>> /\ thread[t].pc = "explore"
      BY <1>5 DEF Explore
    <2>2. To(t, "update") \/ Go(t, new)
      BY <1>5 DEF Explore
    <2>3. new.pc = "probe"
      BY <1>1 DEF ThreadRecords
    <2> HIDE DEF new
    <2>4. CASE To(t, "update")
      <3>1. {thread[t].pc, "update"} \cap (Reading \cup {"replace"}) = {}
        BY <2>1 DEF Reading
      <3> QED
        BY <1>1, <2>1, <2>4, <3>1, QuietWalk
    <2>5. CASE Go(t, new)
      <3>1. new.pc \notin Reading \cup {"replace"}
        BY <2>3 DEF Reading
      <3> QED
        BY <1>1, <2>1, <2>5, <3>1, QuietGo
    <2> QED
      BY <2>2, <2>4, <2>5
  <1>6. CASE FindWorst(t)
    <2> DEFINE th == thread[t]
               depth == TT[SlotOf(t)].depth
               lower == th.slot = 1 \/ depth < th.depth
               found == [th EXCEPT !.worst = IF lower THEN th.slot ELSE @,
                                   !.depth = IF lower THEN depth ELSE @]
               on == [found EXCEPT !.slot = @ + 1]
               last == [found EXCEPT !.pc = "clean", !.slot = found.worst]
    <2>1. UNCHANGED <<TT, lock>> /\ th.pc = "worst" /\ (Go(t, on) \/ Go(t, last))
      BY <1>6 DEF FindWorst
    <2>2. on.pc = th.pc /\ last.pc = "clean"
      BY <1>1 DEF ThreadRecords
    <2> HIDE DEF on, last
    <2>3. on.pc \notin Reading \cup {"replace"} /\ last.pc \notin Reading \cup {"replace"}
      BY <2>1, <2>2 DEF Reading
    <2> QED
      BY <1>1, <2>1, <2>3, QuietGo
  <1> QED
    BY <1>2, <1>3, <1>4, <1>5, <1>6

LEMMA StartKept ==
    ASSUME NEW level, Kept(level), TypeOK, NEW s \in Searches, StartSearch(s)
    PROVE  Kept(level)'
  <1>1. UNCHANGED <<TT, lock>>
    BY DEF StartSearch
  <1>2. ASSUME NEW t \in Threads
        PROVE  thread'[t] = thread[t] \/ thread'[t].pc = "next"
    <2>1. CASE UNCHANGED thread
      BY <2>1
    <2>2. CASE \E cpu_count \in 1 .. MaxCpus :
                   LET num_threads == MIN(cpu_count, Len(Moves[Root[s]]))
                   IN thread' = [u \in Threads |->
                          IF u[1] = s /\ u[2] <= num_threads
                          THEN [Idle EXCEPT
                                    !.pc = "next",
                                    !.moves = Share(InSearchOrder[Moves[Root[s]]],
                                                    num_threads, u[2])]
                          ELSE thread[u]]
      <3>1. PICK cpu_count \in 1 .. MaxCpus :
                   LET num_threads == MIN(cpu_count, Len(Moves[Root[s]]))
                   IN thread' = [u \in Threads |->
                          IF u[1] = s /\ u[2] <= num_threads
                          THEN [Idle EXCEPT
                                    !.pc = "next",
                                    !.moves = Share(InSearchOrder[Moves[Root[s]]],
                                                    num_threads, u[2])]
                          ELSE thread[u]]
        BY <2>2
      <3> DEFINE n == MIN(cpu_count, Len(Moves[Root[s]]))
                 fresh == [Idle EXCEPT !.pc = "next",
                               !.moves = Share(InSearchOrder[Moves[Root[s]]], n, t[2])]
      <3>2. thread'[t] = fresh \/ thread'[t] = thread[t]
        BY <3>1
      <3>3. fresh.pc = "next"
        BY DEF Idle
      <3> HIDE DEF fresh
      <3> QED
        BY <3>2, <3>3
    <2> QED
      BY <2>1, <2>2 DEF StartSearch
  <1>3. ASSUME NEW t \in Threads
        PROVE  Own(t)'
    <2>1. CASE thread'[t] = thread[t]
      <3>1. SlotOf(t)' = SlotOf(t) /\ Top(t)' = Top(t)
        BY <2>1 DEF SlotOf, Top
      <3> QED
        BY <1>1, <2>1, <3>1 DEF Kept, Own
    <2>2. CASE thread'[t].pc = "next"
      BY <2>2 DEF Own, Reading
    <2> QED
      BY <1>2, <2>1, <2>2
  <1> QED
    BY <1>1, <1>3 DEF Kept

LEMMA StillKept ==
    ASSUME NEW level, Kept(level), UNCHANGED <<TT, lock, thread>>
    PROVE  Kept(level)'
  <1>1. \A t \in Threads : SlotOf(t)' = SlotOf(t) /\ Top(t)' = Top(t)
    BY DEF SlotOf, Top
  <1> QED
    BY <1>1 DEF Kept, Own

LEMMA KeptStays ==
    ASSUME NEW level, Graded(level), Kept(level), IInv, NoneReadsWhatIsCleaned, [Next]_vars
    PROVE  Kept(level)'
  <1>1. TypeOK
    BY DEF IInv
  <1>2. ASSUME NEW s \in Searches, StartSearch(s) PROVE Kept(level)'
    BY <1>1, <1>2, StartKept
  <1>3. ASSUME NEW s \in Searches, JoinThreads(s) PROVE Kept(level)'
    BY <1>3, StillKept DEF JoinThreads
  <1>4. ASSUME NEW t \in Threads, ThreadStep(t) PROVE Kept(level)'
    BY <1>4, LookingKept, OthersKept, StoreUpdateKept, StoreInsertKept, CleanWorstKept,
       StoreReplaceKept DEF ThreadStep
  <1>5. CASE UNCHANGED vars
    BY <1>5, StillKept DEF vars
  <1> QED
    BY <1>2, <1>3, <1>4, <1>5 DEF Next

LEMMA KeptAtFirst ==
    ASSUME NEW level, Init
    PROVE  Kept(level)
  <1>1. \A t \in Threads : thread[t].pc = "idle"
    BY DEF Init, Idle
  <1>2. \A x \in Slots : TT[x].board = None
    BY DEF Init, Cleaned
  <1>3. lock \in [Slots -> Threads \cup {None}]
    BY DEF Init
  <1> QED
    BY <1>1, <1>2, <1>3 DEF Kept, Own, Reading

LEMMA KeptOwns ==
    ASSUME NEW level, Graded(level), Kept(level), IInv
    PROVE  UsesOwnEntries
  <1>1. ASSUME NEW t \in Threads, thread[t].pc = "score"
        PROVE  LET e == TT[SlotOf(t)]
               IN /\ e.board = Top(t).pos
                  /\ e.depth = Top(t).depth
                  /\ e.flag = thread[t].flag
    <2>1. thread[t].pc \in Reading /\ thread[t].pc \in Inside
      BY <1>1 DEF Reading, Inside, Looking
    <2>2. TT[SlotOf(t)].board = Top(t).pos /\ TT[SlotOf(t)].board # None
      BY <2>1, ReadHasBoard
    <2>3. SlotOf(t) \in Slots
      BY <2>1, EntryLevel
    <2>4. TT[SlotOf(t)].depth = Top(t).depth
      BY <2>1, <2>2, <2>3, LevelIs DEF Kept
    <2> QED
      BY <1>1, <2>2, <2>4 DEF Kept, Own
  <1> QED
    BY <1>1 DEF UsesOwnEntries

LEMMA OwnEntries ==
    ASSUME NEW level, Graded(level)
    PROVE  Spec /\ []NoneReadsWhatIsCleaned => [](IInv /\ Kept(level))
  <1>1. Init => IInv /\ Kept(level)
    BY InitGood, KeptAtFirst DEF IInv
  <1>2. IInv /\ Kept(level) /\ NoneReadsWhatIsCleaned /\ [Next]_vars => (IInv /\ Kept(level))'
    BY KeptStays, KeptOwns, IInvStays
  <1> QED
    BY <1>1, <1>2, PTL DEF Spec

(* Where a position is met at one depth only, the one thing that can make  *)
(* the search answer wrongly is that an entry is cleaned while it is read: *)
(* an entry is not updated in place, and an empty slot has no reader.      *)
THEOREM GradedTreesAreSafe ==
    ASSUME NEW level, Graded(level)
    PROVE  Spec /\ []NoneReadsWhatIsCleaned => [](ReturnsABestMove /\ EntriesAreTrue)
  <1>1. IInv /\ Kept(level) => ReturnsABestMove /\ EntriesAreTrue
    BY IInvTrue, IInvReturns
  <1> QED
    BY <1>1, OwnEntries, PTL

(* A search alone in the process on a machine of one processor: nobody     *)
(* cleans what its thread reads, so negamax with its table is exact.       *)
THEOREM OneThreadIsSafe ==
    ASSUME NEW level, Graded(level), NEW only, Threads = {only}
    PROVE  Spec => [](ReturnsABestMove /\ EntriesAreTrue)
  <1>1. NoneReadsWhatIsCleaned
    BY DEF NoneReadsWhatIsCleaned
  <1> QED
    BY <1>1, GradedTreesAreSafe, PTL

=============================================================================
