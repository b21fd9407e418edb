------------------------- MODULE ChezzMirror_proofs --------------------------
(***************************************************************************)
(* Proofs that the engine's evaluation (ChezzEval) favours no colour: what *)
(* each heuristic makes of a board for one side, it makes of the mirrored  *)
(* board for the other, although the source writes every heuristic twice,  *)
(* with shifts, rows and directions turned by hand.  The squares, masks    *)
(* and walks turn first, then the boards, then the sums, one heuristic     *)
(* after the other.                                                        *)
(***************************************************************************)
EXTENDS ChezzEngine_proofs

-----------------------------------------------------------------------------
(***************************************************************************)
(* Sums over sets.  The library adds the elements in an order that CHOOSE  *)
(* picks; the function it builds exists, the order does not matter, and a  *)
(* sum is the same over any set that pairs off with the first.             *)
(***************************************************************************)
Pick(U) == CHOOSE x \in U : TRUE
Adds(f, S, g) ==
    g = [U \in SUBSET S |-> IF U = {} THEN 0 ELSE f[Pick(U)] + g[U \ {Pick(U)}]]
SumOf(f, S) == (CHOOSE g : Adds(f, S, g))[S]

LEMMA PickIs == \A U : U # {} => Pick(U) \in U
  BY DEF Pick

LEMMA Without ==
    ASSUME NEW S, IsFiniteSet(S)
    PROVE  \A U \in SUBSET S :
               /\ IsFiniteSet(U) /\ Cardinality(U) \in Nat
               /\ Cardinality(U) = 0 <=> U = {}
               /\ \A x \in U : U \ {x} \in SUBSET S /\ Cardinality(U \ {x}) = Cardinality(U) - 1
  <1> SUFFICES ASSUME NEW U \in SUBSET S
               PROVE  /\ IsFiniteSet(U) /\ Cardinality(U) \in Nat
                      /\ Cardinality(U) = 0 <=> U = {}
                      /\ \A x \in U : U \ {x} \in SUBSET S /\ Cardinality(U \ {x}) = Cardinality(U) - 1
    OBVIOUS
  <1>1. IsFiniteSet(U)
    BY FS_Subset
  <1>2. Cardinality(U) \in Nat /\ (Cardinality(U) = 0 <=> U = {})
    BY <1>1, FS_CardinalityType, FS_EmptySet
  <1>3. \A x \in U : Cardinality(U \ {x}) = Cardinality(U) - 1
    BY <1>1, FS_RemoveElement
  <1> QED
    BY <1>1, <1>2, <1>3

LEMMA AdderExists ==
    ASSUME NEW S, IsFiniteSet(S), NEW f \in [S -> Int]
    PROVE  \E g \in [SUBSET S -> Int] : Adds(f, S, g)
  <1> DEFINE Small(k) == {U \in SUBSET S : Cardinality(U) <= k}
             Body(g, U) == IF U = {} THEN 0 ELSE f[Pick(U)] + g[U \ {Pick(U)}]
             Is(g, k) == g \in [Small(k) -> Int] /\ \A U \in Small(k) : g[U] = Body(g, U)
             K == {k \in Nat : \E g : Is(g, k)}
             n == Cardinality(S)
  <1>1. /\ n \in Nat
        /\ \A U \in SUBSET S : Cardinality(U) \in Nat /\ (Cardinality(U) = 0 <=> U = {})
        /\ \A U \in SUBSET S : U # {} =>
               /\ Pick(U) \in U /\ f[Pick(U)] \in Int
               /\ U \ {Pick(U)} \in SUBSET S
               /\ Cardinality(U \ {Pick(U)}) = Cardinality(U) - 1
    BY Without, PickIs
  <1>2. 0 \in K
    <2> DEFINE g == [U \in Small(0) |-> 0]
    <2>1. \A U \in Small(0) : U = {}
      BY <1>1
    <2>2. Is(g, 0)
      BY <2>1
    <2> HIDE DEF g, Is
    <2> QED
      BY <2>2
  <1>3. ASSUME NEW k \in Nat, k \in K PROVE k + 1 \in K
    <2>1. PICK h : Is(h, k)
      BY <1>3
    <2> DEFINE g == [U \in Small(k + 1) |-> Body(h, U)]
    <2>2. \A U \in Small(k + 1) : U # {} => U \ {Pick(U)} \in Small(k)
      BY <1>1
    <2>3. \A U \in Small(k) : U \in Small(k + 1) /\ g[U] = h[U]
      BY <1>1, <2>1
    <2>4. \A U \in Small(k + 1) : Body(h, U) \in Int
      BY <1>1, <2>1, <2>2
    <2>5. \A U \in Small(k + 1) : g[U] = Body(g, U)
      BY <2>2, <2>3
    <2>6. Is(g, k + 1)
      BY <2>4, <2>5
    <2> HIDE DEF g, Is
    <2> QED
      BY <2>6
  <1> HIDE DEF Is
  <1>4. n \in K
    <2> HIDE DEF K, n
    <2> QED
      BY <1>1, <1>2, <1>3, Induct
  <1>5. PICK g : Is(g, n)
    BY <1>4
  <1>6. Small(n) = SUBSET S
    <2>1. \A U \in SUBSET S : Cardinality(U) <= n
      BY FS_Subset
    <2> QED
      BY <2>1
  <1>7. g \in [SUBSET S -> Int] /\ \A U \in SUBSET S : g[U] = Body(g, U)
    BY <1>5, <1>6 DEF Is
  <1>8. Adds(f, S, g)
    <2> DEFINE e == [U \in SUBSET S |-> Body(g, U)]
    <2>1. \A U \in SUBSET S : g[U] = e[U]
      BY <1>7
    <2>2. g = e
      BY <1>7, <2>1
    <2> QED
      BY <2>2 DEF Adds
  <1> QED
    BY <1>7, <1>8

(* Any element can be taken off first.                                     *)
Peels(f, S, g) ==
    /\ g[{}] = 0
    /\ \A U \in SUBSET S : g[U] \in Int
    /\ \A U \in SUBSET S : \A x \in U : g[U] = f[x] + g[U \ {x}]

LEMMA AdderPeels ==
    ASSUME NEW S, IsFiniteSet(S), NEW f \in [S -> Int], NEW g, Adds(f, S, g)
    PROVE  Peels(f, S, g)
  <1>1. /\ \A U \in SUBSET S : U # {} => g[U] = f[Pick(U)] + g[U \ {Pick(U)}]
        /\ g[{}] = 0
    BY DEF Adds
  <1>2. \A U \in SUBSET S :
            /\ Cardinality(U) \in Nat /\ (Cardinality(U) = 0 <=> U = {})
            /\ \A x \in U : U \ {x} \in SUBSET S /\ Cardinality(U \ {x}) = Cardinality(U) - 1
            /\ U # {} => Pick(U) \in U
            /\ \A x \in U : f[x] \in Int
    BY Without, PickIs
  <1> DEFINE K == {k \in Nat : \A U \in SUBSET S : Cardinality(U) = k => g[U] \in Int}
             L == {k \in Nat : \A U \in SUBSET S : Cardinality(U) = k =>
                                   \A x \in U : g[U] = f[x] + g[U \ {x}]}
  <1>3. ASSUME NEW U \in SUBSET S PROVE g[U] \in Int
    <2>1. 0 \in K
      <3>1. \A V \in SUBSET S : Cardinality(V) = 0 => V = {}
        BY <1>2
      <3>2. g[{}] \in Int
        BY <1>1
      <3> QED
        BY <3>1, <3>2
    <2>2. ASSUME NEW k \in Nat, k \in K PROVE k + 1 \in K
      <3> SUFFICES ASSUME NEW V \in SUBSET S, Cardinality(V) = k + 1 PROVE g[V] \in Int
        OBVIOUS
      <3>1. V # {} /\ Pick(V) \in V
        BY <1>2
      <3>2. V \ {Pick(V)} \in SUBSET S /\ Cardinality(V \ {Pick(V)}) = k /\ f[Pick(V)] \in Int
        BY <1>2, <3>1
      <3>3. g[V \ {Pick(V)}] \in Int
        BY <2>2, <3>2
      <3> QED
        BY <1>1, <3>1, <3>2, <3>3
    <2>3. Cardinality(U) \in Nat
      BY <1>2
    <2>4. Cardinality(U) \in K
      <3> HIDE DEF K
      <3> QED
        BY <2>1, <2>2, <2>3, Induct
    <2> QED
      BY <2>4
  <1>4. ASSUME NEW U \in SUBSET S, NEW x \in U PROVE g[U] = f[x] + g[U \ {x}]
    <2>1. 0 \in L
      BY <1>2
    <2>2. ASSUME NEW k \in Nat, k \in L PROVE k + 1 \in L
      <3> SUFFICES ASSUME NEW V \in SUBSET S, Cardinality(V) = k + 1, NEW w \in V
                   PROVE  g[V] = f[w] + g[V \ {w}]
        OBVIOUS
      <3>0. PICK y : y = Pick(V)
        OBVIOUS
      <3>1. V # {} /\ y \in V
        BY <1>2, <3>0
      <3>2. g[V] = f[y] + g[V \ {y}]
        BY <1>1, <3>0, <3>1
      <3>3. CASE w # y
        <4>1. w \in V \ {y} /\ y \in V \ {w} /\ (V \ {y}) \ {w} = (V \ {w}) \ {y}
          BY <3>1, <3>3
        <4>2. /\ V \ {y} \in SUBSET S /\ Cardinality(V \ {y}) = k
              /\ V \ {w} \in SUBSET S /\ Cardinality(V \ {w}) = k
          BY <1>2, <3>1
        <4>3. g[V \ {y}] = f[w] + g[(V \ {y}) \ {w}]
          BY <2>2, <4>1, <4>2
        <4>4. g[V \ {w}] = f[y] + g[(V \ {w}) \ {y}]
          BY <2>2, <4>1, <4>2
        <4>5. f[w] \in Int /\ f[y] \in Int /\ g[(V \ {w}) \ {y}] \in Int
          BY <1>2, <1>3, <3>1
        <4>6. g[(V \ {y}) \ {w}] = g[(V \ {w}) \ {y}]
          BY <4>1
        <4>7. PICK m \in Int : m = g[(V \ {w}) \ {y}]
          BY <4>5
        <4>8. g[V \ {y}] = f[w] + m /\ g[V \ {w}] = f[y] + m
          BY <4>3, <4>4, <4>6, <4>7
        <4> QED
          BY <3>2, <4>5, <4>8
      <3> QED
        BY <3>2, <3>3
    <2>3. Cardinality(U) \in Nat
      BY <1>2
    <2>4. Cardinality(U) \in L
      <3> HIDE DEF L
      <3> QED
        BY <2>1, <2>2, <2>3, Induct
    <2> QED
      BY <2>4
  <1> QED
    BY <1>1, <1>3, <1>4 DEF Peels

(* Sums over two sets that pair off agree.                                 *)
Pairs(p, S, T) ==
    /\ p \in [S -> T]
    /\ \A x, y \in S : p[x] = p[y] => x = y
    /\ \A y \in T : \E x \in S : p[x] = y

LEMMA PeelsAgree ==
    ASSUME NEW S, IsFiniteSet(S), NEW T, IsFiniteSet(T), NEW f, NEW e, NEW g, NEW h,
           Peels(f, S, g), Peels(e, T, h), NEW p, Pairs(p, S, T),
           \A x \in S : f[x] = e[p[x]]
    PROVE  g[S] = h[T]
  <1> DEFINE Image(U) == {p[x] : x \in U}
             K == {k \in Nat : \A U \in SUBSET S : Cardinality(U) = k => g[U] = h[Image(U)]}
  <1>1. \A U \in SUBSET S :
            /\ Cardinality(U) \in Nat /\ (Cardinality(U) = 0 <=> U = {})
            /\ \A x \in U : U \ {x} \in SUBSET S /\ Cardinality(U \ {x}) = Cardinality(U) - 1
    BY Without
  <1>2. 0 \in K
    <2>1. Image({}) = {}
      OBVIOUS
    <2> QED
      BY <1>1, <2>1 DEF Peels
  <1>3. ASSUME NEW k \in Nat, k \in K PROVE k + 1 \in K
    <2> SUFFICES ASSUME NEW U \in SUBSET S, Cardinality(U) = k + 1 PROVE g[U] = h[Image(U)]
      OBVIOUS
    <2>1. PICK x : x \in U
      BY <1>1
    <2>2. U \ {x} \in SUBSET S /\ Cardinality(U \ {x}) = k
      BY <1>1, <2>1
    <2>3. g[U \ {x}] = h[Image(U \ {x})]
      BY <1>3, <2>2
    <2>4. Image(U \ {x}) = Image(U) \ {p[x]} /\ p[x] \in Image(U) /\ Image(U) \in SUBSET T
      BY <2>1 DEF Pairs
    <2>5. g[U] = f[x] + g[U \ {x}]
      BY <2>1 DEF Peels
    <2> HIDE DEF Image
    <2>6. h[Image(U)] = e[p[x]] + h[Image(U) \ {p[x]}]
      BY <2>4 DEF Peels
    <2>7. f[x] = e[p[x]]
      BY <2>1
    <2> QED
      BY <2>3, <2>4, <2>5, <2>6, <2>7
  <1>4. Cardinality(S) \in K
    <2>1. Cardinality(S) \in Nat
      BY <1>1
    <2> HIDE DEF K
    <2> QED
      BY <1>2, <1>3, <2>1, Induct
  <1>5. Image(S) = T
    BY DEF Pairs
  <1> QED
    BY <1>4, <1>5

LEMMA SumPeels ==
    ASSUME NEW S, IsFiniteSet(S), NEW f \in [S -> Int]
    PROVE  \E g : Peels(f, S, g) /\ SumOf(f, S) = g[S]
  <1> DEFINE g == CHOOSE g : Adds(f, S, g)
  <1>1. Adds(f, S, g)
    BY AdderExists
  <1> HIDE DEF g
  <1>2. Peels(f, S, g)
    BY <1>1, AdderPeels
  <1> QED
    BY <1>2 DEF SumOf, g

LEMMA SameSum ==
    ASSUME NEW S, IsFiniteSet(S), NEW T, IsFiniteSet(T), NEW f \in [S -> Int],
           NEW e \in [T -> Int], NEW p, Pairs(p, S, T), \A x \in S : f[x] = e[p[x]]
    PROVE  SumOf(f, S) = SumOf(e, T) /\ SumOf(f, S) \in Int
  <1>1. PICK g : Peels(f, S, g) /\ SumOf(f, S) = g[S]
    BY SumPeels
  <1>2. PICK h : Peels(e, T, h) /\ SumOf(e, T) = h[T]
    BY SumPeels
  <1>3. g[S] = h[T]
    BY <1>1, <1>2, PeelsAgree
  <1>4. g[S] \in Int
    BY <1>1 DEF Peels
  <1> QED
    BY <1>1, <1>2, <1>3, <1>4

(* Whatever the library's fold chooses, it is this sum.                    *)
LEMMA AddsGives ==
    ASSUME NEW S, IsFiniteSet(S), NEW f \in [S -> Int], NEW g, Adds(f, S, g)
    PROVE  g[S] = SumOf(f, S)
  <1>1. Peels(f, S, g)
    BY AdderPeels
  <1>2. PICK h : Peels(f, S, h) /\ SumOf(f, S) = h[S]
    BY SumPeels
  <1> DEFINE p == [x \in S |-> x]
  <1>3. Pairs(p, S, S) /\ \A x \in S : f[x] = f[p[x]]
    BY DEF Pairs
  <1> HIDE DEF p
  <1>4. g[S] = h[S]
    BY <1>1, <1>2, <1>3, PeelsAgree
  <1> QED
    BY <1>2, <1>4

(* Two terms of one total.                                                 *)
LEMMA SumsTogether ==
    ASSUME NEW S, IsFiniteSet(S), NEW f \in [S -> Int], NEW e \in [S -> Int], NEW c \in Int,
           \A x \in S : f[x] + e[x] = c
    PROVE  SumOf(f, S) + SumOf(e, S) = c * Cardinality(S)
  <1>1. PICK g : Peels(f, S, g) /\ SumOf(f, S) = g[S]
    BY SumPeels
  <1>2. PICK h : Peels(e, S, h) /\ SumOf(e, S) = h[S]
    BY SumPeels
  <1> DEFINE K == {k \in Nat : \A U \in SUBSET S : Cardinality(U) = k => g[U] + h[U] = c * k}
  <1>3. \A U \in SUBSET S :
            /\ Cardinality(U) \in Nat /\ (Cardinality(U) = 0 <=> U = {})
            /\ \A x \in U : U \ {x} \in SUBSET S /\ Cardinality(U \ {x}) = Cardinality(U) - 1
    BY Without
  <1>4. 0 \in K
    <2>1. \A U \in SUBSET S : Cardinality(U) = 0 => U = {}
      BY <1>3
    <2>2. g[{}] + h[{}] = c * 0
      BY <1>1, <1>2 DEF Peels
    <2> QED
      BY <2>1, <2>2
  <1>5. ASSUME NEW k \in Nat, k \in K PROVE k + 1 \in K
    <2> SUFFICES ASSUME NEW U \in SUBSET S, Cardinality(U) = k + 1
                 PROVE  g[U] + h[U] = c * (k + 1)
      OBVIOUS
    <2>1. PICK x : x \in U
      BY <1>3
    <2>2. U \ {x} \in SUBSET S /\ Cardinality(U \ {x}) = k
      <3>1. Cardinality(U \ {x}) = (k + 1) - 1
        BY <1>3, <2>1
      <3> QED
        BY <2>1, <3>1
    <2>3. g[U \ {x}] + h[U \ {x}] = c * k
      BY <1>5, <2>2
    <2>4. /\ g[U] = f[x] + g[U \ {x}] /\ h[U] = e[x] + h[U \ {x}]
          /\ g[U \ {x}] \in Int /\ h[U \ {x}] \in Int
      BY <1>1, <1>2, <2>1, <2>2 DEF Peels
    <2>5. f[x] + e[x] = c /\ f[x] \in Int /\ e[x] \in Int
      BY <2>1
    <2>6. PICK m \in Int : m = c * k
      OBVIOUS
    <2>7. c * (k + 1) = m + c
      BY <2>6
    <2>8. g[U \ {x}] + h[U \ {x}] = m
      BY <2>3, <2>6
    <2>9. g[U] + h[U] = m + c
      BY <2>4, <2>5, <2>8
    <2> QED
      BY <2>7, <2>9
  <1>6. Cardinality(S) \in K
    <2>1. Cardinality(S) \in Nat
      BY <1>3
    <2> HIDE DEF K
    <2> QED
      BY <1>4, <1>5, <2>1, Induct
  <1> QED
    BY <1>1, <1>2, <1>6

-----------------------------------------------------------------------------
(***************************************************************************)
(* The board seen from the other side of the table (Mirror): a square      *)
(* turned, a set of squares turned, a type of the other colour.            *)
(***************************************************************************)
Turned(s) == SquareAt(7 - RowOf(s), ColOf(s))

LEMMA TurnedIs ==
    ASSUME NEW s \in Squares
    PROVE  /\ Turned(s) \in Squares /\ Turned(Turned(s)) = s
           /\ RowOf(Turned(s)) = 7 - RowOf(s) /\ ColOf(Turned(s)) = ColOf(s)
  <1>1. /\ RowOf(s) \in 0 .. 7 /\ ColOf(s) \in 0 .. 7 /\ s = 8 * RowOf(s) + ColOf(s)
        /\ 7 - RowOf(s) \in 0 .. 7
    BY ByCoordinates
  <1>2. /\ Turned(s) \in Squares
        /\ RowOf(Turned(s)) = 7 - RowOf(s) /\ ColOf(Turned(s)) = ColOf(s)
    BY <1>1, ThisSquare DEF Turned
  <1>3. Turned(Turned(s)) = (7 - (7 - RowOf(s))) * 8 + ColOf(s)
    BY <1>2 DEF Turned, SquareAt
  <1> QED
    BY <1>1, <1>2, <1>3

LEMMA TurnedOnce ==
    \A s, q \in Squares : Turned(s) = q <=> s = Turned(q)
  BY TurnedIs

(* T is S turned.                                                          *)
Turns(S, T) ==
    /\ S \subseteq Squares /\ T \subseteq Squares
    /\ \A s \in Squares : s \in S <=> Turned(s) \in T

LEMMA TurnsBack ==
    ASSUME NEW S, NEW T, Turns(S, T)
    PROVE  Turns(T, S)
  BY TurnedIs DEF Turns

LEMMA FlipTurns ==
    ASSUME NEW S \in SUBSET Squares
    PROVE  Turns(S, Flip(S))
  <1>1. Flip(S) = {Turned(s) : s \in S}
    BY DEF Flip, Turned
  <1> QED
    BY <1>1, TurnedIs DEF Turns

(* The members and the set operations turn along.                          *)
LEMMA TurnsEach ==
    ASSUME NEW S, NEW T, Turns(S, T)
    PROVE  /\ \A s \in S : s \in Squares /\ Turned(s) \in T
           /\ \A q \in T : q \in Squares /\ Turned(q) \in S
           /\ S = {} <=> T = {}
  BY TurnedIs DEF Turns

LEMMA TurnsSets ==
    ASSUME NEW A, NEW B, NEW S, NEW T, Turns(A, B), Turns(S, T)
    PROVE  Turns(A \cup S, B \cup T) /\ Turns(A \cap S, B \cap T) /\ Turns(A \ S, B \ T)
  BY DEF Turns

LEMMA TurnsOf ==
    ASSUME NEW S \in SUBSET Squares, NEW T \in SUBSET Squares,
           \A s \in Squares : s \in S <=> Turned(s) \in T
    PROVE  Turns(S, T)
  BY DEF Turns

LEMMA TurnsCount ==
    ASSUME NEW S, NEW T, Turns(S, T)
    PROVE  /\ IsFiniteSet(S) /\ IsFiniteSet(T)
           /\ Cardinality(S) = Cardinality(T) /\ Cardinality(S) \in Nat
           /\ Pairs([s \in S |-> Turned(s)], S, T)
  <1> DEFINE p == [s \in S |-> Turned(s)]
  <1>1. IsFiniteSet(S) /\ IsFiniteSet(T)
    BY SquaresFinite DEF Turns
  <1>2. /\ p \in [S -> T]
        /\ \A x, y \in S : p[x] = p[y] => x = y
        /\ \A y \in T : \E x \in S : p[x] = y
    BY TurnedIs, TurnsEach
  <1> HIDE DEF p
  <1>3. Cardinality(T) = Cardinality(S)
    BY <1>1, <1>2, PairedOff
  <1>4. Pairs(p, S, T)
    BY <1>2 DEF Pairs
  <1> QED
    BY <1>1, <1>3, <1>4, FS_CardinalityType DEF p

-----------------------------------------------------------------------------
(* s is dr rows and dc columns away from q.                                *)
Off(q, s, dr, dc) == RowOf(s) = RowOf(q) + dr /\ ColOf(s) = ColOf(q) + dc

LEMMA OffIs ==
    ASSUME NEW q \in Squares, NEW s \in Squares
    PROVE  /\ s = q + 8 <=> Off(q, s, 1, 0)
           /\ s = q - 8 <=> Off(q, s, -1, 0)
           /\ ColOf(q) # 0 /\ s = q - 1 <=> Off(q, s, 0, -1)
           /\ ColOf(q) # 0 /\ s = q - 9 <=> Off(q, s, -1, -1)
           /\ ColOf(q) # 0 /\ s = q + 7 <=> Off(q, s, 1, -1)
           /\ ColOf(q) # 7 /\ s = q + 1 <=> Off(q, s, 0, 1)
           /\ ColOf(q) # 7 /\ s = q + 9 <=> Off(q, s, 1, 1)
           /\ ColOf(q) # 7 /\ s = q - 7 <=> Off(q, s, -1, 1)
  <1> DEFINE r == RowOf(q)
             c == ColOf(q)
             x == RowOf(s)
             y == ColOf(s)
  <1>1. /\ r \in 0 .. 7 /\ c \in 0 .. 7 /\ x \in 0 .. 7 /\ y \in 0 .. 7
        /\ q = 8 * r + c /\ s = 8 * x + y
    BY ByCoordinates
  <1>2. \A dr, dc : Off(q, s, dr, dc) <=> x = r + dr /\ y = c + dc
    BY DEF Off
  <1> HIDE DEF r, c, x, y
  <1>3. /\ 8 * x + y = 8 * r + c + 8 <=> x = r + 1 /\ y = c + 0
        /\ 8 * x + y = 8 * r + c - 8 <=> x = r + -1 /\ y = c + 0
        /\ c # 0 /\ 8 * x + y = 8 * r + c - 1 <=> x = r + 0 /\ y = c + -1
        /\ c # 0 /\ 8 * x + y = 8 * r + c - 9 <=> x = r + -1 /\ y = c + -1
        /\ c # 0 /\ 8 * x + y = 8 * r + c + 7 <=> x = r + 1 /\ y = c + -1
        /\ c # 7 /\ 8 * x + y = 8 * r + c + 1 <=> x = r + 0 /\ y = c + 1
        /\ c # 7 /\ 8 * x + y = 8 * r + c + 9 <=> x = r + 1 /\ y = c + 1
        /\ c # 7 /\ 8 * x + y = 8 * r + c - 7 <=> x = r + -1 /\ y = c + 1
    BY <1>1
  <1> QED
    BY <1>1, <1>2, <1>3 DEF c

LEMMA OffTurned ==
    ASSUME NEW q \in Squares, NEW s \in Squares
    PROVE  \A dr, er, dc \in -2 .. 2 :
               dr + er = 0 => (Off(Turned(q), Turned(s), er, dc) <=> Off(q, s, dr, dc))
  <1>1. /\ RowOf(q) \in 0 .. 7 /\ RowOf(s) \in 0 .. 7
        /\ RowOf(Turned(q)) = 7 - RowOf(q) /\ ColOf(Turned(q)) = ColOf(q)
        /\ RowOf(Turned(s)) = 7 - RowOf(s) /\ ColOf(Turned(s)) = ColOf(s)
    BY ByCoordinates, TurnedIs
  <1> QED
    BY <1>1 DEF Off

(* A set moved one square up goes one down when turned.                    *)
LEMMA ShiftIs ==
    ASSUME NEW P \in SUBSET Squares, NEW s \in Squares
    PROVE  /\ s \in Shift(P, 8) <=> \E q \in P : Off(q, s, 1, 0)
           /\ s \in Shift(P, -8) <=> \E q \in P : Off(q, s, -1, 0)
           /\ s \in Shift(OffCol(P, 0), -1) <=> \E q \in P : Off(q, s, 0, -1)
           /\ s \in Shift(OffCol(P, 7), 1) <=> \E q \in P : Off(q, s, 0, 1)
           /\ \A r : s \in Shift(OffRow(OffCol(P, 0), r), -9) <=>
                         \E q \in P : RowOf(q) # r /\ Off(q, s, -1, -1)
           /\ \A r : s \in Shift(OffRow(OffCol(P, 0), r), 7) <=>
                         \E q \in P : RowOf(q) # r /\ Off(q, s, 1, -1)
           /\ \A r : s \in Shift(OffRow(OffCol(P, 7), r), 9) <=>
                         \E q \in P : RowOf(q) # r /\ Off(q, s, 1, 1)
           /\ \A r : s \in Shift(OffRow(OffCol(P, 7), r), -7) <=>
                         \E q \in P : RowOf(q) # r /\ Off(q, s, -1, 1)
  <1>1. \A q \in P : /\ q \in Int
                     /\ s = q + 8 <=> Off(q, s, 1, 0)
                     /\ s = q + -8 <=> Off(q, s, -1, 0)
                     /\ ColOf(q) # 0 /\ s = q + -1 <=> Off(q, s, 0, -1)
                     /\ ColOf(q) # 0 /\ s = q + -9 <=> Off(q, s, -1, -1)
                     /\ ColOf(q) # 0 /\ s = q + 7 <=> Off(q, s, 1, -1)
                     /\ ColOf(q) # 7 /\ s = q + 1 <=> Off(q, s, 0, 1)
                     /\ ColOf(q) # 7 /\ s = q + 9 <=> Off(q, s, 1, 1)
                     /\ ColOf(q) # 7 /\ s = q + -7 <=> Off(q, s, -1, 1)
    <2> SUFFICES ASSUME NEW q \in P
                 PROVE  /\ q \in Int
                        /\ s = q + 8 <=> Off(q, s, 1, 0)
                        /\ s = q + -8 <=> Off(q, s, -1, 0)
                        /\ ColOf(q) # 0 /\ s = q + -1 <=> Off(q, s, 0, -1)
                        /\ ColOf(q) # 0 /\ s = q + -9 <=> Off(q, s, -1, -1)
                        /\ ColOf(q) # 0 /\ s = q + 7 <=> Off(q, s, 1, -1)
                        /\ ColOf(q) # 7 /\ s = q + 1 <=> Off(q, s, 0, 1)
                        /\ ColOf(q) # 7 /\ s = q + 9 <=> Off(q, s, 1, 1)
                        /\ ColOf(q) # 7 /\ s = q + -7 <=> Off(q, s, -1, 1)
      OBVIOUS
    <2>1. q \in Int
      BY DEF Squares
    <2>2. q - 8 = q + -8 /\ q - 1 = q + -1 /\ q - 9 = q + -9 /\ q - 7 = q + -7
      BY <2>1
    <2> QED
      BY <2>1, <2>2, OffIs, Zenon
  <1> QED
    BY <1>1 DEF Shift, OffCol, OffRow

-----------------------------------------------------------------------------
(* The type of the other colour, and two boards that mirror each other.    *)
Foe(t) == IF t \in WhiteTypes THEN t + 1 ELSE t - 1

Mirrored(b, m) ==
    /\ Sound(b) /\ Sound(m)
    /\ \A t \in Types : Turns(b.pieces[t], m.pieces[Foe(t)])
    /\ Turns(b.white, m.black) /\ Turns(b.black, m.white) /\ Turns(b.all, m.all)

LEMMA FoeIs ==
    /\ Foe(WP) = BP /\ Foe(WN) = BN /\ Foe(WB) = BB /\ Foe(WR) = BR /\ Foe(WQ) = BQ
    /\ Foe(WK) = BK /\ Foe(WZ) = BZ /\ Foe(WF) = BF /\ Foe(WC) = BC
    /\ Foe(BP) = WP /\ Foe(BN) = WN /\ Foe(BB) = WB /\ Foe(BR) = WR /\ Foe(BQ) = WQ
    /\ Foe(BK) = WK /\ Foe(BZ) = WZ /\ Foe(BF) = WF /\ Foe(BC) = WC
  BY DEF Foe, WhiteTypes, WP, WN, WB, WR, WQ, WK, WZ, WF, WC, BP, BN, BB, BR, BQ, BK, BZ, BF, BC

LEMMA FoeFacts ==
    /\ \A t \in Types : Foe(t) \in Types /\ Foe(Foe(t)) = t
    /\ \A t \in Types : t \in WhiteTypes <=> Foe(t) \in BlackTypes
    /\ \A t \in Types : t \in BlackTypes <=> Foe(t) \in WhiteTypes
  <1>1. \A t \in {WP, WN, WB, WR, WQ, WK, WZ, WF, WC} :
            Foe(Foe(t)) = t /\ Foe(t) \in {BP, BN, BB, BR, BQ, BK, BZ, BF, BC}
    BY FoeIs
  <1>2. \A t \in {BP, BN, BB, BR, BQ, BK, BZ, BF, BC} :
            Foe(Foe(t)) = t /\ Foe(t) \in {WP, WN, WB, WR, WQ, WK, WZ, WF, WC}
    BY FoeIs
  <1> QED
    BY <1>1, <1>2, TypeFacts

LEMMA MirroredBack ==
    ASSUME NEW b, NEW m, Mirrored(b, m)
    PROVE  Mirrored(m, b)
  <1>1. \A t \in Types : Turns(m.pieces[t], b.pieces[Foe(t)])
    <2> SUFFICES ASSUME NEW t \in Types PROVE Turns(m.pieces[t], b.pieces[Foe(t)])
      OBVIOUS
    <2>1. Foe(t) \in Types /\ Foe(Foe(t)) = t
      BY FoeFacts
    <2>2. Turns(b.pieces[Foe(t)], m.pieces[t])
      BY <2>1 DEF Mirrored
    <2> QED
      BY <2>2, TurnsBack
  <1>2. Turns(m.white, b.black) /\ Turns(m.black, b.white) /\ Turns(m.all, b.all)
    BY TurnsBack DEF Mirrored
  <1> QED
    BY <1>1, <1>2 DEF Mirrored

LEMMA MirroredPieces ==
    ASSUME NEW b, NEW m, Mirrored(b, m)
    PROVE  /\ Turns(b.pieces[WP], m.pieces[BP]) /\ Turns(b.pieces[BP], m.pieces[WP])
           /\ Turns(b.pieces[WN], m.pieces[BN]) /\ Turns(b.pieces[BN], m.pieces[WN])
           /\ Turns(b.pieces[WB], m.pieces[BB]) /\ Turns(b.pieces[BB], m.pieces[WB])
           /\ Turns(b.pieces[WR], m.pieces[BR]) /\ Turns(b.pieces[BR], m.pieces[WR])
           /\ Turns(b.pieces[WQ], m.pieces[BQ]) /\ Turns(b.pieces[BQ], m.pieces[WQ])
           /\ Turns(b.pieces[WK], m.pieces[BK]) /\ Turns(b.pieces[BK], m.pieces[WK])
           /\ Turns(b.pieces[WZ], m.pieces[BZ]) /\ Turns(b.pieces[BZ], m.pieces[WZ])
           /\ Turns(b.pieces[WF], m.pieces[BF]) /\ Turns(b.pieces[BF], m.pieces[WF])
           /\ Turns(b.pieces[WC], m.pieces[BC]) /\ Turns(b.pieces[BC], m.pieces[WC])
  <1>1. \A t \in {WP, WN, WB, WR, WQ, WK, WZ, WF, WC, BP, BN, BB, BR, BQ, BK, BZ, BF, BC} :
            t \in Types
    BY TypeFacts
  <1> QED
    BY <1>1, FoeIs DEF Mirrored

(* The mirror of a sound board is one.                                     *)
LEMMA MirrorIs ==
    ASSUME NEW b, Sound(b)
    PROVE  Mirrored(b, Mirror(b))
  <1> DEFINE m == Mirror(b)
             pieces == [t \in Types |->
                           Flip(b.pieces[IF t \in WhiteTypes THEN t + 1 ELSE t - 1])]
  <1>0. /\ b \in Chezzboard /\ b.pieces \in [Types -> SUBSET Squares] /\ b.num_moves \in Nat
        /\ b.white \subseteq Squares /\ b.black \subseteq Squares /\ b.all \subseteq Squares
    BY BoardFields DEF Sound
  <1>1. /\ m.turn = Opponent(b.turn) /\ m.num_moves = b.num_moves
        /\ m.pieces = pieces /\ m.white = Flip(b.black) /\ m.black = Flip(b.white)
        /\ m.all = Flip(b.all)
    BY DEF Mirror
  <1>2. \A t \in Types : m.pieces[t] = Flip(b.pieces[Foe(t)])
    BY <1>1 DEF Foe
  <1>3. \A t \in Types : Turns(b.pieces[t], m.pieces[Foe(t)])
    <2> SUFFICES ASSUME NEW t \in Types PROVE Turns(b.pieces[t], m.pieces[Foe(t)])
      OBVIOUS
    <2>1. m.pieces[Foe(t)] = Flip(b.pieces[t])
      BY <1>2, FoeFacts
    <2> QED
      BY <1>0, <2>1, FlipTurns
  <1>4. Turns(b.white, m.black) /\ Turns(b.black, m.white) /\ Turns(b.all, m.all)
    BY <1>0, <1>1, FlipTurns
  <1>5. /\ \A s \in Squares : Turned(s) \in Squares /\ Turned(Turned(s)) = s
        /\ \A s \in Squares : \A t \in Types : s \in m.pieces[t] <=> Turned(s) \in b.pieces[Foe(t)]
    <2>1. \A t \in Types : Turns(m.pieces[t], b.pieces[Foe(t)])
      <3> SUFFICES ASSUME NEW t \in Types PROVE Turns(m.pieces[t], b.pieces[Foe(t)])
        OBVIOUS
      <3>1. Turns(b.pieces[Foe(t)], m.pieces[t])
        BY <1>3, FoeFacts
      <3> QED
        BY <3>1, TurnsBack
    <2> QED
      BY <2>1, TurnedIs DEF Turns
  <1>6. Once(m.pieces)
    <2> SUFFICES ASSUME NEW s \in Squares, NEW t \in Types, NEW u \in Types,
                        s \in m.pieces[t], s \in m.pieces[u]
                 PROVE  t = u
      BY DEF Once
    <2>1. Turned(s) \in b.pieces[Foe(t)] /\ Turned(s) \in b.pieces[Foe(u)]
      BY <1>5
    <2>2. Foe(t) = Foe(u)
      BY <1>5, <2>1, FoeFacts DEF Sound, Once
    <2> QED
      BY <2>2, FoeFacts
  <1>7. Tells(m.pieces, m.white, WhiteTypes)
    <2> SUFFICES ASSUME NEW s \in Squares
                 PROVE  s \in m.white <=> \E t \in WhiteTypes : s \in m.pieces[t]
      BY DEF Tells
    <2>0. Turns(m.white, b.black)
      BY <1>4, TurnsBack
    <2>1. s \in m.white <=> Turned(s) \in b.black
      BY <2>0 DEF Turns
    <2>2. @ <=> \E t \in BlackTypes : Turned(s) \in b.pieces[t]
      BY <1>5 DEF Sound, Tells
    <2>3. @ <=> \E t \in WhiteTypes : Turned(s) \in b.pieces[Foe(t)]
      BY FoeFacts, TypeFacts
    <2> QED
      BY <1>5, <2>1, <2>2, <2>3, TypeFacts
  <1>8. Tells(m.pieces, m.black, BlackTypes)
    <2> SUFFICES ASSUME NEW s \in Squares
                 PROVE  s \in m.black <=> \E t \in BlackTypes : s \in m.pieces[t]
      BY DEF Tells
    <2>0. Turns(m.black, b.white)
      BY <1>4, TurnsBack
    <2>1. s \in m.black <=> Turned(s) \in b.white
      BY <2>0 DEF Turns
    <2>2. @ <=> \E t \in WhiteTypes : Turned(s) \in b.pieces[t]
      BY <1>5 DEF Sound, Tells
    <2>3. @ <=> \E t \in BlackTypes : Turned(s) \in b.pieces[Foe(t)]
      BY FoeFacts, TypeFacts
    <2> QED
      BY <1>5, <2>1, <2>2, <2>3, TypeFacts
  <1>9. m.all = m.white \cup m.black
    <2>1. b.all = b.white \cup b.black
      BY DEF Sound
    <2> QED
      BY <1>0, <1>1, <2>1 DEF Flip
  <1>10. m \in Chezzboard
    <2>1. m.pieces \in [Types -> SUBSET Squares]
      <3>1. \A t \in Types : m.pieces[t] \in SUBSET Squares
        <4> SUFFICES ASSUME NEW t \in Types PROVE m.pieces[t] \in SUBSET Squares
          OBVIOUS
        <4>1. Turns(b.pieces[Foe(t)], m.pieces[t])
          BY <1>3, FoeFacts
        <4> QED
          BY <4>1 DEF Turns
      <3>2. m.pieces = [t \in Types |-> m.pieces[t]]
        BY <1>1
      <3> QED
        BY <3>1, <3>2
    <2>2. m.white \in SUBSET Squares /\ m.black \in SUBSET Squares /\ m.all \in SUBSET Squares
      BY <1>4 DEF Turns
    <2>3. m = [turn |-> m.turn, num_moves |-> m.num_moves, pieces |-> m.pieces,
               white |-> m.white, black |-> m.black, all |-> m.all]
      BY DEF Mirror
    <2>4. m.turn \in {"w", "b"} /\ m.num_moves \in Nat
      BY <1>0, <1>1 DEF Opponent
    <2> QED
      BY <2>1, <2>2, <2>3, <2>4 DEF Chezzboard
  <1> QED
    BY <1>3, <1>4, <1>6, <1>7, <1>8, <1>9, <1>10 DEF Mirrored, Sound

(* A score for the one colour is the score for the other, turned round.    *)
LEMMA ScoreTurns ==
    ASSUME NEW w \in Int, NEW k \in Int, NEW x \in Int, NEW y \in Int,
           w = y, k = x, NEW color \in Sides
    PROVE  (x - y) * (-color) = (w - k) * color
  <1>1. color = 1 \/ color = -1
    BY DEF Sides
  <1>2. CASE color = 1
    BY <1>2
  <1>3. CASE color = -1
    BY <1>3
  <1> QED
    BY <1>1, <1>2, <1>3

-----------------------------------------------------------------------------
LEMMA SumType ==
    ASSUME NEW S, IsFiniteSet(S), NEW f \in [S -> Int]
    PROVE  SumOf(f, S) \in Int
  <1>1. PICK g : Peels(f, S, g) /\ SumOf(f, S) = g[S]
    BY SumPeels
  <1> QED
    BY <1>1 DEF Peels

(* Material.                                                               *)
Phases == {startgame, midgame, endgame}

LEMMA ValueIs ==
    ASSUME NEW phase \in Phases
    PROVE  \A t \in Types : Value(t, phase) \in Int /\ Value(Foe(t), phase) = Value(t, phase)
  <1>1. phase = 1 \/ phase = 2 \/ phase = 3
    BY DEF Phases, startgame, midgame, endgame
  <1>2. /\ \A i \in 1 .. 18 : material_table[i][phase] \in Int
        /\ material_table[1][phase] = material_table[2][phase]
        /\ material_table[3][phase] = material_table[4][phase]
        /\ material_table[5][phase] = material_table[6][phase]
        /\ material_table[7][phase] = material_table[8][phase]
        /\ material_table[9][phase] = material_table[10][phase]
        /\ material_table[11][phase] = material_table[12][phase]
        /\ material_table[13][phase] = material_table[14][phase]
        /\ material_table[15][phase] = material_table[16][phase]
        /\ material_table[17][phase] = material_table[18][phase]
    <2>1. CASE phase = 1
      BY <2>1 DEF material_table
    <2>2. CASE phase = 2
      BY <2>2 DEF material_table
    <2>3. CASE phase = 3
      BY <2>3 DEF material_table
    <2> QED
      BY <1>1, <2>1, <2>2, <2>3
  <1>3. \A t \in Types : t + 1 \in 1 .. 18
    BY DEF Types
  <1>4. ASSUME NEW t \in Types PROVE Value(Foe(t), phase) = Value(t, phase)
    <2>1. t \in {0, 1, 2, 3, 4, 5, 6, 7, 8, 9, 10, 11, 12, 13, 14, 15, 16, 17}
      BY DEF Types
    <2> HIDE <1>3
    <2>2. CASE t \in WhiteTypes
      <3>1. t \in {0, 2, 4, 6, 8, 10, 12, 14, 16}
        BY <2>2 DEF WhiteTypes
      <3>2. Foe(t) + 1 = t + 2
        BY <2>2, <3>1 DEF Foe
      <3> QED
        BY <1>2, <3>1, <3>2 DEF Value
    <2>3. CASE t \notin WhiteTypes
      <3>1. t \in {1, 3, 5, 7, 9, 11, 13, 15, 17}
        BY <2>1, <2>3 DEF WhiteTypes
      <3>2. Foe(t) + 1 = t
        BY <2>3, <3>1 DEF Foe
      <3> QED
        BY <1>2, <3>1, <3>2 DEF Value
    <2> QED
      BY <2>2, <2>3
  <1> QED
    BY <1>2, <1>3, <1>4 DEF Value

LEMMA TypesFinite == \A S \in SUBSET Types : IsFiniteSet(S)
  <1>1. IsFiniteSet(Types)
    <2>1. \A a, b \in Int : IsFiniteSet(a .. b)
      BY FS_Interval
    <2>2. 0 \in Int /\ 17 \in Int
      OBVIOUS
    <2>3. IsFiniteSet(0 .. 17)
      BY <2>1, <2>2, Zenon
    <2> QED
      BY <2>3 DEF Types
  <1> QED
    BY <1>1, FS_Subset

(* What the pieces of each type are worth.                                 *)
Worths(b, S, phase) == [t \in S |-> PopCount(b.pieces[t]) * Value(t, phase)]

LEMMA WorthsAre ==
    ASSUME NEW b, Sound(b), NEW S \in SUBSET Types, NEW phase \in Phases
    PROVE  Worths(b, S, phase) \in [S -> Int]
  <1> SUFFICES ASSUME NEW t \in S PROVE PopCount(b.pieces[t]) * Value(t, phase) \in Int
    BY DEF Worths
  <1>1. t \in Types /\ b.pieces[t] \in SUBSET Squares
    BY BoardFields DEF Sound
  <1>2. PopCount(b.pieces[t]) \in Nat
    BY <1>1, SquaresFinite, FS_CardinalityType DEF PopCount
  <1>3. Value(t, phase) \in Int
    BY <1>1, ValueIs
  <1> QED
    BY <1>2, <1>3

LEMMA WorthIs ==
    ASSUME NEW b, Sound(b), NEW S \in SUBSET Types, NEW phase \in Phases
    PROVE  /\ Worth(b, S, phase) = SumOf(Worths(b, S, phase), S)
           /\ Worth(b, S, phase) \in Int
  <1> DEFINE f == Worths(b, S, phase)
             term(t) == PopCount(b.pieces[t]) * Value(t, phase)
             Is(g) == g = [U \in SUBSET S |->
                               IF U = {} THEN 0 ELSE term(Pick(U)) + g[U \ {Pick(U)}]]
             G == CHOOSE g : Is(g)
  <1>1. Worth(b, S, phase) = G[S]
    BY DEF Worth, MapThenSumSet, MapThenFoldSet, Pick
  <1>2. f \in [S -> Int] /\ IsFiniteSet(S)
    BY WorthsAre, TypesFinite
  <1>3. \A g : Is(g) <=> Adds(f, S, g)
    <2>1. \A t \in S : f[t] = term(t)
      BY DEF Worths
    <2> HIDE DEF f, term
    <2>2. \A U \in SUBSET S : U # {} => f[Pick(U)] = term(Pick(U))
      BY <2>1, PickIs
    <2> QED
      BY <2>2 DEF Adds
  <1> HIDE DEF f, Is
  <1>4. Adds(f, S, G)
    BY <1>2, <1>3, AdderExists
  <1> HIDE DEF G
  <1>5. G[S] = SumOf(f, S)
    BY <1>2, <1>4, AddsGives
  <1>6. SumOf(f, S) \in Int
    BY <1>2, SumType
  <1> QED
    BY <1>1, <1>5, <1>6 DEF f

LEMMA WorthTurns ==
    ASSUME NEW b, NEW m, Mirrored(b, m), NEW phase \in Phases,
           NEW S \in SUBSET Types, NEW T \in SUBSET Types,
           \A t \in Types : t \in S <=> Foe(t) \in T
    PROVE  Worth(b, S, phase) = Worth(m, T, phase)
  <1> DEFINE f == Worths(b, S, phase)
             e == Worths(m, T, phase)
             p == [t \in S |-> Foe(t)]
  <1>1. Sound(b) /\ Sound(m) /\ IsFiniteSet(S) /\ IsFiniteSet(T)
    BY TypesFinite DEF Mirrored
  <1>2. f \in [S -> Int] /\ e \in [T -> Int]
    BY <1>1, WorthsAre
  <1>3. Pairs(p, S, T)
    BY FoeFacts DEF Pairs
  <1>4. \A t \in S : f[t] = e[p[t]]
    <2> SUFFICES ASSUME NEW t \in S PROVE f[t] = e[p[t]]
      OBVIOUS
    <2>1. t \in Types /\ Foe(t) \in T /\ p[t] = Foe(t)
      OBVIOUS
    <2>2. PopCount(b.pieces[t]) = PopCount(m.pieces[Foe(t)])
      BY <2>1, TurnsCount DEF Mirrored, PopCount
    <2>3. Value(t, phase) = Value(Foe(t), phase)
      BY <2>1, ValueIs
    <2> QED
      BY <2>1, <2>2, <2>3 DEF Worths
  <1> HIDE DEF f, e, p
  <1>5. SumOf(f, S) = SumOf(e, T)
    BY <1>1, <1>2, <1>3, <1>4, SameSum
  <1> QED
    BY <1>1, <1>5, WorthIs DEF f, e

LEMMA MinOfTwo ==
    ASSUME NEW x \in Int, NEW y \in Int
    PROVE  /\ Min({x, y}) \in Int /\ Max({x, y}) \in Int
           /\ Min({x, y}) = (IF x <= y THEN x ELSE y)
           /\ Max({x, y}) = (IF x >= y THEN x ELSE y)
  <1>1. Min({x, y}) \in {x, y} /\ \A z \in {x, y} : Min({x, y}) <= z
    <2>1. \E z \in {x, y} : \A a \in {x, y} : z <= a
      OBVIOUS
    <2> QED
      BY <2>1 DEF Min
  <1>2. Max({x, y}) \in {x, y} /\ \A z \in {x, y} : Max({x, y}) >= z
    <2>1. \E z \in {x, y} : \A a \in {x, y} : z >= a
      OBVIOUS
    <2> QED
      BY <2>1 DEF Max
  <1> QED
    BY <1>1, <1>2

(* How much of the game is left.                                           *)
Grown == Types \ {WP, BP, WZ, BZ}

LEMMA PhaseIs ==
    ASSUME NEW b, Sound(b)
    PROVE  /\ non_peon_zombie_material(b)
                  = Min({start_non_peon_zombie_material, Worth(b, Grown, midgame)})
           /\ non_peon_zombie_material(b) \in Int
  <1>1. Worth(b, Grown, midgame) \in Int
    BY WorthIs DEF Grown, Phases
  <1>2. start_non_peon_zombie_material \in Int
    BY DEF start_non_peon_zombie_material
  <1>3. non_peon_zombie_material(b)
            = Min({start_non_peon_zombie_material, Worth(b, Grown, midgame)})
    BY DEF non_peon_zombie_material, Worth, Grown
  <1> QED
    BY <1>1, <1>2, <1>3, MinOfTwo

LEMMA TruncIs ==
    ASSUME NEW n \in Int, NEW d \in Nat \ {0}
    PROVE  Trunc(n, d) \in Int
  BY DEF Trunc

LEMMA PhasedIs ==
    ASSUME NEW b, Sound(b), NEW S \in SUBSET Types
    PROVE  Phased(b, S) \in Int
  <1> DEFINE n == non_peon_zombie_material(b)
             full == start_non_peon_zombie_material
             start == Worth(b, S, startgame)
             mid == Worth(b, S, midgame)
             end == Worth(b, S, endgame)
  <1>1. Phased(b, S) = IF 2 * n > full THEN start + Trunc((mid - start) * (2 * n - full), full)
                       ELSE mid + Trunc((end - mid) * 2 * n, full)
    BY DEF Phased
  <1>2. start \in Int /\ mid \in Int /\ end \in Int
    BY WorthIs DEF Phases
  <1>3. n \in Int /\ full \in Nat \ {0}
    <2>1. n \in Int
      BY PhaseIs
    <2>2. full \in Nat \ {0}
      BY DEF start_non_peon_zombie_material
    <2> QED
      BY <2>1, <2>2
  <1> HIDE DEF n, full, start, mid, end
  <1>4. (mid - start) * (2 * n - full) \in Int /\ (end - mid) * 2 * n \in Int
    <2>1. mid - start \in Int /\ 2 * n - full \in Int /\ (end - mid) * 2 \in Int
      BY <1>2, <1>3
    <2> QED
      BY <1>3, <2>1
  <1>5. /\ Trunc((mid - start) * (2 * n - full), full) \in Int
        /\ Trunc((end - mid) * 2 * n, full) \in Int
    BY <1>3, <1>4, TruncIs
  <1> QED
    BY <1>1, <1>2, <1>5

LEMMA PhasedTurns ==
    ASSUME NEW b, NEW m, Mirrored(b, m),
           NEW S \in SUBSET Types, NEW T \in SUBSET Types,
           \A t \in Types : t \in S <=> Foe(t) \in T
    PROVE  Phased(b, S) = Phased(m, T)
  <1>1. Sound(b) /\ Sound(m)
    BY DEF Mirrored
  <1>2. /\ Worth(b, S, startgame) = Worth(m, T, startgame)
        /\ Worth(b, S, midgame) = Worth(m, T, midgame)
        /\ Worth(b, S, endgame) = Worth(m, T, endgame)
    BY WorthTurns DEF Phases
  <1>3. \A t \in Types : t \in Grown <=> Foe(t) \in Grown
    BY FoeIs, FoeFacts DEF Grown
  <1>4. Worth(b, Grown, midgame) = Worth(m, Grown, midgame)
    BY <1>3, WorthTurns DEF Grown, Phases
  <1>5. non_peon_zombie_material(b) = non_peon_zombie_material(m)
    BY <1>1, <1>4, PhaseIs
  <1> QED
    BY <1>2, <1>5 DEF Phased

LEMMA MaterialTurns ==
    ASSUME NEW b, NEW m, Mirrored(b, m), NEW color \in Sides
    PROVE  material_score(m, -color) = material_score(b, color)
  <1>1. /\ WhiteTypes \in SUBSET Types /\ BlackTypes \in SUBSET Types
        /\ Sound(b) /\ Sound(m)
        /\ \A t \in Types : t \in WhiteTypes <=> Foe(t) \in BlackTypes
        /\ \A t \in Types : t \in BlackTypes <=> Foe(t) \in WhiteTypes
    BY TypeFacts, FoeFacts DEF Mirrored
  <1>2. /\ Phased(b, WhiteTypes) = Phased(m, BlackTypes)
        /\ Phased(b, BlackTypes) = Phased(m, WhiteTypes)
    BY <1>1, PhasedTurns
  <1>3. /\ Phased(b, WhiteTypes) \in Int /\ Phased(b, BlackTypes) \in Int
        /\ Phased(m, WhiteTypes) \in Int /\ Phased(m, BlackTypes) \in Int
    BY <1>1, PhasedIs
  <1> QED
    BY <1>2, <1>3, ScoreTurns DEF material_score

-----------------------------------------------------------------------------
(* Peons.                                                                  *)
LEMMA StepTurns ==
    ASSUME NEW P, NEW Q, Turns(P, Q), NEW s \in Squares,
           NEW dr \in -2 .. 2, NEW er \in -2 .. 2, dr + er = 0, NEW dc \in -2 .. 2
    PROVE  /\ (\E q \in P : Off(q, s, dr, dc)) <=> (\E q \in Q : Off(q, Turned(s), er, dc))
           /\ \A r \in 0 .. 7 : (\E q \in P : RowOf(q) # r /\ Off(q, s, dr, dc)) <=>
                  (\E q \in Q : RowOf(q) # 7 - r /\ Off(q, Turned(s), er, dc))
  <1>1. Turned(s) \in Squares /\ er + dr = 0
    BY TurnedIs
  <1>2. \A q \in P : /\ q \in Squares /\ Turned(q) \in Q
                     /\ Off(q, s, dr, dc) => Off(Turned(q), Turned(s), er, dc)
    BY <1>1, TurnsEach, OffTurned
  <1>3. \A q \in Q : /\ q \in Squares /\ Turned(q) \in P
                     /\ Off(q, Turned(s), er, dc) => Off(Turned(q), s, dr, dc)
    <2> SUFFICES ASSUME NEW q \in Q
                 PROVE  /\ q \in Squares /\ Turned(q) \in P
                        /\ Off(q, Turned(s), er, dc) => Off(Turned(q), s, dr, dc)
      OBVIOUS
    <2>1. q \in Squares /\ Turned(q) \in P
      BY TurnsEach
    <2>2. Turned(Turned(s)) = s
      BY TurnedIs
    <2> QED
      BY <1>1, <2>1, <2>2, OffTurned
  <1>4. \A r \in 0 .. 7 : \A q \in Squares : RowOf(q) # r <=> RowOf(Turned(q)) # 7 - r
    BY TurnedIs, ByCoordinates
  <1>5. \A r \in 0 .. 7 : \A q \in Squares : RowOf(q) # 7 - r <=> RowOf(Turned(q)) # r
    BY TurnedIs, ByCoordinates
  <1> QED
    BY <1>2, <1>3, <1>4, <1>5

LEMMA FriendsAre ==
    ASSUME NEW P \in SUBSET Squares, NEW s \in Squares
    PROVE  /\ UpFriends(P) \in SUBSET Squares /\ DownFriends(P) \in SUBSET Squares
           /\ s \in UpFriends(P) <=>
                  \/ \E q \in P : RowOf(q) # 7 /\ Off(q, s, -1, -1)
                  \/ \E q \in P : RowOf(q) # 7 /\ Off(q, s, -1, 1)
           /\ s \in DownFriends(P) <=>
                  \/ \E q \in P : RowOf(q) # 0 /\ Off(q, s, 1, -1)
                  \/ \E q \in P : RowOf(q) # 0 /\ Off(q, s, 1, 1)
  <1>1. UpFriends(P) \in SUBSET Squares /\ DownFriends(P) \in SUBSET Squares
    BY DEF UpFriends, DownFriends, Shift
  <1>2. /\ s \in Shift(OffRow(OffCol(P, 0), 7), -9) <=>
               \E q \in P : RowOf(q) # 7 /\ Off(q, s, -1, -1)
        /\ s \in Shift(OffRow(OffCol(P, 7), 7), -7) <=>
               \E q \in P : RowOf(q) # 7 /\ Off(q, s, -1, 1)
        /\ s \in Shift(OffRow(OffCol(P, 0), 0), 7) <=>
               \E q \in P : RowOf(q) # 0 /\ Off(q, s, 1, -1)
        /\ s \in Shift(OffRow(OffCol(P, 7), 0), 9) <=>
               \E q \in P : RowOf(q) # 0 /\ Off(q, s, 1, 1)
    BY ShiftIs
  <1> QED
    BY <1>1, <1>2 DEF UpFriends, DownFriends

LEMMA FriendsTurn ==
    ASSUME NEW P, NEW Q, Turns(P, Q)
    PROVE  Turns(UpFriends(P), DownFriends(Q)) /\ Turns(DownFriends(P), UpFriends(Q))
  <1>0. P \in SUBSET Squares /\ Q \in SUBSET Squares
    BY DEF Turns
  <1>1. /\ UpFriends(P) \in SUBSET Squares /\ DownFriends(P) \in SUBSET Squares
        /\ UpFriends(Q) \in SUBSET Squares /\ DownFriends(Q) \in SUBSET Squares
    BY <1>0 DEF UpFriends, DownFriends, Shift
  <1>2. ASSUME NEW s \in Squares
        PROVE  /\ s \in UpFriends(P) <=> Turned(s) \in DownFriends(Q)
               /\ s \in DownFriends(P) <=> Turned(s) \in UpFriends(Q)
    <2>1. Turned(s) \in Squares
      BY TurnedIs
    <2>2. /\ (-1) \in -2 .. 2 /\ 1 \in -2 .. 2 /\ 0 \in 0 .. 7 /\ 7 \in 0 .. 7
          /\ -1 + 1 = 0 /\ 1 + -1 = 0 /\ 7 - 7 = 0 /\ 7 - 0 = 7
      OBVIOUS
    <2>3. /\ (\E q \in P : RowOf(q) # 7 /\ Off(q, s, -1, -1)) <=>
                 \E q \in Q : RowOf(q) # 0 /\ Off(q, Turned(s), 1, -1)
          /\ (\E q \in P : RowOf(q) # 7 /\ Off(q, s, -1, 1)) <=>
                 \E q \in Q : RowOf(q) # 0 /\ Off(q, Turned(s), 1, 1)
      <3>1. \A r \in 0 .. 7 : (\E q \in P : RowOf(q) # r /\ Off(q, s, -1, -1)) <=>
                \E q \in Q : RowOf(q) # 7 - r /\ Off(q, Turned(s), 1, -1)
        BY <2>2, StepTurns
      <3>2. \A r \in 0 .. 7 : (\E q \in P : RowOf(q) # r /\ Off(q, s, -1, 1)) <=>
                \E q \in Q : RowOf(q) # 7 - r /\ Off(q, Turned(s), 1, 1)
        BY <2>2, StepTurns
      <3> QED
        BY <2>2, <3>1, <3>2
    <2>4. /\ (\E q \in P : RowOf(q) # 0 /\ Off(q, s, 1, -1)) <=>
                 \E q \in Q : RowOf(q) # 7 /\ Off(q, Turned(s), -1, -1)
          /\ (\E q \in P : RowOf(q) # 0 /\ Off(q, s, 1, 1)) <=>
                 \E q \in Q : RowOf(q) # 7 /\ Off(q, Turned(s), -1, 1)
      <3>1. \A r \in 0 .. 7 : (\E q \in P : RowOf(q) # r /\ Off(q, s, 1, -1)) <=>
                \E q \in Q : RowOf(q) # 7 - r /\ Off(q, Turned(s), -1, -1)
        BY <2>2, StepTurns
      <3>2. \A r \in 0 .. 7 : (\E q \in P : RowOf(q) # r /\ Off(q, s, 1, 1)) <=>
                \E q \in Q : RowOf(q) # 7 - r /\ Off(q, Turned(s), -1, 1)
        BY <2>2, StepTurns
      <3> QED
        BY <2>2, <3>1, <3>2
    <2>5. /\ s \in UpFriends(P) <=>
                 \/ \E q \in P : RowOf(q) # 7 /\ Off(q, s, -1, -1)
                 \/ \E q \in P : RowOf(q) # 7 /\ Off(q, s, -1, 1)
          /\ s \in DownFriends(P) <=>
                 \/ \E q \in P : RowOf(q) # 0 /\ Off(q, s, 1, -1)
                 \/ \E q \in P : RowOf(q) # 0 /\ Off(q, s, 1, 1)
      BY <1>0, FriendsAre
    <2>6. /\ Turned(s) \in UpFriends(Q) <=>
                 \/ \E q \in Q : RowOf(q) # 7 /\ Off(q, Turned(s), -1, -1)
                 \/ \E q \in Q : RowOf(q) # 7 /\ Off(q, Turned(s), -1, 1)
          /\ Turned(s) \in DownFriends(Q) <=>
                 \/ \E q \in Q : RowOf(q) # 0 /\ Off(q, Turned(s), 1, -1)
                 \/ \E q \in Q : RowOf(q) # 0 /\ Off(q, Turned(s), 1, 1)
      BY <1>0, <2>1, FriendsAre
    <2> QED
      BY <2>3, <2>4, <2>5, <2>6
  <1> QED
    BY <1>1, <1>2, TurnsOf

LEMMA ShiftTurns ==
    ASSUME NEW P, NEW Q, Turns(P, Q)
    PROVE  /\ Turns(Shift(P, 8), Shift(Q, -8)) /\ Turns(Shift(P, -8), Shift(Q, 8))
           /\ Turns(Shift(OffCol(P, 0), -1), Shift(OffCol(Q, 0), -1))
           /\ Turns(Shift(OffCol(P, 7), 1), Shift(OffCol(Q, 7), 1))
  <1>0. P \in SUBSET Squares /\ Q \in SUBSET Squares
    BY DEF Turns
  <1>1. \A S, n : Shift(S, n) \in SUBSET Squares
    BY DEF Shift
  <1>2. ASSUME NEW s \in Squares
        PROVE  /\ s \in Shift(P, 8) <=> Turned(s) \in Shift(Q, -8)
               /\ s \in Shift(P, -8) <=> Turned(s) \in Shift(Q, 8)
               /\ s \in Shift(OffCol(P, 0), -1) <=> Turned(s) \in Shift(OffCol(Q, 0), -1)
               /\ s \in Shift(OffCol(P, 7), 1) <=> Turned(s) \in Shift(OffCol(Q, 7), 1)
    <2>1. Turned(s) \in Squares
      BY TurnedIs
    <2>2. /\ (-1) \in -2 .. 2 /\ 1 \in -2 .. 2 /\ 0 \in -2 .. 2 /\ 0 + 0 = 0
          /\ -1 + 1 = 0 /\ 1 + -1 = 0
      OBVIOUS
    <2>3. (\E q \in P : Off(q, s, 1, 0)) <=> \E q \in Q : Off(q, Turned(s), -1, 0)
      BY <2>2, StepTurns
    <2>4. (\E q \in P : Off(q, s, -1, 0)) <=> \E q \in Q : Off(q, Turned(s), 1, 0)
      <3>1. (\E q \in P : Off(q, s, -1, 0)) <=> \E q \in Q : Off(q, Turned(s), 1, 0)
        BY <2>2, StepTurns
      <3> QED
        BY <2>2, <3>1
    <2>5. (\E q \in P : Off(q, s, 0, -1)) <=> \E q \in Q : Off(q, Turned(s), 0, -1)
      <3>1. (\E q \in P : Off(q, s, 0, -1)) <=> \E q \in Q : Off(q, Turned(s), 0, -1)
        BY <2>2, StepTurns
      <3> QED
        BY <2>2, <3>1
    <2>6. (\E q \in P : Off(q, s, 0, 1)) <=> \E q \in Q : Off(q, Turned(s), 0, 1)
      <3>1. (\E q \in P : Off(q, s, 0, 1)) <=> \E q \in Q : Off(q, Turned(s), 0, 1)
        BY <2>2, StepTurns
      <3> QED
        BY <2>2, <3>1
    <2>7. /\ s \in Shift(P, 8) <=> \E q \in P : Off(q, s, 1, 0)
          /\ s \in Shift(P, -8) <=> \E q \in P : Off(q, s, -1, 0)
          /\ s \in Shift(OffCol(P, 0), -1) <=> \E q \in P : Off(q, s, 0, -1)
          /\ s \in Shift(OffCol(P, 7), 1) <=> \E q \in P : Off(q, s, 0, 1)
      BY <1>0, ShiftIs
    <2>8. /\ Turned(s) \in Shift(Q, 8) <=> \E q \in Q : Off(q, Turned(s), 1, 0)
          /\ Turned(s) \in Shift(Q, -8) <=> \E q \in Q : Off(q, Turned(s), -1, 0)
          /\ Turned(s) \in Shift(OffCol(Q, 0), -1) <=> \E q \in Q : Off(q, Turned(s), 0, -1)
          /\ Turned(s) \in Shift(OffCol(Q, 7), 1) <=> \E q \in Q : Off(q, Turned(s), 0, 1)
      BY <1>0, <2>1, ShiftIs
    <2> QED
      BY <2>3, <2>4, <2>5, <2>6, <2>7, <2>8
  <1> QED
    BY <1>1, <1>2, TurnsOf

LEMMA ConnectedTurns ==
    ASSUME NEW P, NEW Q, Turns(P, Q)
    PROVE  Turns(Connected(P), Connected(Q))
  <1> DEFINE X(S) == Shift(OffCol(S, 0), -1) \cup Shift(OffCol(S, 7), 1)
                         \cup Shift(S, 8) \cup Shift(S, -8)
                         \cup UpFriends(S) \cup DownFriends(S)
  <1>1. /\ Turns(Shift(P, 8), Shift(Q, -8)) /\ Turns(Shift(P, -8), Shift(Q, 8))
        /\ Turns(Shift(OffCol(P, 0), -1), Shift(OffCol(Q, 0), -1))
        /\ Turns(Shift(OffCol(P, 7), 1), Shift(OffCol(Q, 7), 1))
        /\ Turns(UpFriends(P), DownFriends(Q)) /\ Turns(DownFriends(P), UpFriends(Q))
    BY ShiftTurns, FriendsTurn
  <1>2. Turns(X(P), X(Q))
    BY <1>1 DEF Turns
  <1>3. Connected(P) = P \cap X(P) /\ Connected(Q) = Q \cap X(Q)
    BY DEF Connected
  <1> HIDE DEF X
  <1>4. Turns(P \cap X(P), Q \cap X(Q))
    BY <1>2 DEF Turns
  <1> QED
    BY <1>3, <1>4

LEMMA ColumnsTurn ==
    ASSUME NEW P, NEW Q, Turns(P, Q)
    PROVE  Columns(P) = Columns(Q)
  <1>1. \A s \in P : Turned(s) \in Q /\ ColOf(Turned(s)) = ColOf(s)
    BY TurnsEach, TurnedIs
  <1>2. \A s \in Q : Turned(s) \in P /\ ColOf(Turned(s)) = ColOf(s)
    BY TurnsEach, TurnedIs
  <1> QED
    BY <1>1, <1>2 DEF Columns

RowsOf(S) == [s \in S |-> RowOf(s)]

LEMMA RowSumIs ==
    ASSUME NEW S \in SUBSET Squares
    PROVE  /\ RowsOf(S) \in [S -> Int] /\ RowSum(S) = SumOf(RowsOf(S), S)
           /\ RowSum(S) \in Int
  <1> DEFINE f == RowsOf(S)
             Is(g) == g = [U \in SUBSET S |->
                               IF U = {} THEN 0 ELSE RowOf(Pick(U)) + g[U \ {Pick(U)}]]
             G == CHOOSE g : Is(g)
  <1>1. RowSum(S) = G[S]
    BY DEF RowSum, MapThenSumSet, MapThenFoldSet, Pick
  <1>2. f \in [S -> Int] /\ IsFiniteSet(S)
    <2>1. \A s \in S : RowOf(s) \in Int
      BY ByCoordinates
    <2> QED
      BY <2>1, SquaresFinite DEF RowsOf
  <1>3. \A g : Is(g) <=> Adds(f, S, g)
    <2>1. \A s \in S : f[s] = RowOf(s)
      BY DEF RowsOf
    <2> HIDE DEF f
    <2>2. \A U \in SUBSET S : U # {} => f[Pick(U)] = RowOf(Pick(U))
      BY <2>1, PickIs
    <2> QED
      BY <2>2 DEF Adds
  <1> HIDE DEF f, Is
  <1>4. Adds(f, S, G)
    BY <1>2, <1>3, AdderExists
  <1> HIDE DEF G
  <1>5. G[S] = SumOf(f, S)
    BY <1>2, <1>4, AddsGives
  <1>6. SumOf(f, S) \in Int
    BY <1>2, SumType
  <1> QED
    BY <1>1, <1>2, <1>5, <1>6 DEF f

LEMMA RowSumTurns ==
    ASSUME NEW S, NEW T, Turns(S, T)
    PROVE  /\ RowSum(S) \in Int /\ RowSum(T) \in Int
           /\ RowSum(S) = 7 * PopCount(T) - RowSum(T)
           /\ RowSum(T) = 7 * PopCount(S) - RowSum(S)
  <1> DEFINE e == [q \in T |-> 7 - RowOf(q)]
             p == [s \in S |-> Turned(s)]
  <1>1. S \in SUBSET Squares /\ T \in SUBSET Squares
    BY DEF Turns
  <1>2. /\ RowsOf(S) \in [S -> Int] /\ RowsOf(T) \in [T -> Int]
        /\ RowSum(S) = SumOf(RowsOf(S), S) /\ RowSum(T) = SumOf(RowsOf(T), T)
        /\ RowSum(S) \in Int /\ RowSum(T) \in Int
    BY <1>1, RowSumIs
  <1>3. e \in [T -> Int] /\ \A q \in T : RowsOf(T)[q] + e[q] = 7
    <2>1. \A q \in T : RowOf(q) \in 0 .. 7
      BY <1>1, ByCoordinates
    <2> QED
      BY <2>1 DEF RowsOf
  <1>4. /\ IsFiniteSet(S) /\ IsFiniteSet(T) /\ Pairs(p, S, T)
        /\ PopCount(S) = PopCount(T) /\ PopCount(S) \in Nat
    BY TurnsCount DEF PopCount
  <1>5. \A s \in S : RowsOf(S)[s] = e[p[s]]
    <2> SUFFICES ASSUME NEW s \in S PROVE RowsOf(S)[s] = e[p[s]]
      OBVIOUS
    <2>1. s \in Squares /\ Turned(s) \in T /\ p[s] = Turned(s)
      BY TurnsEach
    <2>2. RowOf(Turned(s)) = 7 - RowOf(s) /\ RowOf(s) \in 0 .. 7
      BY <2>1, TurnedIs, ByCoordinates
    <2>3. e[p[s]] = 7 - (7 - RowOf(s))
      BY <2>1, <2>2
    <2> QED
      BY <2>2, <2>3 DEF RowsOf
  <1> HIDE DEF e, p
  <1>6. SumOf(RowsOf(S), S) = SumOf(e, T)
    BY <1>2, <1>3, <1>4, <1>5, SameSum
  <1>7. SumOf(RowsOf(T), T) + SumOf(e, T) = 7 * Cardinality(T)
    BY <1>2, <1>3, <1>4, SumsTogether
  <1> QED
    BY <1>2, <1>4, <1>6, <1>7 DEF PopCount

(* Sets of squares chosen by a row.                                        *)
LEMMA TimesTurns ==
    ASSUME NEW S, NEW T, Turns(S, T), NEW n \in Int
    PROVE  Times(n, S) = Times(n, T) /\ Times(n, S) \in Int
  <1>1. PICK k \in Nat : k = Cardinality(S) /\ k = Cardinality(T)
    BY TurnsCount
  <1>2. n * k \in Int
    OBVIOUS
  <1> QED
    BY <1>1, <1>2 DEF Times, PopCount

WhitePassed(P, Q) == {s \in P : ~ \E q \in Q :
                          RowOf(q) > RowOf(s) /\ ColOf(q) - ColOf(s) \in -1 .. 1}
BlackPassed(P, Q) == {s \in P : ~ \E q \in Q :
                          RowOf(q) < RowOf(s) /\ ColOf(q) - ColOf(s) \in -1 .. 1}

LEMMA PassedTurns ==
    ASSUME NEW P, NEW Q, NEW S, NEW T, Turns(P, S), Turns(Q, T)
    PROVE  Turns(WhitePassed(P, Q), BlackPassed(S, T))
  <1>1. ASSUME NEW s \in Squares, NEW q \in Squares
        PROVE  RowOf(q) > RowOf(s) /\ ColOf(q) - ColOf(s) \in -1 .. 1 <=>
                   /\ RowOf(Turned(q)) < RowOf(Turned(s))
                   /\ ColOf(Turned(q)) - ColOf(Turned(s)) \in -1 .. 1
    BY TurnedIs, ByCoordinates
  <1>2. ASSUME NEW s \in Squares
        PROVE  (\E q \in Q : RowOf(q) > RowOf(s) /\ ColOf(q) - ColOf(s) \in -1 .. 1) <=>
                   \E q \in T : /\ RowOf(q) < RowOf(Turned(s))
                                /\ ColOf(q) - ColOf(Turned(s)) \in -1 .. 1
    <2>1. \A q \in Q : q \in Squares /\ Turned(q) \in T
      BY TurnsEach
    <2>2. \A q \in T : Turned(q) \in Squares /\ Turned(q) \in Q /\ Turned(Turned(q)) = q
      BY TurnsEach, TurnedIs
    <2> QED
      BY <1>1, <2>1, <2>2
  <1> QED
    BY <1>2 DEF Turns, WhitePassed, BlackPassed

LEMMA CenterTurns == Turns(CenterMask, CenterMask)
  <1>1. CenterMask = {27, 28, 35, 36}
    BY DEF CenterMask, SquareAt
  <1>2. \A s \in Squares : s \in CenterMask <=> RowOf(s) \in {3, 4} /\ ColOf(s) \in {3, 4}
    <2> SUFFICES ASSUME NEW s \in Squares
                 PROVE  s \in CenterMask <=> RowOf(s) \in {3, 4} /\ ColOf(s) \in {3, 4}
      OBVIOUS
    <2>1. s = 8 * RowOf(s) + ColOf(s) /\ RowOf(s) \in 0 .. 7 /\ ColOf(s) \in 0 .. 7
      BY ByCoordinates
    <2> QED
      BY <1>1, <2>1
  <1>3. CenterMask \in SUBSET Squares
    BY <1>1 DEF Squares
  <1>4. ASSUME NEW s \in Squares PROVE s \in CenterMask <=> Turned(s) \in CenterMask
    BY <1>2, TurnedIs, ByCoordinates
  <1> QED
    BY <1>3, <1>4, TurnsOf

LEMMA FarTurns ==
    ASSUME NEW S, NEW T, Turns(S, T)
    PROVE  LET far(X) == {s \in X : RowOf(s) >= 4}
           IN Turns(far(S), T \ far(T)) /\ Turns(S \ far(S), far(T))
  <1>1. \A s \in Squares : RowOf(s) >= 4 <=> ~(RowOf(Turned(s)) >= 4)
    BY TurnedIs, ByCoordinates
  <1> QED
    BY <1>1 DEF Turns

LEMMA WhitePeons ==
    ASSUME NEW b, NEW m, Mirrored(b, m)
    PROVE  /\ white_peon_structure(b) = black_peon_structure(m)
           /\ white_peon_structure(b) \in Int
  <1> DEFINE P == b.pieces[WP]
             Q == m.pieces[BP]
             pass == WhitePassed(P, b.pieces[BP])
             passed == BlackPassed(Q, m.pieces[WP])
             back == P \ DownFriends(P)
             backward == Q \ UpFriends(Q)
             advanced == {s \in back : RowOf(s) >= 4}
             behind == {s \in backward : RowOf(s) >= 4}
             islands(S) == PEON_ISLAND * Max({0, PopCount(Islands(S)) - 1})
             crowd(S) == PEON_SAME_COL * (PopCount(S) - PopCount(Columns(S)))
  <1>1. Turns(P, Q) /\ Turns(b.pieces[BP], m.pieces[WP])
    BY MirroredPieces
  <1>2. Turns(pass, passed)
    BY <1>1, PassedTurns
  <1>3. Turns(UpFriends(P), DownFriends(Q)) /\ Turns(DownFriends(P), UpFriends(Q))
    BY <1>1, FriendsTurn
  <1>4. /\ Turns(back, backward) /\ Turns(P \cap UpFriends(P), Q \cap DownFriends(Q))
        /\ Turns(P \cap CenterMask, Q \cap CenterMask)
        /\ Turns(Connected(P), Connected(Q)) /\ Turns(P \ Connected(P), Q \ Connected(Q))
    BY <1>1, <1>3, ConnectedTurns, CenterTurns, TurnsSets
  <1>5. Turns(advanced, backward \ behind) /\ Turns(back \ advanced, behind)
    BY <1>4, FarTurns
  <1>6. Columns(P) = Columns(Q)
    BY <1>1, ColumnsTurn
  <1>7. white_peon_structure(b)
            = Times(PEON_HAS_NEIGHBOR, Connected(P))
                + Times(PEON_COVERING_PEON, P \cap UpFriends(P))
                + PEON_HIGH_ROW * RowSum(P)
                + Times(PEON_DOMINANCE, P \cap CenterMask)
                + PASSED_PEONS * RowSum(pass)
                - crowd(P)
                - Times(LONELY_PEON, P \ Connected(P))
                - Times(BACKWARDS_PEON \div 2, advanced)
                - Times(BACKWARDS_PEON, back \ advanced)
                - islands(P)
    BY DEF white_peon_structure, WhitePassed
  <1>8. black_peon_structure(m)
            = Times(PEON_HAS_NEIGHBOR, Connected(Q))
                + Times(PEON_COVERING_PEON, Q \cap DownFriends(Q))
                + PEON_HIGH_ROW * (7 * PopCount(Q) - RowSum(Q))
                + Times(PEON_DOMINANCE, Q \cap CenterMask)
                + PASSED_PEONS * (7 * PopCount(passed) - RowSum(passed))
                - crowd(Q)
                - Times(LONELY_PEON, Q \ Connected(Q))
                - Times(BACKWARDS_PEON, behind)
                - Times(BACKWARDS_PEON \div 2, backward \ behind)
                - islands(Q)
    BY DEF black_peon_structure, BlackPassed
  <1>9. /\ RowSum(P) = 7 * PopCount(Q) - RowSum(Q) /\ RowSum(P) \in Int
        /\ RowSum(pass) = 7 * PopCount(passed) - RowSum(passed) /\ RowSum(pass) \in Int
    BY <1>1, <1>2, RowSumTurns
  <1>10. PopCount(P) = PopCount(Q) /\ PopCount(P) \in Nat
    BY <1>1, TurnsCount DEF PopCount
  <1>11. PopCount(Columns(P)) \in Nat /\ PopCount(Islands(P)) \in Nat
    <2>1. Columns(P) \in SUBSET Squares
      <3>1. \A s \in P : ColOf(s) \in 0 .. 7
        BY <1>1, TurnsEach, ByCoordinates
      <3> QED
        BY <3>1 DEF Columns, Squares
    <2>2. Islands(P) \in SUBSET Squares
      BY <2>1 DEF Islands
    <2> QED
      BY <2>1, <2>2, SquaresFinite, FS_CardinalityType DEF PopCount
  <1>12. islands(P) = islands(Q) /\ islands(P) \in Int
    <2>1. PopCount(Islands(P)) - 1 \in Int
      BY <1>11
    <2>2. Max({0, PopCount(Islands(P)) - 1}) \in Int
      <3>1. \A k \in Int : Max({0, k}) \in Int
        <4>1. 0 \in Int
          OBVIOUS
        <4> QED
          BY <4>1, MinOfTwo, Zenon
      <3> QED
        BY <2>1, <3>1
    <2> QED
      BY <1>6, <2>2 DEF Islands, PEON_ISLAND
  <1>13. crowd(P) = crowd(Q) /\ crowd(P) \in Int
    BY <1>6, <1>10, <1>11 DEF PEON_SAME_COL
  <1> HIDE DEF P, Q, pass, passed, back, backward, advanced, behind, islands, crowd
  <1>14. PICK n1 \in Int : /\ n1 = Times(PEON_HAS_NEIGHBOR, Connected(P))
                           /\ n1 = Times(PEON_HAS_NEIGHBOR, Connected(Q))
    BY <1>4, TimesTurns DEF PEON_HAS_NEIGHBOR
  <1>15. PICK n2 \in Int : /\ n2 = Times(PEON_COVERING_PEON, P \cap UpFriends(P))
                           /\ n2 = Times(PEON_COVERING_PEON, Q \cap DownFriends(Q))
    BY <1>4, TimesTurns DEF PEON_COVERING_PEON
  <1>16. PICK n3 \in Int : /\ n3 = Times(PEON_DOMINANCE, P \cap CenterMask)
                           /\ n3 = Times(PEON_DOMINANCE, Q \cap CenterMask)
    BY <1>4, TimesTurns DEF PEON_DOMINANCE
  <1>17. PICK n4 \in Int : /\ n4 = Times(LONELY_PEON, P \ Connected(P))
                           /\ n4 = Times(LONELY_PEON, Q \ Connected(Q))
    BY <1>4, TimesTurns DEF LONELY_PEON
  <1>18. PICK n5 \in Int : /\ n5 = Times(BACKWARDS_PEON \div 2, advanced)
                           /\ n5 = Times(BACKWARDS_PEON \div 2, backward \ behind)
    <2>1. BACKWARDS_PEON \div 2 \in Int
      BY DEF BACKWARDS_PEON
    <2> QED
      BY <1>5, <2>1, TimesTurns
  <1>19. PICK n6 \in Int : /\ n6 = Times(BACKWARDS_PEON, back \ advanced)
                           /\ n6 = Times(BACKWARDS_PEON, behind)
    BY <1>5, TimesTurns DEF BACKWARDS_PEON
  <1>20. PICK n7 \in Int : /\ n7 = PEON_HIGH_ROW * RowSum(P)
                           /\ n7 = PEON_HIGH_ROW * (7 * PopCount(Q) - RowSum(Q))
    BY <1>9 DEF PEON_HIGH_ROW
  <1>21. PICK n8 \in Int : /\ n8 = PASSED_PEONS * RowSum(pass)
                           /\ n8 = PASSED_PEONS * (7 * PopCount(passed) - RowSum(passed))
    BY <1>9 DEF PASSED_PEONS
  <1>22. white_peon_structure(b)
             = n1 + n2 + n7 + n3 + n8 - crowd(P) - n4 - n5 - n6 - islands(P)
    BY <1>7, <1>14, <1>15, <1>16, <1>17, <1>18, <1>19, <1>20, <1>21
  <1>23. black_peon_structure(m)
             = n1 + n2 + n7 + n3 + n8 - crowd(P) - n4 - n6 - n5 - islands(P)
    BY <1>8, <1>12, <1>13, <1>14, <1>15, <1>16, <1>17, <1>18, <1>19, <1>20, <1>21
  <1> QED
    BY <1>12, <1>13, <1>22, <1>23

LEMMA PeonsTurn ==
    ASSUME NEW b, NEW m, Mirrored(b, m), NEW color \in Sides
    PROVE  peon_structure_score(m, -color) = peon_structure_score(b, color)
  <1>1. Mirrored(m, b)
    BY MirroredBack
  <1>2. /\ white_peon_structure(b) = black_peon_structure(m) /\ white_peon_structure(b) \in Int
        /\ white_peon_structure(m) = black_peon_structure(b) /\ white_peon_structure(m) \in Int
    BY <1>1, WhitePeons
  <1> QED
    BY <1>2, ScoreTurns DEF peon_structure_score

-----------------------------------------------------------------------------
(* Distances, lines and what lies on them, turned.                         *)
LEMMA DiffTurns ==
    ASSUME NEW s \in Squares, NEW q \in Squares
    PROVE  /\ Rules!Diff(Rules!Row(Turned(s)), Rules!Row(Turned(q)))
                  = Rules!Diff(Rules!Row(s), Rules!Row(q))
           /\ Rules!Diff(Rules!Col(Turned(s)), Rules!Col(Turned(q)))
                  = Rules!Diff(Rules!Col(s), Rules!Col(q))
           /\ Turned(s) = Turned(q) <=> s = q
           /\ Rules!Row(Turned(s)) = Rules!Row(Turned(q)) <=> Rules!Row(s) = Rules!Row(q)
           /\ Rules!Col(Turned(s)) = Rules!Col(Turned(q)) <=> Rules!Col(s) = Rules!Col(q)
  <1>1. /\ Turned(s) \in Squares /\ Turned(q) \in Squares
        /\ Turned(Turned(s)) = s /\ Turned(Turned(q)) = q
    BY TurnedIs
  <1>2. /\ Rules!Row(Turned(s)) = 7 - Rules!Row(s) /\ Rules!Col(Turned(s)) = Rules!Col(s)
        /\ Rules!Row(Turned(q)) = 7 - Rules!Row(q) /\ Rules!Col(Turned(q)) = Rules!Col(q)
        /\ Rules!Row(s) \in 0 .. 7 /\ Rules!Row(q) \in 0 .. 7
    BY <1>1, TurnedIs, ByCoordinates
  <1>3. \A x, y \in 0 .. 7 : Rules!Diff(7 - x, 7 - y) = Rules!Diff(x, y)
    BY DEF Rules!Diff
  <1>4. \A x, y \in 0 .. 7 : 7 - x = 7 - y <=> x = y
    OBVIOUS
  <1> QED
    BY <1>1, <1>2, <1>3, <1>4

LEMMA LinesTurn ==
    ASSUME NEW s \in Squares, NEW q \in Squares
    PROVE  /\ Rules!Straight(Turned(s), Turned(q)) <=> Rules!Straight(s, q)
           /\ Rules!Diagonal(Turned(s), Turned(q)) <=> Rules!Diagonal(s, q)
           /\ Rules!Jump(Turned(s), Turned(q)) <=> Rules!Jump(s, q)
           /\ Rules!Neighbours(Turned(s), Turned(q)) <=> Rules!Neighbours(s, q)
           /\ Rules!Beside(Turned(s), Turned(q)) <=> Rules!Beside(s, q)
           /\ Line(Turned(s), Turned(q)) <=> Line(s, q)
  BY DiffTurns DEF Rules!Straight, Rules!Diagonal, Rules!Jump, Rules!Neighbours,
                   Rules!Beside, Line

LEMMA DirTurns ==
    ASSUME NEW s \in Squares, NEW q \in Squares, NEW x \in Squares, NEW y \in Squares
    PROVE  Rules!Dir(Turned(s), Turned(q)) = Rules!Dir(Turned(x), Turned(y)) <=>
               Rules!Dir(s, q) = Rules!Dir(x, y)
  <1> DEFINE h(k, l) == RowOf(l) - RowOf(k)
             w(k, l) == ColOf(l) - ColOf(k)
  <1>1. \A k, l \in Squares : /\ Turned(k) \in Squares
                              /\ h(k, l) \in Int /\ h(Turned(k), Turned(l)) = -h(k, l)
                              /\ w(Turned(k), Turned(l)) = w(k, l)
                              /\ Rules!Dir(k, l) = <<Rules!Sign(h(k, l)), Rules!Sign(w(k, l))>>
    <2> SUFFICES ASSUME NEW k \in Squares, NEW l \in Squares
                 PROVE  /\ Turned(k) \in Squares
                        /\ h(k, l) \in Int /\ h(Turned(k), Turned(l)) = -h(k, l)
                        /\ w(Turned(k), Turned(l)) = w(k, l)
                        /\ Rules!Dir(k, l) = <<Rules!Sign(h(k, l)), Rules!Sign(w(k, l))>>
      OBVIOUS
    <2>1. /\ RowOf(k) \in 0 .. 7 /\ RowOf(l) \in 0 .. 7
          /\ RowOf(Turned(k)) = 7 - RowOf(k) /\ RowOf(Turned(l)) = 7 - RowOf(l)
          /\ ColOf(Turned(k)) = ColOf(k) /\ ColOf(Turned(l)) = ColOf(l)
          /\ Turned(k) \in Squares
      BY TurnedIs, ByCoordinates
    <2>2. Rules!Dir(k, l) = <<Rules!Sign(h(k, l)), Rules!Sign(w(k, l))>>
      BY DirIs
    <2> QED
      BY <2>1, <2>2
  <1> HIDE DEF h, w
  <1>2. \A a, b \in Int : Rules!Sign(-a) = Rules!Sign(-b) <=> Rules!Sign(a) = Rules!Sign(b)
    BY DEF Rules!Sign
  <1>3. /\ Rules!Dir(Turned(s), Turned(q)) = <<Rules!Sign(-h(s, q)), Rules!Sign(w(s, q))>>
        /\ Rules!Dir(Turned(x), Turned(y)) = <<Rules!Sign(-h(x, y)), Rules!Sign(w(x, y))>>
        /\ Rules!Dir(s, q) = <<Rules!Sign(h(s, q)), Rules!Sign(w(s, q))>>
        /\ Rules!Dir(x, y) = <<Rules!Sign(h(x, y)), Rules!Sign(w(x, y))>>
    BY <1>1
  <1>4. Rules!Sign(-h(s, q)) = Rules!Sign(-h(x, y)) <=>
            Rules!Sign(h(s, q)) = Rules!Sign(h(x, y))
    BY <1>1, <1>2
  <1> QED
    BY <1>3, <1>4

LEMMA InsideTurns ==
    ASSUME NEW s \in Squares, NEW x \in Squares, NEW q \in Squares
    PROVE  Rules!Inside(Turned(s), Turned(x), Turned(q)) <=> Rules!Inside(s, x, q)
  <1>1. /\ Rules!Dir(Turned(s), Turned(x)) = Rules!Dir(Turned(s), Turned(q)) <=>
               Rules!Dir(s, x) = Rules!Dir(s, q)
        /\ Rules!Dir(Turned(x), Turned(q)) = Rules!Dir(Turned(s), Turned(q)) <=>
               Rules!Dir(x, q) = Rules!Dir(s, q)
    BY DirTurns
  <1>2. /\ Turned(x) = Turned(s) <=> x = s
        /\ Turned(x) = Turned(q) <=> x = q
    BY DiffTurns
  <1> QED
    BY <1>1, <1>2, LinesTurn DEF Rules!Inside

(* The attack of a slider, by the lines.                                   *)
LEMMA SlidersGo ==
    ASSUME NEW s \in Squares, NEW q \in Squares, NEW B
    PROVE  /\ q \in bishop_attacks(s, B) <=>
                  /\ Rules!Diagonal(s, q)
                  /\ \A x \in Squares : Rules!Inside(s, x, q) => x \notin B
           /\ q \in rook_attacks(s, B) <=>
                  /\ Rules!Straight(s, q)
                  /\ \A x \in Squares : Rules!Inside(s, x, q) => x \notin B
  <1>1. \A d \in Directions : q \in Ray[s][d] =>
            (Between[s][q] \cap B = {} <=>
                 \A x \in Squares : Rules!Inside(s, x, q) => x \notin B)
    <2> SUFFICES ASSUME NEW d \in Directions, q \in Ray[s][d]
                 PROVE  Between[s][q] \cap B = {} <=>
                            \A x \in Squares : Rules!Inside(s, x, q) => x \notin B
      OBVIOUS
    <2>1. \A x : x \in Between[s][q] <=> x \in Squares /\ Rules!Inside(s, x, q)
      BY BetweenIsInside
    <2> QED
      BY <2>1
  <1>2. \A d \in Diagonals : d \in Directions /\ (q \in Ray[s][d] => Rules!Diagonal(s, q))
    BY Steps, RayIsLine
  <1>3. \A d \in Straights : d \in Directions /\ (q \in Ray[s][d] => Rules!Straight(s, q))
    BY Steps, RayIsLine
  <1>4. q \in bishop_attacks(s, B) <=>
            (\E d \in Diagonals : q \in Ray[s][d]) /\ Between[s][q] \cap B = {}
    BY BishopMaskSuffices DEF gen_bishop_attacks, Walk
  <1>5. q \in rook_attacks(s, B) <=>
            (\E d \in Straights : q \in Ray[s][d]) /\ Between[s][q] \cap B = {}
    BY RookMaskSuffices DEF gen_rook_attacks, Walk
  <1> QED
    BY <1>1, <1>2, <1>3, <1>4, <1>5, LineHasRay

LEMMA SlidersTurn ==
    ASSUME NEW s \in Squares, NEW B, NEW C, Turns(B, C)
    PROVE  /\ Turns(bishop_attacks(s, B), bishop_attacks(Turned(s), C))
           /\ Turns(rook_attacks(s, B), rook_attacks(Turned(s), C))
           /\ Turns(queen_attacks(s, B), queen_attacks(Turned(s), C))
  <1>1. Turned(s) \in Squares
    BY TurnedIs
  <1>2. \A z \in Squares : \A D :
            bishop_attacks(z, D) \in SUBSET Squares /\ rook_attacks(z, D) \in SUBSET Squares
    BY AttacksOnBoard
  <1>3. ASSUME NEW q \in Squares
        PROVE  (\A x \in Squares : Rules!Inside(s, x, q) => x \notin B) <=>
                   \A x \in Squares : Rules!Inside(Turned(s), x, Turned(q)) => x \notin C
    <2>1. \A x \in Squares : Rules!Inside(Turned(s), Turned(x), Turned(q)) <=> Rules!Inside(s, x, q)
      BY InsideTurns
    <2>2. \A x \in Squares : x \in B <=> Turned(x) \in C
      BY DEF Turns
    <2>3. \A x \in Squares : Turned(x) \in Squares /\ Turned(Turned(x)) = x
      BY TurnedIs
    <2> QED
      BY <2>1, <2>2, <2>3
  <1>4. ASSUME NEW q \in Squares
        PROVE  /\ q \in bishop_attacks(s, B) <=> Turned(q) \in bishop_attacks(Turned(s), C)
               /\ q \in rook_attacks(s, B) <=> Turned(q) \in rook_attacks(Turned(s), C)
    <2>1. Turned(q) \in Squares
      BY TurnedIs
    <2>2. /\ q \in bishop_attacks(s, B) <=>
                 /\ Rules!Diagonal(s, q)
                 /\ \A x \in Squares : Rules!Inside(s, x, q) => x \notin B
          /\ q \in rook_attacks(s, B) <=>
                 /\ Rules!Straight(s, q)
                 /\ \A x \in Squares : Rules!Inside(s, x, q) => x \notin B
      BY SlidersGo
    <2>3. /\ Turned(q) \in bishop_attacks(Turned(s), C) <=>
                 /\ Rules!Diagonal(Turned(s), Turned(q))
                 /\ \A x \in Squares : Rules!Inside(Turned(s), x, Turned(q)) => x \notin C
          /\ Turned(q) \in rook_attacks(Turned(s), C) <=>
                 /\ Rules!Straight(Turned(s), Turned(q))
                 /\ \A x \in Squares : Rules!Inside(Turned(s), x, Turned(q)) => x \notin C
      BY <1>1, <2>1, SlidersGo
    <2> QED
      BY <1>3, <2>2, <2>3, LinesTurn
  <1>5. /\ Turns(bishop_attacks(s, B), bishop_attacks(Turned(s), C))
        /\ Turns(rook_attacks(s, B), rook_attacks(Turned(s), C))
    BY <1>1, <1>2, <1>4, TurnsOf
  <1>6. Turns(queen_attacks(s, B), queen_attacks(Turned(s), C))
    BY <1>5, TurnsSets DEF queen_attacks
  <1> QED
    BY <1>5, <1>6

(* The tables.                                                             *)
LEMMA TableTurns ==
    ASSUME NEW s \in Squares, NEW t \in Types
    PROVE  Turns(nsp_table[t][s], nsp_table[Foe(t)][Turned(s)])
  <1> DEFINE z == Turned(s)
  <1>1. z \in Squares /\ Foe(t) \in Types
    BY TurnedIs, FoeFacts
  <1>2. nsp_table[t][s] \in SUBSET Squares /\ nsp_table[Foe(t)][z] \in SUBSET Squares
    BY <1>1, TableOnBoard
  <1>3. ASSUME NEW q \in Squares
        PROVE  /\ q \in gen_knight_mask(s) <=> Turned(q) \in gen_knight_mask(z)
               /\ q \in gen_king_mask(s) <=> Turned(q) \in gen_king_mask(z)
               /\ q \in gen_catapult_mask(s) <=> Turned(q) \in gen_catapult_mask(z)
               /\ q \in gen_zombie_mask(s) <=> Turned(q) \in gen_zombie_mask(z)
               /\ q \in gen_canon_mask(s) <=> Turned(q) \in gen_canon_mask(z)
               /\ q \in gen_peon_mask(s, 1) <=> Turned(q) \in gen_peon_mask(z, -1)
               /\ q \in gen_peon_mask(s, -1) <=> Turned(q) \in gen_peon_mask(z, 1)
    <2>1. Turned(q) \in Squares
      BY TurnedIs
    <2>2. /\ Rules!Jump(z, Turned(q)) <=> Rules!Jump(s, q)
          /\ Rules!Neighbours(z, Turned(q)) <=> Rules!Neighbours(s, q)
          /\ Rules!Beside(z, Turned(q)) <=> Rules!Beside(s, q)
      BY LinesTurn
    <2>3. /\ q \in gen_peon_mask(s, 1) <=> Turned(q) \in gen_peon_mask(z, -1)
          /\ q \in gen_peon_mask(s, -1) <=> Turned(q) \in gen_peon_mask(z, 1)
      <3>1. \A d \in {-1, 1} :
                /\ q \in gen_peon_mask(s, d) <=>
                       RowOf(q) = RowOf(s) + d /\ ColOf(q) - ColOf(s) \in -1 .. 1
                /\ Turned(q) \in gen_peon_mask(z, d) <=>
                       RowOf(Turned(q)) = RowOf(z) + d /\ ColOf(Turned(q)) - ColOf(z) \in -1 .. 1
        BY <1>1, <2>1, PeonMask
      <3>2. /\ RowOf(Turned(q)) = 7 - RowOf(q) /\ ColOf(Turned(q)) = ColOf(q)
            /\ RowOf(z) = 7 - RowOf(s) /\ ColOf(z) = ColOf(s)
            /\ RowOf(s) \in 0 .. 7 /\ RowOf(q) \in 0 .. 7
        BY TurnedIs, ByCoordinates
      <3>3. 7 - RowOf(q) = 7 - RowOf(s) + -1 <=> RowOf(q) = RowOf(s) + 1
        BY <3>2
      <3>4. 7 - RowOf(q) = 7 - RowOf(s) + 1 <=> RowOf(q) = RowOf(s) + -1
        BY <3>2
      <3> QED
        BY <3>1, <3>2, <3>3, <3>4
    <2> HIDE DEF z
    <2> QED
      BY <1>1, <2>1, <2>2, <2>3, KnightMask, KingMask, ZombieMask
  <1>4. /\ nsp_table[WP][s] = gen_peon_mask(s, 1) /\ nsp_table[BP][s] = gen_peon_mask(s, -1)
        /\ \A u \in {WN, BN} : nsp_table[u][s] = gen_knight_mask(s)
        /\ \A u \in {WK, BK} : nsp_table[u][s] = gen_king_mask(s)
        /\ \A u \in {WZ, BZ} : nsp_table[u][s] = gen_zombie_mask(s)
        /\ \A u \in {WF, BF} : nsp_table[u][s] = gen_catapult_mask(s)
        /\ \A u \in {WC, BC} : nsp_table[u][s] = gen_canon_mask(s)
    BY TableRows
  <1>5. /\ nsp_table[WP][z] = gen_peon_mask(z, 1) /\ nsp_table[BP][z] = gen_peon_mask(z, -1)
        /\ \A u \in {WN, BN} : nsp_table[u][z] = gen_knight_mask(z)
        /\ \A u \in {WK, BK} : nsp_table[u][z] = gen_king_mask(z)
        /\ \A u \in {WZ, BZ} : nsp_table[u][z] = gen_zombie_mask(z)
        /\ \A u \in {WF, BF} : nsp_table[u][z] = gen_catapult_mask(z)
        /\ \A u \in {WC, BC} : nsp_table[u][z] = gen_canon_mask(z)
    BY <1>1, TableRows
  <1>6. ASSUME t \in {WB, BB, WR, BR, WQ, BQ}
        PROVE  nsp_table[t][s] = {} /\ nsp_table[Foe(t)][z] = {}
    <2>1. \A u \in {WB, BB, WR, BR, WQ, BQ} : \A q \in Squares : nsp_table[u][q] = {}
      BY DEF nsp_table, Types, WP, BP, WN, BN, WB, BB, WR, BR, WQ, BQ, WK, BK,
             WZ, BZ, WF, BF, WC, BC
    <2>2. Foe(t) \in {WB, BB, WR, BR, WQ, BQ}
      BY <1>6, FoeIs
    <2> QED
      BY <1>1, <1>6, <2>1, <2>2
  <1>7. \A q \in Squares : q \in nsp_table[t][s] <=> Turned(q) \in nsp_table[Foe(t)][z]
    <2>1. t \in {WP, WN, WB, WR, WQ, WK, WZ, WF, WC} \/ t \in {BP, BN, BB, BR, BQ, BK, BZ, BF, BC}
      BY TypeFacts
    <2> HIDE DEF z
    <2>2. CASE t \in {WP, BP}
      BY <1>3, <1>4, <1>5, <2>2, FoeIs
    <2>3. CASE t \in {WN, BN}
      BY <1>3, <1>4, <1>5, <2>3, FoeIs
    <2>4. CASE t \in {WK, BK}
      BY <1>3, <1>4, <1>5, <2>4, FoeIs
    <2>5. CASE t \in {WZ, BZ}
      BY <1>3, <1>4, <1>5, <2>5, FoeIs
    <2>6. CASE t \in {WF, BF}
      BY <1>3, <1>4, <1>5, <2>6, FoeIs
    <2>7. CASE t \in {WC, BC}
      BY <1>3, <1>4, <1>5, <2>7, FoeIs
    <2>8. CASE t \in {WB, BB, WR, BR, WQ, BQ}
      BY <1>6, <2>8
    <2> QED
      BY <2>1, <2>2, <2>3, <2>4, <2>5, <2>6, <2>7, <2>8
  <1> QED
    BY <1>2, <1>7, TurnsOf

(* What a peon attacks: not the square ahead of it.                        *)
LEMMA PeonTurns ==
    ASSUME NEW s \in Squares
    PROVE  /\ Turns(nsp_table[WP][s] \ {s + 8}, nsp_table[BP][Turned(s)] \ {Turned(s) - 8})
           /\ Turns(nsp_table[BP][s] \ {s - 8}, nsp_table[WP][Turned(s)] \ {Turned(s) + 8})
  <1>1. /\ Turns(nsp_table[WP][s], nsp_table[BP][Turned(s)])
        /\ Turns(nsp_table[BP][s], nsp_table[WP][Turned(s)])
    <2>1. WP \in Types /\ BP \in Types
      BY TypeFacts
    <2> QED
      BY <2>1, TableTurns, FoeIs
  <1>2. ASSUME NEW q \in Squares
        PROVE  /\ q = s + 8 <=> Turned(q) = Turned(s) - 8
               /\ q = s - 8 <=> Turned(q) = Turned(s) + 8
    <2>1. Turned(s) \in Squares /\ Turned(q) \in Squares
      BY TurnedIs
    <2>2. /\ q = s + 8 <=> Off(s, q, 1, 0)
          /\ q = s - 8 <=> Off(s, q, -1, 0)
          /\ Turned(q) = Turned(s) + 8 <=> Off(Turned(s), Turned(q), 1, 0)
          /\ Turned(q) = Turned(s) - 8 <=> Off(Turned(s), Turned(q), -1, 0)
      BY <2>1, OffIs
    <2>3. /\ Off(Turned(s), Turned(q), -1, 0) <=> Off(s, q, 1, 0)
          /\ Off(Turned(s), Turned(q), 1, 0) <=> Off(s, q, -1, 0)
      <3>1. \A dr, er, dc \in -2 .. 2 :
               dr + er = 0 => (Off(Turned(s), Turned(q), er, dc) <=> Off(s, q, dr, dc))
        BY OffTurned
      <3>2. /\ (-1) \in -2 .. 2 /\ 1 \in -2 .. 2 /\ 0 \in -2 .. 2
            /\ -1 + 1 = 0 /\ 1 + -1 = 0
        OBVIOUS
      <3> QED
        BY <3>1, <3>2
    <2> QED
      BY <2>2, <2>3
  <1> QED
    BY <1>1, <1>2 DEF Turns

-----------------------------------------------------------------------------
(* Of some types the engine looks at the first or the last piece only, and *)
(* of the knights at two.  A game starts with no more.                     *)
FewPieces(b) ==
    /\ OneOfEach(b)
    /\ \A t \in {WF, BF} : \A x, y \in b.pieces[t] : x = y
    /\ \A t \in {WN, BN} : \A x, y, z \in b.pieces[t] : x = y \/ y = z \/ x = z

Single(S) == \A x, y \in S : x = y

LEMMA SingleTurns ==
    ASSUME NEW S, NEW T, Turns(S, T), Single(S)
    PROVE  /\ Single(T) /\ Lsb(S) = S /\ Lsb(T) = T /\ Msb(S) = S /\ Msb(T) = T
  <1>1. Single(T)
    <2> SUFFICES ASSUME NEW x \in T, NEW y \in T PROVE x = y
      BY DEF Single
    <2>1. x \in Squares /\ y \in Squares /\ Turned(x) \in S /\ Turned(y) \in S
      BY TurnsEach
    <2>2. Turned(x) = Turned(y)
      BY <2>1 DEF Single
    <2> QED
      BY <2>1, <2>2, DiffTurns
  <1>2. (\A x \in S : x \in Int) /\ \A x \in T : x \in Int
    BY DEF Turns, Squares
  <1>3. (\A x, y \in S : x <= y) /\ \A x, y \in T : x <= y
    <2>1. \A x \in Int : x <= x
      OBVIOUS
    <2> QED
      BY <1>1, <1>2, <2>1 DEF Single
  <1> QED
    BY <1>1, <1>3 DEF Lsb, Msb

SingleTypes == FirstOnly \cup {WF, BF}

LEMMA FewTurns ==
    ASSUME NEW b, NEW m, Mirrored(b, m), FewPieces(b)
    PROVE  FewPieces(m)
  <1>1. \A t \in SingleTypes : t \in Types /\ Foe(t) \in SingleTypes
    BY TypeFacts, FoeIs DEF SingleTypes, FirstOnly
  <1>2. \A t \in {WN, BN} : t \in Types /\ Foe(t) \in {WN, BN}
    BY TypeFacts, FoeIs
  <1>3. \A t \in Types : Turns(b.pieces[Foe(t)], m.pieces[t])
    BY FoeFacts DEF Mirrored
  <1>4. ASSUME NEW t \in SingleTypes PROVE \A x, y \in m.pieces[t] : x = y
    <2>1. Turns(b.pieces[Foe(t)], m.pieces[t]) /\ Single(b.pieces[Foe(t)])
      BY <1>1, <1>3 DEF FewPieces, OneOfEach, SingleTypes, Single
    <2>2. Single(m.pieces[t])
      BY <2>1, SingleTurns
    <2> QED
      BY <2>2 DEF Single
  <1>5. ASSUME NEW t \in {WN, BN}
        PROVE  \A x, y, z \in m.pieces[t] : x = y \/ y = z \/ x = z
    <2>1. Turns(b.pieces[Foe(t)], m.pieces[t]) /\ Foe(t) \in {WN, BN}
      BY <1>2, <1>3
    <2>2. \A x \in m.pieces[t] : x \in Squares /\ Turned(x) \in b.pieces[Foe(t)]
      BY <2>1, TurnsEach
    <2>3. \A x, y, z \in b.pieces[Foe(t)] : x = y \/ y = z \/ x = z
      BY <2>1 DEF FewPieces
    <2> QED
      BY <2>2, <2>3, DiffTurns
  <1> QED
    BY <1>4, <1>5 DEF FewPieces, OneOfEach, SingleTypes

LEMMA OneEnds ==
    ASSUME NEW b, NEW m, Mirrored(b, m), FewPieces(b), NEW t \in SingleTypes
    PROVE  /\ Turns(b.pieces[t], m.pieces[Foe(t)])
           /\ Single(b.pieces[t]) /\ Single(m.pieces[Foe(t)])
           /\ Lsb(b.pieces[t]) = b.pieces[t] /\ Lsb(m.pieces[Foe(t)]) = m.pieces[Foe(t)]
           /\ Msb(b.pieces[t]) = b.pieces[t] /\ Msb(m.pieces[Foe(t)]) = m.pieces[Foe(t)]
  <1>1. t \in Types /\ Single(b.pieces[t])
    BY TypeFacts DEF SingleTypes, FirstOnly, FewPieces, OneOfEach, Single
  <1>2. Turns(b.pieces[t], m.pieces[Foe(t)])
    BY <1>1 DEF Mirrored
  <1> QED
    BY <1>1, <1>2, SingleTurns

-----------------------------------------------------------------------------
(* The safety of the kings.                                                *)

(* Does some square of S, attacking by A, hit a square of K?               *)
Reaches(S, A, K) == \E s \in S : A[s] \cap K # {}

Alike(A, B) == \A s \in Squares : Turns(A[s], B[Turned(s)])

LEMMA ReachTurns ==
    ASSUME NEW S, NEW T, Turns(S, T), NEW K, NEW L, Turns(K, L), NEW A, NEW B, Alike(A, B)
    PROVE  Reaches(S, A, K) <=> Reaches(T, B, L)
  <1>1. \A s \in Squares : A[s] \cap K = {} <=> B[Turned(s)] \cap L = {}
    <2> SUFFICES ASSUME NEW s \in Squares PROVE A[s] \cap K = {} <=> B[Turned(s)] \cap L = {}
      OBVIOUS
    <2>0. Turns(A[s], B[Turned(s)])
      BY DEF Alike
    <2>1. Turns(A[s] \cap K, B[Turned(s)] \cap L)
      BY <2>0, TurnsSets
    <2> QED
      BY <2>1, TurnsEach
  <1>2. \A s \in S : s \in Squares /\ Turned(s) \in T
    BY TurnsEach
  <1>3. \A q \in T : Turned(q) \in S /\ Turned(q) \in Squares /\ Turned(Turned(q)) = q
    BY TurnsEach, TurnedIs
  <1> QED
    BY <1>1, <1>2, <1>3 DEF Reaches

(* The attacks the test for check looks at, as functions.                  *)
Bishops(B) == [s \in Squares |-> bishop_attacks(s, B)]
Rooks(B) == [s \in Squares |-> rook_attacks(s, B)]
Queens(B) == [s \in Squares |-> queen_attacks(s, B)]
Ahead(t) == [s \in Squares |-> IF t = WP THEN nsp_table[WP][s] \ {s + 8}
                               ELSE nsp_table[BP][s] \ {s - 8}]

(* The check on the king in K by the types that follow, P the peons.       *)
Checked(b, K, C, N, B, R, Q, Z, P, E) ==
    \/ Reaches(Lsb(b.pieces[C]), Bishops({}), b.pieces[K])
    \/ Reaches(b.pieces[N], nsp_table[BN], b.pieces[K])
    \/ Reaches(Lsb(b.pieces[B]), Bishops(b.all), b.pieces[K])
    \/ Reaches(Lsb(b.pieces[R]), Rooks(b.all), b.pieces[K])
    \/ Reaches(Lsb(b.pieces[Q]), Queens(b.all), b.pieces[K])
    \/ Reaches(b.pieces[Z], nsp_table[WZ], b.pieces[K])
    \/ Reaches(b.pieces[P], Ahead(P), b.pieces[K])
    \/ Reaches(Lsb(b.pieces[E]), nsp_table[WK], b.pieces[K])

LEMMA CheckedIs ==
    ASSUME NEW b, Sound(b)
    PROVE  /\ is_king_in_check(b, 1) <=> Checked(b, WK, BC, BN, BB, BR, BQ, BZ, BP, BK)
           /\ is_king_in_check(b, -1) <=> Checked(b, BK, WC, WN, WB, WR, WQ, WZ, WP, WK)
  <1>1. \A t \in {WP, WN, WB, WR, WQ, WK, WZ, WF, WC, BP, BN, BB, BR, BQ, BK, BZ, BF, BC} :
            b.pieces[t] \in SUBSET Squares
    BY TypeFacts, BoardFields DEF Sound
  <1>2. \A t \in {WP, WN, WB, WR, WQ, WK, WZ, WF, WC, BP, BN, BB, BR, BQ, BK, BZ, BF, BC} :
            Lsb(b.pieces[t]) \in SUBSET Squares
    BY <1>1 DEF Lsb
  <1>3. /\ \A S \in SUBSET Squares : \A B, K :
               /\ Reaches(S, Bishops(B), K) <=> \E s \in S : bishop_attacks(s, B) \cap K # {}
               /\ Reaches(S, Rooks(B), K) <=> \E s \in S : rook_attacks(s, B) \cap K # {}
               /\ Reaches(S, Queens(B), K) <=> \E s \in S : queen_attacks(s, B) \cap K # {}
        /\ \A S \in SUBSET Squares : \A K :
               /\ Reaches(S, Ahead(WP), K) <=>
                      \E s \in S : (nsp_table[WP][s] \ {s + 8}) \cap K # {}
               /\ Reaches(S, Ahead(BP), K) <=>
                      \E s \in S : (nsp_table[BP][s] \ {s - 8}) \cap K # {}
               /\ \A t : Reaches(S, nsp_table[t], K) <=>
                             \E s \in S : nsp_table[t][s] \cap K # {}
    <2>1. /\ \A s \in Squares : \A B : /\ Bishops(B)[s] = bishop_attacks(s, B)
                                       /\ Rooks(B)[s] = rook_attacks(s, B)
                                       /\ Queens(B)[s] = queen_attacks(s, B)
          /\ \A s \in Squares : /\ Ahead(WP)[s] = nsp_table[WP][s] \ {s + 8}
                                /\ Ahead(BP)[s] = nsp_table[BP][s] \ {s - 8}
      BY DEF Bishops, Rooks, Queens, Ahead, WP, BP
    <2> QED
      BY <2>1 DEF Reaches
  <1>4. is_king_in_check(b, 1) <=>
            \/ \E s \in Lsb(b.pieces[BC]) : bishop_attacks(s, {}) \cap b.pieces[WK] # {}
            \/ \E s \in b.pieces[BN] : nsp_table[BN][s] \cap b.pieces[WK] # {}
            \/ \E s \in Lsb(b.pieces[BB]) : bishop_attacks(s, b.all) \cap b.pieces[WK] # {}
            \/ \E s \in Lsb(b.pieces[BR]) : rook_attacks(s, b.all) \cap b.pieces[WK] # {}
            \/ \E s \in Lsb(b.pieces[BQ]) : queen_attacks(s, b.all) \cap b.pieces[WK] # {}
            \/ \E s \in b.pieces[BZ] : nsp_table[WZ][s] \cap b.pieces[WK] # {}
            \/ \E s \in b.pieces[BP] : (nsp_table[BP][s] \ {s - 8}) \cap b.pieces[WK] # {}
            \/ \E s \in Lsb(b.pieces[BK]) : nsp_table[WK][s] \cap b.pieces[WK] # {}
    BY DEF is_king_in_check
  <1>5. is_king_in_check(b, -1) <=>
            \/ \E s \in Lsb(b.pieces[WC]) : bishop_attacks(s, {}) \cap b.pieces[BK] # {}
            \/ \E s \in b.pieces[WN] : nsp_table[BN][s] \cap b.pieces[BK] # {}
            \/ \E s \in Lsb(b.pieces[WB]) : bishop_attacks(s, b.all) \cap b.pieces[BK] # {}
            \/ \E s \in Lsb(b.pieces[WR]) : rook_attacks(s, b.all) \cap b.pieces[BK] # {}
            \/ \E s \in Lsb(b.pieces[WQ]) : queen_attacks(s, b.all) \cap b.pieces[BK] # {}
            \/ \E s \in b.pieces[WZ] : nsp_table[WZ][s] \cap b.pieces[BK] # {}
            \/ \E s \in b.pieces[WP] : (nsp_table[WP][s] \ {s + 8}) \cap b.pieces[BK] # {}
            \/ \E s \in Lsb(b.pieces[WK]) : nsp_table[WK][s] \cap b.pieces[BK] # {}
    BY DEF is_king_in_check
  <1>6. is_king_in_check(b, 1) <=> Checked(b, WK, BC, BN, BB, BR, BQ, BZ, BP, BK)
    <2>1. Reaches(Lsb(b.pieces[BC]), Bishops({}), b.pieces[WK]) <=>
              \E s \in Lsb(b.pieces[BC]) : bishop_attacks(s, {}) \cap b.pieces[WK] # {}
      BY <1>1, <1>2, <1>3
    <2>2. Reaches(b.pieces[BN], nsp_table[BN], b.pieces[WK]) <=>
              \E s \in b.pieces[BN] : nsp_table[BN][s] \cap b.pieces[WK] # {}
      BY DEF Reaches
    <2>3. Reaches(Lsb(b.pieces[BB]), Bishops(b.all), b.pieces[WK]) <=>
              \E s \in Lsb(b.pieces[BB]) : bishop_attacks(s, b.all) \cap b.pieces[WK] # {}
      BY <1>1, <1>2, <1>3
    <2>4. Reaches(Lsb(b.pieces[BR]), Rooks(b.all), b.pieces[WK]) <=>
              \E s \in Lsb(b.pieces[BR]) : rook_attacks(s, b.all) \cap b.pieces[WK] # {}
      BY <1>1, <1>2, <1>3
    <2>5. Reaches(Lsb(b.pieces[BQ]), Queens(b.all), b.pieces[WK]) <=>
              \E s \in Lsb(b.pieces[BQ]) : queen_attacks(s, b.all) \cap b.pieces[WK] # {}
      BY <1>1, <1>2, <1>3
    <2>6. Reaches(b.pieces[BZ], nsp_table[WZ], b.pieces[WK]) <=>
              \E s \in b.pieces[BZ] : nsp_table[WZ][s] \cap b.pieces[WK] # {}
      BY DEF Reaches
    <2>7. Reaches(b.pieces[BP], Ahead(BP), b.pieces[WK]) <=>
              \E s \in b.pieces[BP] : (nsp_table[BP][s] \ {s - 8}) \cap b.pieces[WK] # {}
      BY <1>1, <1>2, <1>3
    <2>8. Reaches(Lsb(b.pieces[BK]), nsp_table[WK], b.pieces[WK]) <=>
              \E s \in Lsb(b.pieces[BK]) : nsp_table[WK][s] \cap b.pieces[WK] # {}
      BY DEF Reaches
    <2> QED
      BY <1>4, <2>1, <2>2, <2>3, <2>4, <2>5, <2>6, <2>7, <2>8 DEF Checked
  <1>7. is_king_in_check(b, -1) <=> Checked(b, BK, WC, WN, WB, WR, WQ, WZ, WP, WK)
    <2>1. Reaches(Lsb(b.pieces[WC]), Bishops({}), b.pieces[BK]) <=>
              \E s \in Lsb(b.pieces[WC]) : bishop_attacks(s, {}) \cap b.pieces[BK] # {}
      BY <1>1, <1>2, <1>3
    <2>2. Reaches(b.pieces[WN], nsp_table[BN], b.pieces[BK]) <=>
              \E s \in b.pieces[WN] : nsp_table[BN][s] \cap b.pieces[BK] # {}
      BY DEF Reaches
    <2>3. Reaches(Lsb(b.pieces[WB]), Bishops(b.all), b.pieces[BK]) <=>
              \E s \in Lsb(b.pieces[WB]) : bishop_attacks(s, b.all) \cap b.pieces[BK] # {}
      BY <1>1, <1>2, <1>3
    <2>4. Reaches(Lsb(b.pieces[WR]), Rooks(b.all), b.pieces[BK]) <=>
              \E s \in Lsb(b.pieces[WR]) : rook_attacks(s, b.all) \cap b.pieces[BK] # {}
      BY <1>1, <1>2, <1>3
    <2>5. Reaches(Lsb(b.pieces[WQ]), Queens(b.all), b.pieces[BK]) <=>
              \E s \in Lsb(b.pieces[WQ]) : queen_attacks(s, b.all) \cap b.pieces[BK] # {}
      BY <1>1, <1>2, <1>3
    <2>6. Reaches(b.pieces[WZ], nsp_table[WZ], b.pieces[BK]) <=>
              \E s \in b.pieces[WZ] : nsp_table[WZ][s] \cap b.pieces[BK] # {}
      BY DEF Reaches
    <2>7. Reaches(b.pieces[WP], Ahead(WP), b.pieces[BK]) <=>
              \E s \in b.pieces[WP] : (nsp_table[WP][s] \ {s + 8}) \cap b.pieces[BK] # {}
      BY <1>1, <1>2, <1>3
    <2>8. Reaches(Lsb(b.pieces[WK]), nsp_table[WK], b.pieces[BK]) <=>
              \E s \in Lsb(b.pieces[WK]) : nsp_table[WK][s] \cap b.pieces[BK] # {}
      BY DEF Reaches
    <2> QED
      BY <1>5, <2>1, <2>2, <2>3, <2>4, <2>5, <2>6, <2>7, <2>8 DEF Checked
  <1> QED
    BY <1>6, <1>7

LEMMA AttacksAlike ==
    /\ \A B, C : Turns(B, C) => /\ Alike(Bishops(B), Bishops(C))
                               /\ Alike(Rooks(B), Rooks(C))
                               /\ Alike(Queens(B), Queens(C))
    /\ Alike(Ahead(WP), Ahead(BP)) /\ Alike(Ahead(BP), Ahead(WP))
    /\ Alike(nsp_table[BN], nsp_table[BN]) /\ Alike(nsp_table[WZ], nsp_table[WZ])
    /\ Alike(nsp_table[WK], nsp_table[WK])
  <1>1. /\ \A s \in Squares : \A B : /\ Bishops(B)[s] = bishop_attacks(s, B)
                                     /\ Rooks(B)[s] = rook_attacks(s, B)
                                     /\ Queens(B)[s] = queen_attacks(s, B)
        /\ \A s \in Squares : /\ Ahead(WP)[s] = nsp_table[WP][s] \ {s + 8}
                              /\ Ahead(BP)[s] = nsp_table[BP][s] \ {s - 8}
        /\ \A s \in Squares : Turned(s) \in Squares
    BY TurnedIs DEF Bishops, Rooks, Queens, Ahead, WP, BP
  <1>2. ASSUME NEW B, NEW C, Turns(B, C)
        PROVE  /\ Alike(Bishops(B), Bishops(C)) /\ Alike(Rooks(B), Rooks(C))
               /\ Alike(Queens(B), Queens(C))
    <2>1. \A s \in Squares : /\ Turns(bishop_attacks(s, B), bishop_attacks(Turned(s), C))
                             /\ Turns(rook_attacks(s, B), rook_attacks(Turned(s), C))
                             /\ Turns(queen_attacks(s, B), queen_attacks(Turned(s), C))
      BY <1>2, SlidersTurn
    <2> QED
      BY <1>1, <2>1 DEF Alike
  <1>3. Alike(Ahead(WP), Ahead(BP)) /\ Alike(Ahead(BP), Ahead(WP))
    BY <1>1, PeonTurns DEF Alike
  <1>4. ASSUME NEW s \in Squares
        PROVE  /\ Turns(nsp_table[BN][s], nsp_table[BN][Turned(s)])
               /\ Turns(nsp_table[WZ][s], nsp_table[WZ][Turned(s)])
               /\ Turns(nsp_table[WK][s], nsp_table[WK][Turned(s)])
    <2>1. \A z \in Squares : /\ nsp_table[WN][z] = nsp_table[BN][z]
                             /\ nsp_table[BZ][z] = nsp_table[WZ][z]
                             /\ nsp_table[BK][z] = nsp_table[WK][z]
      BY TableRows
    <2>2. Turned(s) \in Squares /\ BN \in Types /\ WZ \in Types /\ WK \in Types
      BY TurnedIs, TypeFacts
    <2>3. /\ Turns(nsp_table[BN][s], nsp_table[WN][Turned(s)])
          /\ Turns(nsp_table[WZ][s], nsp_table[BZ][Turned(s)])
          /\ Turns(nsp_table[WK][s], nsp_table[BK][Turned(s)])
      BY <2>2, TableTurns, FoeIs
    <2> QED
      BY <2>1, <2>2, <2>3
  <1> QED
    BY <1>2, <1>3, <1>4 DEF Alike

LEMMA CheckTurns ==
    ASSUME NEW b, NEW m, Mirrored(b, m), FewPieces(b)
    PROVE  /\ is_king_in_check(b, 1) <=> is_king_in_check(m, -1)
           /\ is_king_in_check(b, -1) <=> is_king_in_check(m, 1)
  <1>1. /\ \A B, C : Turns(B, C) => /\ Alike(Bishops(B), Bishops(C))
                                   /\ Alike(Rooks(B), Rooks(C))
                                   /\ Alike(Queens(B), Queens(C))
        /\ Alike(Ahead(WP), Ahead(BP)) /\ Alike(Ahead(BP), Ahead(WP))
        /\ Alike(nsp_table[BN], nsp_table[BN]) /\ Alike(nsp_table[WZ], nsp_table[WZ])
        /\ Alike(nsp_table[WK], nsp_table[WK])
    BY AttacksAlike
  <1>3. Turns({}, {}) /\ Turns(b.all, m.all) /\ Sound(b) /\ Sound(m)
    BY DEF Turns, Mirrored
  <1>4. /\ \A t \in {WC, WB, WR, WQ, WK, BC, BB, BR, BQ, BK} :
               Turns(Lsb(b.pieces[t]), Lsb(m.pieces[Foe(t)]))
    <2> SUFFICES ASSUME NEW t \in {WC, WB, WR, WQ, WK, BC, BB, BR, BQ, BK}
                 PROVE  Turns(Lsb(b.pieces[t]), Lsb(m.pieces[Foe(t)]))
      OBVIOUS
    <2>1. t \in SingleTypes
      BY DEF SingleTypes, FirstOnly
    <2> QED
      BY <2>1, OneEnds
  <1>5. Checked(b, WK, BC, BN, BB, BR, BQ, BZ, BP, BK) <=>
            Checked(m, BK, WC, WN, WB, WR, WQ, WZ, WP, WK)
    <2>0. /\ Turns(b.pieces[WK], m.pieces[BK]) /\ Turns(b.pieces[BN], m.pieces[WN])
          /\ Turns(b.pieces[BZ], m.pieces[WZ]) /\ Turns(b.pieces[BP], m.pieces[WP])
          /\ Turns(Lsb(b.pieces[BC]), Lsb(m.pieces[WC]))
          /\ Turns(Lsb(b.pieces[BB]), Lsb(m.pieces[WB]))
          /\ Turns(Lsb(b.pieces[BR]), Lsb(m.pieces[WR]))
          /\ Turns(Lsb(b.pieces[BQ]), Lsb(m.pieces[WQ]))
          /\ Turns(Lsb(b.pieces[BK]), Lsb(m.pieces[WK]))
      BY <1>4, MirroredPieces, FoeIs
    <2>1. Reaches(Lsb(b.pieces[BC]), Bishops({}), b.pieces[WK]) <=>
              Reaches(Lsb(m.pieces[WC]), Bishops({}), m.pieces[BK])
      BY <1>1, <1>3, <2>0, ReachTurns
    <2>2. Reaches(b.pieces[BN], nsp_table[BN], b.pieces[WK]) <=>
              Reaches(m.pieces[WN], nsp_table[BN], m.pieces[BK])
      BY <1>1, <2>0, ReachTurns
    <2>3. Reaches(Lsb(b.pieces[BB]), Bishops(b.all), b.pieces[WK]) <=>
              Reaches(Lsb(m.pieces[WB]), Bishops(m.all), m.pieces[BK])
      BY <1>1, <1>3, <2>0, ReachTurns
    <2>4. Reaches(Lsb(b.pieces[BR]), Rooks(b.all), b.pieces[WK]) <=>
              Reaches(Lsb(m.pieces[WR]), Rooks(m.all), m.pieces[BK])
      BY <1>1, <1>3, <2>0, ReachTurns
    <2>5. Reaches(Lsb(b.pieces[BQ]), Queens(b.all), b.pieces[WK]) <=>
              Reaches(Lsb(m.pieces[WQ]), Queens(m.all), m.pieces[BK])
      BY <1>1, <1>3, <2>0, ReachTurns
    <2>6. Reaches(b.pieces[BZ], nsp_table[WZ], b.pieces[WK]) <=>
              Reaches(m.pieces[WZ], nsp_table[WZ], m.pieces[BK])
      BY <1>1, <2>0, ReachTurns
    <2>7. Reaches(b.pieces[BP], Ahead(BP), b.pieces[WK]) <=>
              Reaches(m.pieces[WP], Ahead(WP), m.pieces[BK])
      BY <1>1, <2>0, ReachTurns
    <2>8. Reaches(Lsb(b.pieces[BK]), nsp_table[WK], b.pieces[WK]) <=>
              Reaches(Lsb(m.pieces[WK]), nsp_table[WK], m.pieces[BK])
      BY <1>1, <2>0, ReachTurns
    <2> QED
      BY <2>1, <2>2, <2>3, <2>4, <2>5, <2>6, <2>7, <2>8 DEF Checked
  <1>6. Checked(b, BK, WC, WN, WB, WR, WQ, WZ, WP, WK) <=>
            Checked(m, WK, BC, BN, BB, BR, BQ, BZ, BP, BK)
    <2>0. /\ Turns(b.pieces[BK], m.pieces[WK]) /\ Turns(b.pieces[WN], m.pieces[BN])
          /\ Turns(b.pieces[WZ], m.pieces[BZ]) /\ Turns(b.pieces[WP], m.pieces[BP])
          /\ Turns(Lsb(b.pieces[WC]), Lsb(m.pieces[BC]))
          /\ Turns(Lsb(b.pieces[WB]), Lsb(m.pieces[BB]))
          /\ Turns(Lsb(b.pieces[WR]), Lsb(m.pieces[BR]))
          /\ Turns(Lsb(b.pieces[WQ]), Lsb(m.pieces[BQ]))
          /\ Turns(Lsb(b.pieces[WK]), Lsb(m.pieces[BK]))
      BY <1>4, MirroredPieces, FoeIs
    <2>1. Reaches(Lsb(b.pieces[WC]), Bishops({}), b.pieces[BK]) <=>
              Reaches(Lsb(m.pieces[BC]), Bishops({}), m.pieces[WK])
      BY <1>1, <1>3, <2>0, ReachTurns
    <2>2. Reaches(b.pieces[WN], nsp_table[BN], b.pieces[BK]) <=>
              Reaches(m.pieces[BN], nsp_table[BN], m.pieces[WK])
      BY <1>1, <2>0, ReachTurns
    <2>3. Reaches(Lsb(b.pieces[WB]), Bishops(b.all), b.pieces[BK]) <=>
              Reaches(Lsb(m.pieces[BB]), Bishops(m.all), m.pieces[WK])
      BY <1>1, <1>3, <2>0, ReachTurns
    <2>4. Reaches(Lsb(b.pieces[WR]), Rooks(b.all), b.pieces[BK]) <=>
              Reaches(Lsb(m.pieces[BR]), Rooks(m.all), m.pieces[WK])
      BY <1>1, <1>3, <2>0, ReachTurns
    <2>5. Reaches(Lsb(b.pieces[WQ]), Queens(b.all), b.pieces[BK]) <=>
              Reaches(Lsb(m.pieces[BQ]), Queens(m.all), m.pieces[WK])
      BY <1>1, <1>3, <2>0, ReachTurns
    <2>6. Reaches(b.pieces[WZ], nsp_table[WZ], b.pieces[BK]) <=>
              Reaches(m.pieces[BZ], nsp_table[WZ], m.pieces[WK])
      BY <1>1, <2>0, ReachTurns
    <2>7. Reaches(b.pieces[WP], Ahead(WP), b.pieces[BK]) <=>
              Reaches(m.pieces[BP], Ahead(BP), m.pieces[WK])
      BY <1>1, <2>0, ReachTurns
    <2>8. Reaches(Lsb(b.pieces[WK]), nsp_table[WK], b.pieces[BK]) <=>
              Reaches(Lsb(m.pieces[BK]), nsp_table[WK], m.pieces[WK])
      BY <1>1, <2>0, ReachTurns
    <2> QED
      BY <2>1, <2>2, <2>3, <2>4, <2>5, <2>6, <2>7, <2>8 DEF Checked
  <1> QED
    BY <1>3, <1>5, <1>6, CheckedIs

(* What stands near a king.                                                *)
LEMMA NearTurns ==
    ASSUME NEW k \in Squares, NEW d \in {1, 2}
    PROVE  /\ Turns(Near(k, d), Near(Turned(k), d))
           /\ Turns({q \in Near(k, d) : RowOf(q) = RowOf(k) + 1},
                    {q \in Near(Turned(k), d) : RowOf(q) = RowOf(Turned(k)) - 1})
  <1>1. ASSUME NEW q \in Squares
        PROVE  /\ q \in Near(k, d) <=> Turned(q) \in Near(Turned(k), d)
               /\ RowOf(q) = RowOf(k) + 1 <=> RowOf(Turned(q)) = RowOf(Turned(k)) - 1
    <2>1. /\ RowOf(q) \in 0 .. 7 /\ RowOf(k) \in 0 .. 7 /\ Turned(q) \in Squares
          /\ ColOf(q) \in 0 .. 7 /\ ColOf(k) \in 0 .. 7
          /\ RowOf(Turned(q)) = 7 - RowOf(q) /\ ColOf(Turned(q)) = ColOf(q)
          /\ RowOf(Turned(k)) = 7 - RowOf(k) /\ ColOf(Turned(k)) = ColOf(k)
      BY ByCoordinates, TurnedIs
    <2>2. RowOf(q) = RowOf(k) + 1 <=> RowOf(Turned(q)) = RowOf(Turned(k)) - 1
      BY <2>1
    <2>3. q \in Near(k, d) <=> /\ RowOf(q) - RowOf(k) \in -d .. d
                               /\ ColOf(q) - ColOf(k) \in -d .. d
      BY DEF Near
    <2>4. Turned(q) \in Near(Turned(k), d) <=>
              /\ RowOf(Turned(q)) - RowOf(Turned(k)) \in -d .. d
              /\ ColOf(Turned(q)) - ColOf(Turned(k)) \in -d .. d
      BY <2>1 DEF Near
    <2>5. RowOf(Turned(q)) - RowOf(Turned(k)) = -(RowOf(q) - RowOf(k))
      BY <2>1
    <2>6. \A n \in Int : -n \in -d .. d <=> n \in -d .. d
      OBVIOUS
    <2>7. RowOf(q) - RowOf(k) \in Int
      BY <2>1
    <2>8. RowOf(Turned(q)) - RowOf(Turned(k)) \in -d .. d <=> RowOf(q) - RowOf(k) \in -d .. d
      BY <2>5, <2>6, <2>7
    <2> QED
      BY <2>1, <2>2, <2>3, <2>4, <2>8
  <1>2. Near(k, d) \subseteq Squares /\ Near(Turned(k), d) \subseteq Squares
    BY DEF Near
  <1> QED
    BY <1>1, <1>2 DEF Turns

LEMMA ColTurns ==
    ASSUME NEW S, NEW T, Turns(S, T), NEW k \in Squares
    PROVE  Turns(Col(S, ColOf(k)), Col(T, ColOf(Turned(k))))
  <1>1. \A s \in Squares : ColOf(Turned(s)) = ColOf(s)
    BY TurnedIs
  <1> QED
    BY <1>1 DEF Turns, Col

Above(S, k) == {q \in S : RowOf(q) > RowOf(k)}
Below(S, k) == {q \in S : RowOf(q) < RowOf(k)}

LEMMA AboveTurns ==
    ASSUME NEW S, NEW T, Turns(S, T), NEW k \in Squares
    PROVE  /\ Turns(Above(S, k), Below(T, Turned(k)))
           /\ Turns(Above(S, k) \cap {k + 8}, Below(T, Turned(k)) \cap {Turned(k) - 8})
  <1>1. \A s \in Squares : RowOf(s) > RowOf(k) <=> RowOf(Turned(s)) < RowOf(Turned(k))
    BY TurnedIs, ByCoordinates
  <1>2. Turns(Above(S, k), Below(T, Turned(k)))
    BY <1>1 DEF Turns, Above, Below
  <1>3. ASSUME NEW s \in Squares PROVE s = k + 8 <=> Turned(s) = Turned(k) - 8
    <2>1. Turned(s) \in Squares /\ Turned(k) \in Squares /\ 1 + (-1) = 0
      BY TurnedIs
    <2>2. Off(Turned(k), Turned(s), -1, 0) <=> Off(k, s, 1, 0)
      BY <2>1, OffTurned
    <2> QED
      BY <2>1, <2>2, OffIs
  <1> QED
    BY <1>2, <1>3 DEF Turns

LEMMA OneKing ==
    ASSUME NEW S, NEW k \in S, S \subseteq Squares, Single(S)
    PROVE  S = {k} /\ Min(S) = k
  <1>1. S = {k}
    BY DEF Single
  <1>2. k <= k
    BY DEF Squares
  <1>3. \A x : x \in S /\ (\A y \in S : x <= y) <=> x = k
    BY <1>1, <1>2
  <1> QED
    BY <1>1, <1>3 DEF Min

(* Only one piece stands on a square.                                      *)
LEMMA ApartIs ==
    ASSUME NEW b, Sound(b), NEW t \in Types, NEW u \in Types, t # u, NEW R
    PROVE  (R \ b.pieces[u]) \cap b.pieces[t] = R \cap b.pieces[t]
  <1>1. b.pieces[t] \subseteq Squares
    BY BoardFields DEF Sound
  <1> QED
    BY <1>1 DEF Sound, Once

(* The king of White on b is as safe as the king of Black on m.            *)
LEMMA WhiteKings ==
    ASSUME NEW b, NEW m, Mirrored(b, m), FewPieces(b)
    PROVE  /\ white_king_safety(b) = black_king_safety(m)
           /\ white_king_safety(b) \in Int
  <1>1. /\ Turns(b.pieces[WK], m.pieces[BK])
        /\ Single(b.pieces[WK]) /\ Single(m.pieces[BK])
    <2>1. WK \in SingleTypes
      BY DEF SingleTypes, FirstOnly
    <2> QED
      BY <2>1, OneEnds, FoeIs
  <1>2. CASE b.pieces[WK] = {}
    <2>1. m.pieces[BK] = {}
      BY <1>1, <1>2, TurnsEach
    <2> QED
      BY <1>2, <2>1 DEF white_king_safety, black_king_safety, When
  <1>3. CASE b.pieces[WK] # {}
    <2>1. PICK k \in b.pieces[WK] : TRUE
      BY <1>3
    <2> DEFINE j == Turned(k)
               near == Near(k, 2)
               rear == Near(j, 2)
               shield == {q \in Near(k, 1) : RowOf(q) = RowOf(k) + 1}
               shelter == {q \in Near(j, 1) : RowOf(q) = RowOf(j) - 1}
               coming == Above(near \cap b.pieces[BP], k)
               going == Below(rear \cap m.pieces[WP], j)
               facing == coming \cap {k + 8}
               faced == going \cap {j - 8}
               column == Col(b.white, ColOf(k)) \ b.pieces[WK]
               line == Col(m.black, ColOf(j)) \ m.pieces[BK]
               open(C, S) == IF C = {} THEN KING_ON_OPEN_COL
                             ELSE When(S = {}, KING_ON_SEMI_OPEN_COL)
    <2>2. /\ k \in Squares /\ j \in m.pieces[BK] /\ j \in Squares /\ m.pieces[BK] # {}
          /\ Min(b.pieces[WK]) = k /\ Min(m.pieces[BK]) = j
      <3>1. k \in Squares /\ j \in m.pieces[BK] /\ j \in Squares
        BY <1>1, <2>1, TurnsEach, TurnedIs
      <3>2. b.pieces[WK] \subseteq Squares /\ m.pieces[BK] \subseteq Squares
        BY <1>1 DEF Turns
      <3> HIDE DEF j
      <3>3. Min(b.pieces[WK]) = k
        BY <1>1, <2>1, <3>2, OneKing
      <3>4. Min(m.pieces[BK]) = j
        BY <1>1, <3>1, <3>2, OneKing
      <3> QED
        BY <3>1, <3>3, <3>4
    <2>3. Turns(near, rear) /\ Turns(shield, shelter)
      BY <2>2, NearTurns
    <2> HIDE DEF shield, shelter, near, rear
    <2>4. /\ Turns(b.pieces[WP], m.pieces[BP]) /\ Turns(b.pieces[BP], m.pieces[WP])
          /\ Turns(b.pieces[WZ], m.pieces[BZ]) /\ Turns(b.white, m.black)
      BY MirroredPieces DEF Mirrored
    <2>5. Turns(coming, going) /\ Turns(facing, faced)
      <3>1. Turns(near \cap b.pieces[BP], rear \cap m.pieces[WP])
        BY <2>3, <2>4, TurnsSets
      <3> QED
        BY <2>2, <3>1, AboveTurns
    <2>6. Turns(coming \ facing, going \ faced)
      <3> HIDE DEF coming, going, facing, faced
      <3> QED
        BY <2>5, TurnsSets
    <2>7. Turns(column, line)
      <3>1. Turns(Col(b.white, ColOf(k)), Col(m.black, ColOf(j)))
        BY <2>2, <2>4, ColTurns
      <3> QED
        BY <1>1, <3>1, TurnsSets
    <2>8. Turns(shield \ (b.pieces[WP] \cup b.pieces[WZ]),
                shelter \ (m.pieces[BP] \cup m.pieces[BZ]))
      <3>1. Turns(b.pieces[WP] \cup b.pieces[WZ], m.pieces[BP] \cup m.pieces[BZ])
        BY <2>4, TurnsSets
      <3> QED
        BY <2>3, <3>1, TurnsSets
    <2>9. /\ open(column, Shift(column, 8) \cap b.white)
               = open(line, Shift(line, -8) \cap m.black)
          /\ open(column, Shift(column, 8) \cap b.white) \in Int
      <3> HIDE DEF column, line
      <3>1. Turns(Shift(column, 8), Shift(line, -8))
        BY <2>7, ShiftTurns
      <3>2. Turns(Shift(column, 8) \cap b.white, Shift(line, -8) \cap m.black)
        BY <2>4, <3>1, TurnsSets
      <3>3. /\ column = {} <=> line = {}
            /\ Shift(column, 8) \cap b.white = {} <=> Shift(line, -8) \cap m.black = {}
        BY <2>7, <3>2, TurnsEach
      <3> QED
        BY <3>3 DEF When, KING_ON_OPEN_COL, KING_ON_SEMI_OPEN_COL
    <2>10. ASSUME NEW t \in Types, t # BK
           PROVE  /\ (near \ b.pieces[BK]) \cap b.pieces[t] = near \cap b.pieces[t]
                  /\ (rear \ m.pieces[BK]) \cap m.pieces[t] = rear \cap m.pieces[t]
      BY <2>10, ApartIs, TypeFacts DEF Mirrored
    <2>11. /\ coming = {q \in (near \ b.pieces[BK]) \cap b.pieces[BP] : RowOf(q) > RowOf(k)}
           /\ going = {q \in (rear \ m.pieces[BK]) \cap m.pieces[WP] : RowOf(q) < RowOf(j)}
      <3>1. BP \in Types /\ WP \in Types /\ BP # BK /\ WP # BK
        BY TypeFacts DEF BP, WP, BK
      <3> QED
        BY <2>10, <3>1 DEF Above, Below
    <2> DEFINE has(R, c, t) == (R \ c.pieces[BK]) \cap c.pieces[t]
    <2>12. /\ Turns(has(near, b, BQ), has(rear, m, WQ)) /\ Turns(has(near, b, BR), has(rear, m, WR))
           /\ Turns(has(near, b, BB), has(rear, m, WB)) /\ Turns(has(near, b, BN), has(rear, m, WN))
           /\ Turns(has(near, b, BZ), has(rear, m, WZ)) /\ Turns(has(near, b, BF), has(rear, m, WF))
           /\ Turns(has(near, b, BC), has(rear, m, WC))
      <3>1. ASSUME NEW t \in Types, NEW u \in Types, t # BK, u # BK,
                   Turns(b.pieces[t], m.pieces[u])
            PROVE  Turns(has(near, b, t), has(rear, m, u))
        <4>1. Turns(near \cap b.pieces[t], rear \cap m.pieces[u])
          BY <2>3, <3>1, TurnsSets
        <4> QED
          BY <2>10, <3>1, <4>1
      <3>2. /\ \A t \in {BQ, BR, BB, BN, BZ, BF, BC} : t \in Types /\ t # BK
            /\ \A t \in {WQ, WR, WB, WN, WZ, WF, WC} : t \in Types /\ t # BK
        BY TypeFacts DEF BQ, BR, BB, BN, BZ, BF, BC, WQ, WR, WB, WN, WZ, WF, WC, BK
      <3> HIDE DEF has
      <3> QED
        BY <3>1, <3>2, MirroredPieces
    <2>13. white_king_safety(b) =
               - Times(MISSING_PEON_KING_SHIELD, shield \ (b.pieces[WP] \cup b.pieces[WZ]))
               - Times(ENEMY_QUEEN_IN_KING_RING, has(near, b, BQ))
               - Times(ENEMY_ROOK_IN_KING_RING, has(near, b, BR))
               - Times(ENEMY_BISHOP_IN_KING_RING, has(near, b, BB))
               - Times(ENEMY_KNIGHT_IN_KING_RING, has(near, b, BN))
               - Times(ENEMY_ZOMBIE_IN_KING_RING, has(near, b, BZ))
               - Times(ENEMY_FLINGER_IN_KING_RING, has(near, b, BF))
               - Times(ENEMY_CANON_IN_KING_RING, has(near, b, BC))
               - Times(ENEMY_PEON_KING_RING_MED, facing)
               - Times(ENEMY_PEON_KING_RING_LOW, coming \ facing)
               - open(column, Shift(column, 8) \cap b.white)
      BY <1>3, <2>2, <2>11 DEF white_king_safety, When, near, shield
    <2>14. black_king_safety(m) =
               - Times(MISSING_PEON_KING_SHIELD, shelter \ (m.pieces[BP] \cup m.pieces[BZ]))
               - Times(ENEMY_QUEEN_IN_KING_RING, has(rear, m, WQ))
               - Times(ENEMY_ROOK_IN_KING_RING, has(rear, m, WR))
               - Times(ENEMY_BISHOP_IN_KING_RING, has(rear, m, WB))
               - Times(ENEMY_KNIGHT_IN_KING_RING, has(rear, m, WN))
               - Times(ENEMY_ZOMBIE_IN_KING_RING, has(rear, m, WZ))
               - Times(ENEMY_FLINGER_IN_KING_RING, has(rear, m, WF))
               - Times(ENEMY_FLINGER_IN_KING_RING, has(rear, m, WC))
               - Times(ENEMY_PEON_KING_RING_MED, faced)
               - Times(ENEMY_PEON_KING_RING_LOW, going \ faced)
               - open(line, Shift(line, -8) \cap m.black)
      BY <2>2, <2>11 DEF black_king_safety, When, rear, shelter
    <2> HIDE DEF j, coming, going, facing, faced, column, line, open, has
    <2>15. PICK n0 \in Int :
               /\ n0 = open(column, Shift(column, 8) \cap b.white)
               /\ n0 = open(line, Shift(line, -8) \cap m.black)
      BY <2>9
    <2>16. PICK n1 \in Int : /\ n1 = Times(MISSING_PEON_KING_SHIELD, shield \ (b.pieces[WP] \cup b.pieces[WZ]))
                             /\ n1 = Times(MISSING_PEON_KING_SHIELD, shelter \ (m.pieces[BP] \cup m.pieces[BZ]))
      BY <2>8, TimesTurns DEF MISSING_PEON_KING_SHIELD
    <2>17. PICK n2 \in Int : /\ n2 = Times(ENEMY_QUEEN_IN_KING_RING, has(near, b, BQ))
                             /\ n2 = Times(ENEMY_QUEEN_IN_KING_RING, has(rear, m, WQ))
      BY <2>12, TimesTurns DEF ENEMY_QUEEN_IN_KING_RING
    <2>18. PICK n3 \in Int : /\ n3 = Times(ENEMY_ROOK_IN_KING_RING, has(near, b, BR))
                             /\ n3 = Times(ENEMY_ROOK_IN_KING_RING, has(rear, m, WR))
      BY <2>12, TimesTurns DEF ENEMY_ROOK_IN_KING_RING
    <2>19. PICK n4 \in Int : /\ n4 = Times(ENEMY_BISHOP_IN_KING_RING, has(near, b, BB))
                             /\ n4 = Times(ENEMY_BISHOP_IN_KING_RING, has(rear, m, WB))
      BY <2>12, TimesTurns DEF ENEMY_BISHOP_IN_KING_RING
    <2>20. PICK n5 \in Int : /\ n5 = Times(ENEMY_KNIGHT_IN_KING_RING, has(near, b, BN))
                             /\ n5 = Times(ENEMY_KNIGHT_IN_KING_RING, has(rear, m, WN))
      BY <2>12, TimesTurns DEF ENEMY_KNIGHT_IN_KING_RING
    <2>21. PICK n6 \in Int : /\ n6 = Times(ENEMY_ZOMBIE_IN_KING_RING, has(near, b, BZ))
                             /\ n6 = Times(ENEMY_ZOMBIE_IN_KING_RING, has(rear, m, WZ))
      BY <2>12, TimesTurns DEF ENEMY_ZOMBIE_IN_KING_RING
    <2>22. PICK n7 \in Int : /\ n7 = Times(ENEMY_FLINGER_IN_KING_RING, has(near, b, BF))
                             /\ n7 = Times(ENEMY_FLINGER_IN_KING_RING, has(rear, m, WF))
      BY <2>12, TimesTurns DEF ENEMY_FLINGER_IN_KING_RING
    <2>23. PICK n8 \in Int : /\ n8 = Times(ENEMY_CANON_IN_KING_RING, has(near, b, BC))
                             /\ n8 = Times(ENEMY_FLINGER_IN_KING_RING, has(rear, m, WC))
      BY <2>12, TimesTurns DEF ENEMY_CANON_IN_KING_RING, ENEMY_FLINGER_IN_KING_RING
    <2>24. PICK n9 \in Int : /\ n9 = Times(ENEMY_PEON_KING_RING_MED, facing)
                             /\ n9 = Times(ENEMY_PEON_KING_RING_MED, faced)
      BY <2>5, TimesTurns DEF ENEMY_PEON_KING_RING_MED
    <2>25. PICK n10 \in Int : /\ n10 = Times(ENEMY_PEON_KING_RING_LOW, coming \ facing)
                             /\ n10 = Times(ENEMY_PEON_KING_RING_LOW, going \ faced)
      BY <2>6, TimesTurns DEF ENEMY_PEON_KING_RING_LOW
    <2>26. white_king_safety(b) = - n1 - n2 - n3 - n4 - n5 - n6 - n7 - n8 - n9 - n10 - n0
      BY <2>13, <2>15, <2>16, <2>17, <2>18, <2>19, <2>20, <2>21, <2>22, <2>23, <2>24, <2>25
    <2>27. black_king_safety(m) = - n1 - n2 - n3 - n4 - n5 - n6 - n7 - n8 - n9 - n10 - n0
      BY <2>14, <2>15, <2>16, <2>17, <2>18, <2>19, <2>20, <2>21, <2>22, <2>23, <2>24, <2>25
    <2> QED
      BY <2>26, <2>27
  <1> QED
    BY <1>2, <1>3

LEMMA KingsTurn ==
    ASSUME NEW b, NEW m, Mirrored(b, m), FewPieces(b), NEW color \in Sides
    PROVE  king_safety_score(m, -color) = king_safety_score(b, color)
  <1>1. Mirrored(m, b) /\ FewPieces(m)
    BY MirroredBack, FewTurns
  <1>2. /\ white_king_safety(b) = black_king_safety(m) /\ white_king_safety(b) \in Int
        /\ white_king_safety(m) = black_king_safety(b) /\ white_king_safety(m) \in Int
    BY <1>1, WhiteKings
  <1>3. /\ is_king_in_check(b, 1) <=> is_king_in_check(m, -1)
        /\ is_king_in_check(b, -1) <=> is_king_in_check(m, 1)
    BY CheckTurns
  <1>4. /\ is_king_alive(b, 1) <=> is_king_alive(m, -1)
        /\ is_king_alive(b, -1) <=> is_king_alive(m, 1)
    <2>1. /\ b.pieces[WK] = {} <=> m.pieces[BK] = {}
          /\ b.pieces[BK] = {} <=> m.pieces[WK] = {}
      BY MirroredPieces, TurnsEach
    <2>2. \A c : /\ is_king_alive(c, 1) <=> c.pieces[WK] # {}
                 /\ is_king_alive(c, -1) <=> c.pieces[BK] # {}
      BY DEF is_king_alive
    <2> QED
      BY <2>1, <2>2
  <1> DEFINE checked(c, side) == When(/\ is_king_alive(c, side)
                                      /\ is_king_in_check(c, side), CHECK_PENALTY)
  <1>5. /\ checked(b, 1) = checked(m, -1) /\ checked(b, -1) = checked(m, 1)
        /\ checked(b, 1) \in Int /\ checked(b, -1) \in Int
    BY <1>3, <1>4 DEF When, CHECK_PENALTY
  <1>6. \A c, x : king_safety_score(c, x) =
            ((white_king_safety(c) - checked(c, 1))
               - (black_king_safety(c) - checked(c, -1))) * x
    BY DEF king_safety_score
  <1> HIDE DEF checked
  <1> DEFINE w(c) == white_king_safety(c) - checked(c, 1)
             k(c) == black_king_safety(c) - checked(c, -1)
  <1>7. w(b) \in Int /\ k(b) \in Int /\ w(m) \in Int /\ k(m) \in Int
    BY <1>2, <1>5
  <1>8. w(b) = k(m) /\ k(b) = w(m)
    BY <1>2, <1>5
  <1> HIDE DEF w, k
  <1>9. (w(m) - k(m)) * (-color) = (w(b) - k(b)) * color
    BY <1>7, <1>8, ScoreTurns
  <1> QED
    BY <1>6, <1>9 DEF w, k

-----------------------------------------------------------------------------
(* The safety of the pieces.  Pieces with their squares, turned.           *)
PiecePlaces == Squares \X Types
Turn(p) == <<Turned(p[1]), Foe(p[2])>>

Meets(S, T) ==
    /\ S \subseteq PiecePlaces /\ T \subseteq PiecePlaces
    /\ \A p \in PiecePlaces : p \in S <=> Turn(p) \in T

LEMMA TurnIs ==
    ASSUME NEW p \in PiecePlaces
    PROVE  /\ p = <<p[1], p[2]>> /\ p[1] \in Squares /\ p[2] \in Types
           /\ Turn(p) \in PiecePlaces /\ Turn(Turn(p)) = p
           /\ Turn(p)[1] = Turned(p[1]) /\ Turn(p)[2] = Foe(p[2])
  <1>1. p = <<p[1], p[2]>> /\ p[1] \in Squares /\ p[2] \in Types
    BY DEF PiecePlaces
  <1>2. Turned(p[1]) \in Squares /\ Turned(Turned(p[1])) = p[1]
    BY <1>1, TurnedIs
  <1>3. Foe(p[2]) \in Types /\ Foe(Foe(p[2])) = p[2]
    BY <1>1, FoeFacts
  <1> QED
    BY <1>1, <1>2, <1>3 DEF Turn, PiecePlaces

LEMMA MeetsCount ==
    ASSUME NEW S, NEW T, Meets(S, T)
    PROVE  /\ IsFiniteSet(S) /\ IsFiniteSet(T)
           /\ Cardinality(S) = Cardinality(T) /\ Cardinality(S) \in Nat
           /\ Pairs([p \in S |-> Turn(p)], S, T) /\ (S = {} <=> T = {})
           /\ \A p \in S : p \in PiecePlaces /\ Turn(p) \in T
           /\ \A p \in T : p \in PiecePlaces /\ Turn(p) \in S
  <1> DEFINE g == [p \in S |-> Turn(p)]
  <1>1. IsFiniteSet(S) /\ IsFiniteSet(T)
    <2>1. IsFiniteSet(PiecePlaces)
      BY SquaresFinite, TypesFinite, FS_Product DEF PiecePlaces
    <2> QED
      BY <2>1, FS_Subset DEF Meets
  <1>2. /\ \A p \in S : p \in PiecePlaces /\ Turn(p) \in T
        /\ \A p \in T : p \in PiecePlaces /\ Turn(p) \in S
    BY TurnIs DEF Meets
  <1>3. /\ g \in [S -> T]
        /\ \A x, y \in S : g[x] = g[y] => x = y
        /\ \A y \in T : \E x \in S : g[x] = y
    BY <1>2, TurnIs
  <1> HIDE DEF g
  <1>4. Cardinality(T) = Cardinality(S)
    BY <1>1, <1>3, PairedOff
  <1>5. Pairs(g, S, T)
    BY <1>3 DEF Pairs
  <1> QED
    BY <1>1, <1>2, <1>4, <1>5, FS_CardinalityType DEF g

(* Two sets of types that are each other's colours.                        *)
Against(S, T) ==
    /\ S \subseteq Types /\ T \subseteq Types
    /\ \A t \in Types : t \in S <=> Foe(t) \in T

LEMMA SidesAgainst == Against(WhiteTypes, BlackTypes) /\ Against(BlackTypes, WhiteTypes)
  BY FoeFacts, TypeFacts DEF Against

LEMMA PiecesMeet ==
    ASSUME NEW b, NEW m, Mirrored(b, m), NEW S, NEW T, Against(S, T)
    PROVE  Meets(PiecesOf(b, S), PiecesOf(m, T))
  <1>1. ASSUME NEW p \in PiecePlaces PROVE p \in PiecesOf(b, S) <=> Turn(p) \in PiecesOf(m, T)
    <2>1. p[1] \in Squares /\ p[2] \in Types /\ p = <<p[1], p[2]>>
      BY TurnIs
    <2>2. Turns(b.pieces[p[2]], m.pieces[Foe(p[2])])
      BY <2>1 DEF Mirrored
    <2>3. p[1] \in b.pieces[p[2]] <=> Turned(p[1]) \in m.pieces[Foe(p[2])]
      BY <2>1, <2>2 DEF Turns
    <2>4. p[2] \in S <=> Foe(p[2]) \in T
      BY <2>1 DEF Against
    <2>5. Turned(p[1]) \in Squares
      BY <2>1, TurnedIs
    <2>6. p \in PiecesOf(b, S) <=> p[2] \in S /\ p[1] \in b.pieces[p[2]]
      BY <2>1 DEF PiecesOf
    <2>7. Turn(p) \in PiecesOf(m, T) <=> Foe(p[2]) \in T /\ Turned(p[1]) \in m.pieces[Foe(p[2])]
      BY <2>5 DEF PiecesOf, Turn
    <2> QED
      BY <2>3, <2>4, <2>6, <2>7
  <1>2. PiecesOf(b, S) \subseteq PiecePlaces /\ PiecesOf(m, T) \subseteq PiecePlaces
    BY DEF PiecesOf, PiecePlaces, Against
  <1> QED
    BY <1>1, <1>2 DEF Meets

-----------------------------------------------------------------------------
(* What a catapult flings where.                                           *)
LEMMA FlingPathTurns ==
    ASSUME NEW s \in Squares, NEW f \in Squares, Rules!Neighbours(s, f)
    PROVE  Turns(FlingPath(s, f), FlingPath(Turned(s), Turned(f)))
  <1>1. /\ Turned(s) \in Squares /\ Turned(f) \in Squares
        /\ Rules!Neighbours(Turned(s), Turned(f))
    BY TurnedIs, LinesTurn
  <1>2. ASSUME NEW q \in Squares
        PROVE  q \in FlingPath(s, f) <=> Turned(q) \in FlingPath(Turned(s), Turned(f))
    <2>1. q \in FlingPath(s, f) <=> Line(s, q) /\ Rules!Dir(s, q) = Rules!Dir(f, s)
      BY FlingPathIsLine
    <2>2. Turned(q) \in Squares
      BY TurnedIs
    <2>3. Turned(q) \in FlingPath(Turned(s), Turned(f)) <=>
              /\ Line(Turned(s), Turned(q))
              /\ Rules!Dir(Turned(s), Turned(q)) = Rules!Dir(Turned(f), Turned(s))
      BY <1>1, <2>2, FlingPathIsLine
    <2>4. /\ Line(Turned(s), Turned(q)) <=> Line(s, q)
          /\ Rules!Dir(Turned(s), Turned(q)) = Rules!Dir(Turned(f), Turned(s))
                 <=> Rules!Dir(s, q) = Rules!Dir(f, s)
      BY LinesTurn, DirTurns
    <2> QED
      BY <2>1, <2>3, <2>4
  <1>3. \A x, y \in Squares : FlingPath(x, y) \subseteq Squares
    BY AttacksOnBoard DEF FlingPath
  <1> QED
    BY <1>1, <1>2, <1>3 DEF Turns

LEMMA FlingableTurns ==
    ASSUME NEW b, NEW m, Mirrored(b, m), NEW t \in {WF, BF}, NEW s \in Squares
    PROVE  /\ Turns(Flingable(b, t, s), Flingable(m, Foe(t), Turned(s)))
           /\ \A f \in Flingable(b, t, s) : f \in Squares /\ Rules!Neighbours(s, f)
  <1>1. t \in Types /\ Foe(t) \in Types /\ (t \in WhiteTypes <=> Foe(t) \notin WhiteTypes)
    BY TypeFacts, FoeFacts
  <1>2. Turns(nsp_table[t][s], nsp_table[Foe(t)][Turned(s)])
    BY <1>1, TableTurns
  <1>3. Turns(IF t \in WhiteTypes THEN b.white ELSE b.black,
              IF Foe(t) \in WhiteTypes THEN m.white ELSE m.black)
    BY <1>1 DEF Mirrored
  <1>4. Turns(Flingable(b, t, s), Flingable(m, Foe(t), Turned(s)))
    BY <1>2, <1>3, TurnsSets DEF Flingable
  <1>5. \A f \in Flingable(b, t, s) : f \in Squares /\ f \in nsp_table[t][s]
    BY <1>4, TurnsEach DEF Flingable
  <1>6. nsp_table[t][s] = gen_catapult_mask(s)
    BY TableRows
  <1> QED
    BY <1>4, <1>5, <1>6, KingMask

LEMMA LandingsTurn ==
    ASSUME NEW b, NEW m, Mirrored(b, m), NEW t \in {WF, BF}, NEW s \in Squares,
           NEW f \in Flingable(b, t, s)
    PROVE  Turns(Landings(b, t, s, f), Landings(m, Foe(t), Turned(s), Turned(f)))
  <1>1. t \in Types /\ Foe(t) \in Types /\ (t \in WhiteTypes <=> Foe(t) \notin WhiteTypes)
    BY TypeFacts, FoeFacts
  <1>2. Turns(FlingPath(s, f), FlingPath(Turned(s), Turned(f)))
    BY FlingableTurns, FlingPathTurns
  <1>3. Turns(b.pieces[IF t \in WhiteTypes THEN BK ELSE WK],
              m.pieces[IF Foe(t) \in WhiteTypes THEN BK ELSE WK])
    BY <1>1, MirroredPieces
  <1> QED
    BY <1>2, <1>3, TurnsSets DEF Landings

LEMMA FlingersTurn ==
    ASSUME NEW b, NEW m, Mirrored(b, m), NEW t \in {WF, BF}, NEW s \in Squares
    PROVE  Turns(FlingerMask(b, t, s), FlingerMask(m, Foe(t), Turned(s)))
  <1>1. Turns(Flingable(b, t, s), Flingable(m, Foe(t), Turned(s)))
    BY FlingableTurns
  <1>2. ASSUME NEW f \in Flingable(b, t, s)
        PROVE  Turns(Landings(b, t, s, f), Landings(m, Foe(t), Turned(s), Turned(f)))
    BY LandingsTurn
  <1>3. \A g \in Flingable(m, Foe(t), Turned(s)) :
            Turned(g) \in Flingable(b, t, s) /\ Turned(Turned(g)) = g
    BY <1>1, TurnsEach, TurnedIs
  <1>4. \A f \in Flingable(b, t, s) : Turned(f) \in Flingable(m, Foe(t), Turned(s))
    BY <1>1, TurnsEach
  <1>5. FlingerMask(b, t, s) \subseteq Squares
    BY <1>2 DEF FlingerMask, Turns
  <1>6. FlingerMask(m, Foe(t), Turned(s)) \subseteq Squares
    BY <1>2, <1>3 DEF FlingerMask, Turns
  <1>7. ASSUME NEW q \in Squares
        PROVE  q \in FlingerMask(b, t, s) <=> Turned(q) \in FlingerMask(m, Foe(t), Turned(s))
    <2>1. q \in FlingerMask(b, t, s) <=>
              \E f \in Flingable(b, t, s) : q \in Landings(b, t, s, f)
      BY DEF FlingerMask
    <2>2. Turned(q) \in FlingerMask(m, Foe(t), Turned(s)) <=>
              \E g \in Flingable(m, Foe(t), Turned(s)) :
                  Turned(q) \in Landings(m, Foe(t), Turned(s), g)
      BY DEF FlingerMask
    <2>3. \A f \in Flingable(b, t, s) :
              q \in Landings(b, t, s, f) <=>
                  Turned(q) \in Landings(m, Foe(t), Turned(s), Turned(f))
      BY <1>2 DEF Turns
    <2> QED
      BY <1>3, <1>4, <2>1, <2>2, <2>3
  <1> QED
    BY <1>5, <1>6, <1>7, TurnsOf

(* What a piece attacks.                                                   *)
LEMMA MasksTurn ==
    ASSUME NEW b, NEW m, Mirrored(b, m), NEW s \in Squares, NEW t \in Types
    PROVE  Turns(AttackMask(b, <<s, t>>), AttackMask(m, <<Turned(s), Foe(t)>>))
  <1>1. Turned(s) \in Squares /\ Foe(t) \in Types /\ Turns(b.all, m.all) /\ Turns({}, {})
    BY TurnedIs, FoeFacts DEF Mirrored, Turns
  <1>2. CASE t \in {WP, BP}
    <2>1. /\ Turns(nsp_table[WP][s] \ {s + 8}, nsp_table[BP][Turned(s)] \ {Turned(s) - 8})
          /\ Turns(nsp_table[BP][s] \ {s - 8}, nsp_table[WP][Turned(s)] \ {Turned(s) + 8})
      BY PeonTurns
    <2>0. \A c : \A z \in Squares :
              /\ AttackMask(c, <<z, WP>>) = nsp_table[WP][z] \ {z + 8}
              /\ AttackMask(c, <<z, BP>>) = nsp_table[BP][z] \ {z - 8}
      <3>1. WP \in Types /\ BP \in Types
        BY TypeFacts
      <3> QED
        BY <3>1, AttackMasks
    <2>2. CASE t = WP
      BY <1>1, <2>0, <2>1, <2>2, FoeIs
    <2>3. CASE t = BP
      BY <1>1, <2>0, <2>1, <2>3, FoeIs
    <2> QED
      BY <1>2, <2>2, <2>3
  <1>3. CASE t \in {WR, BR, WB, BB, WQ, BQ, WC, BC}
    <2>1. /\ Turns(bishop_attacks(s, b.all), bishop_attacks(Turned(s), m.all))
          /\ Turns(bishop_attacks(s, {}), bishop_attacks(Turned(s), {}))
          /\ Turns(rook_attacks(s, b.all), rook_attacks(Turned(s), m.all))
          /\ Turns(queen_attacks(s, b.all), queen_attacks(Turned(s), m.all))
      BY <1>1, SlidersTurn
    <2>2. CASE t \in {WR, BR}
      BY <1>1, <2>1, <2>2, AttackMasks, FoeIs
    <2>3. CASE t \in {WB, BB}
      BY <1>1, <2>1, <2>3, AttackMasks, FoeIs
    <2>4. CASE t \in {WQ, BQ}
      BY <1>1, <2>1, <2>4, AttackMasks, FoeIs
    <2>5. CASE t \in {WC, BC}
      BY <1>1, <2>1, <2>5, AttackMasks, FoeIs
    <2> QED
      BY <1>3, <2>2, <2>3, <2>4, <2>5
  <1>4. CASE t \in {WF, BF}
    <2>1. Turns(FlingerMask(b, t, s), FlingerMask(m, Foe(t), Turned(s)))
      BY <1>4, FlingersTurn
    <2>2. Foe(t) \in {WF, BF}
      BY <1>4, FoeIs
    <2>3. AttackMask(b, <<s, t>>) = FlingerMask(b, t, s)
      BY <1>4, AttackMasks
    <2>4. AttackMask(m, <<Turned(s), Foe(t)>>) = FlingerMask(m, Foe(t), Turned(s))
      BY <1>1, <2>2, AttackMasks
    <2> QED
      BY <2>1, <2>3, <2>4
  <1>5. CASE t \in {WK, BK}
    <2>1. AttackMask(b, <<s, t>>) = {}
      BY <1>5, AttackMasks
    <2>2. Foe(t) \in {WK, BK}
      BY <1>5, FoeIs
    <2>3. AttackMask(m, <<Turned(s), Foe(t)>>) = {}
      BY <1>1, <2>2, AttackMasks
    <2> QED
      BY <1>1, <2>1, <2>3
  <1>6. CASE t \in {WN, BN, WZ, BZ}
    BY <1>1, <1>6, AttackMasks, TableTurns, FoeIs
  <1> QED
    BY <1>2, <1>3, <1>4, <1>5, <1>6, TypeFacts

-----------------------------------------------------------------------------
(* Who attacks a square, and what each risks there.                        *)
LEMMA WatchersMeet ==
    ASSUME NEW b, NEW m, Mirrored(b, m), NEW S, NEW T, Against(S, T), NEW q \in Squares
    PROVE  Meets(Watchers(b, S, q), Watchers(m, T, Turned(q)))
  <1>1. Meets(PiecesOf(b, S), PiecesOf(m, T))
    BY PiecesMeet
  <1>2. ASSUME NEW p \in PiecePlaces
        PROVE  q \in AttackMask(b, p) <=> Turned(q) \in AttackMask(m, Turn(p))
    <2>1. p = <<p[1], p[2]>> /\ p[1] \in Squares /\ p[2] \in Types
      BY TurnIs
    <2>2. Turns(AttackMask(b, <<p[1], p[2]>>), AttackMask(m, <<Turned(p[1]), Foe(p[2])>>))
      BY <2>1, MasksTurn
    <2>3. Turns(AttackMask(b, p), AttackMask(m, Turn(p)))
      BY <2>1, <2>2 DEF Turn
    <2> QED
      BY <2>3 DEF Turns
  <1> QED
    BY <1>1, <1>2 DEF Meets, Watchers

LEMMA ValuesTurn ==
    \A t \in Types : ValueOf(t) \in Int /\ ValueOf(Foe(t)) = ValueOf(t)
  <1>1. midgame \in Phases
    BY DEF Phases
  <1>2. \A t \in Types : Value(t, midgame) \in Int /\ Value(Foe(t), midgame) = Value(t, midgame)
    BY <1>1, ValueIs
  <1>3. \A t \in Types : t \in {WK, BK} <=> Foe(t) \in {WK, BK}
    BY FoeIs, FoeFacts
  <1> QED
    BY <1>2, <1>3 DEF ValueOf, KING_VALUE

Flings(b, t, q) == {x \in b.pieces[t] \X Squares :
                        /\ x[2] \in Flingable(b, t, x[1])
                        /\ q \in Landings(b, t, x[1], x[2])}
Owned(t) == IF t \in WhiteTypes THEN WhiteTypes ELSE BlackTypes
Flung(b, t, f) == Min({u \in Owned(t) : f \in b.pieces[u]})
LandingCosts(b, t, q) == [x \in Flings(b, t, q) |-> ValueOf(Flung(b, t, x[2]))]

LEMMA MinOfOne ==
    ASSUME NEW S, NEW u \in S, u \in Int, \A v \in S : v = u
    PROVE  Min(S) = u
  <1>1. u <= u
    OBVIOUS
  <1>2. \A x : x \in S /\ (\A y \in S : x <= y) <=> x = u
    BY <1>1
  <1> QED
    BY <1>2 DEF Min

(* The piece flung is the one piece there.                                 *)
LEMMA FlungIs ==
    ASSUME NEW b, Sound(b), NEW t \in {WF, BF}, NEW s \in Squares,
           NEW f \in Flingable(b, t, s)
    PROVE  /\ Flung(b, t, f) \in Owned(t) /\ f \in b.pieces[Flung(b, t, f)]
           /\ \A u \in Owned(t) : f \in b.pieces[u] => u = Flung(b, t, f)
  <1>1. f \in (IF t \in WhiteTypes THEN b.white ELSE b.black)
    BY DEF Flingable
  <1>2. f \in Squares /\ Owned(t) \subseteq Types /\ \A u \in Types : u \in Int
    BY <1>1, BoardFields, TypeFacts DEF Sound, Owned, Types
  <1>3. PICK u \in Owned(t) : f \in b.pieces[u]
    BY <1>1, <1>2 DEF Sound, Tells, Owned
  <1>4. \A v \in Owned(t) : f \in b.pieces[v] => v = u
    BY <1>2, <1>3 DEF Sound, Once
  <1>5. Flung(b, t, f) = u
    <2> DEFINE S == {v \in Owned(t) : f \in b.pieces[v]}
    <2>1. u \in S /\ u \in Int /\ \A v \in S : v = u
      BY <1>2, <1>3, <1>4
    <2> HIDE DEF S
    <2>2. Min(S) = u
      BY <2>1, MinOfOne
    <2> QED
      BY <2>2 DEF Flung, S
  <1> QED
    BY <1>3, <1>4, <1>5

LEMMA FlungTurns ==
    ASSUME NEW b, NEW m, Mirrored(b, m), NEW t \in {WF, BF}, NEW s \in Squares,
           NEW f \in Flingable(b, t, s)
    PROVE  ValueOf(Flung(m, Foe(t), Turned(f))) = ValueOf(Flung(b, t, f))
  <1>1. /\ Foe(t) \in {WF, BF} /\ Turned(s) \in Squares
        /\ Turned(f) \in Flingable(m, Foe(t), Turned(s)) /\ f \in Squares
    BY FoeIs, TurnedIs, FlingableTurns, TurnsEach
  <1>2. Sound(b) /\ Sound(m)
    BY DEF Mirrored
  <1>3. Owned(t) \subseteq Types /\ \A u \in Owned(t) : Foe(u) \in Owned(Foe(t))
    BY FoeFacts, TypeFacts DEF Owned
  <1>4. Flung(b, t, f) \in Owned(t) /\ f \in b.pieces[Flung(b, t, f)]
    BY <1>2, FlungIs
  <1> DEFINE u == Flung(b, t, f)
  <1> HIDE DEF u
  <1>5. u \in Owned(t) /\ f \in b.pieces[u] /\ u \in Types
    BY <1>3, <1>4 DEF u
  <1>6. Turns(b.pieces[u], m.pieces[Foe(u)])
    BY <1>5 DEF Mirrored
  <1>7. Turned(f) \in m.pieces[Foe(u)] /\ Foe(u) \in Owned(Foe(t))
    BY <1>3, <1>5, <1>6, TurnsEach
  <1>8. \A v \in Owned(Foe(t)) : Turned(f) \in m.pieces[v] => v = Flung(m, Foe(t), Turned(f))
    BY <1>1, <1>2, FlungIs
  <1>9. Flung(m, Foe(t), Turned(f)) = Foe(u)
    BY <1>7, <1>8
  <1> QED
    BY <1>5, <1>9, ValuesTurn DEF u

LEMMA LandingCostIs ==
    ASSUME NEW b, Sound(b), NEW t \in {WF, BF}, NEW q \in Squares
    PROVE  /\ canon_landing_cost(b, t, q) = SumOf(LandingCosts(b, t, q), Flings(b, t, q))
           /\ LandingCosts(b, t, q) \in [Flings(b, t, q) -> Int] /\ IsFiniteSet(Flings(b, t, q))
           /\ canon_landing_cost(b, t, q) \in Int
  <1> DEFINE f == LandingCosts(b, t, q)
             S == Flings(b, t, q)
             term(x) == ValueOf(Flung(b, t, x[2]))
             Is(g) == g = [U \in SUBSET S |->
                               IF U = {} THEN 0 ELSE term(Pick(U)) + g[U \ {Pick(U)}]]
             G == CHOOSE g : Is(g)
  <1>1. canon_landing_cost(b, t, q) = G[S]
    BY DEF canon_landing_cost, Flings, Flung, Owned, MapThenSumSet, MapThenFoldSet, Pick
  <1>2. IsFiniteSet(S)
    <2>1. b.pieces[t] \subseteq Squares
      BY BoardFields, TypeFacts DEF Sound
    <2>2. IsFiniteSet(b.pieces[t]) /\ IsFiniteSet(Squares)
      BY <2>1, SquaresFinite
    <2>3. IsFiniteSet(b.pieces[t] \X Squares)
      BY <2>2, FS_Product
    <2>4. S \subseteq b.pieces[t] \X Squares
      BY DEF Flings
    <2> QED
      BY <2>3, <2>4, FS_Subset
  <1>3. \A x \in S : term(x) \in Int
    <2> SUFFICES ASSUME NEW x \in S PROVE term(x) \in Int
      OBVIOUS
    <2>1. b.pieces[t] \subseteq Squares
      BY BoardFields, TypeFacts DEF Sound
    <2>2. x[1] \in Squares /\ x[2] \in Flingable(b, t, x[1])
      BY <2>1 DEF Flings
    <2>3. Flung(b, t, x[2]) \in Owned(t)
      BY <2>2, FlungIs
    <2>4. Flung(b, t, x[2]) \in Types
      BY <2>3, TypeFacts DEF Owned
    <2> QED
      BY <2>4, ValuesTurn
  <1>4. f = [x \in S |-> term(x)]
    BY DEF LandingCosts
  <1> HIDE DEF f, S, term
  <1>5. f \in [S -> Int] /\ \A x \in S : f[x] = term(x)
    BY <1>3, <1>4
  <1>6. \A g : Is(g) <=> Adds(f, S, g)
    <2>1. \A U \in SUBSET S : U # {} => f[Pick(U)] = term(Pick(U))
      BY <1>5, PickIs
    <2> QED
      BY <2>1 DEF Adds
  <1> HIDE DEF Is
  <1>7. Adds(f, S, G)
    BY <1>2, <1>5, <1>6, AdderExists
  <1> HIDE DEF G
  <1>8. G[S] = SumOf(f, S) /\ SumOf(f, S) \in Int
    BY <1>2, <1>5, <1>7, AddsGives, SumType
  <1> QED
    BY <1>1, <1>2, <1>5, <1>8 DEF f, S

LEMMA LandingCostTurns ==
    ASSUME NEW b, NEW m, Mirrored(b, m), NEW t \in {WF, BF}, NEW q \in Squares
    PROVE  /\ canon_landing_cost(b, t, q) = canon_landing_cost(m, Foe(t), Turned(q))
           /\ canon_landing_cost(b, t, q) \in Int
  <1> DEFINE S == Flings(b, t, q)
             T == Flings(m, Foe(t), Turned(q))
             f == LandingCosts(b, t, q)
             e == LandingCosts(m, Foe(t), Turned(q))
             p == [x \in S |-> <<Turned(x[1]), Turned(x[2])>>]
  <1>1. Foe(t) \in {WF, BF} /\ Turned(q) \in Squares /\ Sound(b) /\ Sound(m)
    BY FoeIs, TurnedIs DEF Mirrored
  <1>2. /\ canon_landing_cost(b, t, q) = SumOf(f, S) /\ f \in [S -> Int] /\ IsFiniteSet(S)
        /\ canon_landing_cost(b, t, q) \in Int
    BY <1>1, LandingCostIs
  <1>3. /\ canon_landing_cost(m, Foe(t), Turned(q)) = SumOf(e, T)
        /\ e \in [T -> Int] /\ IsFiniteSet(T)
    BY <1>1, LandingCostIs
  <1>4. Turns(b.pieces[t], m.pieces[Foe(t)])
    BY TypeFacts DEF Mirrored
  <1>5. ASSUME NEW s \in Squares, NEW g \in Squares
        PROVE  <<s, g>> \in S <=> <<Turned(s), Turned(g)>> \in T
    <2>1. s \in b.pieces[t] <=> Turned(s) \in m.pieces[Foe(t)]
      BY <1>4 DEF Turns
    <2>2. Turns(Flingable(b, t, s), Flingable(m, Foe(t), Turned(s)))
      BY FlingableTurns
    <2>3. g \in Flingable(b, t, s) <=> Turned(g) \in Flingable(m, Foe(t), Turned(s))
      BY <2>2 DEF Turns
    <2>4. g \in Flingable(b, t, s) =>
              (q \in Landings(b, t, s, g)
                   <=> Turned(q) \in Landings(m, Foe(t), Turned(s), Turned(g)))
      <3> SUFFICES ASSUME g \in Flingable(b, t, s)
                   PROVE  q \in Landings(b, t, s, g)
                              <=> Turned(q) \in Landings(m, Foe(t), Turned(s), Turned(g))
        OBVIOUS
      <3>1. Turns(Landings(b, t, s, g), Landings(m, Foe(t), Turned(s), Turned(g)))
        BY LandingsTurn
      <3> QED
        BY <3>1 DEF Turns
    <2>5. Turned(g) \in Squares
      BY TurnedIs
    <2> QED
      BY <2>1, <2>3, <2>4, <2>5 DEF Flings
  <1>6. /\ \A x \in S : /\ x = <<x[1], x[2]>> /\ x[1] \in Squares /\ x[2] \in Squares
                        /\ x[2] \in Flingable(b, t, x[1])
        /\ \A x \in T : x = <<x[1], x[2]>> /\ x[1] \in Squares /\ x[2] \in Squares
    BY <1>4 DEF Flings, Turns
  <1> HIDE DEF S, T
  <1>7. Pairs(p, S, T)
    <2>1. \A x \in S : p[x] \in T
      BY <1>5, <1>6
    <2>2. \A x, y \in S : p[x] = p[y] => x = y
      BY <1>6, TurnedIs
    <2>3. ASSUME NEW y \in T PROVE \E x \in S : p[x] = y
      <3> DEFINE x == <<Turned(y[1]), Turned(y[2])>>
      <3>1. /\ y = <<y[1], y[2]>> /\ Turned(y[1]) \in Squares /\ Turned(y[2]) \in Squares
            /\ Turned(Turned(y[1])) = y[1] /\ Turned(Turned(y[2])) = y[2]
        BY <1>6, TurnedIs
      <3>2. x \in S
        BY <1>5, <3>1
      <3> QED
        BY <3>1, <3>2
    <2> QED
      BY <2>1, <2>2, <2>3 DEF Pairs
  <1>8. \A x \in S : f[x] = e[p[x]]
    <2> SUFFICES ASSUME NEW x \in S PROVE f[x] = e[p[x]]
      OBVIOUS
    <2>1. p[x] \in T /\ p[x][2] = Turned(x[2])
      BY <1>7 DEF Pairs
    <2>2. f[x] = ValueOf(Flung(b, t, x[2]))
      BY DEF LandingCosts, S
    <2>3. e[p[x]] = ValueOf(Flung(m, Foe(t), Turned(x[2])))
      BY <2>1 DEF LandingCosts, T
    <2>4. x[1] \in Squares /\ x[2] \in Flingable(b, t, x[1])
      BY <1>6
    <2> QED
      BY <2>2, <2>3, <2>4, FlungTurns
  <1> HIDE DEF f, e, p
  <1>9. SumOf(f, S) = SumOf(e, T)
    BY <1>2, <1>3, <1>7, <1>8, SameSum
  <1> QED
    BY <1>2, <1>3, <1>9

LEMMA CostTurns ==
    ASSUME NEW b, NEW m, Mirrored(b, m), NEW p \in PiecePlaces, NEW q \in Squares
    PROVE  CostOf(b, p, q) = CostOf(m, Turn(p), Turned(q)) /\ CostOf(b, p, q) \in Int
  <1>1. /\ p[2] \in Types /\ Turn(p)[2] = Foe(p[2])
        /\ p[2] \in {WF, BF} <=> Foe(p[2]) \in {WF, BF}
    <2>1. \A t \in Types : t \in {WF, BF} <=> Foe(t) \in {WF, BF}
      BY FoeIs, FoeFacts
    <2> QED
      BY <2>1, TurnIs
  <1>2. CASE p[2] \in {WF, BF}
    BY <1>1, <1>2, LandingCostTurns DEF CostOf
  <1>3. CASE p[2] \notin {WF, BF}
    BY <1>1, <1>3, ValuesTurn DEF CostOf
  <1> QED
    BY <1>2, <1>3

Costs(b, S, q) == [a \in S |-> CostOf(b, a, q)]

LEMMA CostsAre ==
    ASSUME NEW b, Sound(b), NEW A, A \subseteq PiecePlaces, NEW q \in Squares
    PROVE  /\ CostsOf(b, A, q) = SumOf(Costs(b, A, q), A)
           /\ Costs(b, A, q) \in [A -> Int] /\ IsFiniteSet(A)
           /\ CostsOf(b, A, q) \in Int
  <1> DEFINE f == Costs(b, A, q)
             S == A
             term(a) == CostOf(b, a, q)
             Is(g) == g = [U \in SUBSET S |->
                               IF U = {} THEN 0 ELSE term(Pick(U)) + g[U \ {Pick(U)}]]
             G == CHOOSE g : Is(g)
  <1>1. CostsOf(b, A, q) = G[S]
    BY DEF CostsOf, MapThenSumSet, MapThenFoldSet, Pick
  <1>2. IsFiniteSet(S)
    <2>1. IsFiniteSet(PiecePlaces)
      BY SquaresFinite, TypesFinite, FS_Product DEF PiecePlaces
    <2> QED
      BY <2>1, FS_Subset
  <1>3. \A a \in S : term(a) \in Int
    <2>1. Mirrored(b, Mirror(b))
      BY MirrorIs
    <2> QED
      BY <2>1, CostTurns
  <1>4. f = [a \in S |-> term(a)]
    BY DEF Costs
  <1> HIDE DEF f, S, term
  <1>5. f \in [S -> Int] /\ \A a \in S : f[a] = term(a)
    BY <1>3, <1>4
  <1>6. \A g : Is(g) <=> Adds(f, S, g)
    <2>1. \A U \in SUBSET S : U # {} => f[Pick(U)] = term(Pick(U))
      BY <1>5, PickIs
    <2> QED
      BY <2>1 DEF Adds
  <1> HIDE DEF Is
  <1>7. Adds(f, S, G)
    BY <1>2, <1>5, <1>6, AdderExists
  <1> HIDE DEF G
  <1>8. G[S] = SumOf(f, S) /\ SumOf(f, S) \in Int
    BY <1>2, <1>5, <1>7, AddsGives, SumType
  <1> QED
    BY <1>1, <1>2, <1>5, <1>8 DEF f, S

LEMMA CostsTurn ==
    ASSUME NEW b, NEW m, Mirrored(b, m), NEW S, NEW T, Meets(S, T), NEW q \in Squares
    PROVE  /\ CostsOf(b, S, q) = CostsOf(m, T, Turned(q)) /\ CostsOf(b, S, q) \in Int
           /\ {CostOf(b, a, q) : a \in S} = {CostOf(m, a, Turned(q)) : a \in T}
  <1> DEFINE f == Costs(b, S, q)
             e == Costs(m, T, Turned(q))
             p == [a \in S |-> Turn(a)]
  <1>1. /\ S \subseteq PiecePlaces /\ T \subseteq PiecePlaces /\ Turned(q) \in Squares
        /\ Sound(b) /\ Sound(m)
    BY TurnedIs DEF Mirrored, Meets
  <1>2. /\ CostsOf(b, S, q) = SumOf(f, S) /\ f \in [S -> Int] /\ IsFiniteSet(S)
        /\ CostsOf(b, S, q) \in Int
    BY <1>1, CostsAre
  <1>3. /\ CostsOf(m, T, Turned(q)) = SumOf(e, T) /\ e \in [T -> Int] /\ IsFiniteSet(T)
    BY <1>1, CostsAre
  <1>4. /\ \A a \in S : a \in PiecePlaces /\ Turn(a) \in T
        /\ \A a \in T : a \in PiecePlaces /\ Turn(a) \in S /\ Turn(Turn(a)) = a
        /\ Pairs(p, S, T)
    BY MeetsCount, TurnIs
  <1>5. \A a \in S : CostOf(b, a, q) = CostOf(m, Turn(a), Turned(q))
    BY <1>4, CostTurns
  <1>6. \A a \in S : f[a] = e[p[a]]
    BY <1>4, <1>5 DEF Costs
  <1>7. {CostOf(b, a, q) : a \in S} = {CostOf(m, a, Turned(q)) : a \in T}
    BY <1>4, <1>5
  <1> HIDE DEF f, e, p
  <1>8. SumOf(f, S) = SumOf(e, T)
    BY <1>2, <1>3, <1>4, <1>6, SameSum
  <1> QED
    BY <1>2, <1>3, <1>7, <1>8

(* What some pieces attack together.                                       *)
All(A, S) == UNION {A[s] : s \in S}
StepsOf(t, B) == [s \in Squares |-> nsp_table[t][s] \ B]

LEMMA AllTurn ==
    ASSUME NEW S, NEW T, Turns(S, T), NEW A, NEW B, Alike(A, B)
    PROVE  Turns(All(A, S), All(B, T))
  <1>1. \A s \in S : s \in Squares /\ Turned(s) \in T /\ Turns(A[s], B[Turned(s)])
    BY TurnsEach DEF Alike
  <1>2. \A q \in T : q \in Squares /\ Turned(q) \in S /\ Turned(Turned(q)) = q
    BY TurnsEach, TurnedIs
  <1>3. \A q \in T : Turns(A[Turned(q)], B[q])
    BY <1>1, <1>2
  <1>4. All(A, S) \subseteq Squares /\ All(B, T) \subseteq Squares
    BY <1>1, <1>3 DEF All, Turns
  <1>5. ASSUME NEW x \in Squares PROVE x \in All(A, S) <=> Turned(x) \in All(B, T)
    <2>1. x \in All(A, S) <=> \E s \in S : x \in A[s]
      BY DEF All
    <2>2. Turned(x) \in All(B, T) <=> \E q \in T : Turned(x) \in B[q]
      BY DEF All
    <2>3. \A s \in S : x \in A[s] <=> Turned(x) \in B[Turned(s)]
      BY <1>1 DEF Turns
    <2>4. \A q \in T : x \in A[Turned(q)] <=> Turned(x) \in B[q]
      BY <1>3 DEF Turns
    <2> QED
      BY <1>1, <1>2, <2>1, <2>2, <2>3, <2>4
  <1> QED
    BY <1>4, <1>5, TurnsOf

LEMMA StepsAlike ==
    ASSUME NEW t \in Types, NEW B, NEW C, Turns(B, C)
    PROVE  Alike(StepsOf(t, B), StepsOf(Foe(t), C))
  <1> SUFFICES ASSUME NEW s \in Squares
               PROVE  Turns(StepsOf(t, B)[s], StepsOf(Foe(t), C)[Turned(s)])
    BY DEF Alike
  <1>1. Turned(s) \in Squares
    BY TurnedIs
  <1>2. Turns(nsp_table[t][s], nsp_table[Foe(t)][Turned(s)])
    BY TableTurns
  <1>3. Turns(nsp_table[t][s] \ B, nsp_table[Foe(t)][Turned(s)] \ C)
    BY <1>2, TurnsSets
  <1> QED
    BY <1>1, <1>3 DEF StepsOf

LEMMA CanonsTurn ==
    ASSUME NEW b, NEW m, Mirrored(b, m), FewPieces(b)
    PROVE  /\ \A t \in {WC, BC} : /\ Turns(canon_mask(b, t), canon_mask(m, Foe(t)))
                                  /\ Turns(canon_moves(b, t), canon_moves(m, Foe(t)))
           /\ \A t \in {WK, BK} : \A B, C : Turns(B, C) =>
                  Turns(king_moves(b, t, B), king_moves(m, Foe(t), C))
  <1>1. /\ {WC, BC, WK, BK} \subseteq SingleTypes /\ {WC, BC, WK, BK} \subseteq Types
        /\ Turns({}, {}) /\ Turns(b.all, m.all)
    BY TypeFacts DEF SingleTypes, FirstOnly, Turns, Mirrored
  <1>2. ASSUME NEW t \in {WC, BC, WK, BK}
        PROVE  /\ Turns(Msb(b.pieces[t]), Msb(m.pieces[Foe(t)]))
               /\ Msb(b.pieces[t]) \subseteq Squares /\ Msb(m.pieces[Foe(t)]) \subseteq Squares
    <2>1. t \in SingleTypes
      BY <1>1
    <2>2. Turns(Msb(b.pieces[t]), Msb(m.pieces[Foe(t)]))
      BY <2>1, OneEnds
    <2> QED
      BY <2>2 DEF Turns
  <1>3. ASSUME NEW t \in {WC, BC}
        PROVE  Turns(canon_mask(b, t), canon_mask(m, Foe(t)))
    <2>1. Alike(Bishops({}), Bishops({}))
      BY <1>1, AttacksAlike
    <2>2. Turns(All(Bishops({}), Msb(b.pieces[t])), All(Bishops({}), Msb(m.pieces[Foe(t)])))
      BY <1>2, <2>1, AllTurn
    <2>3. \A S \in SUBSET Squares : All(Bishops({}), S) = UNION {bishop_attacks(s, {}) : s \in S}
      BY DEF All, Bishops
    <2> QED
      BY <1>2, <2>2, <2>3 DEF canon_mask
  <1>4. \A S \in SUBSET Squares : \A t, B : All(StepsOf(t, B), S) = UNION {nsp_table[t][s] \ B : s \in S}
    BY DEF All, StepsOf
  <1>5. ASSUME NEW t \in {WC, BC}
        PROVE  Turns(canon_moves(b, t), canon_moves(m, Foe(t)))
    <2>1. Alike(StepsOf(t, b.all), StepsOf(Foe(t), m.all))
      BY <1>1, StepsAlike
    <2>2. Turns(All(StepsOf(t, b.all), Msb(b.pieces[t])),
                All(StepsOf(Foe(t), m.all), Msb(m.pieces[Foe(t)])))
      BY <1>2, <2>1, AllTurn
    <2> QED
      BY <1>2, <1>4, <2>2 DEF canon_moves
  <1>6. ASSUME NEW t \in {WK, BK}, NEW B, NEW C, Turns(B, C)
        PROVE  Turns(king_moves(b, t, B), king_moves(m, Foe(t), C))
    <2>1. Alike(StepsOf(t, B), StepsOf(Foe(t), C))
      BY <1>1, <1>6, StepsAlike
    <2>2. Turns(All(StepsOf(t, B), Msb(b.pieces[t])), All(StepsOf(Foe(t), C), Msb(m.pieces[Foe(t)])))
      BY <1>2, <2>1, AllTurn
    <2> QED
      BY <1>2, <1>4, <2>2 DEF king_moves
  <1> QED
    BY <1>3, <1>5, <1>6

-----------------------------------------------------------------------------
(* Defence, for either side.                                               *)
Defense(b, p, own, foes, queen, canon) ==
    LET attackers == Watchers(b, foes, p[1])
        defenders == Watchers(b, own, p[1])
        attacked == PopCount(attackers)
        defended == PopCount(defenders)
        cheapest == Min({Value(queen, midgame)} \cup {CostOf(b, a, p[1]) : a \in attackers})
    IN When(attacked > 0 /\ defended = 0, EN_PRISE_PENALTY)
         + When(attacked > defended, (attacked - defended) * WEAK_DEFENSE_PENALTY)
         + When(ValueOf(p[2]) > cheapest, LOW_VALUE_TRADE)
         + When(defended > attacked, (defended - attacked) * STRONG_DEFENSE_BONUS)
         + When(/\ defended > attacked
                /\ CostsOf(b, defenders, p[1]) < CostsOf(b, attackers, p[1]),
                DEFENSE_EFFICIENCY_BONUS)
         + When(p[1] \in canon_mask(b, canon), UNDER_ENEMY_CANON_ATTACK)

LEMMA DefensesAre ==
    ASSUME NEW b, NEW p
    PROVE  /\ white_defense(b, p) = Defense(b, p, WhiteTypes, BlackTypes, WQ, BC)
           /\ black_defense(b, p) = Defense(b, p, BlackTypes, WhiteTypes, BQ, WC)
  BY DEF white_defense, black_defense, Defense

LEMMA DefenseTurns ==
    ASSUME NEW b, NEW m, Mirrored(b, m), FewPieces(b), NEW p \in PiecePlaces,
           NEW own, NEW foes, NEW own2, NEW foes2, Against(own, own2), Against(foes, foes2),
           NEW queen \in Types, NEW canon \in {WC, BC}
    PROVE  /\ Defense(b, p, own, foes, queen, canon)
                  = Defense(m, Turn(p), own2, foes2, Foe(queen), Foe(canon))
           /\ Defense(b, p, own, foes, queen, canon) \in Int
  <1>1. /\ p[1] \in Squares /\ p[2] \in Types
        /\ Turn(p)[1] = Turned(p[1]) /\ Turn(p)[2] = Foe(p[2])
    BY TurnIs
  <1> DEFINE q == p[1]
             r == Turn(p)[1]
             W1 == Watchers(b, foes, q)
             W2 == Watchers(m, foes2, r)
             D1 == Watchers(b, own, q)
             D2 == Watchers(m, own2, r)
  <1>2. Meets(W1, W2) /\ Meets(D1, D2)
    BY <1>1, WatchersMeet
  <1> HIDE DEF W1, W2, D1, D2
  <1>3. PICK x \in Nat : x = PopCount(W1) /\ x = PopCount(W2)
    BY <1>2, MeetsCount DEF PopCount
  <1>4. PICK y \in Nat : y = PopCount(D1) /\ y = PopCount(D2)
    BY <1>2, MeetsCount DEF PopCount
  <1>5. /\ CostsOf(b, W1, q) = CostsOf(m, W2, r) /\ CostsOf(b, D1, q) = CostsOf(m, D2, r)
        /\ {CostOf(b, a, q) : a \in W1} = {CostOf(m, a, r) : a \in W2}
    BY <1>1, <1>2, CostsTurn
  <1>6. ValueOf(Foe(p[2])) = ValueOf(p[2]) /\ Value(Foe(queen), midgame) = Value(queen, midgame)
    <2>1. midgame \in Phases
      BY DEF Phases
    <2> QED
      BY <1>1, <2>1, ValuesTurn, ValueIs
  <1>7. q \in canon_mask(b, canon) <=> r \in canon_mask(m, Foe(canon))
    <2>1. Turns(canon_mask(b, canon), canon_mask(m, Foe(canon)))
      BY CanonsTurn
    <2> QED
      BY <1>1, <2>1 DEF Turns
  <1> DEFINE n1 == When(x > 0 /\ y = 0, EN_PRISE_PENALTY)
             n2 == When(x > y, (x - y) * WEAK_DEFENSE_PENALTY)
             n3(v, Q, S) == When(v > Min({Q} \cup S), LOW_VALUE_TRADE)
             n4 == When(y > x, (y - x) * STRONG_DEFENSE_BONUS)
             n5(d, a) == When(y > x /\ d < a, DEFENSE_EFFICIENCY_BONUS)
             n6(P) == When(P, UNDER_ENEMY_CANON_ATTACK)
  <1>8. Defense(b, p, own, foes, queen, canon) =
            n1 + n2 + n3(ValueOf(p[2]), Value(queen, midgame), {CostOf(b, a, q) : a \in W1})
               + n4 + n5(CostsOf(b, D1, q), CostsOf(b, W1, q)) + n6(q \in canon_mask(b, canon))
    BY <1>3, <1>4 DEF Defense, W1, D1
  <1>9. Defense(m, Turn(p), own2, foes2, Foe(queen), Foe(canon)) =
            n1 + n2 + n3(ValueOf(Foe(p[2])), Value(Foe(queen), midgame),
                         {CostOf(m, a, r) : a \in W2})
               + n4 + n5(CostsOf(m, D2, r), CostsOf(m, W2, r))
               + n6(r \in canon_mask(m, Foe(canon)))
    BY <1>1, <1>3, <1>4 DEF Defense, W2, D2
  <1>10. /\ n1 \in Int /\ n2 \in Int /\ n4 \in Int
         /\ \A v, Q, S : n3(v, Q, S) \in Int
         /\ \A d, a : n5(d, a) \in Int
         /\ n6(q \in canon_mask(b, canon)) \in Int
    BY DEF When, EN_PRISE_PENALTY, WEAK_DEFENSE_PENALTY, LOW_VALUE_TRADE, STRONG_DEFENSE_BONUS,
           DEFENSE_EFFICIENCY_BONUS, UNDER_ENEMY_CANON_ATTACK
  <1>11. n6(q \in canon_mask(b, canon)) = n6(r \in canon_mask(m, Foe(canon)))
    BY <1>7 DEF When
  <1> HIDE DEF n1, n2, n3, n4, n5, n6
  <1>12. PICK k3 \in Int :
             /\ k3 = n3(ValueOf(p[2]), Value(queen, midgame), {CostOf(b, a, q) : a \in W1})
             /\ k3 = n3(ValueOf(Foe(p[2])), Value(Foe(queen), midgame),
                        {CostOf(m, a, r) : a \in W2})
    BY <1>5, <1>6, <1>10
  <1>13. PICK k5 \in Int : /\ k5 = n5(CostsOf(b, D1, q), CostsOf(b, W1, q))
                           /\ k5 = n5(CostsOf(m, D2, r), CostsOf(m, W2, r))
    BY <1>5, <1>10
  <1>14. PICK k6 \in Int : /\ k6 = n6(q \in canon_mask(b, canon))
                           /\ k6 = n6(r \in canon_mask(m, Foe(canon)))
    BY <1>10, <1>11, Zenon
  <1>15. Defense(b, p, own, foes, queen, canon) = n1 + n2 + k3 + n4 + k5 + k6
    BY <1>8, <1>12, <1>13, <1>14
  <1>16. Defense(m, Turn(p), own2, foes2, Foe(queen), Foe(canon)) = n1 + n2 + k3 + n4 + k5 + k6
    BY <1>9, <1>12, <1>13, <1>14
  <1> QED
    BY <1>10, <1>15, <1>16

-----------------------------------------------------------------------------
(* Attack, for either side.                                                *)
Targets(b, p, foes) == {e \in PiecesOf(b, foes) : e[1] \in AttackMask(b, p)}

Gain(b, p, foes, canon, king, e) ==
    When(e[2] = canon, ATTACKING_ENEMY_CANON)
      + When(e[2] = king, CAPTURE_ENEMY_KING)
      + (IF Watchers(b, foes, e[1]) = {} THEN FREE_CAPTURE_BONUS
         ELSE CAPTURE_BASE_BONUS)
      + When(ValueOf(e[2]) > ValueOf(p[2]), HIGH_VALUE_TRADE)

Gained(b, p, foes, canon, king) ==
    MapThenSumSet(LAMBDA e : Gain(b, p, foes, canon, king, e), Targets(b, p, foes))

Offense(b, p, foes, canon, king, theirs) ==
    When(AttackMask(b, p) \cap canon_moves(b, canon) # {}, WATCHING_ENEMY_CANON)
      + When(AttackMask(b, p) \cap king_moves(b, king, theirs) # {}, WATCHING_ENEMY_KING_MOVES)
      + Gained(b, p, foes, canon, king)

LEMMA OffensesAre ==
    ASSUME NEW b, NEW p
    PROVE  /\ white_attack(b, p) = Offense(b, p, BlackTypes, BC, BK, b.black)
           /\ black_attack(b, p) = Offense(b, p, WhiteTypes, WC, WK, b.white)
  <1>1. white_attack(b, p) = Offense(b, p, BlackTypes, BC, BK, b.black)
    BY DEF white_attack, Offense, Gained, Gain, Targets, MapThenSumSet, MapThenFoldSet
  <1>2. black_attack(b, p) = Offense(b, p, WhiteTypes, WC, WK, b.white)
    BY DEF black_attack, Offense, Gained, Gain, Targets, MapThenSumSet, MapThenFoldSet
  <1> QED
    BY <1>1, <1>2

LEMMA MaskTurns ==
    ASSUME NEW b, NEW m, Mirrored(b, m), NEW p \in PiecePlaces
    PROVE  Turns(AttackMask(b, p), AttackMask(m, Turn(p)))
  <1>1. p = <<p[1], p[2]>> /\ p[1] \in Squares /\ p[2] \in Types
    BY TurnIs
  <1>2. Turns(AttackMask(b, <<p[1], p[2]>>), AttackMask(m, <<Turned(p[1]), Foe(p[2])>>))
    BY <1>1, MasksTurn
  <1> QED
    BY <1>1, <1>2 DEF Turn

LEMMA TargetsMeet ==
    ASSUME NEW b, NEW m, Mirrored(b, m), NEW p \in PiecePlaces, NEW S, NEW T, Against(S, T)
    PROVE  Meets(Targets(b, p, S), Targets(m, Turn(p), T))
  <1>1. Meets(PiecesOf(b, S), PiecesOf(m, T))
    BY PiecesMeet
  <1>2. Turns(AttackMask(b, p), AttackMask(m, Turn(p)))
    BY MaskTurns
  <1>3. ASSUME NEW e \in PiecePlaces
        PROVE  e[1] \in AttackMask(b, p) <=> Turn(e)[1] \in AttackMask(m, Turn(p))
    <2>1. e[1] \in Squares /\ Turn(e)[1] = Turned(e[1])
      BY TurnIs
    <2> QED
      BY <1>2, <2>1 DEF Turns
  <1> QED
    BY <1>1, <1>3 DEF Meets, Targets

LEMMA GainIs ==
    \A b, p, foes, canon, king, e : Gain(b, p, foes, canon, king, e) \in Int
  BY DEF Gain, When, ATTACKING_ENEMY_CANON, CAPTURE_ENEMY_KING, FREE_CAPTURE_BONUS,
         CAPTURE_BASE_BONUS, HIGH_VALUE_TRADE

LEMMA GainTurns ==
    ASSUME NEW b, NEW m, Mirrored(b, m), NEW p \in PiecePlaces, NEW e \in PiecePlaces,
           NEW S, NEW T, Against(S, T), NEW canon \in Types, NEW king \in Types
    PROVE  Gain(b, p, S, canon, king, e)
               = Gain(m, Turn(p), T, Foe(canon), Foe(king), Turn(e))
  <1>1. /\ p[2] \in Types /\ Turn(p)[2] = Foe(p[2]) /\ e[1] \in Squares /\ e[2] \in Types
        /\ Turn(e)[1] = Turned(e[1]) /\ Turn(e)[2] = Foe(e[2])
    BY TurnIs
  <1>2. \A t, u \in Types : t = u <=> Foe(t) = Foe(u)
    BY FoeFacts
  <1>3. ValueOf(Foe(e[2])) = ValueOf(e[2]) /\ ValueOf(Foe(p[2])) = ValueOf(p[2])
    BY <1>1, ValuesTurn
  <1>4. Meets(Watchers(b, S, e[1]), Watchers(m, T, Turned(e[1])))
    BY <1>1, WatchersMeet
  <1>5. Watchers(b, S, e[1]) = {} <=> Watchers(m, T, Turned(e[1])) = {}
    BY <1>4, MeetsCount
  <1> QED
    BY <1>1, <1>2, <1>3, <1>5 DEF Gain

Gains(b, p, foes, canon, king) ==
    [e \in Targets(b, p, foes) |-> Gain(b, p, foes, canon, king, e)]

LEMMA GainedIs ==
    ASSUME NEW b, NEW p, NEW foes, foes \subseteq Types, NEW canon, NEW king
    PROVE  /\ Gained(b, p, foes, canon, king) = SumOf(Gains(b, p, foes, canon, king), Targets(b, p, foes))
           /\ Gains(b, p, foes, canon, king) \in [Targets(b, p, foes) -> Int] /\ IsFiniteSet(Targets(b, p, foes))
           /\ Gained(b, p, foes, canon, king) \in Int
  <1> DEFINE f == Gains(b, p, foes, canon, king)
             S == Targets(b, p, foes)
             term(e) == Gain(b, p, foes, canon, king, e)
             Is(g) == g = [U \in SUBSET S |->
                               IF U = {} THEN 0 ELSE term(Pick(U)) + g[U \ {Pick(U)}]]
             G == CHOOSE g : Is(g)
  <1>1. Gained(b, p, foes, canon, king) = G[S]
    BY DEF Gained, MapThenSumSet, MapThenFoldSet, Pick
  <1>2. IsFiniteSet(S)
    <2>1. IsFiniteSet(PiecePlaces)
      BY SquaresFinite, TypesFinite, FS_Product DEF PiecePlaces
    <2>2. S \subseteq PiecePlaces
      BY DEF Targets, PiecesOf, PiecePlaces
    <2> QED
      BY <2>1, <2>2, FS_Subset
  <1>3. \A e \in S : term(e) \in Int
    BY GainIs
  <1>4. f = [e \in S |-> term(e)]
    BY DEF Gains
  <1> HIDE DEF f, S, term
  <1>5. f \in [S -> Int] /\ \A e \in S : f[e] = term(e)
    BY <1>3, <1>4
  <1>6. \A g : Is(g) <=> Adds(f, S, g)
    <2>1. \A U \in SUBSET S : U # {} => f[Pick(U)] = term(Pick(U))
      BY <1>5, PickIs
    <2> QED
      BY <2>1 DEF Adds
  <1> HIDE DEF Is
  <1>7. Adds(f, S, G)
    BY <1>2, <1>5, <1>6, AdderExists
  <1> HIDE DEF G
  <1>8. G[S] = SumOf(f, S) /\ SumOf(f, S) \in Int
    BY <1>2, <1>5, <1>7, AddsGives, SumType
  <1> QED
    BY <1>1, <1>2, <1>5, <1>8 DEF f, S

LEMMA OffenseTurns ==
    ASSUME NEW b, NEW m, Mirrored(b, m), FewPieces(b), NEW p \in PiecePlaces,
           NEW S, NEW T, Against(S, T), NEW canon \in {WC, BC}, NEW king \in {WK, BK},
           NEW B, NEW C, Turns(B, C)
    PROVE  /\ Offense(b, p, S, canon, king, B)
                  = Offense(m, Turn(p), T, Foe(canon), Foe(king), C)
           /\ Offense(b, p, S, canon, king, B) \in Int
  <1> DEFINE U == Targets(b, p, S)
             V == Targets(m, Turn(p), T)
             f == Gains(b, p, S, canon, king)
             e == Gains(m, Turn(p), T, Foe(canon), Foe(king))
             g == [x \in U |-> Turn(x)]
  <1>1. S \subseteq Types /\ T \subseteq Types /\ canon \in Types /\ king \in Types
    BY TypeFacts DEF Against
  <1>2. /\ Gained(b, p, S, canon, king) = SumOf(f, U) /\ f \in [U -> Int] /\ IsFiniteSet(U)
        /\ Gained(b, p, S, canon, king) \in Int
    BY <1>1, GainedIs
  <1>3. /\ Gained(m, Turn(p), T, Foe(canon), Foe(king)) = SumOf(e, V)
        /\ e \in [V -> Int] /\ IsFiniteSet(V)
    BY <1>1, GainedIs
  <1>4. Pairs(g, U, V) /\ \A x \in U : x \in PiecePlaces /\ Turn(x) \in V
    <2>1. Meets(U, V)
      BY TargetsMeet
    <2> HIDE DEF U, V
    <2> QED
      BY <2>1, MeetsCount
  <1>5. \A x \in U : f[x] = e[g[x]]
    <2>1. \A x \in U : Gain(b, p, S, canon, king, x)
                           = Gain(m, Turn(p), T, Foe(canon), Foe(king), Turn(x))
      BY <1>1, <1>4, GainTurns
    <2> QED
      BY <1>4, <2>1 DEF Gains
  <1> HIDE DEF U, V, f, e, g
  <1>6. SumOf(f, U) = SumOf(e, V)
    BY <1>2, <1>3, <1>4, <1>5, SameSum
  <1>7. /\ AttackMask(b, p) \cap canon_moves(b, canon) = {}
               <=> AttackMask(m, Turn(p)) \cap canon_moves(m, Foe(canon)) = {}
        /\ AttackMask(b, p) \cap king_moves(b, king, B) = {}
               <=> AttackMask(m, Turn(p)) \cap king_moves(m, Foe(king), C) = {}
    <2>1. /\ Turns(AttackMask(b, p), AttackMask(m, Turn(p)))
          /\ Turns(canon_moves(b, canon), canon_moves(m, Foe(canon)))
          /\ Turns(king_moves(b, king, B), king_moves(m, Foe(king), C))
      BY MaskTurns, CanonsTurn
    <2>2. /\ Turns(AttackMask(b, p) \cap canon_moves(b, canon),
                   AttackMask(m, Turn(p)) \cap canon_moves(m, Foe(canon)))
          /\ Turns(AttackMask(b, p) \cap king_moves(b, king, B),
                   AttackMask(m, Turn(p)) \cap king_moves(m, Foe(king), C))
      BY <2>1, TurnsSets
    <2> QED
      BY <2>2, TurnsEach
  <1> QED
    BY <1>2, <1>3, <1>6, <1>7 DEF Offense, When, WATCHING_ENEMY_CANON, WATCHING_ENEMY_KING_MOVES

(* The safety of all pieces.                                               *)
WhiteSafety(b, p) == white_defense(b, p) + white_attack(b, p)
BlackSafety(b, p) == black_defense(b, p) + black_attack(b, p)

LEMMA SafetyTurns ==
    ASSUME NEW b, NEW m, Mirrored(b, m), FewPieces(b), NEW p \in PiecePlaces
    PROVE  /\ WhiteSafety(b, p) = BlackSafety(m, Turn(p)) /\ WhiteSafety(b, p) \in Int
           /\ BlackSafety(b, p) = WhiteSafety(m, Turn(p)) /\ BlackSafety(b, p) \in Int
  <1>1. /\ Against(WhiteTypes, BlackTypes) /\ Against(BlackTypes, WhiteTypes)
        /\ WQ \in Types /\ BQ \in Types /\ Turns(b.white, m.black) /\ Turns(b.black, m.white)
    BY SidesAgainst, TypeFacts DEF Mirrored
  <1>2. /\ Defense(b, p, WhiteTypes, BlackTypes, WQ, BC)
               = Defense(m, Turn(p), BlackTypes, WhiteTypes, Foe(WQ), Foe(BC))
        /\ Defense(b, p, WhiteTypes, BlackTypes, WQ, BC) \in Int
        /\ Defense(b, p, BlackTypes, WhiteTypes, BQ, WC)
               = Defense(m, Turn(p), WhiteTypes, BlackTypes, Foe(BQ), Foe(WC))
        /\ Defense(b, p, BlackTypes, WhiteTypes, BQ, WC) \in Int
    BY <1>1, DefenseTurns
  <1>3. /\ Offense(b, p, BlackTypes, BC, BK, b.black)
               = Offense(m, Turn(p), WhiteTypes, Foe(BC), Foe(BK), m.white)
        /\ Offense(b, p, BlackTypes, BC, BK, b.black) \in Int
        /\ Offense(b, p, WhiteTypes, WC, WK, b.white)
               = Offense(m, Turn(p), BlackTypes, Foe(WC), Foe(WK), m.black)
        /\ Offense(b, p, WhiteTypes, WC, WK, b.white) \in Int
    BY <1>1, OffenseTurns
  <1>4. /\ white_defense(b, p) = black_defense(m, Turn(p)) /\ white_defense(b, p) \in Int
        /\ black_defense(b, p) = white_defense(m, Turn(p)) /\ black_defense(b, p) \in Int
    BY <1>2, DefensesAre, FoeIs
  <1>5. /\ white_attack(b, p) = black_attack(m, Turn(p)) /\ white_attack(b, p) \in Int
        /\ black_attack(b, p) = white_attack(m, Turn(p)) /\ black_attack(b, p) \in Int
    BY <1>3, OffensesAre, FoeIs
  <1> QED
    BY <1>4, <1>5 DEF WhiteSafety, BlackSafety

(* A sum over pieces, turned.                                              *)
LEMMA MeetSums ==
    ASSUME NEW S, NEW T, Meets(S, T), NEW f \in [S -> Int], NEW e \in [T -> Int],
           \A p \in S : f[p] = e[Turn(p)]
    PROVE  SumOf(f, S) = SumOf(e, T)
  <1> DEFINE g == [p \in S |-> Turn(p)]
  <1>1. IsFiniteSet(S) /\ IsFiniteSet(T) /\ Pairs(g, S, T)
    BY MeetsCount
  <1>2. \A p \in S : f[p] = e[g[p]]
    OBVIOUS
  <1> HIDE DEF g
  <1> QED
    BY <1>1, <1>2, SameSum

LEMMA PlacedFinite ==
    ASSUME NEW b, NEW S, S \subseteq Types
    PROVE  IsFiniteSet(PiecesOf(b, S)) /\ PiecesOf(b, S) \subseteq PiecePlaces
  <1>1. IsFiniteSet(PiecePlaces)
    BY SquaresFinite, TypesFinite, FS_Product DEF PiecePlaces
  <1>2. PiecesOf(b, S) \subseteq PiecePlaces
    BY DEF PiecesOf, PiecePlaces
  <1> QED
    BY <1>1, <1>2, FS_Subset

WhitesSafe(b) == MapThenSumSet(LAMBDA p : white_defense(b, p) + white_attack(b, p),
                               PiecesOf(b, WhiteTypes))
BlacksSafe(b) == MapThenSumSet(LAMBDA p : black_defense(b, p) + black_attack(b, p),
                               PiecesOf(b, BlackTypes))
WhiteSafeties(b) == [p \in PiecesOf(b, WhiteTypes) |-> WhiteSafety(b, p)]
BlackSafeties(b) == [p \in PiecesOf(b, BlackTypes) |-> BlackSafety(b, p)]

LEMMA WhitesSafeIs ==
    ASSUME NEW b, Sound(b), FewPieces(b)
    PROVE  /\ WhitesSafe(b) = SumOf(WhiteSafeties(b), PiecesOf(b, WhiteTypes))
           /\ WhiteSafeties(b) \in [PiecesOf(b, WhiteTypes) -> Int] /\ IsFiniteSet(PiecesOf(b, WhiteTypes))
           /\ WhitesSafe(b) \in Int
  <1> DEFINE f == WhiteSafeties(b)
             S == PiecesOf(b, WhiteTypes)
             term(p) == white_defense(b, p) + white_attack(b, p)
             Is(g) == g = [U \in SUBSET S |->
                               IF U = {} THEN 0 ELSE term(Pick(U)) + g[U \ {Pick(U)}]]
             G == CHOOSE g : Is(g)
  <1>1. WhitesSafe(b) = G[S]
    BY DEF WhitesSafe, MapThenSumSet, MapThenFoldSet, Pick
  <1>2. IsFiniteSet(S)
    <2>1. WhiteTypes \subseteq Types /\ BlackTypes \subseteq Types
      BY TypeFacts
    <2> QED
      BY <2>1, PlacedFinite
  <1>3. \A p \in S : term(p) \in Int
    <2>1. Mirrored(b, Mirror(b)) /\ S \subseteq PiecePlaces
      BY MirrorIs, PlacedFinite, TypeFacts
    <2> QED
      BY <2>1, SafetyTurns DEF WhiteSafety
  <1>4. f = [p \in S |-> term(p)]
    BY DEF WhiteSafeties, WhiteSafety
  <1> HIDE DEF f, S, term
  <1>5. f \in [S -> Int] /\ \A p \in S : f[p] = term(p)
    BY <1>3, <1>4
  <1>6. \A g : Is(g) <=> Adds(f, S, g)
    <2>1. \A U \in SUBSET S : U # {} => f[Pick(U)] = term(Pick(U))
      BY <1>5, PickIs
    <2> QED
      BY <2>1 DEF Adds
  <1> HIDE DEF Is
  <1>7. Adds(f, S, G)
    BY <1>2, <1>5, <1>6, AdderExists
  <1> HIDE DEF G
  <1>8. G[S] = SumOf(f, S) /\ SumOf(f, S) \in Int
    BY <1>2, <1>5, <1>7, AddsGives, SumType
  <1> QED
    BY <1>1, <1>2, <1>5, <1>8 DEF f, S

LEMMA BlacksSafeIs ==
    ASSUME NEW b, Sound(b), FewPieces(b)
    PROVE  /\ BlacksSafe(b) = SumOf(BlackSafeties(b), PiecesOf(b, BlackTypes))
           /\ BlackSafeties(b) \in [PiecesOf(b, BlackTypes) -> Int] /\ IsFiniteSet(PiecesOf(b, BlackTypes))
           /\ BlacksSafe(b) \in Int
  <1> DEFINE f == BlackSafeties(b)
             S == PiecesOf(b, BlackTypes)
             term(p) == black_defense(b, p) + black_attack(b, p)
             Is(g) == g = [U \in SUBSET S |->
                               IF U = {} THEN 0 ELSE term(Pick(U)) + g[U \ {Pick(U)}]]
             G == CHOOSE g : Is(g)
  <1>1. BlacksSafe(b) = G[S]
    BY DEF BlacksSafe, MapThenSumSet, MapThenFoldSet, Pick
  <1>2. IsFiniteSet(S)
    <2>1. WhiteTypes \subseteq Types /\ BlackTypes \subseteq Types
      BY TypeFacts
    <2> QED
      BY <2>1, PlacedFinite
  <1>3. \A p \in S : term(p) \in Int
    <2>1. Mirrored(b, Mirror(b)) /\ S \subseteq PiecePlaces
      BY MirrorIs, PlacedFinite, TypeFacts
    <2> QED
      BY <2>1, SafetyTurns DEF BlackSafety
  <1>4. f = [p \in S |-> term(p)]
    BY DEF BlackSafeties, BlackSafety
  <1> HIDE DEF f, S, term
  <1>5. f \in [S -> Int] /\ \A p \in S : f[p] = term(p)
    BY <1>3, <1>4
  <1>6. \A g : Is(g) <=> Adds(f, S, g)
    <2>1. \A U \in SUBSET S : U # {} => f[Pick(U)] = term(Pick(U))
      BY <1>5, PickIs
    <2> QED
      BY <2>1 DEF Adds
  <1> HIDE DEF Is
  <1>7. Adds(f, S, G)
    BY <1>2, <1>5, <1>6, AdderExists
  <1> HIDE DEF G
  <1>8. G[S] = SumOf(f, S) /\ SumOf(f, S) \in Int
    BY <1>2, <1>5, <1>7, AddsGives, SumType
  <1> QED
    BY <1>1, <1>2, <1>5, <1>8 DEF f, S

LEMMA WhitesSafeTurn ==
    ASSUME NEW b, NEW m, Mirrored(b, m), FewPieces(b)
    PROVE  WhitesSafe(b) = BlacksSafe(m) /\ WhitesSafe(b) \in Int
  <1> DEFINE S == PiecesOf(b, WhiteTypes)
             T == PiecesOf(m, BlackTypes)
             f == WhiteSafeties(b)
             e == BlackSafeties(m)
  <1>1. Sound(b) /\ Sound(m) /\ FewPieces(m)
    BY FewTurns DEF Mirrored
  <1>2. WhitesSafe(b) = SumOf(f, S) /\ f \in [S -> Int] /\ WhitesSafe(b) \in Int
    BY <1>1, WhitesSafeIs
  <1>3. BlacksSafe(m) = SumOf(e, T) /\ e \in [T -> Int]
    BY <1>1, BlacksSafeIs
  <1>4. Meets(S, T)
    BY PiecesMeet, SidesAgainst
  <1>5. \A p \in S : p \in PiecePlaces /\ Turn(p) \in T
    <2> HIDE DEF S, T
    <2> QED
      BY <1>4, MeetsCount
  <1>6. \A p \in S : WhiteSafety(b, p) = BlackSafety(m, Turn(p))
    BY <1>5, SafetyTurns
  <1>7. \A p \in S : f[p] = e[Turn(p)]
    BY <1>5, <1>6 DEF WhiteSafeties, BlackSafeties
  <1> HIDE DEF S, T, f, e
  <1> QED
    BY <1>2, <1>3, <1>4, <1>7, MeetSums

LEMMA SafetiesTurn ==
    ASSUME NEW b, NEW m, Mirrored(b, m), FewPieces(b), NEW color \in Sides
    PROVE  piece_safety_score(m, -color) = piece_safety_score(b, color)
  <1>1. Mirrored(m, b) /\ FewPieces(m)
    BY MirroredBack, FewTurns
  <1>2. /\ WhitesSafe(b) = BlacksSafe(m) /\ WhitesSafe(b) \in Int
        /\ WhitesSafe(m) = BlacksSafe(b) /\ WhitesSafe(m) \in Int
    BY <1>1, WhitesSafeTurn
  <1>3. (WhitesSafe(m) - BlacksSafe(m)) * (-color) = (WhitesSafe(b) - BlacksSafe(b)) * color
    BY <1>2, ScoreTurns
  <1>4. \A c, x : piece_safety_score(c, x) = (WhitesSafe(c) - BlacksSafe(c)) * x
    BY DEF piece_safety_score, WhitesSafe, BlacksSafe, MapThenSumSet, MapThenFoldSet
  <1> QED
    BY <1>3, <1>4

-----------------------------------------------------------------------------
(* Mobility.                                                               *)
LEMMA ReachesTurn ==
    ASSUME NEW b, NEW m, Mirrored(b, m), NEW p \in PiecePlaces
    PROVE  Turns(mobility_attack_mask(b, p), mobility_attack_mask(m, Turn(p)))
  <1>1. /\ p[1] \in Squares /\ p[2] \in Types /\ p = <<p[1], p[2]>>
        /\ Turn(p)[1] = Turned(p[1]) /\ Turn(p)[2] = Foe(p[2])
    BY TurnIs
  <1>2. /\ \A t \in Types : t \in {WK, BK} <=> Foe(t) \in {WK, BK}
    BY FoeIs, FoeFacts
  <1>3. ASSUME NEW c, NEW x, x[2] \notin {WK, BK}
        PROVE  mobility_attack_mask(c, x) = AttackMask(c, x)
    BY <1>3 DEF mobility_attack_mask, AttackMask,
                WP, BP, WR, BR, WB, BB, WQ, BQ, WC, BC, WF, BF, WK, BK
  <1>4. CASE p[2] \notin {WK, BK}
    <2>1. Turns(AttackMask(b, p), AttackMask(m, Turn(p)))
      BY MaskTurns
    <2> QED
      BY <1>1, <1>2, <1>3, <1>4, <2>1
  <1>5. CASE p[2] \in {WK, BK}
    <2>1. \A c, x : x[2] \in {WK, BK} => mobility_attack_mask(c, x) = nsp_table[x[2]][x[1]]
      BY DEF mobility_attack_mask, WP, BP, WR, BR, WB, BB, WQ, BQ, WC, BC, WF, BF, WK, BK
    <2>2. Turns(nsp_table[p[2]][p[1]], nsp_table[Foe(p[2])][Turned(p[1])])
      BY <1>1, TableTurns
    <2> QED
      BY <1>1, <1>2, <1>5, <2>1, <2>2
  <1> QED
    BY <1>4, <1>5

LEMMA AheadTurns ==
    ASSUME NEW s \in Squares
    PROVE  Turns({s + 8} \cap Squares, {Turned(s) - 8} \cap Squares)
  <1>1. Turns({s}, {Turned(s)})
    <2>1. \A q \in Squares : q \in {s} <=> Turned(q) \in {Turned(s)}
      BY DiffTurns
    <2> QED
      BY <2>1, TurnedIs DEF Turns
  <1>2. Turns(Shift({s}, 8), Shift({Turned(s)}, -8))
    BY <1>1, ShiftTurns
  <1>3. \A q \in Squares : q + (-8) = q - 8
    BY DEF Squares
  <1>4. Turned(s) + (-8) = Turned(s) - 8
    BY <1>3, TurnedIs
  <1> QED
    BY <1>2, <1>4 DEF Shift

LEMMA WhiteLegalTurns ==
    ASSUME NEW b, NEW m, Mirrored(b, m), NEW p \in PiecesOf(b, WhiteTypes)
    PROVE  Turns(white_legal_moves(b, p), black_legal_moves(m, Turn(p)))
  <1>1. p \in PiecePlaces /\ p[2] \in WhiteTypes
    BY TypeFacts DEF PiecesOf, PiecePlaces
  <1>2. /\ p[1] \in Squares /\ p[2] \in Types
        /\ Turn(p)[1] = Turned(p[1]) /\ Turn(p)[2] = Foe(p[2])
    BY <1>1, TurnIs
  <1>3. /\ Turns(b.white, m.black) /\ Turns(b.black, m.white) /\ Turns(b.all, m.all)
        /\ Turns(mobility_attack_mask(b, p), mobility_attack_mask(m, Turn(p)))
    BY <1>1, ReachesTurn DEF Mirrored
  <1>4. /\ \A c, x : x[2] \in {WC, WF} => white_legal_moves(c, x) = nsp_table[x[2]][x[1]] \ c.all
        /\ \A c, x : x[2] \in {BC, BF} => black_legal_moves(c, x) = nsp_table[x[2]][x[1]] \ c.all
        /\ \A c, x : x[2] = WP => white_legal_moves(c, x) =
               ((mobility_attack_mask(c, x) \cap c.black) \ c.white)
                   \cup (({x[1] + 8} \cap Squares) \ c.all)
        /\ \A c, x : x[2] = BP => black_legal_moves(c, x) =
               ((mobility_attack_mask(c, x) \cap c.white) \ c.black)
                   \cup (({x[1] - 8} \cap Squares) \ c.all)
        /\ \A c, x : x[2] \notin {WC, WF, WP} =>
               white_legal_moves(c, x) = mobility_attack_mask(c, x) \ c.white
        /\ \A c, x : x[2] \notin {BC, BF, BP} =>
               black_legal_moves(c, x) = mobility_attack_mask(c, x) \ c.black
    BY DEF white_legal_moves, black_legal_moves, WC, WF, WP, BC, BF, BP
  <1>5. /\ \A t \in Types : t \in {WC, WF} <=> Foe(t) \in {BC, BF}
        /\ \A t \in Types : t = WP <=> Foe(t) = BP
    BY FoeIs, FoeFacts
  <1>6. CASE p[2] \in {WC, WF}
    <2>1. Turns(nsp_table[p[2]][p[1]], nsp_table[Foe(p[2])][Turned(p[1])])
      BY <1>2, TableTurns
    <2>2. Turns(nsp_table[p[2]][p[1]] \ b.all, nsp_table[Foe(p[2])][Turned(p[1])] \ m.all)
      BY <1>3, <2>1, TurnsSets
    <2>3. Turn(p)[2] \in {BC, BF}
      BY <1>2, <1>5, <1>6
    <2>4. /\ white_legal_moves(b, p) = nsp_table[p[2]][p[1]] \ b.all
          /\ black_legal_moves(m, Turn(p)) = nsp_table[Foe(p[2])][Turned(p[1])] \ m.all
      BY <1>2, <1>4, <1>6, <2>3
    <2> QED
      BY <2>2, <2>4
  <1>7. CASE p[2] = WP
    <2>1. Turns({p[1] + 8} \cap Squares, {Turned(p[1]) - 8} \cap Squares)
      BY <1>2, AheadTurns
    <2>2. Turns(({p[1] + 8} \cap Squares) \ b.all, ({Turned(p[1]) - 8} \cap Squares) \ m.all)
      BY <1>3, <2>1, TurnsSets
    <2>3. Turns(mobility_attack_mask(b, p) \cap b.black,
                mobility_attack_mask(m, Turn(p)) \cap m.white)
      BY <1>3, TurnsSets
    <2>4. Turns((mobility_attack_mask(b, p) \cap b.black) \ b.white,
                (mobility_attack_mask(m, Turn(p)) \cap m.white) \ m.black)
      BY <1>3, <2>3, TurnsSets
    <2>5. Turns(((mobility_attack_mask(b, p) \cap b.black) \ b.white)
                    \cup (({p[1] + 8} \cap Squares) \ b.all),
                ((mobility_attack_mask(m, Turn(p)) \cap m.white) \ m.black)
                    \cup (({Turned(p[1]) - 8} \cap Squares) \ m.all))
      BY <2>2, <2>4, TurnsSets
    <2>6. Turn(p)[2] = BP
      BY <1>2, <1>5, <1>7
    <2> QED
      BY <1>2, <1>4, <1>7, <2>5, <2>6
  <1>8. CASE p[2] \notin {WC, WF, WP}
    <2>1. Turns(mobility_attack_mask(b, p) \ b.white, mobility_attack_mask(m, Turn(p)) \ m.black)
      BY <1>3, TurnsSets
    <2>2. Turn(p)[2] \notin {BC, BF, BP}
      BY <1>2, <1>5, <1>8
    <2> QED
      BY <1>4, <1>8, <2>1, <2>2
  <1> QED
    BY <1>6, <1>7, <1>8

LEMMA AttackedTurns ==
    ASSUME NEW b, NEW m, Mirrored(b, m), NEW S, NEW T, Against(S, T)
    PROVE  Turns(Attacked(b, S), Attacked(m, T))
  <1>1. Meets(PiecesOf(b, S), PiecesOf(m, T))
    BY PiecesMeet
  <1>2. /\ \A p \in PiecesOf(b, S) : p \in PiecePlaces /\ Turn(p) \in PiecesOf(m, T)
        /\ \A p \in PiecesOf(m, T) : /\ p \in PiecePlaces /\ Turn(p) \in PiecesOf(b, S)
                                     /\ Turn(p) \in PiecePlaces /\ Turn(Turn(p)) = p
    BY <1>1, MeetsCount, TurnIs
  <1>3. \A p \in PiecePlaces : Turns(mobility_attack_mask(b, p), mobility_attack_mask(m, Turn(p)))
    BY ReachesTurn
  <1>4. \A p \in PiecesOf(m, T) :
            Turns(mobility_attack_mask(b, Turn(p)), mobility_attack_mask(m, p))
    BY <1>2, <1>3
  <1>5. Attacked(b, S) \subseteq Squares /\ Attacked(m, T) \subseteq Squares
    BY <1>2, <1>3, <1>4 DEF Attacked, Turns
  <1>6. ASSUME NEW q \in Squares PROVE q \in Attacked(b, S) <=> Turned(q) \in Attacked(m, T)
    <2>1. q \in Attacked(b, S) <=> \E p \in PiecesOf(b, S) : q \in mobility_attack_mask(b, p)
      BY DEF Attacked
    <2>2. Turned(q) \in Attacked(m, T) <=>
              \E p \in PiecesOf(m, T) : Turned(q) \in mobility_attack_mask(m, p)
      BY DEF Attacked
    <2>3. \A p \in PiecesOf(b, S) : q \in mobility_attack_mask(b, p) <=>
                                        Turned(q) \in mobility_attack_mask(m, Turn(p))
      BY <1>2, <1>3 DEF Turns
    <2>4. \A p \in PiecesOf(m, T) : q \in mobility_attack_mask(b, Turn(p)) <=>
                                        Turned(q) \in mobility_attack_mask(m, p)
      BY <1>4 DEF Turns
    <2> QED
      BY <1>2, <2>1, <2>2, <2>3, <2>4
  <1> QED
    BY <1>5, <1>6, TurnsOf

LEMMA TablesAgree ==
    \A t \in WhiteTypes :
        /\ mobility_reward[Foe(t) + 1] = mobility_reward[t + 1]
        /\ mobility_reward[t + 1] \in Int
        /\ immobility_penalty[Foe(t) + 1] = immobility_penalty[t + 1]
        /\ immobility_penalty[t + 1] \in Int
  <1>1. \A t \in WhiteTypes : t \in {0, 2, 4, 6, 8, 10, 12, 14, 16} /\ Foe(t) = t + 1
    BY DEF WhiteTypes, Foe
  <1>2. /\ mobility_reward[1] = 3 /\ mobility_reward[2] = 3 /\ mobility_reward[3] = 6
        /\ mobility_reward[4] = 6 /\ mobility_reward[5] = 9 /\ mobility_reward[6] = 9
        /\ mobility_reward[7] = 12 /\ mobility_reward[8] = 12 /\ mobility_reward[9] = 16
        /\ mobility_reward[10] = 16 /\ mobility_reward[11] = 0 /\ mobility_reward[12] = 0
        /\ mobility_reward[13] = 6 /\ mobility_reward[14] = 6 /\ mobility_reward[15] = 6
        /\ mobility_reward[16] = 6 /\ mobility_reward[17] = 8 /\ mobility_reward[18] = 8
    BY DEF mobility_reward
  <1>3. /\ immobility_penalty[1] = -2 /\ immobility_penalty[2] = -2
        /\ immobility_penalty[3] = -3 /\ immobility_penalty[4] = -3
        /\ immobility_penalty[5] = -10 /\ immobility_penalty[6] = -10
        /\ immobility_penalty[7] = -10 /\ immobility_penalty[8] = -10
        /\ immobility_penalty[9] = -20 /\ immobility_penalty[10] = -20
        /\ immobility_penalty[11] = -50 /\ immobility_penalty[12] = -50
        /\ immobility_penalty[13] = -1 /\ immobility_penalty[14] = -1
        /\ immobility_penalty[15] = -5 /\ immobility_penalty[16] = -5
        /\ immobility_penalty[17] = -20 /\ immobility_penalty[18] = -20
    BY DEF immobility_penalty
  <1> HIDE DEF mobility_reward, immobility_penalty
  <1>4. \A t \in WhiteTypes : /\ mobility_reward[t + 2] = mobility_reward[t + 1]
                              /\ mobility_reward[t + 1] \in Int
    BY <1>1, <1>2
  <1>5. \A t \in WhiteTypes : /\ immobility_penalty[t + 2] = immobility_penalty[t + 1]
                              /\ immobility_penalty[t + 1] \in Int
    BY <1>1, <1>3
  <1>6. \A t \in WhiteTypes : Foe(t) + 1 = t + 2
    BY <1>1
  <1> QED
    BY <1>4, <1>5, <1>6

LEMMA WorthOfMoves ==
    ASSUME NEW b, NEW m, Mirrored(b, m), NEW p \in PiecesOf(b, WhiteTypes)
    PROVE  /\ white_moves_worth(b, p) = black_moves_worth(m, Turn(p))
           /\ white_moves_worth(b, p) \in Int
  <1>1. p \in PiecePlaces /\ p[2] \in WhiteTypes
    BY TypeFacts DEF PiecesOf, PiecePlaces
  <1>2. p[2] \in Types /\ Turn(p)[2] = Foe(p[2])
    BY <1>1, TurnIs
  <1>3. p[2] = WK <=> Foe(p[2]) = BK
    BY <1>2, FoeIs, FoeFacts
  <1> DEFINE L == white_legal_moves(b, p)
             M == black_legal_moves(m, Turn(p))
             safe == L \ Attacked(b, BlackTypes)
             saved == M \ Attacked(m, WhiteTypes)
  <1>4. Turns(L, M) /\ Turns(Attacked(b, BlackTypes), Attacked(m, WhiteTypes))
    BY WhiteLegalTurns, AttackedTurns, SidesAgainst
  <1> HIDE DEF L, M
  <1>5. Turns(safe, saved)
    BY <1>4, TurnsSets
  <1> HIDE DEF safe, saved
  <1>6. Turns(L \ safe, M \ saved)
    BY <1>4, <1>5, TurnsSets
  <1>7. PICK r \in Int : r = mobility_reward[p[2] + 1] /\ r = mobility_reward[Foe(p[2]) + 1]
    BY <1>1, TablesAgree
  <1>8. PICK i \in Int : i = immobility_penalty[p[2] + 1] /\ i = immobility_penalty[Foe(p[2]) + 1]
    BY <1>1, TablesAgree
  <1>9. PICK k \in Int : k = immobility_penalty[WK + 1] /\ k = immobility_penalty[BK + 1]
    <2>1. WK \in WhiteTypes /\ Foe(WK) = BK
      BY TypeFacts, FoeIs
    <2> QED
      BY <2>1, TablesAgree
  <1>10. PICK n \in Int : n = Times(r, safe) /\ n = Times(r, saved)
    BY <1>5, TimesTurns
  <1>11. PICK x \in Int : x = Times(i, L \ safe) /\ x = Times(i, M \ saved)
    BY <1>6, TimesTurns
  <1>12. (safe = {} <=> saved = {}) /\ (L \ safe = {} <=> M \ saved = {})
    BY <1>5, <1>6, TurnsEach
  <1>13. white_moves_worth(b, p) =
             Times(mobility_reward[p[2] + 1], safe)
               + When(p[2] # WK, Times(immobility_penalty[p[2] + 1], L \ safe))
               + When(p[2] = WK /\ L \ safe # {} /\ safe = {}, immobility_penalty[WK + 1])
    BY DEF white_moves_worth, L, safe
  <1>14. black_moves_worth(m, Turn(p)) =
             Times(mobility_reward[Foe(p[2]) + 1], saved)
               + When(Foe(p[2]) # BK, Times(immobility_penalty[Foe(p[2]) + 1], M \ saved))
               + When(Foe(p[2]) = BK /\ M \ saved # {} /\ saved = {}, immobility_penalty[BK + 1])
    BY <1>2 DEF black_moves_worth, M, saved
  <1>15. white_moves_worth(b, p) =
             n + When(p[2] # WK, x) + When(p[2] = WK /\ L \ safe # {} /\ safe = {}, k)
    BY <1>7, <1>8, <1>9, <1>10, <1>11, <1>13
  <1>16. black_moves_worth(m, Turn(p)) =
             n + When(Foe(p[2]) # BK, x) + When(Foe(p[2]) = BK /\ M \ saved # {} /\ saved = {}, k)
    BY <1>7, <1>8, <1>9, <1>10, <1>11, <1>14
  <1> QED
    BY <1>3, <1>12, <1>15, <1>16 DEF When

WhitesMove(b) == MapThenSumSet(LAMBDA p : white_moves_worth(b, p), PiecesOf(b, WhiteTypes))
BlacksMove(b) == MapThenSumSet(LAMBDA p : black_moves_worth(b, p), PiecesOf(b, BlackTypes))
WhiteMoves(b) == [p \in PiecesOf(b, WhiteTypes) |-> white_moves_worth(b, p)]
BlackMoves(b) == [p \in PiecesOf(b, BlackTypes) |-> black_moves_worth(b, p)]

LEMMA BlackWorthIs ==
    ASSUME NEW b, Sound(b), NEW p \in PiecesOf(b, BlackTypes)
    PROVE  black_moves_worth(b, p) \in Int
  <1> DEFINE m == Mirror(b)
  <1>1. Mirrored(b, m)
    BY MirrorIs
  <1> HIDE DEF m
  <1>2. Mirrored(m, b) /\ Meets(PiecesOf(b, BlackTypes), PiecesOf(m, WhiteTypes))
    BY <1>1, MirroredBack, PiecesMeet, SidesAgainst
  <1>3. p \in PiecePlaces /\ Turn(p) \in PiecesOf(m, WhiteTypes)
    BY <1>2, MeetsCount
  <1>4. Turn(Turn(p)) = p
    BY <1>3, TurnIs
  <1>5. /\ white_moves_worth(m, Turn(p)) = black_moves_worth(b, Turn(Turn(p)))
        /\ white_moves_worth(m, Turn(p)) \in Int
    BY <1>2, <1>3, WorthOfMoves
  <1> QED
    BY <1>4, <1>5

LEMMA WhitesMoveIs ==
    ASSUME NEW b, Sound(b)
    PROVE  /\ WhitesMove(b) = SumOf(WhiteMoves(b), PiecesOf(b, WhiteTypes))
           /\ WhiteMoves(b) \in [PiecesOf(b, WhiteTypes) -> Int] /\ IsFiniteSet(PiecesOf(b, WhiteTypes))
           /\ WhitesMove(b) \in Int
  <1> DEFINE f == WhiteMoves(b)
             S == PiecesOf(b, WhiteTypes)
             term(p) == white_moves_worth(b, p)
             Is(g) == g = [U \in SUBSET S |->
                               IF U = {} THEN 0 ELSE term(Pick(U)) + g[U \ {Pick(U)}]]
             G == CHOOSE g : Is(g)
  <1>1. WhitesMove(b) = G[S]
    BY DEF WhitesMove, MapThenSumSet, MapThenFoldSet, Pick
  <1>2. IsFiniteSet(S)
    <2>1. WhiteTypes \subseteq Types /\ BlackTypes \subseteq Types
      BY TypeFacts
    <2> QED
      BY <2>1, PlacedFinite
  <1>3. \A p \in S : term(p) \in Int
    <2>1. Mirrored(b, Mirror(b))
      BY MirrorIs
    <2> QED
      BY <2>1, WorthOfMoves
  <1>4. f = [p \in S |-> term(p)]
    BY DEF WhiteMoves
  <1> HIDE DEF f, S, term
  <1>5. f \in [S -> Int] /\ \A p \in S : f[p] = term(p)
    BY <1>3, <1>4
  <1>6. \A g : Is(g) <=> Adds(f, S, g)
    <2>1. \A U \in SUBSET S : U # {} => f[Pick(U)] = term(Pick(U))
      BY <1>5, PickIs
    <2> QED
      BY <2>1 DEF Adds
  <1> HIDE DEF Is
  <1>7. Adds(f, S, G)
    BY <1>2, <1>5, <1>6, AdderExists
  <1> HIDE DEF G
  <1>8. G[S] = SumOf(f, S) /\ SumOf(f, S) \in Int
    BY <1>2, <1>5, <1>7, AddsGives, SumType
  <1> QED
    BY <1>1, <1>2, <1>5, <1>8 DEF f, S

LEMMA BlacksMoveIs ==
    ASSUME NEW b, Sound(b)
    PROVE  /\ BlacksMove(b) = SumOf(BlackMoves(b), PiecesOf(b, BlackTypes))
           /\ BlackMoves(b) \in [PiecesOf(b, BlackTypes) -> Int] /\ IsFiniteSet(PiecesOf(b, BlackTypes))
           /\ BlacksMove(b) \in Int
  <1> DEFINE f == BlackMoves(b)
             S == PiecesOf(b, BlackTypes)
             term(p) == black_moves_worth(b, p)
             Is(g) == g = [U \in SUBSET S |->
                               IF U = {} THEN 0 ELSE term(Pick(U)) + g[U \ {Pick(U)}]]
             G == CHOOSE g : Is(g)
  <1>1. BlacksMove(b) = G[S]
    BY DEF BlacksMove, MapThenSumSet, MapThenFoldSet, Pick
  <1>2. IsFiniteSet(S)
    <2>1. WhiteTypes \subseteq Types /\ BlackTypes \subseteq Types
      BY TypeFacts
    <2> QED
      BY <2>1, PlacedFinite
  <1>3. \A p \in S : term(p) \in Int
    BY BlackWorthIs
  <1>4. f = [p \in S |-> term(p)]
    BY DEF BlackMoves
  <1> HIDE DEF f, S, term
  <1>5. f \in [S -> Int] /\ \A p \in S : f[p] = term(p)
    BY <1>3, <1>4
  <1>6. \A g : Is(g) <=> Adds(f, S, g)
    <2>1. \A U \in SUBSET S : U # {} => f[Pick(U)] = term(Pick(U))
      BY <1>5, PickIs
    <2> QED
      BY <2>1 DEF Adds
  <1> HIDE DEF Is
  <1>7. Adds(f, S, G)
    BY <1>2, <1>5, <1>6, AdderExists
  <1> HIDE DEF G
  <1>8. G[S] = SumOf(f, S) /\ SumOf(f, S) \in Int
    BY <1>2, <1>5, <1>7, AddsGives, SumType
  <1> QED
    BY <1>1, <1>2, <1>5, <1>8 DEF f, S

LEMMA WhitesMoveTurn ==
    ASSUME NEW b, NEW m, Mirrored(b, m)
    PROVE  WhitesMove(b) = BlacksMove(m) /\ WhitesMove(b) \in Int
  <1> DEFINE S == PiecesOf(b, WhiteTypes)
             T == PiecesOf(m, BlackTypes)
             f == WhiteMoves(b)
             e == BlackMoves(m)
  <1>1. Sound(b) /\ Sound(m)
    BY DEF Mirrored
  <1>2. WhitesMove(b) = SumOf(f, S) /\ f \in [S -> Int] /\ WhitesMove(b) \in Int
    BY <1>1, WhitesMoveIs
  <1>3. BlacksMove(m) = SumOf(e, T) /\ e \in [T -> Int]
    BY <1>1, BlacksMoveIs
  <1>4. Meets(S, T)
    BY PiecesMeet, SidesAgainst
  <1>5. \A p \in S : p \in PiecePlaces /\ Turn(p) \in T
    <2> HIDE DEF S, T
    <2> QED
      BY <1>4, MeetsCount
  <1>6. \A p \in S : white_moves_worth(b, p) = black_moves_worth(m, Turn(p))
    BY WorthOfMoves
  <1>7. \A p \in S : f[p] = e[Turn(p)]
    BY <1>5, <1>6 DEF WhiteMoves, BlackMoves
  <1> HIDE DEF S, T, f, e
  <1> QED
    BY <1>2, <1>3, <1>4, <1>7, MeetSums

(* The squares a side attacks, counted once for each piece.                *)
Control(b, S) == MapThenSumSet(LAMBDA p : PopCount(mobility_attack_mask(b, p)), PiecesOf(b, S))
Controls(b, S) == [p \in PiecesOf(b, S) |-> PopCount(mobility_attack_mask(b, p))]

LEMMA CountTurns ==
    ASSUME NEW b, NEW m, Mirrored(b, m), NEW p \in PiecePlaces
    PROVE  /\ PopCount(mobility_attack_mask(b, p)) = PopCount(mobility_attack_mask(m, Turn(p)))
           /\ PopCount(mobility_attack_mask(b, p)) \in Int
  <1>1. Turns(mobility_attack_mask(b, p), mobility_attack_mask(m, Turn(p)))
    BY ReachesTurn
  <1>2. /\ Cardinality(mobility_attack_mask(b, p))
               = Cardinality(mobility_attack_mask(m, Turn(p)))
        /\ Cardinality(mobility_attack_mask(b, p)) \in Nat
    BY <1>1, TurnsCount
  <1> QED
    BY <1>2 DEF PopCount

LEMMA ControlIs ==
    ASSUME NEW b, Sound(b), NEW U, U \subseteq Types
    PROVE  /\ Control(b, U) = SumOf(Controls(b, U), PiecesOf(b, U))
           /\ Controls(b, U) \in [PiecesOf(b, U) -> Int] /\ IsFiniteSet(PiecesOf(b, U))
           /\ Control(b, U) \in Int
  <1> DEFINE f == Controls(b, U)
             S == PiecesOf(b, U)
             term(p) == PopCount(mobility_attack_mask(b, p))
             Is(g) == g = [A \in SUBSET S |->
                               IF A = {} THEN 0 ELSE term(Pick(A)) + g[A \ {Pick(A)}]]
             G == CHOOSE g : Is(g)
  <1>1. Control(b, U) = G[S]
    BY DEF Control, MapThenSumSet, MapThenFoldSet, Pick
  <1>2. IsFiniteSet(S)
    BY PlacedFinite
  <1>3. \A p \in S : term(p) \in Int
    <2>1. Mirrored(b, Mirror(b)) /\ S \subseteq PiecePlaces
      BY MirrorIs, PlacedFinite
    <2> QED
      BY <2>1, CountTurns
  <1>4. f = [p \in S |-> term(p)]
    BY DEF Controls
  <1> HIDE DEF f, S, term
  <1>5. f \in [S -> Int] /\ \A p \in S : f[p] = term(p)
    BY <1>3, <1>4
  <1>6. \A g : Is(g) <=> Adds(f, S, g)
    <2>1. \A A \in SUBSET S : A # {} => f[Pick(A)] = term(Pick(A))
      BY <1>5, PickIs
    <2> QED
      BY <2>1 DEF Adds
  <1> HIDE DEF Is
  <1>7. Adds(f, S, G)
    BY <1>2, <1>5, <1>6, AdderExists
  <1> HIDE DEF G
  <1>8. G[S] = SumOf(f, S) /\ SumOf(f, S) \in Int
    BY <1>2, <1>5, <1>7, AddsGives, SumType
  <1> QED
    BY <1>1, <1>2, <1>5, <1>8 DEF f, S

LEMMA ControlTurns ==
    ASSUME NEW b, NEW m, Mirrored(b, m), NEW U, NEW W, Against(U, W)
    PROVE  Control(b, U) = Control(m, W) /\ Control(b, U) \in Int
  <1> DEFINE S == PiecesOf(b, U)
             T == PiecesOf(m, W)
             f == Controls(b, U)
             e == Controls(m, W)
  <1>1. Sound(b) /\ Sound(m) /\ U \subseteq Types /\ W \subseteq Types
    BY DEF Mirrored, Against
  <1>2. Control(b, U) = SumOf(f, S) /\ f \in [S -> Int] /\ Control(b, U) \in Int
    BY <1>1, ControlIs
  <1>3. Control(m, W) = SumOf(e, T) /\ e \in [T -> Int]
    BY <1>1, ControlIs
  <1>4. Meets(S, T)
    BY PiecesMeet
  <1>5. \A p \in S : p \in PiecePlaces /\ Turn(p) \in T
    <2> HIDE DEF S, T
    <2> QED
      BY <1>4, MeetsCount
  <1>6. \A p \in S : PopCount(mobility_attack_mask(b, p))
                         = PopCount(mobility_attack_mask(m, Turn(p)))
    BY <1>5, CountTurns
  <1>7. \A p \in S : f[p] = e[Turn(p)]
    BY <1>5, <1>6 DEF Controls
  <1> HIDE DEF S, T, f, e
  <1> QED
    BY <1>2, <1>3, <1>4, <1>7, MeetSums

LEMMA ControlsTurn ==
    ASSUME NEW b, NEW m, Mirrored(b, m)
    PROVE  control_difference(m) = -control_difference(b) /\ control_difference(b) \in Int
  <1>1. /\ Control(b, WhiteTypes) = Control(m, BlackTypes) /\ Control(b, WhiteTypes) \in Int
        /\ Control(b, BlackTypes) = Control(m, WhiteTypes) /\ Control(b, BlackTypes) \in Int
    BY ControlTurns, SidesAgainst
  <1>2. \A c : control_difference(c) = Control(c, WhiteTypes) - Control(c, BlackTypes)
    BY DEF control_difference, Control, MapThenSumSet, MapThenFoldSet
  <1> QED
    BY <1>1, <1>2

-----------------------------------------------------------------------------
(* The attack on a king.                                                   *)
LEMMA AttackersMeet ==
    ASSUME NEW b, NEW m, Mirrored(b, m), NEW S, NEW T, Against(S, T), NEW q \in Squares
    PROVE  attack_count(b, S, q) = attack_count(m, T, Turned(q)) /\ attack_count(b, S, q) \in Int
  <1> DEFINE U == {p \in PiecesOf(b, S) : q \in mobility_attack_mask(b, p)}
             V == {p \in PiecesOf(m, T) : Turned(q) \in mobility_attack_mask(m, p)}
  <1>1. Meets(PiecesOf(b, S), PiecesOf(m, T))
    BY PiecesMeet
  <1>2. ASSUME NEW p \in PiecePlaces
        PROVE  q \in mobility_attack_mask(b, p) <=> Turned(q) \in mobility_attack_mask(m, Turn(p))
    <2>1. Turns(mobility_attack_mask(b, p), mobility_attack_mask(m, Turn(p)))
      BY ReachesTurn
    <2> QED
      BY <2>1 DEF Turns
  <1>3. Meets(U, V)
    BY <1>1, <1>2 DEF Meets
  <1> HIDE DEF U, V
  <1>4. Cardinality(U) = Cardinality(V) /\ Cardinality(U) \in Nat
    BY <1>3, MeetsCount
  <1> QED
    BY <1>4 DEF attack_count, U, V

Edge(b, S, T, q) ==
    KING_ATTACK_COORDINATION * Max({0, attack_count(b, S, q) - attack_count(b, T, q)})
Edges(b, K, S, T) == [q \in Lsb(b.pieces[K]) |-> Edge(b, S, T, q)]

LEMMA EdgeTurns ==
    ASSUME NEW b, NEW m, Mirrored(b, m), NEW S, NEW T, Against(S, T), Against(T, S),
           NEW q \in Squares
    PROVE  Edge(b, S, T, q) = Edge(m, T, S, Turned(q)) /\ Edge(b, S, T, q) \in Int
  <1>1. PICK x \in Int : x = attack_count(b, S, q) /\ x = attack_count(m, T, Turned(q))
    BY AttackersMeet
  <1>2. PICK y \in Int : y = attack_count(b, T, q) /\ y = attack_count(m, S, Turned(q))
    BY AttackersMeet
  <1>3. \A k \in Int : Max({0, k}) \in Int
    <2>1. 0 \in Int
      OBVIOUS
    <2> QED
      BY <2>1, MinOfTwo, Zenon
  <1>4. x - y \in Int
    OBVIOUS
  <1>5. PICK z \in Int : z = Max({0, x - y})
    BY <1>3, <1>4
  <1> QED
    BY <1>1, <1>2, <1>5 DEF Edge, KING_ATTACK_COORDINATION

LEMMA KingAttackIs ==
    ASSUME NEW b, Sound(b), NEW K \in {WK, BK}, NEW U, NEW W, Against(U, W), Against(W, U)
    PROVE  /\ king_attack(b, K, U, W) = SumOf(Edges(b, K, U, W), Lsb(b.pieces[K]))
           /\ Edges(b, K, U, W) \in [Lsb(b.pieces[K]) -> Int] /\ IsFiniteSet(Lsb(b.pieces[K]))
           /\ king_attack(b, K, U, W) \in Int
  <1> DEFINE f == Edges(b, K, U, W)
             S == Lsb(b.pieces[K])
             term(q) == Edge(b, U, W, q)
             Is(g) == g = [A \in SUBSET S |->
                               IF A = {} THEN 0 ELSE term(Pick(A)) + g[A \ {Pick(A)}]]
             G == CHOOSE g : Is(g)
  <1>1. king_attack(b, K, U, W) = G[S]
    BY DEF king_attack, Edge, MapThenSumSet, MapThenFoldSet, Pick
  <1>2. IsFiniteSet(S)
    <2>1. b.pieces[K] \subseteq Squares
      BY BoardFields, TypeFacts DEF Sound
    <2>2. S \subseteq Squares
      BY <2>1 DEF Lsb
    <2> QED
      BY <2>2, SquaresFinite
  <1>3. \A q \in S : term(q) \in Int
    <2>1. Mirrored(b, Mirror(b))
      BY MirrorIs
    <2>2. b.pieces[K] \subseteq Squares
      BY BoardFields, TypeFacts DEF Sound
    <2>3. S \subseteq Squares
      BY <2>2 DEF Lsb
    <2> QED
      BY <2>1, <2>3, EdgeTurns
  <1>4. f = [q \in S |-> term(q)]
    BY DEF Edges
  <1> HIDE DEF f, S, term
  <1>5. f \in [S -> Int] /\ \A q \in S : f[q] = term(q)
    BY <1>3, <1>4
  <1>6. \A g : Is(g) <=> Adds(f, S, g)
    <2>1. \A A \in SUBSET S : A # {} => f[Pick(A)] = term(Pick(A))
      BY <1>5, PickIs
    <2> QED
      BY <2>1 DEF Adds
  <1> HIDE DEF Is
  <1>7. Adds(f, S, G)
    BY <1>2, <1>5, <1>6, AdderExists
  <1> HIDE DEF G
  <1>8. G[S] = SumOf(f, S) /\ SumOf(f, S) \in Int
    BY <1>2, <1>5, <1>7, AddsGives, SumType
  <1> QED
    BY <1>1, <1>2, <1>5, <1>8 DEF f, S

LEMMA KingAttackTurns ==
    ASSUME NEW b, NEW m, Mirrored(b, m), FewPieces(b), NEW K \in {WK, BK},
           NEW U, NEW W, Against(U, W), Against(W, U)
    PROVE  /\ king_attack(b, K, U, W) = king_attack(m, Foe(K), W, U)
           /\ king_attack(b, K, U, W) \in Int
  <1> DEFINE S == Lsb(b.pieces[K])
             T == Lsb(m.pieces[Foe(K)])
             f == Edges(b, K, U, W)
             e == Edges(m, Foe(K), W, U)
             g == [q \in S |-> Turned(q)]
  <1>1. Sound(b) /\ Sound(m) /\ K \in SingleTypes /\ Foe(K) \in {WK, BK}
    BY FoeIs DEF Mirrored, SingleTypes, FirstOnly
  <1>2. king_attack(b, K, U, W) = SumOf(f, S) /\ f \in [S -> Int] /\ king_attack(b, K, U, W) \in Int
    BY <1>1, KingAttackIs
  <1>3. king_attack(m, Foe(K), W, U) = SumOf(e, T) /\ e \in [T -> Int]
    BY <1>1, KingAttackIs
  <1>4. Turns(S, T)
    BY <1>1, OneEnds
  <1>5. \A q \in S : q \in Squares /\ Turned(q) \in T
    <2> HIDE DEF S, T
    <2> QED
      BY <1>4, TurnsEach
  <1>6. IsFiniteSet(S) /\ IsFiniteSet(T) /\ Pairs(g, S, T)
    <2> HIDE DEF S, T
    <2> QED
      BY <1>4, TurnsCount
  <1>7. \A q \in S : Edge(b, U, W, q) = Edge(m, W, U, Turned(q))
    BY <1>5, EdgeTurns
  <1>8. \A q \in S : f[q] = e[g[q]]
    BY <1>5, <1>7 DEF Edges
  <1> HIDE DEF S, T, f, e, g
  <1> QED
    BY <1>2, <1>3, <1>6, <1>8, SameSum

-----------------------------------------------------------------------------
(* Coordination.                                                           *)
Open(b, t, B) == [s \in Squares |-> mobility_attack_mask(b, <<s, t>>) \ B]

LEMMA LastTurns ==
    ASSUME NEW b, NEW m, Mirrored(b, m), FewPieces(b), NEW t \in SingleTypes,
           NEW B, NEW C, Turns(B, C)
    PROVE  /\ Turns(LastMask(b, t, B), LastMask(m, Foe(t), C))
           /\ b.pieces[t] = {} => LastMask(b, t, B) = {}
  <1>1. t \in Types
    BY TypeFacts DEF SingleTypes, FirstOnly
  <1>2. ASSUME NEW s \in Squares
        PROVE  Turns(Open(b, t, B)[s], Open(m, Foe(t), C)[Turned(s)])
    <2>1. <<s, t>> \in PiecePlaces /\ Turn(<<s, t>>) = <<Turned(s), Foe(t)>> /\ Turned(s) \in Squares
      BY <1>1, TurnedIs DEF PiecePlaces, Turn
    <2>2. Turns(mobility_attack_mask(b, <<s, t>>), mobility_attack_mask(m, Turn(<<s, t>>)))
      BY <2>1, ReachesTurn
    <2>3. Turns(mobility_attack_mask(b, <<s, t>>),
                mobility_attack_mask(m, <<Turned(s), Foe(t)>>))
      BY <2>1, <2>2
    <2>4. Turns(mobility_attack_mask(b, <<s, t>>) \ B,
                mobility_attack_mask(m, <<Turned(s), Foe(t)>>) \ C)
      BY <2>3, TurnsSets
    <2> QED
      BY <2>1, <2>4 DEF Open
  <1>3. Alike(Open(b, t, B), Open(m, Foe(t), C))
    BY <1>2 DEF Alike
  <1>4. /\ Turns(Msb(b.pieces[t]), Msb(m.pieces[Foe(t)])) /\ Msb(b.pieces[t]) = b.pieces[t]
    BY OneEnds
  <1>5. Msb(b.pieces[t]) \subseteq Squares /\ Msb(m.pieces[Foe(t)]) \subseteq Squares
    BY <1>4 DEF Turns
  <1>6. Turns(All(Open(b, t, B), Msb(b.pieces[t])),
              All(Open(m, Foe(t), C), Msb(m.pieces[Foe(t)])))
    BY <1>3, <1>4, AllTurn
  <1>7. \A S \in SUBSET Squares : \A c, u, D :
            All(Open(c, u, D), S) = UNION {mobility_attack_mask(c, <<s, u>>) \ D : s \in S}
    BY DEF All, Open
  <1>8. Turns(LastMask(b, t, B), LastMask(m, Foe(t), C))
    BY <1>5, <1>6, <1>7 DEF LastMask
  <1>9. b.pieces[t] = {} => LastMask(b, t, B) = {}
    BY <1>4 DEF LastMask
  <1> QED
    BY <1>8, <1>9

(* Behind a catapult that stands on no edge column.                        *)
Inland(S) == \A s \in S : ColOf(s) \in 1 .. 6

LEMMA SupportTurns ==
    ASSUME NEW s \in Squares, ColOf(s) \in 1 .. 6
    PROVE  Turns(white_support_mask(s), black_support_mask(Turned(s)))
  <1>1. /\ Turned(s) \in Squares /\ RowOf(Turned(s)) = 7 - RowOf(s)
        /\ ColOf(Turned(s)) = ColOf(s) /\ RowOf(s) \in 0 .. 7
        /\ s = 8 * RowOf(s) + ColOf(s)
        /\ Turned(s) = 8 * RowOf(Turned(s)) + ColOf(Turned(s))
    BY TurnedIs, ByCoordinates
  <1>2. s >= 16 <=> Turned(s) <= 47
    BY <1>1
  <1>3. CASE s < 16
    <2>1. white_support_mask(s) = {} /\ black_support_mask(Turned(s)) = {}
      BY <1>1, <1>2, <1>3 DEF white_support_mask, black_support_mask, Squares
    <2> QED
      BY <2>1 DEF Turns
  <1>4. CASE s >= 16
    <2> DEFINE r == Turned(s)
    <2>1. /\ white_support_mask(s) = {s - 8, s - 7, s - 9}
          /\ black_support_mask(r) = {r + 8, r + 7, r + 9}
      BY <1>2, <1>4 DEF white_support_mask, black_support_mask
    <2>2. {s - 8, s - 7, s - 9} \subseteq Squares /\ {r + 8, r + 7, r + 9} \subseteq Squares
      BY <1>1, <1>2, <1>4 DEF Squares
    <2>3. ASSUME NEW q \in Squares
          PROVE  q \in {s - 8, s - 7, s - 9} <=> Turned(q) \in {r + 8, r + 7, r + 9}
      <3>1. ColOf(s) # 0 /\ ColOf(s) # 7 /\ ColOf(r) # 0 /\ ColOf(r) # 7
            /\ Turned(q) \in Squares /\ r \in Squares
        BY <1>1, TurnedIs
      <3>2. /\ q = s - 8 <=> Off(s, q, -1, 0)
            /\ q = s - 7 <=> Off(s, q, -1, 1)
            /\ q = s - 9 <=> Off(s, q, -1, -1)
        BY <3>1, OffIs
      <3>3. /\ Turned(q) = r + 8 <=> Off(r, Turned(q), 1, 0)
            /\ Turned(q) = r + 9 <=> Off(r, Turned(q), 1, 1)
            /\ Turned(q) = r + 7 <=> Off(r, Turned(q), 1, -1)
        <4> HIDE DEF r
        <4> QED
          BY <3>1, OffIs
      <3>4. \A dc \in {-1, 0, 1} : Off(r, Turned(q), 1, dc) <=> Off(s, q, -1, dc)
        <4>1. -1 + 1 = 0
          OBVIOUS
        <4> QED
          BY <4>1, OffTurned
      <3> HIDE DEF r
      <3> QED
        BY <3>2, <3>3, <3>4
    <2> QED
      BY <2>1, <2>2, <2>3 DEF Turns
  <1>5. s < 16 \/ s >= 16
    BY DEF Squares
  <1> QED
    BY <1>3, <1>4, <1>5

WhiteRear(S) == UNION {white_support_mask(s) : s \in S}
BlackRear(S) == UNION {black_support_mask(s) : s \in S}

LEMMA RearTurns ==
    ASSUME NEW S, NEW T, Turns(S, T), Inland(S)
    PROVE  Turns(WhiteRear(S), BlackRear(T))
  <1> DEFINE A == [s \in Squares |-> IF ColOf(s) \in 1 .. 6 THEN white_support_mask(s) ELSE {}]
             B == [s \in Squares |-> IF ColOf(s) \in 1 .. 6 THEN black_support_mask(s) ELSE {}]
  <1>1. ASSUME NEW s \in Squares PROVE Turns(A[s], B[Turned(s)])
    <2>1. Turned(s) \in Squares /\ ColOf(Turned(s)) = ColOf(s)
      BY TurnedIs
    <2>2. CASE ColOf(s) \in 1 .. 6
      BY <2>1, <2>2, SupportTurns
    <2>3. CASE ColOf(s) \notin 1 .. 6
      <3>1. A[s] = {} /\ B[Turned(s)] = {}
        BY <2>1, <2>3
      <3> QED
        BY <3>1 DEF Turns
    <2> QED
      BY <2>2, <2>3
  <1>2. Alike(A, B)
    <2> HIDE DEF A, B
    <2> QED
      BY <1>1 DEF Alike
  <1>3. /\ \A s \in S : s \in Squares /\ A[s] = white_support_mask(s)
        /\ \A s \in T : s \in Squares /\ B[s] = black_support_mask(s)
    <2>1. \A s \in S : s \in Squares /\ ColOf(s) \in 1 .. 6
      BY TurnsEach DEF Inland
    <2>2. \A s \in T : s \in Squares /\ ColOf(s) \in 1 .. 6
      <3>1. \A s \in T : s \in Squares /\ Turned(s) \in S /\ ColOf(Turned(s)) = ColOf(s)
        BY TurnsEach, TurnedIs
      <3> QED
        BY <2>1, <3>1
    <2> QED
      BY <2>1, <2>2
  <1> HIDE DEF A, B
  <1>4. Turns(All(A, S), All(B, T))
    BY <1>2, AllTurn
  <1>5. All(A, S) = WhiteRear(S) /\ All(B, T) = BlackRear(T)
    BY <1>3 DEF All, WhiteRear, BlackRear
  <1> QED
    BY <1>4, <1>5

(* The knights of a side, two at most.                                     *)
Riders == [s \in Squares |-> gen_knight_mask(s)]
Pair(S) == \A x, y, z \in S : x = y \/ y = z \/ x = z
Close(S) == \E x, y \in S : x # y /\ Riders[x] \cap Riders[y] # {}
Guarded(S) == \E x, y \in S : x # y /\ x \in Riders[y]

LEMMA RidersMutual ==
    ASSUME NEW x \in Squares, NEW y \in Squares
    PROVE  x \in Riders[y] <=> y \in Riders[x]
  <1>1. \A s, q \in Squares : q \in gen_knight_mask(s) <=> Rules!Jump(s, q)
    BY KnightMask
  <1>2. Rules!Row(x) \in Int /\ Rules!Row(y) \in Int /\ Rules!Col(x) \in Int /\ Rules!Col(y) \in Int
    BY ByCoordinates
  <1>3. \A c, d \in Int : Rules!Diff(c, d) = Rules!Diff(d, c)
    BY DEF Rules!Diff
  <1>4. Rules!Jump(x, y) <=> Rules!Jump(y, x)
    BY <1>2, <1>3 DEF Rules!Jump
  <1> QED
    BY <1>1, <1>4 DEF Riders

LEMMA FirstAndLast ==
    ASSUME NEW S, S \subseteq Squares, Pair(S)
    PROVE  LET first == Lsb(S)
               last == Msb(S \ first)
           IN /\ All(Riders, first) \cap All(Riders, last) # {} <=> Close(S)
              /\ first \cap All(Riders, last) # {} <=> Guarded(S)
  <1> DEFINE first == Lsb(S)
             last == Msb(S \ first)
  <1>1. \A x \in S : x \in Squares /\ x \in Int /\ x <= x
    BY DEF Squares
  <1>2. CASE Single(S)
    <2>1. first = S
      BY <1>1, <1>2 DEF Single, Lsb
    <2>2. last = {}
      BY <2>1 DEF Msb
    <2>3. All(Riders, last) = {}
      BY <2>2 DEF All
    <2>4. ~Close(S) /\ ~Guarded(S)
      BY <1>2 DEF Single, Close, Guarded
    <2> QED
      BY <2>3, <2>4
  <1>3. CASE ~Single(S)
    <2>1. PICK u \in S : \E v \in S : u # v
      BY <1>3 DEF Single
    <2>2. PICK v \in S : u # v
      BY <2>1
    <2>3. S = {u, v}
      BY <2>2 DEF Pair
    <2>4. PICK x \in S : \E y \in S : x < y /\ S = {x, y}
      BY <1>1, <2>2, <2>3
    <2>5. PICK y \in S : x < y /\ S = {x, y}
      BY <2>4
    <2>6. first = {x}
      BY <1>1, <2>5 DEF Lsb
    <2>7. S \ first = {y}
      BY <1>1, <2>5, <2>6
    <2>8. last = {y}
      BY <1>1, <2>7 DEF Msb
    <2> HIDE DEF first, last
    <2>9. All(Riders, first) = Riders[x] /\ All(Riders, last) = Riders[y]
      BY <2>6, <2>8 DEF All
    <2>10. x # y /\ x \in Squares /\ y \in Squares
      BY <1>1, <2>5
    <2>11. Close(S) <=> Riders[x] \cap Riders[y] # {}
      BY <2>5, <2>10 DEF Close
    <2>12. Guarded(S) <=> x \in Riders[y]
      BY <2>5, <2>10, RidersMutual DEF Guarded
    <2>13. first \cap All(Riders, last) # {} <=> x \in Riders[y]
      BY <2>6, <2>9
    <2> QED
      BY <2>9, <2>11, <2>12, <2>13 DEF first, last
  <1> QED
    BY <1>2, <1>3

LEMMA RidersAlike ==
    \A s \in Squares : Turns(Riders[s], Riders[Turned(s)])
  <1> SUFFICES ASSUME NEW s \in Squares PROVE Turns(Riders[s], Riders[Turned(s)])
    OBVIOUS
  <1>1. Turned(s) \in Squares /\ WN \in Types
    BY TurnedIs, TypeFacts
  <1>2. Turns(nsp_table[WN][s], nsp_table[BN][Turned(s)])
    BY <1>1, TableTurns, FoeIs
  <1>3. nsp_table[WN][s] = Riders[s] /\ nsp_table[BN][Turned(s)] = Riders[Turned(s)]
    BY <1>1, TableRows DEF Riders
  <1> QED
    BY <1>2, <1>3

LEMMA RidersTurn ==
    ASSUME NEW S, NEW T, Turns(S, T)
    PROVE  (Close(S) <=> Close(T)) /\ (Guarded(S) <=> Guarded(T))
  <1>1. /\ \A x \in S : x \in Squares /\ Turned(x) \in T
        /\ \A x \in T : x \in Squares /\ Turned(x) \in S /\ Turned(Turned(x)) = x
    BY TurnsEach, TurnedIs
  <1>2. \A x, y \in Squares : Turned(x) = Turned(y) <=> x = y
    BY DiffTurns
  <1>3. ASSUME NEW x \in Squares, NEW y \in Squares
        PROVE  /\ x \in Riders[y] <=> Turned(x) \in Riders[Turned(y)]
               /\ Riders[x] \cap Riders[y] = {} <=> Riders[Turned(x)] \cap Riders[Turned(y)] = {}
    <2>1. Turns(Riders[x], Riders[Turned(x)]) /\ Turns(Riders[y], Riders[Turned(y)])
      BY RidersAlike
    <2>2. Turns(Riders[x] \cap Riders[y], Riders[Turned(x)] \cap Riders[Turned(y)])
      BY <2>1, TurnsSets
    <2>3. Riders[x] \cap Riders[y] = {} <=> Riders[Turned(x)] \cap Riders[Turned(y)] = {}
      BY <2>2, TurnsEach
    <2> QED
      BY <2>1, <2>3 DEF Turns
  <1>4. Close(S) => Close(T)
    BY <1>1, <1>2, <1>3 DEF Close
  <1>5. Guarded(S) => Guarded(T)
    BY <1>1, <1>2, <1>3 DEF Guarded
  <1>6. ASSUME NEW x \in T, NEW y \in T, x # y
        PROVE  /\ Turned(x) \in S /\ Turned(y) \in S /\ Turned(x) # Turned(y)
               /\ x \in Riders[y] => Turned(x) \in Riders[Turned(y)]
               /\ Riders[x] \cap Riders[y] # {} => Riders[Turned(x)] \cap Riders[Turned(y)] # {}
    BY <1>1, <1>2, <1>3, <1>6
  <1>7. Close(T) => Close(S)
    BY <1>6 DEF Close
  <1>8. Guarded(T) => Guarded(S)
    BY <1>6 DEF Guarded
  <1> QED
    BY <1>4, <1>5, <1>7, <1>8

LEMMA KnightsAre ==
    ASSUME NEW b, Sound(b), FewPieces(b), NEW t \in {WN, BN}
    PROVE  /\ knight_masks(b, t)[1] \cap knight_masks(b, t)[2] # {} <=> Close(b.pieces[t])
           /\ Lsb(b.pieces[t]) \cap knight_masks(b, t)[2] # {} <=> Guarded(b.pieces[t])
  <1> DEFINE S == b.pieces[t]
             first == Lsb(S)
             last == Msb(S \ first)
  <1>1. S \subseteq Squares /\ Pair(S)
    BY BoardFields, TypeFacts DEF Sound, FewPieces, Pair
  <1>2. first \subseteq Squares /\ last \subseteq Squares
    BY <1>1 DEF Lsb, Msb
  <1>3. \A s \in Squares : nsp_table[t][s] = Riders[s]
    BY TableRows DEF Riders
  <1> HIDE DEF S
  <1>4. /\ All(Riders, first) \cap All(Riders, last) # {} <=> Close(S)
        /\ first \cap All(Riders, last) # {} <=> Guarded(S)
    BY <1>1, FirstAndLast
  <1> HIDE DEF first, last
  <1>5. \A X \in SUBSET Squares : UNION {nsp_table[t][s] : s \in X} = All(Riders, X)
    BY <1>3 DEF All
  <1>6. /\ knight_masks(b, t)[1] = UNION {nsp_table[t][s] : s \in first}
        /\ knight_masks(b, t)[2] = UNION {nsp_table[t][s] : s \in last}
    BY DEF knight_masks, first, last, S
  <1>7. /\ knight_masks(b, t)[1] = All(Riders, first)
        /\ knight_masks(b, t)[2] = All(Riders, last)
    BY <1>2, <1>5, <1>6
  <1> QED
    BY <1>4, <1>7 DEF first, S

LEMMA KnightsTurn ==
    ASSUME NEW b, NEW m, Mirrored(b, m), FewPieces(b)
    PROVE  /\ knight_masks(b, WN)[1] \cap knight_masks(b, WN)[2] # {} <=>
                  knight_masks(m, BN)[1] \cap knight_masks(m, BN)[2] # {}
           /\ Lsb(b.pieces[WN]) \cap knight_masks(b, WN)[2] # {} <=>
                  Lsb(m.pieces[BN]) \cap knight_masks(m, BN)[2] # {}
  <1>1. Sound(b) /\ Sound(m) /\ FewPieces(m) /\ Turns(b.pieces[WN], m.pieces[BN])
    BY FewTurns, MirroredPieces DEF Mirrored
  <1>2. (Close(b.pieces[WN]) <=> Close(m.pieces[BN]))
        /\ (Guarded(b.pieces[WN]) <=> Guarded(m.pieces[BN]))
    BY <1>1, RidersTurn
  <1> QED
    BY <1>1, <1>2, KnightsAre

LEMMA WhiteCoordinationTurns ==
    ASSUME NEW b, NEW m, Mirrored(b, m), FewPieces(b), Inland(b.pieces[WF]),
           b.pieces[WQ] = {} \/ b.pieces[WR] = {}
    PROVE  /\ white_coordination(b) = black_coordination(m)
           /\ white_coordination(b) \in Int
  <1> DEFINE shot == canon_mask(b, WC)
             fire == canon_mask(m, BC)
             behind == WhiteRear(Lsb(b.pieces[WF]))
             rear == BlackRear(Lsb(m.pieces[BF]))
             wq == LastMask(b, WQ, b.white)
             wr == LastMask(b, WR, b.white)
             wb == LastMask(b, WB, b.white)
             bq == LastMask(m, BQ, m.black)
             br == LastMask(m, BR, m.black)
             bb == LastMask(m, BB, m.black)
             wn == knight_masks(b, WN)
             bn == knight_masks(m, BN)
             pairs(q, r, all, some) ==
                 When(q # {} /\ r # {},
                      IF q \cap r \cap all = {} THEN QUEEN_ROOK_COORDINATION * 2
                      ELSE When(q \cap r \cap some # {}, QUEEN_ROOK_COORDINATION))
  <1>1. Turns(b.white, m.black) /\ Turns(b.black, m.white) /\ Turns(b.pieces[WK], m.pieces[BK])
    BY MirroredPieces DEF Mirrored
  <1>2. /\ WF \in SingleTypes /\ WQ \in SingleTypes /\ WR \in SingleTypes /\ WB \in SingleTypes
    BY DEF SingleTypes, FirstOnly
  <1>3. Turns(shot, fire)
    BY CanonsTurn, FoeIs
  <1>4. Turns(behind, rear)
    <2>1. Turns(Lsb(b.pieces[WF]), Lsb(m.pieces[BF])) /\ Lsb(b.pieces[WF]) = b.pieces[WF]
      BY <1>2, OneEnds, FoeIs
    <2> QED
      BY <2>1, RearTurns
  <1>5. /\ Turns(wq, bq) /\ Turns(wr, br) /\ Turns(wb, bb)
        /\ b.pieces[WQ] = {} => wq = {}
        /\ b.pieces[WR] = {} => wr = {}
    BY <1>1, <1>2, LastTurns, FoeIs
  <1>6. /\ wn[1] \cap wn[2] # {} <=> bn[1] \cap bn[2] # {}
        /\ Lsb(b.pieces[WN]) \cap wn[2] # {} <=> Lsb(m.pieces[BN]) \cap bn[2] # {}
    BY KnightsTurn
  <1>7. white_coordination(b) =
            When(shot \cap b.black # {}, Times(BLOCKING_CANON_SHOT, shot \cap b.white))
              + Times(BEHIND_FRIENDLY_CATAPULT, (behind \cap b.white) \ b.pieces[WK])
              + pairs(wq, wr, b.all, b.black)
              + When(wq # {} /\ wb # {} /\ wq \cap wb \cap b.white = {},
                     QUEEN_BISHOP_COORDINATION)
              + When(wn[1] \cap wn[2] # {}, KNIGHT_ATTACK_COORDINATION)
              + When(Lsb(b.pieces[WN]) \cap wn[2] # {}, KNIGHT_DEFEND_COORDINATION)
    BY DEF white_coordination, canon_mask, WhiteRear
  <1>8. black_coordination(m) =
            When(fire \cap m.white # {}, Times(BLOCKING_CANON_SHOT, fire \cap m.black))
              + Times(BEHIND_FRIENDLY_CATAPULT, (rear \cap m.black) \ m.pieces[BK])
              + pairs(bq, br, m.all, m.black)
              + When(bq # {} /\ bb # {} /\ bq \cap bb \cap m.black = {},
                     QUEEN_BISHOP_COORDINATION)
              + When(bn[1] \cap bn[2] # {}, KNIGHT_ATTACK_COORDINATION)
              + When(Lsb(m.pieces[BN]) \cap bn[2] # {}, KNIGHT_DEFEND_COORDINATION)
    BY DEF black_coordination, canon_mask, BlackRear
  <1> HIDE DEF shot, fire, behind, rear, wq, wr, wb, bq, br, bb, wn, bn
  <1>9. (wq = {} <=> bq = {}) /\ (wr = {} <=> br = {}) /\ (wb = {} <=> bb = {})
    BY <1>5, TurnsEach
  <1>10. pairs(wq, wr, b.all, b.black) = 0 /\ pairs(bq, br, m.all, m.black) = 0
    BY <1>5, <1>9 DEF When
  <1> HIDE DEF pairs
  <1>11. /\ shot \cap b.black = {} <=> fire \cap m.white = {}
         /\ wq \cap wb \cap b.white = {} <=> bq \cap bb \cap m.black = {}
    <2>1. Turns(shot \cap b.black, fire \cap m.white) /\ Turns(wq \cap wb, bq \cap bb)
      BY <1>1, <1>3, <1>5, TurnsSets
    <2>2. Turns(wq \cap wb \cap b.white, bq \cap bb \cap m.black)
      BY <1>1, <2>1, TurnsSets
    <2>3. shot \cap b.black = {} <=> fire \cap m.white = {}
      BY <2>1, TurnsEach
    <2>4. wq \cap wb \cap b.white = {} <=> bq \cap bb \cap m.black = {}
      BY <2>2, TurnsEach
    <2> QED
      BY <2>3, <2>4
  <1>12. PICK n1 \in Int : /\ n1 = Times(BLOCKING_CANON_SHOT, shot \cap b.white)
                           /\ n1 = Times(BLOCKING_CANON_SHOT, fire \cap m.black)
    <2>1. Turns(shot \cap b.white, fire \cap m.black)
      BY <1>1, <1>3, TurnsSets
    <2> QED
      BY <2>1, TimesTurns DEF BLOCKING_CANON_SHOT
  <1>13. PICK n2 \in Int :
             /\ n2 = Times(BEHIND_FRIENDLY_CATAPULT, (behind \cap b.white) \ b.pieces[WK])
             /\ n2 = Times(BEHIND_FRIENDLY_CATAPULT, (rear \cap m.black) \ m.pieces[BK])
    <2>1. Turns(behind \cap b.white, rear \cap m.black)
      BY <1>1, <1>4, TurnsSets
    <2>2. Turns((behind \cap b.white) \ b.pieces[WK], (rear \cap m.black) \ m.pieces[BK])
      BY <1>1, <2>1, TurnsSets
    <2> QED
      BY <2>2, TimesTurns DEF BEHIND_FRIENDLY_CATAPULT
  <1> DEFINE c1(S) == When(S # {}, n1)
             c3(q, r, S) == When(q # {} /\ r # {} /\ S = {}, QUEEN_BISHOP_COORDINATION)
             c4(S) == When(S # {}, KNIGHT_ATTACK_COORDINATION)
             c5(S) == When(S # {}, KNIGHT_DEFEND_COORDINATION)
  <1>14. white_coordination(b) =
             c1(shot \cap b.black) + n2 + 0 + c3(wq, wb, wq \cap wb \cap b.white)
               + c4(wn[1] \cap wn[2]) + c5(Lsb(b.pieces[WN]) \cap wn[2])
    BY <1>7, <1>10, <1>12, <1>13
  <1>15. black_coordination(m) =
             c1(fire \cap m.white) + n2 + 0 + c3(bq, bb, bq \cap bb \cap m.black)
               + c4(bn[1] \cap bn[2]) + c5(Lsb(m.pieces[BN]) \cap bn[2])
    BY <1>8, <1>10, <1>12, <1>13
  <1>16. /\ c1(shot \cap b.black) = c1(fire \cap m.white) /\ c1(shot \cap b.black) \in Int
         /\ c3(wq, wb, wq \cap wb \cap b.white) = c3(bq, bb, bq \cap bb \cap m.black)
         /\ c3(wq, wb, wq \cap wb \cap b.white) \in Int
         /\ c4(wn[1] \cap wn[2]) = c4(bn[1] \cap bn[2]) /\ c4(wn[1] \cap wn[2]) \in Int
         /\ c5(Lsb(b.pieces[WN]) \cap wn[2]) = c5(Lsb(m.pieces[BN]) \cap bn[2])
         /\ c5(Lsb(b.pieces[WN]) \cap wn[2]) \in Int
    BY <1>6, <1>9, <1>11 DEF When, QUEEN_BISHOP_COORDINATION, KNIGHT_ATTACK_COORDINATION,
                             KNIGHT_DEFEND_COORDINATION
  <1> HIDE DEF c1, c3, c4, c5
  <1> QED
    BY <1>14, <1>15, <1>16

LEMMA InlandTurns ==
    ASSUME NEW S, NEW T, Turns(S, T), Inland(S)
    PROVE  Inland(T)
  <1>1. \A q \in T : q \in Squares /\ Turned(q) \in S /\ ColOf(Turned(q)) = ColOf(q)
    BY TurnsEach, TurnedIs
  <1> QED
    BY <1>1 DEF Inland

LEMMA MobilityTurns ==
    ASSUME NEW b, NEW m, Mirrored(b, m), FewPieces(b), NEW color \in Sides,
           Inland(b.pieces[WF]), Inland(b.pieces[BF]),
           b.pieces[WQ] = {} \/ b.pieces[WR] = {}, b.pieces[BQ] = {} \/ b.pieces[BR] = {}
    PROVE  mobility_score(m, -color) = mobility_score(b, color)
  <1>1. Mirrored(m, b) /\ FewPieces(m)
    BY MirroredBack, FewTurns
  <1>2. /\ Inland(m.pieces[WF])
        /\ m.pieces[WQ] = {} \/ m.pieces[WR] = {}
    BY MirroredPieces, InlandTurns, TurnsEach
  <1>3. PICK w \in Int : w = WhitesMove(b) /\ w = BlacksMove(m)
    BY WhitesMoveTurn
  <1>4. PICK k \in Int : k = WhitesMove(m) /\ k = BlacksMove(b)
    BY <1>1, WhitesMoveTurn
  <1>5. PICK x \in Int : x = white_coordination(b) /\ x = black_coordination(m)
    BY WhiteCoordinationTurns
  <1>6. PICK y \in Int : y = white_coordination(m) /\ y = black_coordination(b)
    BY <1>1, <1>2, WhiteCoordinationTurns
  <1>7. PICK d \in Int : d = control_difference(b) /\ -d = control_difference(m)
    BY ControlsTurn
  <1>8. PICK i \in Int : /\ i = king_attack(b, BK, WhiteTypes, BlackTypes)
                         /\ i = king_attack(m, WK, BlackTypes, WhiteTypes)
    BY KingAttackTurns, SidesAgainst, FoeIs
  <1>9. PICK j \in Int : /\ j = king_attack(b, WK, BlackTypes, WhiteTypes)
                         /\ j = king_attack(m, BK, WhiteTypes, BlackTypes)
    BY KingAttackTurns, SidesAgainst, FoeIs
  <1>10. \A c, z : mobility_score(c, z) =
             (WhitesMove(c) + white_coordination(c)
                + CONTROLLING_SQUARES * control_difference(c)
                + king_attack(c, BK, WhiteTypes, BlackTypes)
                - BlacksMove(c) - black_coordination(c)
                + CONTROLLING_SQUARES * control_difference(c)
                - king_attack(c, WK, BlackTypes, WhiteTypes)) * z
    BY DEF mobility_score, WhitesMove, BlacksMove, MapThenSumSet, MapThenFoldSet
  <1>11. mobility_score(b, color) = (w + x + 2 * d + i - k - y + 2 * d - j) * color
    BY <1>3, <1>4, <1>5, <1>6, <1>7, <1>8, <1>9, <1>10 DEF CONTROLLING_SQUARES
  <1>12. mobility_score(m, -color) = (k + y + 2 * (-d) + j - w - x + 2 * (-d) - i) * (-color)
    BY <1>3, <1>4, <1>5, <1>6, <1>7, <1>8, <1>9, <1>10 DEF CONTROLLING_SQUARES
  <1>13. CASE color = 1
    BY <1>11, <1>12, <1>13
  <1>14. CASE color = -1
    BY <1>11, <1>12, <1>14
  <1> QED
    BY <1>13, <1>14 DEF Sides

(* A sound board with few pieces is worth to each side what its mirror is  *)
(* worth to the other.                                                     *)
LEMMA MirrorIsWorth ==
    ASSUME NEW b, Sound(b), FewPieces(b), NEW color \in Sides
    PROVE  LET m == Mirror(b)
           IN /\ material_score(m, -color) = material_score(b, color)
              /\ peon_structure_score(m, -color) = peon_structure_score(b, color)
              /\ king_safety_score(m, -color) = king_safety_score(b, color)
              /\ piece_safety_score(m, -color) = piece_safety_score(b, color)
              /\ (/\ Inland(b.pieces[WF]) /\ Inland(b.pieces[BF])
                  /\ b.pieces[WQ] = {} \/ b.pieces[WR] = {}
                  /\ b.pieces[BQ] = {} \/ b.pieces[BR] = {}) =>
                     mobility_score(m, -color) = mobility_score(b, color)
  <1>1. Mirrored(b, Mirror(b))
    BY MirrorIs
  <1> QED
    BY <1>1, MaterialTurns, PeonsTurn, KingsTurn, SafetiesTurn, MobilityTurns

-----------------------------------------------------------------------------
(* No turn makes a piece of another type than the zombie: every other one  *)
(* stood somewhere before, each somewhere else.                            *)
Origins(b, x, t, o) ==
    /\ \A y \in x.pieces[t] : o[y] \in b.pieces[t]
    /\ \A y, z \in x.pieces[t] : o[y] = o[z] => y = z

LEMMA EachCameFrom ==
    ASSUME NEW b, Good(b), NEW x \in gen_chezz_boards(b), NEW t \in Types, KindOf(t) # "zombie"
    PROVE  \E o \in [Squares -> Squares] : Origins(b, x, t, o)
  <1>1. Sound(b) /\ Sound(x) /\ (IsMove(b, At(x)) \/ IsFling(b, At(x)) \/ IsShot(b, At(x)))
    BY ListedIs DEF Good
  <1>2. /\ \A y \in x.pieces[t] : y \in Squares /\ At(x)[y] = Piece(t)
        /\ Friendly(b) \subseteq Squares /\ Piece(t) # Rules!Empty
    BY <1>1, AtPiece, MoverFacts, PieceFacts
  <1>3. \A y \in Squares : At(b)[y] = Piece(t) => y \in b.pieces[t]
    BY <1>1, AtIs
  <1>4. \A a : At(x) = After(b, a) => \A y \in x.pieces[t] : a[y] = Piece(t)
    BY <1>1, <1>2, AfterIs
  <1>5. CASE IsMove(b, At(x))
    <2>1. PICK s \in Friendly(b), r \in Squares :
              At(x) = After(b, Rules!AfterMove(At(b), s, r))
      BY <1>5 DEF IsMove
    <2> DEFINE o == [y \in Squares |-> IF y = r THEN s ELSE y]
    <2>2. s \in Squares /\ o \in [Squares -> Squares]
      BY <1>2
    <2>3. \A y \in x.pieces[t] : y # s /\ At(b)[o[y]] = Piece(t) /\ o[y] \in Squares
      BY <1>2, <1>4, <2>1, <2>2, AfterMoveIs
    <2>4. Origins(b, x, t, o)
      BY <1>2, <1>3, <2>3 DEF Origins
    <2> QED
      BY <2>2, <2>4
  <1>6. CASE IsFling(b, At(x))
    <2>1. PICK f \in Friendly(b), r \in Squares :
              At(x) = After(b, Rules!AfterFling(At(b), f, r))
      BY <1>6 DEF IsFling
    <2> DEFINE o == [y \in Squares |-> IF y = r THEN f ELSE y]
    <2>2. f \in Squares /\ o \in [Squares -> Squares]
      BY <1>2
    <2>3. \A y \in x.pieces[t] : y # f /\ At(b)[o[y]] = Piece(t) /\ o[y] \in Squares
      BY <1>2, <1>4, <2>1, <2>2, AfterFlingIs
    <2>4. Origins(b, x, t, o)
      BY <1>2, <1>3, <2>3 DEF Origins
    <2> QED
      BY <2>2, <2>4
  <1>7. CASE IsShot(b, At(x))
    <2>1. PICK k \in Friendly(b), e \in Rules!Corners :
              At(x) = After(b, Rules!AfterShot(At(b), k, e))
      BY <1>7 DEF IsShot
    <2> DEFINE o == [y \in Squares |-> y]
    <2>2. \A y \in x.pieces[t] : At(b)[y] = Piece(t) /\ y \in Squares
      BY <1>2, <1>4, <2>1, AfterShotIs
    <2>3. Origins(b, x, t, o)
      BY <1>3, <2>2 DEF Origins
    <2> QED
      BY <2>3
  <1> QED
    BY <1>1, <1>5, <1>6, <1>7

LEMMA FewStay ==
    ASSUME NEW b, Good(b), FewPieces(b), NEW x \in gen_chezz_boards(b)
    PROVE  FewPieces(x)
  <1>1. \A t \in SingleTypes \cup {WN, BN} : t \in Types /\ KindOf(t) # "zombie"
    BY TypeFacts, Kinds DEF SingleTypes, FirstOnly
  <1>2. ASSUME NEW t \in SingleTypes PROVE \A y, z \in x.pieces[t] : y = z
    <2>1. PICK o \in [Squares -> Squares] : Origins(b, x, t, o)
      BY <1>1, EachCameFrom
    <2>2. \A y, z \in b.pieces[t] : y = z
      BY DEF FewPieces, OneOfEach, SingleTypes
    <2> QED
      BY <2>1, <2>2 DEF Origins
  <1>3. ASSUME NEW t \in {WN, BN}
        PROVE  \A y, z, w \in x.pieces[t] : y = z \/ z = w \/ y = w
    <2>1. PICK o \in [Squares -> Squares] : Origins(b, x, t, o)
      BY <1>1, EachCameFrom
    <2>2. \A y, z, w \in b.pieces[t] : y = z \/ z = w \/ y = w
      BY DEF FewPieces
    <2> SUFFICES ASSUME NEW y \in x.pieces[t], NEW z \in x.pieces[t], NEW w \in x.pieces[t]
                 PROVE  y = z \/ z = w \/ y = w
      OBVIOUS
    <2>3. o[y] = o[z] \/ o[z] = o[w] \/ o[y] = o[w]
      BY <2>1, <2>2 DEF Origins
    <2> QED
      BY <2>1, <2>3 DEF Origins
  <1> QED
    BY <1>2, <1>3 DEF FewPieces, OneOfEach, SingleTypes

(* The invariant for the fairness of the evaluation.                       *)
AlwaysFew == BoardGood /\ FewPieces(board)

LEMMA AlwaysFewInvariant ==
    (\A b \in StartBoards : FewPieces(b)) => (Spec => []AlwaysFew)
  <1>1. (\A b \in StartBoards : FewPieces(b)) /\ Init => AlwaysFew
    BY InitGood DEF Init, AlwaysFew
  <1>2. AlwaysFew /\ [Next]_board => AlwaysFew'
    <2> SUFFICES ASSUME AlwaysFew, [Next]_board PROVE FewPieces(board')
      BY NextGood DEF AlwaysFew
    <2>1. CASE Next
      BY <2>1, NextIsListed, FewStay DEF AlwaysFew, BoardGood, Good
    <2>2. CASE UNCHANGED board
      BY <2>2 DEF AlwaysFew
    <2> QED
      BY <2>1, <2>2
  <1> QED
    BY <1>1, <1>2, PTL DEF Spec

(***************************************************************************)
(* The evaluation (negamax/eval/) favours no colour: every heuristic,      *)
(* written once for White and once for Black, gives a board and its mirror *)
(* opposite worth, in every game that starts with at most one piece of     *)
(* each type but peons, zombies and two knights, as the program's do       *)
(* (chezz/runtime/bootstrap.py).  Mobility needs what MirrorFair says.     *)
(***************************************************************************)
THEOREM EvaluationIsFair ==
    (\A b \in StartBoards : FewPieces(b)) => (Spec => []MirrorFair)
  <1>1. AlwaysFew => MirrorFair
    <2> SUFFICES ASSUME AlwaysFew PROVE MirrorFair
      OBVIOUS
    <2>1. Sound(board) /\ FewPieces(board)
      BY DEF AlwaysFew, BoardGood, Good
    <2>2. /\ Inland(board.pieces[WF]) <=> \A s \in board.pieces[WF] : ColOf(s) \in 1 .. 6
          /\ Inland(board.pieces[BF]) <=> \A s \in board.pieces[BF] : ColOf(s) \in 1 .. 6
      BY DEF Inland
    <2> QED
      BY <2>1, <2>2, MirrorIsWorth DEF MirrorFair
  <1> QED
    BY <1>1, AlwaysFewInvariant, PTL
=============================================================================
