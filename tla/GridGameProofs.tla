--------------------------- MODULE GridGameProofs ---------------------------
(***************************************************************************)
(* Proofs about the rules of the grid games, for boards of every size and  *)
(* lines of every length: looking through the cell of the last move finds  *)
(* every line, a disc comes to rest, and until the board is full there is  *)
(* a move.                                                                 *)
(***************************************************************************)
EXTENDS GridGame, FiniteSetTheorems, FunctionTheorems, WellFoundedInduction, TLAPS

Kinds == {"tictactoe", "connect-four", "gomoku"}

Games ==
  [Kind : Kinds, Rows : Nat \ {0}, Columns : Nat \ {0}, Connect : Nat \ {0},
   ExactConnect : BOOLEAN, Misere : BOOLEAN]

\* A game of its kind in which a line fits onto the board both ways.
Playable(kind, g) ==
  /\ g \in Games
  /\ g.Kind = kind
  /\ g.Connect <= g.Rows /\ g.Connect <= g.Columns

\* What else a mode may change.
LEMMA StaysPlayable ==
  ASSUME NEW kind \in Kinds, NEW g, Playable(kind, g)
  PROVE  /\ Playable(kind, [g EXCEPT !.Misere = TRUE])
         /\ Playable(kind, [g EXCEPT !.ExactConnect = TRUE])
BY DEF Playable, Games

\* Every mode of the program is playable, and so is one that is not known.
THEOREM ModesArePlayable ==
  \A kind \in Kinds, mode \in STRING : Playable(kind, NewGame(kind, mode))
<1> TAKE kind \in Kinds, mode \in STRING
<1>1. CASE kind = "tictactoe"
  <2>1. Playable(kind, Grid(kind, 4, 4, 3))
    BY DEF Playable, Grid, Games
  <2>2. Playable(kind, Grid(kind, 3, 3, 3))
    BY DEF Playable, Grid, Games
  <2>3. Playable(kind, [Grid(kind, 3, 3, 3) EXCEPT !.Misere = TRUE])
    BY <2>2, StaysPlayable
  <2> QED BY <1>1, <2>1, <2>2, <2>3 DEF NewGame
<1>2. CASE kind = "connect-four"
  <2>1. Playable(kind, Grid(kind, 5, 6, 4))
    BY DEF Playable, Grid, Games
  <2>2. Playable(kind, Grid(kind, 7, 8, 5))
    BY DEF Playable, Grid, Games
  <2>3. Playable(kind, Grid(kind, 6, 7, 4))
    BY DEF Playable, Grid, Games
  <2> QED BY <1>2, <2>1, <2>2, <2>3 DEF NewGame
<1>3. CASE kind = "gomoku"
  <2>1. Playable(kind, Grid(kind, 13, 13, 5))
    BY DEF Playable, Grid, Games
  <2>2. Playable(kind, Grid(kind, 15, 15, 5))
    BY DEF Playable, Grid, Games
  <2>3. Playable(kind, [Grid(kind, 15, 15, 5) EXCEPT !.ExactConnect = TRUE])
    BY <2>2, StaysPlayable
  <2> QED BY <1>3, <2>1, <2>2, <2>3 DEF NewGame
<1> QED BY <1>1, <1>2, <1>3 DEF Kinds

-----------------------------------------------------------------------------
(* Numbers. *)

\* Quotient and remainder.
LEMMA Division ==
  ASSUME NEW n \in Nat, NEW c \in Nat \ {0}
  PROVE  /\ n \div c \in Nat
         /\ n % c \in 0 .. c - 1
         /\ n = c * (n \div c) + (n % c)
OBVIOUS

\* One more time c is c more.
LEMMA Multiples ==
  ASSUME NEW a \in Nat, NEW b \in Nat, NEW c \in Nat \ {0}, a < b
  PROVE  c * a + c <= c * b
OBVIOUS

\* Quotient and remainder of a number that is given by both.
LEMMA DivisionOf ==
  ASSUME NEW a \in Nat, NEW c \in Nat \ {0}, NEW r \in 0 .. c - 1
  PROVE  /\ (c * a + r) \div c = a
         /\ (c * a + r) % c = r
<1> DEFINE n == c * a + r
           b == n \div c
           s == n % c
<1>1. n \in Nat
  OBVIOUS
<1>2. b \in Nat /\ s \in 0 .. c - 1 /\ c * a + r = c * b + s
  BY <1>1, Division
<1>3. c * a \in Int /\ c * b \in Int
  BY <1>2
<1> HIDE DEF n, b, s
<1>4. ~ (a < b)
  BY <1>2, <1>3, Multiples
<1>5. ~ (b < a)
  BY <1>2, <1>3, Multiples
<1>6. a = b
  BY <1>2, <1>4, <1>5
<1>7. r = s
  BY <1>2, <1>3, <1>6
<1> QED BY <1>6, <1>7 DEF n, b, s

\* Every set of numbers has a least one.
LEMMA Least ==
  ASSUME NEW T \in SUBSET Nat, T # {}
  PROVE  \E x \in T : \A y \in T : x <= y
<1> DEFINE R == OpToRel(<, Nat)
<1>1. IsWellFoundedOn(R, Nat)
  BY NatLessThanWellFounded
<1>2. PICK x \in T : \A y \in T : <<y, x>> \notin R
  <2> HIDE DEF R
  <2> QED BY <1>1, WFMin
<1>3. ASSUME NEW y \in T PROVE x <= y
  <2>1. <<y, x>> \notin R
    BY <1>2
  <2> QED BY <2>1 DEF OpToRel
<1> QED BY <1>2, <1>3

-----------------------------------------------------------------------------
(* Positions. *)

\* A position is its row and its column.
LEMMA RowAndColumn ==
  ASSUME NEW g \in Games, NEW p \in Positions(g)
  PROVE  /\ Row(g, p) \in 0 .. g.Rows - 1
         /\ Column(g, p) \in 0 .. g.Columns - 1
         /\ p = g.Columns * Row(g, p) + Column(g, p)
<1>1. p \in Nat /\ g.Columns \in Nat \ {0} /\ g.Rows \in Nat \ {0}
  BY DEF Positions, Games
<1>2. /\ Row(g, p) \in Nat
      /\ Column(g, p) \in 0 .. g.Columns - 1
      /\ p = g.Columns * Row(g, p) + Column(g, p)
  BY <1>1, Division DEF Row, Column
<1>3. ASSUME g.Rows <= Row(g, p)
      PROVE  FALSE
  <2>1. g.Columns * g.Rows <= g.Columns * Row(g, p)
    BY <1>1, <1>2, <1>3, Multiples
  <2>2. p <= g.Columns * g.Rows - 1
    BY <1>1 DEF Positions
  <2>3. g.Columns * g.Rows \in Int /\ g.Columns * Row(g, p) \in Int
    BY <1>1, <1>2
  <2> QED BY <1>1, <1>2, <2>1, <2>2, <2>3
<1> QED BY <1>1, <1>2, <1>3

\* And a row and a column are a position.
LEMMA PositionAt ==
  ASSUME NEW g \in Games, NEW r \in 0 .. g.Rows - 1, NEW c \in 0 .. g.Columns - 1
  PROVE  LET p == g.Columns * r + c
         IN  p \in Positions(g) /\ Row(g, p) = r /\ Column(g, p) = c
<1>1. g.Columns \in Nat \ {0} /\ g.Rows \in Nat \ {0} /\ r \in Nat /\ r < g.Rows
  BY DEF Games
<1>2. g.Columns * r + g.Columns <= g.Columns * g.Rows
  BY <1>1, Multiples
<1>3. g.Columns * r \in Nat /\ g.Columns * g.Rows = g.Rows * g.Columns
  BY <1>1
<1>4. g.Columns * r + c \in 0 .. g.Rows * g.Columns - 1
  BY <1>1, <1>2, <1>3
<1> QED BY <1>1, <1>4, DivisionOf DEF Positions, Row, Column

-----------------------------------------------------------------------------
(* Directions. *)

\* The eight directions, one by one.
LEMMA EightWays ==
  ASSUME NEW d \in Compass
  PROVE  /\ d[1] \in {-1, 0, 1} /\ d[2] \in {-1, 0, 1}
         /\ d[1] # 0 \/ d[2] # 0
         /\ d = <<d[1], d[2]>>
BY DEF Compass

\* Going on in a direction changes the row and the column evenly.
LEMMA StepsAway ==
  ASSUME NEW g \in Games, NEW p \in Positions(g), NEW d \in Compass, NEW n \in Int,
         Reaches(g, p, d, n)
  PROVE  /\ Step(g, p, d, n) \in Positions(g)
         /\ Row(g, Step(g, p, d, n)) = Row(g, p) + n * d[1]
         /\ Column(g, Step(g, p, d, n)) = Column(g, p) + n * d[2]
<1> DEFINE r == Row(g, p) + n * d[1]
           c == Column(g, p) + n * d[2]
<1>1. r \in 0 .. g.Rows - 1 /\ c \in 0 .. g.Columns - 1
  BY DEF Reaches
<1>2. Step(g, p, d, n) = g.Columns * r + c
  <2>1. /\ Row(g, p) \in Int /\ Column(g, p) \in Int /\ g.Columns \in Int
        /\ p = g.Columns * Row(g, p) + Column(g, p)
    BY RowAndColumn DEF Games
  <2>2. CASE d[1] = 0
    BY <2>1, <2>2, EightWays DEF Step
  <2>3. CASE d[1] = 1
    BY <2>1, <2>3, EightWays DEF Step
  <2>4. CASE d[1] = -1
    BY <2>1, <2>4, EightWays DEF Step
  <2> QED BY <2>2, <2>3, <2>4, EightWays
<1> HIDE DEF r, c
<1>3. /\ Step(g, p, d, n) \in Positions(g)
      /\ Row(g, Step(g, p, d, n)) = r
      /\ Column(g, Step(g, p, d, n)) = c
  BY <1>1, <1>2, PositionAt
<1> QED BY <1>3 DEF r, c

\* Steps from a cell that is n steps away are so many more steps.
LEMMA StepsAdd ==
  ASSUME NEW g \in Games, NEW p \in Positions(g), NEW d \in Compass, NEW n \in Int,
         Reaches(g, p, d, n), NEW k \in Int
  PROVE  /\ Reaches(g, Step(g, p, d, n), d, k) <=> Reaches(g, p, d, n + k)
         /\ Step(g, Step(g, p, d, n), d, k) = Step(g, p, d, n + k)
<1>1. /\ Row(g, p) \in Int /\ Column(g, p) \in Int /\ g.Columns \in Int
      /\ p \in Int
  BY RowAndColumn DEF Games, Positions
<1>2. d[1] \in Int /\ d[2] \in Int
  BY EightWays
<1>3. (n + k) * d[1] = n * d[1] + k * d[1] /\ (n + k) * d[2] = n * d[2] + k * d[2]
  BY EightWays
<1>4. Reaches(g, Step(g, p, d, n), d, k) <=> Reaches(g, p, d, n + k)
  <2>1. /\ Row(g, p) + n * d[1] + k * d[1] = Row(g, p) + (n + k) * d[1]
        /\ Column(g, p) + n * d[2] + k * d[2] = Column(g, p) + (n + k) * d[2]
    BY <1>1, EightWays
  <2>2. /\ Row(g, Step(g, p, d, n)) + k * d[1] = Row(g, p) + (n + k) * d[1]
        /\ Column(g, Step(g, p, d, n)) + k * d[2] = Column(g, p) + (n + k) * d[2]
    BY <2>1, StepsAway
  <2> QED BY <2>2 DEF Reaches
<1>5. Step(g, Step(g, p, d, n), d, k) = Step(g, p, d, n + k)
  <2> DEFINE w == d[1] * g.Columns + d[2]
  <2>1. w \in Int
    BY <1>1, <1>2
  <2> HIDE DEF w
  <2>2. p + n * w + k * w = p + (n + k) * w
    BY <1>1, <2>1
  <2> QED BY <2>2 DEF Step, w
<1> QED BY <1>4, <1>5

\* Turning round.
LEMMA TurningRound ==
  ASSUME NEW g \in Games, NEW p \in Positions(g), NEW d \in Compass, NEW n \in Int
  PROVE  /\ Back(d) \in Compass
         /\ Reaches(g, p, Back(d), n) <=> Reaches(g, p, d, -n)
         /\ Step(g, p, Back(d), n) = Step(g, p, d, -n)
<1>1. /\ Row(g, p) \in Int /\ Column(g, p) \in Int /\ g.Columns \in Int
      /\ p \in Int
  BY RowAndColumn DEF Games, Positions
<1>2. d[1] \in {-1, 0, 1} /\ d[2] \in {-1, 0, 1} /\ (d[1] # 0 \/ d[2] # 0)
  BY EightWays
<1>3. Back(d)[1] = -d[1] /\ Back(d)[2] = -d[2]
  BY DEF Back
<1>4. Back(d) \in Compass
  BY <1>2 DEF Back, Compass
<1>5. n * (-d[1]) = (-n) * d[1] /\ n * (-d[2]) = (-n) * d[2]
  BY <1>2
<1>6. Reaches(g, p, Back(d), n) <=> Reaches(g, p, d, -n)
  BY <1>3, <1>5 DEF Reaches
<1>7. Step(g, p, Back(d), n) = Step(g, p, d, -n)
  <2> DEFINE w == d[1] * g.Columns + d[2]
  <2>1. w \in Int /\ (-d[1]) * g.Columns + (-d[2]) = -w
    BY <1>1, <1>2
  <2> HIDE DEF w
  <2>2. n * (-w) = (-n) * w
    BY <2>1
  <2>3. Step(g, p, Back(d), n) = p + n * (-w)
    BY <1>3, <2>1 DEF Step
  <2>4. Step(g, p, d, -n) = p + (-n) * w
    BY DEF Step, w
  <2> QED BY <2>2, <2>3, <2>4
<1> QED BY <1>4, <1>6, <1>7

\* The board has no holes, ...
LEMMA StepsBetween ==
  ASSUME NEW g \in Games, NEW p \in Positions(g), NEW d \in Compass,
         NEW i \in Int, NEW j \in Int, NEW n \in i .. j,
         Reaches(g, p, d, i), Reaches(g, p, d, j)
  PROVE  Reaches(g, p, d, n)
<1>1. /\ Row(g, p) \in Int /\ Column(g, p) \in Int
      /\ g.Columns \in Int /\ g.Rows \in Int
  BY RowAndColumn DEF Games
<1>2. d[1] \in {-1, 0, 1} /\ d[2] \in {-1, 0, 1}
  BY EightWays
<1> QED BY <1>1, <1>2 DEF Reaches

\* ... includes the cell itself, and ends.
LEMMA StepsEnd ==
  ASSUME NEW g \in Games, NEW p \in Positions(g), NEW d \in Compass
  PROVE  /\ Reaches(g, p, d, 0) /\ Step(g, p, d, 0) = p
         /\ ~ Reaches(g, p, d, g.Rows + g.Columns + 1)
<1>1. /\ Row(g, p) \in 0 .. g.Rows - 1 /\ Column(g, p) \in 0 .. g.Columns - 1
      /\ g.Columns \in Nat /\ g.Rows \in Nat /\ p \in Int
  BY RowAndColumn DEF Games, Positions
<1>2. d[1] \in {-1, 0, 1} /\ d[2] \in {-1, 0, 1} /\ (d[1] # 0 \/ d[2] # 0)
  BY EightWays
<1>3. Reaches(g, p, d, 0)
  BY <1>1, <1>2 DEF Reaches
<1>4. Step(g, p, d, 0) = p
  <2>1. d[1] * g.Columns + d[2] \in Int
    BY <1>1, <1>2
  <2> QED BY <1>1, <2>1 DEF Step
<1>5. ~ Reaches(g, p, d, g.Rows + g.Columns + 1)
  BY <1>1, <1>2 DEF Reaches
<1> QED BY <1>3, <1>4, <1>5

-----------------------------------------------------------------------------
(* Counting. *)

\* The cell itself carries its mark, and marks are counted alike from each end.
LEMMA MarkedHere ==
  ASSUME NEW g \in Games, NEW board, NEW p \in Positions(g), NEW d \in Compass,
         NEW mark
  PROVE  Marked(g, board, p, d, 0, mark) <=> board[p] = mark
BY StepsEnd DEF Marked

LEMMA MarkedAdd ==
  ASSUME NEW g \in Games, NEW board, NEW p \in Positions(g), NEW d \in Compass,
         NEW mark, NEW n \in Int, Reaches(g, p, d, n), NEW k \in Int
  PROVE  Marked(g, board, Step(g, p, d, n), d, k, mark) <=> Marked(g, board, p, d, n + k, mark)
BY StepsAdd DEF Marked

LEMMA MarkedBack ==
  ASSUME NEW g \in Games, NEW board, NEW p \in Positions(g), NEW d \in Compass,
         NEW mark, NEW n \in Int
  PROVE  Marked(g, board, p, Back(d), n, mark) <=> Marked(g, board, p, d, -n, mark)
BY TurningRound DEF Marked

\* What the count is: as many cells in a row are marked, and the next one is not.
LEMMA CountsWell ==
  ASSUME NEW g \in Games, NEW board, NEW p \in Positions(g), NEW d \in Compass,
         NEW mark
  PROVE  LET c == CountDirection(g, board, p, d, mark)
         IN  /\ c \in Nat
             /\ \A k \in 1..c : Marked(g, board, p, d, k, mark)
             /\ ~ Marked(g, board, p, d, c + 1, mark)
<1> DEFINE M(k) == Marked(g, board, p, d, k, mark)
           T == {n \in Nat : ~ M(n + 1)}
           last == g.Rows + g.Columns
<1>1. last \in Nat
  BY DEF Games
<1>2. ~ M(last + 1)
  BY StepsEnd DEF Marked
<1> HIDE DEF M, last
<1>3. last \in T
  BY <1>1, <1>2
<1>4. PICK n \in T : \A m \in T : n <= m
  <2> T \in SUBSET Nat /\ T # {}
    BY <1>3
  <2> HIDE DEF T
  <2> QED BY Least
<1>5. n \in 0..last
  BY <1>1, <1>3, <1>4
<1>6. ASSUME NEW k \in 1..n
      PROVE  M(k)
  <2>1. k - 1 \in Nat /\ k - 1 < n /\ (k - 1) + 1 = k
    BY <1>4
  <2>2. k - 1 \notin T
    BY <1>4, <2>1
  <2> QED BY <2>1, <2>2
<1>7. /\ \A k \in 1..n : M(k)
      /\ ~ M(n + 1)
  BY <1>4, <1>6
<1> DEFINE c == CountDirection(g, board, p, d, mark)
<1>8. /\ c \in 0..last
      /\ \A k \in 1..c : M(k)
      /\ ~ M(c + 1)
  <2>1. c = CHOOSE m \in 0..last : (\A k \in 1..m : M(k)) /\ ~ M(m + 1)
    BY DEF CountDirection, M, last
  <2> HIDE DEF c
  <2> QED BY <1>5, <1>7, <2>1
<1> HIDE DEF c
<1>9. /\ c \in Nat
      /\ \A k \in 1..c : M(k)
      /\ ~ M(c + 1)
  BY <1>1, <1>8
<1> QED BY <1>9 DEF c, M

-----------------------------------------------------------------------------
(* Lines. *)

\* The two counts of Winner, as a stretch of marked cells with an unmarked end on
\* either side.
LEMMA Stretch ==
  ASSUME NEW g \in Games, NEW board, NEW p \in Positions(g), NEW d \in Compass,
         NEW mark, board[p] = mark
  PROVE  LET a == CountDirection(g, board, p, d, mark)
             b == CountDirection(g, board, p, Back(d), mark)
         IN  /\ a \in Nat /\ b \in Nat
             /\ \A k \in -b .. a : Marked(g, board, p, d, k, mark)
             /\ ~ Marked(g, board, p, d, a + 1, mark)
             /\ ~ Marked(g, board, p, d, -b - 1, mark)
<1> DEFINE a == CountDirection(g, board, p, d, mark)
           b == CountDirection(g, board, p, Back(d), mark)
           M(k) == Marked(g, board, p, d, k, mark)
           N(k) == Marked(g, board, p, Back(d), k, mark)
<1>1. /\ a \in Nat
      /\ \A k \in 1..a : M(k)
      /\ ~ M(a + 1)
  BY CountsWell
<1>2. /\ b \in Nat
      /\ \A k \in 1..b : N(k)
      /\ ~ N(b + 1)
  BY CountsWell, TurningRound
<1>3. M(0)
  BY MarkedHere
<1>4. \A k \in Int : N(k) <=> M(-k)
  BY MarkedBack
<1> HIDE DEF a, b, M, N
<1>5. ASSUME NEW k \in -b .. a
      PROVE  M(k)
  <2>1. CASE k > 0
    BY <1>1, <1>2, <2>1
  <2>2. CASE k < 0
    <3>1. -k \in 1..b /\ -(-k) = k
      BY <1>1, <1>2, <2>2
    <3> QED BY <1>2, <1>4, <3>1
  <2>3. CASE k = 0
    BY <1>3, <2>3
  <2> QED BY <1>1, <1>2, <2>1, <2>2, <2>3
<1>6. ~ M(-b - 1)
  <2>1. b + 1 \in Int /\ -(b + 1) = -b - 1
    BY <1>2
  <2> QED BY <1>2, <1>4, <2>1
<1>7. /\ a \in Nat /\ b \in Nat
      /\ \A k \in -b .. a : M(k)
      /\ ~ M(a + 1)
      /\ ~ M(-b - 1)
  BY <1>1, <1>2, <1>5, <1>6
<1> QED BY <1>7 DEF a, b, M

\* A line is marked from end to end.
LEMMA LineIsMarked ==
  ASSUME NEW g \in Games, NEW board, NEW p \in Positions(g), NEW d \in Compass,
         NEW mark, LineFrom(g, board, p, d, mark), NEW n \in 0 .. g.Connect - 1
  PROVE  Marked(g, board, p, d, n, mark)
<1>1. Reaches(g, p, d, 0) /\ Reaches(g, p, d, g.Connect - 1)
  BY StepsEnd DEF LineFrom
<1>2. g.Connect - 1 \in Int /\ n \in Int
  BY DEF Games
<1>3. Reaches(g, p, d, n)
  BY <1>1, <1>2, StepsBetween
<1> QED BY <1>3 DEF LineFrom, Marked

\* A line through a cell is seen from there, ...
LEMMA LineIsSeen ==
  ASSUME NEW g \in Games, NEW board, NEW p \in Positions(g), NEW mark, board[p] = mark,
         NEW q \in Positions(g), NEW d \in Compass, LineFrom(g, board, q, d, mark),
         NEW k \in 0 .. g.Connect - 1, Step(g, q, d, k) = p
  PROVE  LET n == 1 + CountDirection(g, board, p, d, mark)
                    + CountDirection(g, board, p, Back(d), mark)
         IN  n >= g.Connect /\ (g.ExactConnect => n = g.Connect)
<1> DEFINE a == CountDirection(g, board, p, d, mark)
           b == CountDirection(g, board, p, Back(d), mark)
           C == g.Connect
           M(n) == Marked(g, board, p, d, n, mark)
           L(n) == Marked(g, board, q, d, n, mark)
<1>1. /\ a \in Nat /\ b \in Nat
      /\ \A n \in -b .. a : M(n)
      /\ ~ M(a + 1)
      /\ ~ M(-b - 1)
  BY Stretch
<1>2. \A n \in 0 .. C - 1 : L(n)
  BY LineIsMarked
<1>3. C \in Nat \ {0} /\ k \in Int
  BY DEF Games
<1>4. \A n \in Int : M(n) <=> L(k + n)
  <2>1. Reaches(g, q, d, k)
    BY <1>2 DEF Marked
  <2> QED BY <1>3, <2>1, MarkedAdd
<1>5. g.ExactConnect => ~ L(-1) /\ ~ L(C)
  BY DEF LineFrom
<1> HIDE DEF a, b, C, M, L
<1>6. \A n \in -k .. C - 1 - k : M(n)
  <2> SUFFICES ASSUME NEW n \in -k .. C - 1 - k PROVE M(n)
    OBVIOUS
  <2>1. n \in Int /\ k + n \in 0 .. C - 1
    BY <1>3
  <2> QED BY <1>2, <1>4, <2>1
<1>7. a + 1 > C - 1 - k /\ -b - 1 < -k
  <2>1. k <= C - 1 /\ 0 <= k
    BY <1>3 DEF C
  <2>2. ~ (a + 1 \in -k .. C - 1 - k) /\ ~ (-b - 1 \in -k .. C - 1 - k)
    BY <1>1, <1>6
  <2> QED BY <1>1, <1>3, <2>1, <2>2
<1>8. 1 + a + b >= C
  BY <1>1, <1>3, <1>7
<1>9. ASSUME g.ExactConnect
      PROVE  1 + a + b = C
  <2>1. ~ M(-k - 1) /\ ~ M(C - k)
    <3>1. -k - 1 \in Int /\ C - k \in Int /\ k + (-k - 1) = -1 /\ k + (C - k) = C
      BY <1>3
    <3> QED BY <1>4, <1>5, <1>9, <3>1
  <2>2. k <= C - 1 /\ 0 <= k
    BY <1>3 DEF C
  <2>3. ~ (-k - 1 \in -b .. a) /\ ~ (C - k \in -b .. a)
    BY <1>1, <2>1
  <2> QED BY <1>1, <1>3, <1>8, <2>2, <2>3
<1> QED BY <1>8, <1>9 DEF a, b, C

\* ... and what is seen is a line through the cell.
LEMMA SeenIsLine ==
  ASSUME NEW g \in Games, NEW board, NEW p \in Positions(g), NEW mark, board[p] = mark,
         NEW d \in Compass,
         LET n == 1 + CountDirection(g, board, p, d, mark)
                    + CountDirection(g, board, p, Back(d), mark)
         IN  n >= g.Connect /\ (g.ExactConnect => n = g.Connect)
  PROVE  \E q \in Positions(g), k \in 0 .. g.Connect - 1 :
           Step(g, q, d, k) = p /\ LineFrom(g, board, q, d, mark)
<1> DEFINE a == CountDirection(g, board, p, d, mark)
           b == CountDirection(g, board, p, Back(d), mark)
           C == g.Connect
           m == IF b <= C - 1 THEN b ELSE C - 1
           q == Step(g, p, d, -m)
           M(n) == Marked(g, board, p, d, n, mark)
           L(n) == Marked(g, board, q, d, n, mark)
<1>1. /\ a \in Nat /\ b \in Nat
      /\ \A n \in -b .. a : M(n)
      /\ ~ M(a + 1)
      /\ ~ M(-b - 1)
  BY Stretch
<1>2. 1 + a + b >= C /\ (g.ExactConnect => 1 + a + b = C)
  OBVIOUS
<1>3. C \in Nat \ {0}
  BY DEF Games
<1>4. /\ m \in 0 .. C - 1 /\ m <= b /\ C - 1 - m <= a /\ -m \in Int
      /\ g.ExactConnect => m = b
  <2> HIDE DEF a, b, C
  <2> QED BY <1>1, <1>2, <1>3
<1>5. Reaches(g, p, d, -m)
  <2> HIDE DEF a, b, C, m
  <2>1. -m \in -b .. a
    BY <1>1, <1>3, <1>4
  <2>2. M(-m)
    BY <1>1, <2>1
  <2> QED BY <2>2 DEF Marked
<1>6. q \in Positions(g) /\ Step(g, q, d, m) = p
  <2> HIDE DEF m
  <2>1. q \in Positions(g)
    BY <1>4, <1>5, StepsAway
  <2>2. m \in Int /\ -m + m = 0
    BY <1>3, <1>4
  <2>3. Step(g, q, d, m) = Step(g, p, d, -m + m)
    BY <1>4, <1>5, <2>2, StepsAdd
  <2>4. Step(g, p, d, 0) = p
    BY StepsEnd
  <2> QED BY <2>1, <2>2, <2>3, <2>4
<1>7. \A n \in Int : L(n) <=> M(-m + n)
  <2> HIDE DEF m
  <2> QED BY <1>4, <1>5, MarkedAdd
<1>8. /\ \A n \in 0 .. C - 1 : L(n)
      /\ g.ExactConnect => ~ L(-1) /\ ~ L(C)
  <2> HIDE DEF a, b, C, m, q, M, L
  <2>1. ASSUME NEW n \in 0 .. C - 1
        PROVE  L(n)
    <3>1. n \in Int /\ -m + n \in -b .. a
      BY <1>1, <1>3, <1>4
    <3> QED BY <1>1, <1>7, <3>1
  <2>2. ASSUME g.ExactConnect
        PROVE  ~ L(-1) /\ ~ L(C)
    <3>1. -1 \in Int /\ C \in Int /\ -m + (-1) = -b - 1 /\ -m + C = a + 1
      BY <1>1, <1>2, <1>3, <1>4, <2>2
    <3> QED BY <1>1, <1>7, <3>1
  <2> QED BY <2>1, <2>2
<1>9. LineFrom(g, board, q, d, mark)
  <2> HIDE DEF q
  <2>1. C - 1 \in 0 .. C - 1
    BY <1>3
  <2>2. Reaches(g, q, d, C - 1)
    BY <1>8, <2>1 DEF Marked
  <2>3. \A n \in 0 .. C - 1 : board[Step(g, q, d, n)] = mark
    BY <1>8 DEF Marked
  <2> QED BY <1>8, <2>2, <2>3 DEF LineFrom
<1> HIDE DEF q, m
<1> QED BY <1>4, <1>6, <1>9

\* Of two opposite directions Winner looks along one.
LEMMA HalfTheCompass ==
  ASSUME NEW d \in Compass
  PROVE  /\ Back(d) \in Compass /\ Back(Back(d)) = d
         /\ d \in Directions \/ Back(d) \in Directions
         /\ Directions \subseteq Compass
<1>1. d[1] \in {-1, 0, 1} /\ d[2] \in {-1, 0, 1} /\ (d[1] # 0 \/ d[2] # 0) /\ d = <<d[1], d[2]>>
  BY EightWays
<1>2. Directions \subseteq Compass
  BY DEF Directions, Compass
<1>3. Back(d) \in Compass /\ Back(Back(d)) = d
  BY <1>1 DEF Back, Compass
<1>4. d \in Directions \/ Back(d) \in Directions
  BY <1>1 DEF Directions, Back
<1> QED BY <1>2, <1>3, <1>4

\* A line of the cell's mark runs through it.
Crossed(g, board, p) ==
  \E q \in Positions(g), d \in Compass, k \in 0 .. g.Connect - 1 :
    Step(g, q, d, k) = p /\ LineFrom(g, board, q, d, board[p])

\* Winner finds exactly the lines through the cell it is asked about.
THEOREM WinnerSeesLines ==
  ASSUME NEW g \in Games, NEW board, NEW p \in Positions(g), board[p] \in Marks
  PROVE  Winner(g, board, p) = IF Crossed(g, board, p) THEN board[p] ELSE Empty
<1> DEFINE mark == board[p]
           Seen(d) ==
             LET n == 1 + CountDirection(g, board, p, d, mark)
                        + CountDirection(g, board, p, Back(d), mark)
             IN  n >= g.Connect /\ (g.ExactConnect => n = g.Connect)
<1>1. Winner(g, board, p) = IF \E d \in Directions : Seen(d) THEN mark ELSE Empty
  <2>1. mark # Empty
    BY DEF Marks, Empty
  <2> QED BY <2>1 DEF Winner
<1>2. ASSUME NEW d \in Directions, Seen(d)
      PROVE  Crossed(g, board, p)
  <2>1. d \in Compass
    BY HalfTheCompass DEF Directions, Compass
  <2>2. PICK q \in Positions(g), k \in 0 .. g.Connect - 1 :
          Step(g, q, d, k) = p /\ LineFrom(g, board, q, d, mark)
    BY <1>2, <2>1, SeenIsLine
  <2> QED BY <2>1, <2>2 DEF Crossed
<1>3. ASSUME Crossed(g, board, p)
      PROVE  \E d \in Directions : Seen(d)
  <2>1. PICK q \in Positions(g), d \in Compass, k \in 0 .. g.Connect - 1 :
          Step(g, q, d, k) = p /\ LineFrom(g, board, q, d, mark)
    BY <1>3 DEF Crossed
  <2>2. Seen(d)
    BY <2>1, LineIsSeen
  <2>3. CASE d \in Directions
    BY <2>2, <2>3
  <2>4. CASE Back(d) \in Directions
    <3>1. Back(Back(d)) = d /\ Back(d) \in Compass
      BY HalfTheCompass
    <3>2. /\ CountDirection(g, board, p, d, mark) \in Nat
          /\ CountDirection(g, board, p, Back(d), mark) \in Nat
      BY <3>1, CountsWell
    <3>3. Seen(Back(d))
      BY <2>2, <3>1, <3>2
    <3> QED BY <2>4, <3>3
  <2> QED BY <2>3, <2>4, HalfTheCompass
<1> HIDE DEF Seen
<1> QED BY <1>1, <1>2, <1>3

-----------------------------------------------------------------------------
(* Moves. *)

\* Nobody has a line yet.
Undecided(g, board) == \A mark \in Marks : ~ HasLine(g, board, mark)

EmptyBoard(g) == [p \in Positions(g) |-> Empty]

\* A move changes the one cell it is about.
LEMMA PlacedAt ==
  ASSUME NEW g \in Games, NEW board \in Boards(g), NEW p \in Positions(g), NEW mark \in Marks
  PROVE  /\ Placed(board, p, mark) \in Boards(g)
         /\ Placed(board, p, mark)[p] = mark
         /\ \A q \in Positions(g) \ {p} : Placed(board, p, mark)[q] = board[q]
BY DEF Placed, Boards

\* Marks of a line that the new one is not part of were there before, and what
\* does not lengthen it now did not.
LEMMA LineWasThere ==
  ASSUME NEW g \in Games, NEW board \in Boards(g), NEW p \in Positions(g), board[p] = Empty,
         NEW mark \in Marks, NEW other \in Marks,
         NEW q \in Positions(g), NEW d \in Compass,
         LineFrom(g, Placed(board, p, mark), q, d, other),
         \A k \in 0 .. g.Connect - 1 : Step(g, q, d, k) # p
  PROVE  LineFrom(g, board, q, d, other)
<1> DEFINE after == Placed(board, p, mark)
<1>1. /\ after[p] = mark
      /\ \A r \in Positions(g) \ {p} : after[r] = board[r]
  BY PlacedAt
<1>2. \A k \in 0 .. g.Connect - 1 :
        Step(g, q, d, k) \in Positions(g) /\ after[Step(g, q, d, k)] = other
  <2> SUFFICES ASSUME NEW k \in 0 .. g.Connect - 1
               PROVE  Step(g, q, d, k) \in Positions(g) /\ after[Step(g, q, d, k)] = other
    OBVIOUS
  <2>1. Reaches(g, q, d, k) /\ after[Step(g, q, d, k)] = other
    BY LineIsMarked DEF Marked
  <2>2. k \in Int
    BY DEF Games
  <2> QED BY <2>1, <2>2, StepsAway
<1> HIDE DEF after
<1>3. \A k \in 0 .. g.Connect - 1 : board[Step(g, q, d, k)] = other
  BY <1>1, <1>2
<1>4. ASSUME NEW k \in Int, ~ Marked(g, after, q, d, k, other)
      PROVE  ~ Marked(g, board, q, d, k, other)
  <2>1. CASE Reaches(g, q, d, k)
    <3>1. Step(g, q, d, k) \in Positions(g)
      BY <2>1, StepsAway
    <3>2. board[p] # other
      BY DEF Marks, Empty
    <3> QED BY <1>1, <1>4, <2>1, <3>1, <3>2 DEF Marked
  <2>2. CASE ~ Reaches(g, q, d, k)
    BY <2>2 DEF Marked
  <2> QED BY <2>1, <2>2
<1>5. -1 \in Int /\ g.Connect \in Int
  BY DEF Games
<1>6. /\ Reaches(g, q, d, g.Connect - 1)
      /\ g.ExactConnect => ~ Marked(g, after, q, d, -1, other)
                             /\ ~ Marked(g, after, q, d, g.Connect, other)
  BY DEF LineFrom, after
<1> QED BY <1>3, <1>4, <1>5, <1>6 DEF LineFrom

\* A round starts undecided.
THEOREM EmptyIsUndecided ==
  ASSUME NEW g \in Games
  PROVE  EmptyBoard(g) \in Boards(g) /\ Undecided(g, EmptyBoard(g))
<1> DEFINE board == EmptyBoard(g)
<1>1. board \in Boards(g) /\ \A p \in Positions(g) : board[p] = Empty
  BY DEF EmptyBoard, Boards
<1> HIDE DEF board
<1>2. ASSUME NEW mark \in Marks, NEW p \in Positions(g), NEW d \in Compass,
             LineFrom(g, board, p, d, mark)
      PROVE  FALSE
  <2>1. 0 \in 0 .. g.Connect - 1
    BY DEF Games
  <2>2. board[Step(g, p, d, 0)] = mark
    BY <1>2, <2>1 DEF LineFrom
  <2>3. board[p] = mark
    BY <2>2, StepsEnd
  <2> QED BY <1>1, <2>3 DEF Marks, Empty
<1> QED BY <1>1, <1>2 DEF board, Undecided, HasLine

\* Looking at the cell of the last move is enough: in a round that was undecided
\* so far the move wins if there is a line of the mover's now and not otherwise,
\* nobody else has got one by it, and if it does not win the round is still undecided.
THEOREM LastMoveDecides ==
  ASSUME NEW g \in Games, NEW board \in Boards(g), Undecided(g, board),
         NEW input, NEW p \in Target(g, board, input), NEW mark \in Marks
  PROVE  LET after == Placed(board, p, mark)
         IN  /\ Winner(g, after, p) = IF HasLine(g, after, mark) THEN mark ELSE Empty
             /\ \A other \in Marks \ {mark} : ~ HasLine(g, after, other)
             /\ Winner(g, after, p) = Empty => Undecided(g, after)
<1> DEFINE after == Placed(board, p, mark)
<1>1. p \in Positions(g) /\ board[p] = Empty
  BY DEF Target
<1>2. after \in Boards(g) /\ after[p] = mark
  BY <1>1, PlacedAt
<1>3. ASSUME NEW other \in Marks, NEW q \in Positions(g), NEW d \in Compass,
             LineFrom(g, after, q, d, other)
      PROVE  \E k \in 0 .. g.Connect - 1 : Step(g, q, d, k) = p
  <2>1. ~ LineFrom(g, board, q, d, other)
    BY DEF Undecided, HasLine
  <2> QED BY <1>1, <1>3, <2>1, LineWasThere
<1> HIDE DEF after
<1>4. ASSUME NEW other \in Marks \ {mark}, HasLine(g, after, other)
      PROVE  FALSE
  <2>1. PICK q \in Positions(g), d \in Compass : LineFrom(g, after, q, d, other)
    BY <1>4 DEF HasLine
  <2>2. PICK k \in 0 .. g.Connect - 1 : Step(g, q, d, k) = p
    BY <1>3, <2>1
  <2>3. after[Step(g, q, d, k)] = other
    BY <2>1 DEF LineFrom
  <2> QED BY <1>2, <2>2, <2>3
<1>5. HasLine(g, after, mark) <=> Crossed(g, after, p)
  <2>1. ASSUME HasLine(g, after, mark)
        PROVE  Crossed(g, after, p)
    <3>1. PICK q \in Positions(g), d \in Compass : LineFrom(g, after, q, d, mark)
      BY <2>1 DEF HasLine
    <3>2. PICK k \in 0 .. g.Connect - 1 : Step(g, q, d, k) = p
      BY <1>3, <3>1
    <3> QED BY <1>2, <3>1, <3>2 DEF Crossed
  <2>2. ASSUME Crossed(g, after, p)
        PROVE  HasLine(g, after, mark)
    BY <1>2, <2>2 DEF Crossed, HasLine
  <2> QED BY <2>1, <2>2
<1>6. Winner(g, after, p) = IF HasLine(g, after, mark) THEN mark ELSE Empty
  BY <1>1, <1>2, <1>5, WinnerSeesLines
<1>7. ASSUME Winner(g, after, p) = Empty
      PROVE  Undecided(g, after)
  <2>1. mark # Empty
    BY DEF Marks, Empty
  <2>2. ~ HasLine(g, after, mark)
    BY <1>6, <1>7, <2>1
  <2> QED BY <1>4, <2>2 DEF Undecided
<1> QED BY <1>4, <1>6, <1>7 DEF after

-----------------------------------------------------------------------------
(* Discs. *)

\* Positions of one column are a whole number of rows apart.
LEMMA NextInColumn ==
  ASSUME NEW g \in Games, NEW p \in Positions(g), NEW q \in Positions(g),
         Column(g, p) = Column(g, q), p < q
  PROVE  /\ q - g.Columns \in Positions(g)
         /\ p <= q - g.Columns /\ q - g.Columns < q
         /\ Column(g, q - g.Columns) = Column(g, q)
<1> DEFINE C == g.Columns
           r == Row(g, p)
           s == Row(g, q)
           c == Column(g, p)
<1>1. /\ r \in Nat /\ s \in Nat /\ s < g.Rows /\ c \in 0 .. C - 1 /\ C \in Nat \ {0}
      /\ p = C * r + c /\ q = C * s + c /\ g.Rows \in Nat
  BY RowAndColumn DEF Games
<1>2. r < s
  <2> HIDE DEF C, r, s, c
  <2>1. C * r \in Int /\ C * s \in Int
    BY <1>1
  <2>2. ASSUME s < r PROVE FALSE
    <3>1. C * s + C <= C * r
      BY <1>1, <2>2, Multiples
    <3> QED BY <1>1, <2>1, <3>1
  <2>3. r # s
    BY <1>1, <2>1
  <2> QED BY <1>1, <2>2, <2>3
<1>3. q - C = C * (s - 1) + c /\ s - 1 \in 0 .. g.Rows - 1
  <2> HIDE DEF r, s, c
  <2> QED BY <1>1, <1>2
<1>4. q - C \in Positions(g) /\ Column(g, q - C) = c
  <2> HIDE DEF r, s
  <2> QED BY <1>1, <1>3, PositionAt
<1>5. p <= q - C
  <2>1. C * r + C <= C * s
    <3> HIDE DEF C, r, s, c
    <3> QED BY <1>1, <1>2, Multiples
  <2>2. C * r \in Int /\ C * s \in Int
    <3> HIDE DEF r, s, c
    <3> QED BY <1>1
  <2> HIDE DEF C, r, s, c
  <2> QED BY <1>1, <2>1, <2>2
<1>6. q - C < q
  <2> q \in Int
    BY DEF Positions
  <2> QED BY <1>1
<1> QED BY <1>4, <1>5, <1>6

\* The next row of the same column.
LEMMA NextRow ==
  ASSUME NEW g \in Games, NEW p \in Positions(g), NEW q \in Positions(g), q = p + g.Columns
  PROVE  Column(g, q) = Column(g, p) /\ p < q
<1> DEFINE r == Row(g, p)
           c == Column(g, p)
<1>1. r \in Nat /\ c \in 0 .. g.Columns - 1 /\ g.Columns \in Nat \ {0} /\ p = g.Columns * r + c
  BY RowAndColumn DEF Games
<1> HIDE DEF r, c
<1>2. q = g.Columns * (r + 1) + c /\ r + 1 \in Nat
  <2> DEFINE C == g.Columns
  <2>1. C \in Nat /\ q = C * r + c + C
    BY <1>1
  <2> HIDE DEF C
  <2>2. C * (r + 1) = C * r + C
    BY <1>1, <2>1
  <2>3. C * r \in Int
    BY <1>1, <2>1
  <2>4. q = C * (r + 1) + c
    BY <1>1, <2>1, <2>2, <2>3
  <2> QED BY <1>1, <2>4 DEF C
<1>3. q % g.Columns = c
  BY <1>1, <1>2, DivisionOf
<1>4. p < q
  BY <1>1
<1> QED BY <1>3, <1>4 DEF Column, c

\* A disc that is dropped comes to rest, in the one place of its column where it can.
THEOREM DiscsComeToRest ==
  ASSUME NEW g \in Games, g.Kind = "connect-four", NEW board \in Boards(g), Resting(g, board),
         NEW input, NEW mark \in Marks
  PROVE  Target(g, board, input) =
           {p \in Positions(g) :
              /\ Column(g, p) = input /\ board[p] = Empty
              /\ Resting(g, Placed(board, p, mark))}
<1> DEFINE after(p) == Placed(board, p, mark)
<1>1. ASSUME NEW p \in Target(g, board, input)
      PROVE  /\ p \in Positions(g) /\ Column(g, p) = input /\ board[p] = Empty
             /\ Resting(g, after(p))
  <2>1. /\ p \in Positions(g) /\ Column(g, p) = input /\ board[p] = Empty
        /\ \A q \in Positions(g) : Column(g, q) = input /\ q > p => board[q] # Empty
    BY DEF Target
  <2>2. /\ after(p)[p] = mark
        /\ \A q \in Positions(g) \ {p} : after(p)[q] = board[q]
    BY <2>1, PlacedAt
  <2>3. mark # Empty
    BY DEF Marks, Empty
  <2> HIDE DEF after
  <2>4. ASSUME NEW x \in Positions(g), NEW y \in Positions(g), y = x + g.Columns,
               after(p)[x] # Empty
        PROVE  after(p)[y] # Empty
    <3>1. CASE y = p
      BY <2>2, <2>3, <3>1
    <3>2. CASE y # p /\ x = p
      <4>1. Column(g, y) = input /\ y > p
        <5>1. Column(g, y) = Column(g, x) /\ x < y
          BY <2>4, NextRow
        <5>2. x \in Int /\ y \in Int
          BY DEF Positions
        <5> QED BY <2>1, <3>2, <5>1, <5>2
      <4> QED BY <2>1, <2>2, <3>2, <4>1
    <3>3. CASE y # p /\ x # p
      <4>1. board[x] # Empty
        BY <2>2, <2>4, <3>3
      <4>2. board[y] # Empty
        BY <2>4, <4>1 DEF Resting
      <4> QED BY <2>2, <3>3, <4>2
    <3> QED BY <3>1, <3>2, <3>3
  <2> QED BY <2>1, <2>4 DEF Resting
<1>2. ASSUME NEW p \in Positions(g), Column(g, p) = input, board[p] = Empty,
             Resting(g, after(p))
      PROVE  p \in Target(g, board, input)
  <2>1. /\ after(p)[p] = mark
        /\ \A q \in Positions(g) \ {p} : after(p)[q] = board[q]
    BY PlacedAt
  <2>2. mark # Empty
    BY DEF Marks, Empty
  <2> DEFINE T == {q \in Positions(g) : Column(g, q) = input /\ q > p /\ board[q] = Empty}
  <2>3. ASSUME T # {}
        PROVE  FALSE
    <3>1. PICK q \in T : \A x \in T : q <= x
      <4>1. T \in SUBSET Nat
        BY DEF Positions
      <4> HIDE DEF T
      <4> QED BY <2>3, <4>1, Least
    <3>2. q \in Positions(g) /\ Column(g, q) = input /\ p < q /\ board[q] = Empty
      BY <3>1 DEF Positions
    <3> DEFINE x == q - g.Columns
    <3>3. /\ x \in Positions(g) /\ p <= x /\ x < q
          /\ Column(g, x) = input
      BY <1>2, <3>2, NextInColumn
    <3>4. q = x + g.Columns
      BY <3>2 DEF Positions, Games
    <3> HIDE DEF x, after
    <3>5. after(p)[x] # Empty
      <4>1. CASE x = p
        BY <2>1, <2>2, <4>1
      <4>2. CASE x # p
        <5>1. x > p /\ ~ (q <= x)
          BY <3>2, <3>3, <4>2 DEF Positions
        <5>2. x \notin T
          BY <3>1, <5>1
        <5>3. board[x] # Empty
          BY <3>3, <5>1, <5>2
        <5> QED BY <2>1, <3>3, <4>2, <5>3
      <4> QED BY <4>1, <4>2
    <3>6. after(p)[q] # Empty
      BY <1>2, <3>2, <3>3, <3>4, <3>5 DEF Resting
    <3>7. q # p
      BY <3>2 DEF Positions
    <3> QED BY <2>1, <3>2, <3>6, <3>7
  <2>4. \A q \in Positions(g) : Column(g, q) = input /\ q > p => board[q] # Empty
    BY <2>3
  <2> QED BY <1>2, <2>4 DEF Target
<1> HIDE DEF after
<1>3. Target(g, board, input) =
        {p \in Positions(g) : Column(g, p) = input /\ board[p] = Empty /\ Resting(g, after(p))}
  <2>1. Target(g, board, input) \subseteq Positions(g)
    BY DEF Target
  <2> QED BY <1>1, <1>2, <2>1
<1> QED BY <1>3 DEF after

-----------------------------------------------------------------------------
(* The number of moves. *)

MarksOf(g, board, mark) == {p \in Positions(g) : board[p] = mark}

\* What Moves counts: the marks on the board.
Moves(g, board) == Cardinality({p \in Positions(g) : board[p] # Empty})

LEMMA CellsOfBoard ==
  ASSUME NEW g \in Games
  PROVE  /\ IsFiniteSet(Positions(g))
         /\ Cardinality(Positions(g)) = g.Rows * g.Columns
         /\ g.Rows * g.Columns \in Nat \ {0}
<1> DEFINE n == g.Rows * g.Columns
<1>1. n \in Nat \ {0}
  BY DEF Games
<1>2. Positions(g) = 0 .. n - 1
  BY DEF Positions
<1> HIDE DEF n
<1>3. IsFiniteSet(0 .. n - 1) /\ Cardinality(0 .. n - 1) = n
  BY <1>1, FS_Interval
<1> QED BY <1>1, <1>2, <1>3 DEF n

\* A draw is a full board.
THEOREM DrawIsFull ==
  ASSUME NEW g \in Games, NEW board \in Boards(g)
  PROVE  /\ IsDraw(g, board) <=> \A p \in Positions(g) : board[p] # Empty
         /\ IsDraw(g, board) <=> Moves(g, board) = g.Rows * g.Columns
         /\ Moves(g, board) \in 0 .. g.Rows * g.Columns
<1> DEFINE filled == {p \in Positions(g) : board[p] # Empty}
           n == g.Rows * g.Columns
<1>1. IsFiniteSet(Positions(g)) /\ Cardinality(Positions(g)) = n /\ n \in Nat
  BY CellsOfBoard
<1>2. filled \in SUBSET Positions(g)
  OBVIOUS
<1> HIDE DEF filled, n
<1>3. /\ IsFiniteSet(filled) /\ Cardinality(filled) <= n
      /\ n = Cardinality(filled) => Positions(g) = filled
  BY <1>1, <1>2, FS_Subset
<1>4. Cardinality(filled) \in Nat
  BY <1>3, FS_CardinalityType
<1>5. Cardinality(filled) = n <=> Positions(g) = filled
  BY <1>1, <1>3
<1>6. Positions(g) = filled <=> \A p \in Positions(g) : board[p] # Empty
  BY DEF filled
<1> QED BY <1>1, <1>3, <1>4, <1>5, <1>6 DEF IsDraw, Moves, filled, n

\* A move is made on one cell, adds one mark, and one of the mover's.
LEMMA MoveCounts ==
  ASSUME NEW g \in Games, NEW board \in Boards(g), NEW p \in Positions(g), board[p] = Empty,
         NEW mark \in Marks
  PROVE  LET after == Placed(board, p, mark)
         IN  /\ Moves(g, after) = Moves(g, board) + 1
             /\ \A m \in Marks :
                  Cardinality(MarksOf(g, after, m)) =
                    Cardinality(MarksOf(g, board, m)) + (IF m = mark THEN 1 ELSE 0)
<1> DEFINE after == Placed(board, p, mark)
           filled == {q \in Positions(g) : board[q] # Empty}
           filledAfter == {q \in Positions(g) : after[q] # Empty}
<1>1. /\ after[p] = mark
      /\ \A q \in Positions(g) \ {p} : after[q] = board[q]
  BY PlacedAt
<1>2. mark # Empty /\ Empty \notin Marks
  BY DEF Marks, Empty
<1>3. IsFiniteSet(Positions(g))
  BY CellsOfBoard
<1> HIDE DEF after
<1>4. filledAfter = filled \cup {p} /\ p \notin filled /\ IsFiniteSet(filled)
  <2>1. filled \in SUBSET Positions(g)
    OBVIOUS
  <2>2. IsFiniteSet(filled)
    <3> HIDE DEF filled
    <3> QED BY <1>3, <2>1, FS_Subset
  <2> QED BY <1>1, <1>2, <2>2
<1>5. Cardinality(filledAfter) = Cardinality(filled) + 1
  <2> HIDE DEF filled, filledAfter
  <2> QED BY <1>4, FS_AddElement
<1>6. ASSUME NEW m \in Marks
      PROVE  Cardinality(MarksOf(g, after, m)) =
               Cardinality(MarksOf(g, board, m)) + (IF m = mark THEN 1 ELSE 0)
  <2> DEFINE s == MarksOf(g, board, m)
             t == MarksOf(g, after, m)
  <2>1. /\ IsFiniteSet(s) /\ p \notin s
    <3>1. s \in SUBSET Positions(g) /\ p \notin s
      BY <1>2 DEF MarksOf
    <3> HIDE DEF s
    <3> QED BY <1>3, <3>1, FS_Subset
  <2>2. Cardinality(s) \in Nat
    BY <2>1, FS_CardinalityType
  <2>3. CASE m = mark
    <3>1. t = s \cup {p}
      BY <1>1, <2>3 DEF MarksOf
    <3> HIDE DEF s, t
    <3>2. Cardinality(t) = Cardinality(s) + 1
      BY <2>1, <3>1, FS_AddElement
    <3> QED BY <2>3, <3>2 DEF s, t
  <2>4. CASE m # mark
    <3>1. t = s
      BY <1>1, <1>2, <2>4 DEF MarksOf
    <3> HIDE DEF s, t
    <3>2. Cardinality(t) = Cardinality(s) + 0
      BY <2>2, <3>1
    <3> QED BY <2>4, <3>2 DEF s, t
  <2> QED BY <2>3, <2>4
<1> QED BY <1>5, <1>6 DEF Moves, after

\* The marks on the board are those of the two sides.
LEMMA MarksAddUp ==
  ASSUME NEW g \in Games, NEW board \in Boards(g)
  PROVE  /\ \A m \in Marks : Cardinality(MarksOf(g, board, m)) \in Nat
         /\ Moves(g, board) =
              Cardinality(MarksOf(g, board, "one")) + Cardinality(MarksOf(g, board, "two"))
<1> DEFINE s == MarksOf(g, board, "one")
           t == MarksOf(g, board, "two")
           filled == {p \in Positions(g) : board[p] # Empty}
<1>1. IsFiniteSet(Positions(g))
  BY CellsOfBoard
<1>2. s \in SUBSET Positions(g) /\ t \in SUBSET Positions(g) /\ s \cap t = {} /\ filled = s \cup t
  BY DEF MarksOf, Boards, Marks, Empty
<1> HIDE DEF s, t, filled
<1>3. IsFiniteSet(s) /\ IsFiniteSet(t)
  BY <1>1, <1>2, FS_Subset
<1>4. Cardinality(s) \in Nat /\ Cardinality(t) \in Nat
  BY <1>3, FS_CardinalityType
<1>5. Cardinality(s \cup t) = Cardinality(s) + Cardinality(t) - Cardinality(s \cap t)
  BY <1>3, FS_Union
<1>6. Cardinality(s \cap t) = 0
  BY <1>2, FS_EmptySet
<1>7. Moves(g, board) = Cardinality(filled)
  BY DEF Moves, filled
<1>8. Moves(g, board) = Cardinality(s) + Cardinality(t)
  BY <1>2, <1>4, <1>5, <1>6, <1>7
<1> QED BY <1>4, <1>8 DEF s, t, Marks

\* A line takes Connect marks.
LEMMA LinesTakeMarks ==
  ASSUME NEW g \in Games, NEW board \in Boards(g), NEW mark \in Marks, HasLine(g, board, mark)
  PROVE  Cardinality(MarksOf(g, board, mark)) >= g.Connect
<1>1. PICK q \in Positions(g), d \in Compass : LineFrom(g, board, q, d, mark)
  BY DEF HasLine
<1> DEFINE S == 0 .. g.Connect - 1
           T == MarksOf(g, board, mark)
           f == [k \in S |-> Step(g, q, d, k)]
<1>2. \A k \in S : Marked(g, board, q, d, k, mark) /\ k \in Int
  BY <1>1, LineIsMarked DEF Games
<1>3. \A k \in S : Step(g, q, d, k) \in T
  BY <1>2, StepsAway DEF Marked, MarksOf
<1>4. ASSUME NEW j \in S, NEW k \in S, Step(g, q, d, j) = Step(g, q, d, k)
      PROVE  j = k
  <2>1. /\ Row(g, q) + j * d[1] = Row(g, q) + k * d[1]
        /\ Column(g, q) + j * d[2] = Column(g, q) + k * d[2]
    BY <1>2, <1>4, StepsAway DEF Marked
  <2>2. Row(g, q) \in Int /\ Column(g, q) \in Int /\ j \in Int /\ k \in Int
    BY <1>2, RowAndColumn
  <2>3. d[1] \in {-1, 0, 1} /\ d[2] \in {-1, 0, 1} /\ (d[1] # 0 \/ d[2] # 0)
    BY EightWays
  <2> QED BY <2>1, <2>2, <2>3
<1>5. f \in Injection(S, T)
  <2>1. f \in [S -> T]
    BY <1>3
  <2>2. \A j, k \in S : f[j] = f[k] => j = k
    BY <1>4
  <2> QED BY <2>1, <2>2, Fun_IsInj
<1>6. T \in SUBSET Positions(g) /\ IsFiniteSet(Positions(g))
  BY CellsOfBoard DEF MarksOf
<1>7. Cardinality(S) = g.Connect
  <2>1. g.Connect \in Nat \ {0}
    BY DEF Games
  <2> QED BY <2>1, FS_Interval
<1> HIDE DEF S, T, f
<1>8. IsFiniteSet(T)
  BY <1>6, FS_Subset
<1>9. Cardinality(S) <= Cardinality(T)
  BY <1>5, <1>8, FS_Injection
<1>10. Cardinality(T) \in Nat /\ g.Connect \in Nat
  BY <1>8, FS_CardinalityType DEF Games
<1> QED BY <1>7, <1>9, <1>10 DEF T

-----------------------------------------------------------------------------
(* Rounds. *)

OtherMark(mark) == IF mark = "one" THEN "two" ELSE "one"

\* The sides have moved in turn, and mover is next.
Alternates(g, board, mover) ==
  LET mine   == Cardinality(MarksOf(g, board, mover))
      theirs == Cardinality(MarksOf(g, board, OtherMark(mover)))
  IN  theirs = mine \/ theirs = mine + 1

\* What holds of the board while a round is played and mover is next.
Playing(g, board, mover) ==
  /\ board \in Boards(g)
  /\ Undecided(g, board)
  /\ Alternates(g, board, mover)
  /\ g.Kind = "connect-four" => Resting(g, board)
  /\ Moves(g, board) < g.Rows * g.Columns

\* A move takes one cell, wherever it is asked for.
LEMMA OneCell ==
  ASSUME NEW g \in Games, NEW board, NEW input,
         NEW p \in Target(g, board, input), NEW q \in Target(g, board, input)
  PROVE  p = q
<1>1. p \in Positions(g) /\ q \in Positions(g) /\ p \in Int /\ q \in Int
  BY DEF Target, Positions
<1>2. CASE g.Kind = "connect-four"
  <2>1. ~ (p < q) /\ ~ (q < p)
    BY <1>1, <1>2 DEF Target
  <2> QED BY <1>1, <2>1
<1>3. CASE g.Kind # "connect-four"
  BY <1>3 DEF Target
<1> QED BY <1>2, <1>3

\* A round starts with an empty board, whoever opens it.
THEOREM RoundStarts ==
  ASSUME NEW g \in Games, NEW mover \in Marks
  PROVE  Playing(g, EmptyBoard(g), mover)
<1> DEFINE board == EmptyBoard(g)
<1>1. board \in Boards(g) /\ Undecided(g, board)
  BY EmptyIsUndecided
<1>2. \A p \in Positions(g) : board[p] = Empty
  BY DEF EmptyBoard
<1> HIDE DEF board
<1>3. \A m \in Marks : MarksOf(g, board, m) = {}
  BY <1>2 DEF MarksOf, Marks, Empty
<1>4. mover \in Marks /\ OtherMark(mover) \in Marks
  BY DEF Marks, OtherMark
<1>5. Alternates(g, board, mover)
  BY <1>3, <1>4 DEF Alternates
<1>6. Resting(g, board)
  BY <1>2 DEF Resting
<1>7. Moves(g, board) = 0
  <2>1. {p \in Positions(g) : board[p] # Empty} = {}
    BY <1>2
  <2> QED BY <2>1, FS_EmptySet DEF Moves
<1>8. 0 < g.Rows * g.Columns
  BY CellsOfBoard
<1> QED BY <1>1, <1>5, <1>6, <1>7, <1>8 DEF Playing, board

\* While it is played the next player can move: somewhere a request is accepted.
THEOREM RoundCanGoOn ==
  ASSUME NEW g \in Games, NEW board, NEW mover \in Marks, Playing(g, board, mover)
  PROVE  \E input \in Int : Target(g, board, input) # {}
<1>1. PICK p \in Positions(g) : board[p] = Empty
  <2>1. Moves(g, board) < g.Rows * g.Columns /\ board \in Boards(g)
    BY DEF Playing
  <2>2. Moves(g, board) # g.Rows * g.Columns
    <3>1. Moves(g, board) \in Int /\ g.Rows * g.Columns \in Int
      BY <2>1, DrawIsFull, CellsOfBoard
    <3> QED BY <2>1, <3>1
  <2> QED BY <2>1, <2>2, DrawIsFull
<1>2. CASE g.Kind # "connect-four"
  <2>1. p \in Target(g, board, p) /\ p \in Int
    BY <1>1, <1>2 DEF Target, Positions
  <2> QED BY <2>1
<1>3. CASE g.Kind = "connect-four"
  <2> DEFINE c == Column(g, p)
             n == g.Rows * g.Columns
             T == {k \in Nat : \E q \in Positions(g) :
                     q + k = n /\ Column(g, q) = c /\ board[q] = Empty}
  <2>1. n \in Nat /\ \A q \in Positions(g) : q \in Int /\ 0 <= q /\ q < n
    BY CellsOfBoard DEF Positions
  <2> HIDE DEF c, n
  <2>2. n - p \in T
    <3>1. n - p \in Nat /\ p + (n - p) = n
      BY <2>1
    <3> QED BY <1>1, <3>1 DEF c
  <2>3. PICK k \in T : \A j \in T : k <= j
    <3>1. T \in SUBSET Nat /\ T # {}
      BY <2>2
    <3> HIDE DEF T
    <3> QED BY <3>1, Least
  <2>4. PICK q \in Positions(g) : q + k = n /\ Column(g, q) = c /\ board[q] = Empty
    BY <2>3
  <2>5. ASSUME NEW r \in Positions(g), Column(g, r) = c, r > q
        PROVE  board[r] # Empty
    <3>1. n - r \in Nat /\ r + (n - r) = n /\ ~ (k <= n - r)
      BY <2>1, <2>3, <2>4, <2>5
    <3>2. n - r \notin T
      BY <2>3, <3>1
    <3> QED BY <2>5, <3>1, <3>2
  <2>6. q \in Target(g, board, c)
    BY <1>3, <2>4, <2>5 DEF Target
  <2>7. c \in Int
    BY RowAndColumn DEF Games, c
  <2> QED BY <2>6, <2>7
<1> QED BY <1>2, <1>3

\* What a move does to a round: it goes on with the other side to move, unless the
\* mover has a line now, for which both sides must have made enough moves, or the
\* board is full.  This is what ArenaRoom keeps of the rules (GridMove).
THEOREM MoveOfARound ==
  ASSUME NEW g \in Games, NEW board, NEW mover \in Marks, Playing(g, board, mover),
         NEW input, NEW p \in Target(g, board, input)
  PROVE  LET after == Placed(board, p, mover)
         IN  /\ Moves(g, after) = Moves(g, board) + 1
             /\ Winner(g, after, p) = IF HasLine(g, after, mover) THEN mover ELSE Empty
             /\ Winner(g, after, p) # Empty => Moves(g, after) >= 2 * g.Connect - 1
             /\ IsDraw(g, after) <=> Moves(g, after) = g.Rows * g.Columns
             /\ Winner(g, after, p) # Empty \/ IsDraw(g, after)
                  \/ Playing(g, after, OtherMark(mover))
<1> DEFINE after == Placed(board, p, mover)
           other == OtherMark(mover)
           n == g.Rows * g.Columns
<1>1. /\ board \in Boards(g) /\ Undecided(g, board) /\ Alternates(g, board, mover)
      /\ g.Kind = "connect-four" => Resting(g, board)
      /\ Moves(g, board) < n
  BY DEF Playing
<1>2. p \in Positions(g) /\ board[p] = Empty
  BY DEF Target
<1>3. after \in Boards(g)
  BY <1>1, <1>2, PlacedAt
<1>4. /\ Winner(g, after, p) = IF HasLine(g, after, mover) THEN mover ELSE Empty
      /\ Winner(g, after, p) = Empty => Undecided(g, after)
  BY <1>1, LastMoveDecides
<1>5. /\ Moves(g, after) = Moves(g, board) + 1
      /\ \A m \in Marks :
           Cardinality(MarksOf(g, after, m)) =
             Cardinality(MarksOf(g, board, m)) + (IF m = mover THEN 1 ELSE 0)
  BY <1>1, <1>2, MoveCounts
<1>6. other \in Marks /\ other # mover /\ OtherMark(other) = mover /\ Marks = {mover, other}
  BY DEF OtherMark, Marks
<1>7. /\ IsDraw(g, after) <=> Moves(g, after) = n
      /\ Moves(g, after) \in 0 .. n
  BY <1>3, DrawIsFull
<1>8. g.Kind = "connect-four" => Resting(g, after)
  <2> SUFFICES ASSUME g.Kind = "connect-four" PROVE Resting(g, after)
    OBVIOUS
  <2>1. Target(g, board, input) =
          {q \in Positions(g) : /\ Column(g, q) = input /\ board[q] = Empty
                                /\ Resting(g, Placed(board, q, mover))}
    BY <1>1, DiscsComeToRest
  <2> QED BY <2>1
<1> DEFINE mine == Cardinality(MarksOf(g, board, mover))
           theirs == Cardinality(MarksOf(g, board, other))
<1> HIDE DEF after, other
<1>9. /\ Cardinality(MarksOf(g, after, mover)) = mine + 1
      /\ Cardinality(MarksOf(g, after, other)) = theirs
      /\ mine \in Nat /\ theirs \in Nat
      /\ theirs = mine \/ theirs = mine + 1
      /\ Moves(g, board) = mine + theirs
  <2>1. \A m \in Marks : Cardinality(MarksOf(g, board, m)) \in Nat
    BY <1>1, MarksAddUp
  <2>2. mine \in Nat /\ theirs \in Nat
    BY <1>6, <2>1
  <2>3. theirs = mine \/ theirs = mine + 1
    BY <1>1 DEF Alternates, other
  <2>4. Moves(g, board) = Cardinality(MarksOf(g, board, "one")) + Cardinality(MarksOf(g, board, "two"))
    BY <1>1, MarksAddUp
  <2>5. (mover = "one" /\ other = "two") \/ (mover = "two" /\ other = "one")
    BY DEF Marks, OtherMark, other
  <2>6. Moves(g, board) = mine + theirs
    BY <2>2, <2>4, <2>5
  <2>7. /\ Cardinality(MarksOf(g, after, mover)) = mine + 1
        /\ Cardinality(MarksOf(g, after, other)) = theirs + 0
    BY <1>5, <1>6
  <2> QED BY <2>2, <2>3, <2>6, <2>7
<1> HIDE DEF mine, theirs, n
<1>10. ASSUME Winner(g, after, p) # Empty
       PROVE  Moves(g, after) >= 2 * g.Connect - 1
  <2>1. HasLine(g, after, mover)
    BY <1>4, <1>10
  <2>2. mine + 1 >= g.Connect
    BY <1>3, <1>9, <2>1, LinesTakeMarks
  <2>3. g.Connect \in Nat
    BY DEF Games
  <2> QED BY <1>5, <1>9, <2>2, <2>3
<1>11. ASSUME Winner(g, after, p) = Empty, ~ IsDraw(g, after)
       PROVE  Playing(g, after, other)
  <2>1. Alternates(g, after, other)
    BY <1>6, <1>9 DEF Alternates
  <2>2. Moves(g, after) < n
    <3>1. n \in Nat
      BY CellsOfBoard DEF n
    <3> QED BY <1>7, <1>11, <3>1
  <2> QED BY <1>3, <1>4, <1>8, <1>11, <2>1, <2>2 DEF Playing, n
<1> QED BY <1>4, <1>5, <1>7, <1>10, <1>11 DEF after, other, n

=============================================================================
