------------------------------- MODULE GridGame -------------------------------
(***************************************************************************)
(* The rules of the grid games (server/core/arena/game.go): tic-tac-toe,   *)
(* Connect Four and Gomoku in their modes.  A board is a function from     *)
(* positions, counted row by row from the top, to marks.  ArenaRoom        *)
(* abstracts from all of this but from who may win when.                   *)
(***************************************************************************)
EXTENDS Integers, FiniteSets

Empty == ""
Marks == {"one", "two"}

Grid(kind, rows, columns, connect) ==
  [Kind |-> kind, Rows |-> rows, Columns |-> columns, Connect |-> connect,
   ExactConnect |-> FALSE, Misere |-> FALSE]

\* NewGameWithMode; a mode that is not known is the first of its kind.
NewGame(kind, mode) ==
  CASE kind = "tictactoe" ->
         (CASE mode = "four-square" -> Grid(kind, 4, 4, 3)
            [] mode = "misere"      -> [Grid(kind, 3, 3, 3) EXCEPT !.Misere = TRUE]
            [] OTHER                -> Grid(kind, 3, 3, 3))
    [] kind = "connect-four" ->
         (CASE mode = "quick"        -> Grid(kind, 5, 6, 4)
            [] mode = "connect-five" -> Grid(kind, 7, 8, 5)
            [] OTHER                 -> Grid(kind, 6, 7, 4))
    [] kind = "gomoku" ->
         (CASE mode = "compact" -> Grid(kind, 13, 13, 5)
            [] mode = "pro"     -> [Grid(kind, 15, 15, 5) EXCEPT !.ExactConnect = TRUE]
            [] OTHER            -> Grid(kind, 15, 15, 5))

Positions(g) == 0 .. g.Rows * g.Columns - 1

Row(g, p)    == p \div g.Columns
Column(g, p) == p % g.Columns

Boards(g) == [Positions(g) -> Marks \cup {Empty}]

-----------------------------------------------------------------------------
(* ApplyMove. *)

\* The position a move takes, if it is accepted: a disc of Connect Four falls as
\* far as it can, elsewhere the position is the one asked for.
Target(g, board, input) ==
  {p \in Positions(g) :
     /\ board[p] = Empty
     /\ IF g.Kind = "connect-four"
        THEN /\ Column(g, p) = input
             /\ \A q \in Positions(g) : Column(g, q) = input /\ q > p => board[q] # Empty
        ELSE p = input}

Placed(board, p, mark) == [board EXCEPT ![p] = mark]

-----------------------------------------------------------------------------
(* Winner and IsDraw. *)

Directions == {<<0, 1>>, <<1, 0>>, <<1, 1>>, <<1, -1>>}

Back(d) == <<-d[1], -d[2]>>

\* n steps from p lie on the board.
Reaches(g, p, d, n) ==
  /\ Row(g, p) + n * d[1] \in 0 .. g.Rows - 1
  /\ Column(g, p) + n * d[2] \in 0 .. g.Columns - 1

Step(g, p, d, n) == p + n * (d[1] * g.Columns + d[2])

\* There, with mark on it.
Marked(g, board, p, d, n, mark) ==
  Reaches(g, p, d, n) /\ board[Step(g, p, d, n)] = mark

\* How far the mark goes on without a gap, p not counted.
CountDirection(g, board, p, d, mark) ==
  CHOOSE n \in 0 .. g.Rows + g.Columns :
    /\ \A k \in 1..n : Marked(g, board, p, d, k, mark)
    /\ ~ Marked(g, board, p, d, n + 1, mark)

\* The mark at p wins there.
Winner(g, board, p) ==
  LET mark == board[p]
      count(d) == 1 + CountDirection(g, board, p, d, mark)
                    + CountDirection(g, board, p, Back(d), mark)
      wins == \E d \in Directions :
                count(d) >= g.Connect /\ (g.ExactConnect => count(d) = g.Connect)
  IN  IF mark # Empty /\ wins THEN mark ELSE Empty

\* Moves is the number of marks on the board.
IsDraw(g, board) == Cardinality({p \in Positions(g) : board[p] # Empty}) = g.Rows * g.Columns

-----------------------------------------------------------------------------
(* What the rules mean, independently of how the code finds out. *)

\* From p on, Connect marks lie in direction d, and where exactly as many are
\* needed no other mark makes the line longer.
LineFrom(g, board, p, d, mark) ==
  /\ Reaches(g, p, d, g.Connect - 1)
  /\ \A n \in 0 .. g.Connect - 1 : board[Step(g, p, d, n)] = mark
  /\ g.ExactConnect => ~ Marked(g, board, p, d, -1, mark)
                         /\ ~ Marked(g, board, p, d, g.Connect, mark)

Compass == ((-1..1) \X (-1..1)) \ {<<0, 0>>}

HasLine(g, board, mark) == \E p \in Positions(g), d \in Compass : LineFrom(g, board, p, d, mark)

\* Discs rest on the bottom or on other discs.
Resting(g, board) ==
  \A p, q \in Positions(g) :
    board[p] # Empty /\ q = p + g.Columns => board[q] # Empty

=============================================================================
