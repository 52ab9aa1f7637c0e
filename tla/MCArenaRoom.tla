---------------------------- MODULE MCArenaRoom ----------------------------
(***************************************************************************)
(* ArenaRoom for TLC.  The constants are given by the configurations:      *)
(*   ArenaRoomGrid.cfg    a timed best-of-3 of a grid game on four cells   *)
(*   ArenaRoomChess.cfg   chess with small clocks                          *)
(*   ArenaDecided.cfg, ArenaFinalClocks.cfg  chess, one property each      *)
(*                                                                         *)
(* The rules that ArenaRoom leaves out, those of GridGame, are checked     *)
(* here against a reference on small boards.                               *)
(***************************************************************************)
EXTENDS ArenaRoom, Integers

Game == INSTANCE GridGame

\* The room looks at the cell of the last move only.  That is enough: on a board
\* without a line, a move wins exactly when there is one afterwards.
LastMoveDecides(g) ==
  \A board \in [Game!Positions(g) -> {Game!Empty, "one"}] :
    ~ Game!HasLine(g, board, "one") =>
      \A p \in {q \in Game!Positions(g) : board[q] = Game!Empty} :
        LET after == Game!Placed(board, p, "one")
        IN  Game!Winner(g, after, p) = "one" <=> Game!HasLine(g, after, "one")

ThreeByFour == Game!Grid("gomoku", 3, 4, 3)

ASSUME LinesAreFound ==
  LastMoveDecides(ThreeByFour) /\ LastMoveDecides([ThreeByFour EXCEPT !.ExactConnect = TRUE])

\* A disc dropped onto resting ones comes to rest, in the one place there is for
\* it, unless the column is full or there is no such column.
ASSUME DiscsComeToRest ==
  LET g == Game!Grid("connect-four", 3, 3, 3)
  IN  \A board \in [Game!Positions(g) -> {Game!Empty, "one"}], c \in -1..3 :
        Game!Resting(g, board) =>
          Game!Target(g, board, c) =
            {p \in Game!Positions(g) :
               /\ Game!Column(g, p) = c /\ board[p] = Game!Empty
               /\ Game!Resting(g, Game!Placed(board, p, "two"))}

\* Every mode can be won in every direction, by whoever moves first, before the
\* board is full: Earliest of module ArenaRoom is 2 * Connect - 1 there.
ASSUME ModesCanBeWon ==
  \A kind \in {"tictactoe", "connect-four", "gomoku"},
     mode \in {"classic", "four-square", "misere", "quick", "connect-five", "compact", "pro"} :
    LET g == Game!NewGame(kind, mode)
    IN  /\ g.Connect <= g.Rows /\ g.Connect <= g.Columns
        /\ 2 * g.Connect - 1 < g.Rows * g.Columns

=============================================================================
