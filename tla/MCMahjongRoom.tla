---------------------------- MODULE MCMahjongRoom ----------------------------
(***************************************************************************)
(* MahjongRoom for TLC: a row of four tiles, two more on top of the third  *)
(* of them, so that there are covered and hemmed-in tiles, boards that     *)
(* need a reshuffle and boards that no reshuffle can save.                 *)
(***************************************************************************)
EXTENDS MahjongRoom

SmallLayout == Layer(0..3, {0}, 0) \cup {<<2, 0, 1>>, <<2, 0, 2>>}

AllModes == {"garden", "duel", "zen"}

-----------------------------------------------------------------------------
(* The boards of the program, which are too large to play on. *)

\* Taking off two of the highest free tiles at a time clears the board.
Reducible(layout) ==
  LET Highest(tiles) == CHOOSE p \in tiles : \A q \in tiles : q[3] <= p[3]
      walk[left \in SUBSET layout] ==
        LET free   == Free(left)
            first  == Highest(free)
            second == Highest(free \ {first})
        IN  \/ left = {}
            \/ Cardinality(free) > 1 /\ walk[left \ {first, second}]
  IN  walk[layout]

\* removalOrder can succeed on both layouts: newRoom does not fail for ever.
ASSUME LayoutsAreReducible == Reducible(FullPositions) /\ Reducible(CompactPositions)

\* NewBoard takes a pair of the shuffled set for every pair of tiles: the full
\* layout uses the whole set up, the compact one does not exhaust it.
ASSUME SetIsLargeEnough ==
  LET set == 4 * Cardinality(StandardGroups)
  IN  Cardinality(FullPositions) = set /\ Cardinality(CompactPositions) < set

=============================================================================
