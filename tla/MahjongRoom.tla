----------------------------- MODULE MahjongRoom -----------------------------
(***************************************************************************)
(* A mahjong room (server/core/mahjong/room.go): two players clear one     *)
(* board together against the clock (garden) or without it (zen), or a     *)
(* board each (duel).  Every action is a section under room.mu or what     *)
(* happens before it: the runtime starts the callback of the round timer   *)
(* (Fire), which takes the lock later (TimeUp).  The connections of the    *)
(* players are those of module Seating; leaving, and a grace period that   *)
(* runs out, give up a duel.                                               *)
(***************************************************************************)
EXTENDS MahjongBoard, Seating

CONSTANTS
  Modes,           \* the modes rooms are opened in
  StartingHints,
  MaxFired         \* bound: callbacks waiting for room.mu

ASSUME RoomAssumption ==
  /\ Modes \subseteq {"garden", "duel", "zen"}
  /\ StartingHints \in Nat
  /\ Movers \subseteq Nat /\ MaxJoins \in Nat /\ MaxLeft \in Nat
  /\ MaxFired \in Nat

VARIABLES
  mode,
  status, winner,
  board,       \* boards and removed: one of each, or two in a duel
  removedBy,   \* the tiles each player has removed from a shared board
  pairs,
  hints, hint, \* how many are left, and the pair shown to each player
  ready,
  timer,       \* the round timer is running
  fired        \* its callbacks that run and do not have room.mu yet

round == <<status, winner, board, removedBy, pairs, hints, hint>>
vars  == <<mode, round, ready, timer, fired, seating>>

Seats    == {0, 1}
Other(s) == 1 - s
Nobody   == -1
NoHint   == <<>>

Duel == mode = "duel"

\* stateIndex: the board that seat s plays on.
StateIndex(s) == IF Duel /\ s = 1 THEN 1 ELSE 0

\* The boards in play.
Boards == {StateIndex(s) : s \in Seats}

Tiles(s) == Cardinality(board[StateIndex(s)].left)

-----------------------------------------------------------------------------
(* Rounds. *)

TimedGarden == mode = "garden"   \* mutant of Timed: duels have no timer

Timed == mode \in {"garden", "duel"}

\* startRoundLocked: a new deal, the same for both players.
StartRound(b) ==
  /\ status' = "playing" /\ winner' = Nobody
  /\ board' = [i \in Boards |-> b]
  /\ removedBy' = [s \in Seats |-> {}]
  /\ pairs' = [s \in Seats |-> 0]
  /\ hints' = [s \in Seats |-> StartingHints]
  /\ hint' = [s \in Seats |-> NoHint]
  /\ ready' = {}
  /\ timer' = Timed

\* The round is over before its time.
Finish(w) == status' = "finished" /\ winner' = w /\ timer' = FALSE

FewerTilesWon(left, right) ==   \* mutant of TimedWinner: more tiles win
  IF left > right THEN 0 ELSE IF right > left THEN 1 ELSE Nobody

\* finishTimedLocked, of a duel: who has fewer tiles left.
TimedWinner(left, right) ==
  IF left < right THEN 0 ELSE IF right < left THEN 1 ELSE Nobody

\* The runtime starts the callback of the timer.
Fire ==
  /\ timer /\ fired < MaxFired
  /\ timer' = FALSE
  /\ fired' = fired + 1
  /\ UNCHANGED <<mode, round, ready, seating>>

\* The callback has the lock.  It does not know which round it was set for.
TimeUp ==
  /\ fired > 0
  /\ fired' = fired - 1
  /\ IF status = "playing"
     THEN /\ status' = "finished"
          /\ winner' = IF Duel THEN TimedWinner(Tiles(0), Tiles(1)) ELSE Nobody
     ELSE UNCHANGED <<status, winner>>
  /\ UNCHANGED <<mode, board, removedBy, pairs, hints, hint, ready, timer, seating>>

-----------------------------------------------------------------------------
(* Room.Handle. *)

\* Mutant of AfterRemoval: the board is not reshuffled.
AfterRemovalUnchecked(b, p, q) == {[b EXCEPT !.left = @ \ {p, q}]}

\* The board after p and q are gone.  When no pair is left the rest is
\* reshuffled; if that fails the tiles are gone all the same.
AfterRemoval(b, p, q) ==
  LET rest == [b EXCEPT !.left = @ \ {p, q}]
  IN  IF rest.left = {} \/ Pairs(rest) # {} \/ Reshuffled(rest) = {}
      THEN {rest}
      ELSE Reshuffled(rest)

HintKept(s) == hint   \* mutant of HintDropped

HintDropped(s) == [hint EXCEPT ![s] = NoHint]

CreditedOther(s, p, q) ==   \* mutant of Credited
  [removedBy EXCEPT ![Other(s)] = @ \cup {p, q}]

\* A shared board shows who took which tiles.
Credited(s, p, q) == IF Duel THEN removedBy ELSE [removedBy EXCEPT ![s] = @ \cup {p, q}]

\* removePairLocked.
RemovePair(s, p, q) ==
  LET i == StateIndex(s)
  IN  /\ status = "playing"
      /\ CanRemove(board[i], p, q)
      /\ \E b \in AfterRemoval(board[i], p, q) : board' = [board EXCEPT ![i] = b]
      /\ pairs' = [pairs EXCEPT ![s] = @ + 1]
      /\ hint' = HintDropped(s)
      /\ removedBy' = Credited(s, p, q)
      /\ IF board'[i].left = {}
         THEN Finish(IF Duel THEN s ELSE Nobody)
         ELSE UNCHANGED <<status, winner, timer>>
      /\ UNCHANGED <<mode, hints, ready, fired, seating>>

\* requestHintLocked.
RequestHint(s) ==
  /\ status = "playing"
  /\ hints[s] > 0
  /\ hints' = [hints EXCEPT ![s] = @ - 1]
  /\ \E pq \in AvailablePair(board[StateIndex(s)]) : hint' = [hint EXCEPT ![s] = pq]
  /\ UNCHANGED <<mode, status, winner, board, removedBy, pairs, ready, timer, fired, seating>>

\* "rematch", of the first player and of the second.
AskRematch(s) ==
  /\ status # "playing"
  /\ ready \cup {s} # Seats
  /\ ready' = ready \cup {s}
  /\ UNCHANGED <<mode, round, timer, fired, seating>>

Rematch(s, b) ==
  /\ status # "playing"
  /\ ready \cup {s} = Seats
  /\ StartRound(b)
  /\ UNCHANGED <<mode, fired, seating>>

-----------------------------------------------------------------------------
(* Players who leave or stay away. *)

\* A duel that is given up in the name of seat s, if one is played.
Concede(s) ==
  IF Duel /\ status = "playing"
  THEN Finish(Other(s)) /\ UNCHANGED <<board, removedBy, pairs, hints, hint>>
  ELSE UNCHANGED <<round, timer>>

\* Hub.Leave, called by the loop of socket c.
LeaveTable(c) ==
  /\ StandUp(c)
  /\ Concede(SeatOf(c.object))
  /\ UNCHANGED <<mode, ready, fired>>

\* Hub.Join for another table.
MoveOn(s) ==
  /\ MoveAway(s)
  /\ Concede(s)
  /\ UNCHANGED <<mode, ready, fired>>

\* The callback of the grace timer d.
Expire(d) ==
  /\ GraceOver(d)
  /\ IF Absent(d) THEN Concede(SeatOf(d.object)) ELSE UNCHANGED <<round, timer>>
  /\ UNCHANGED <<mode, ready, fired>>

Connection == Connecting /\ UNCHANGED <<mode, round, ready, timer, fired>>

-----------------------------------------------------------------------------

\* newRoom.
Init ==
  /\ mode \in Modes
  /\ status = "playing" /\ winner = Nobody
  /\ \E b \in NewBoards : board = [i \in Boards |-> b]
  /\ removedBy = [s \in Seats |-> {}]
  /\ pairs = [s \in Seats |-> 0]
  /\ hints = [s \in Seats |-> StartingHints]
  /\ hint = [s \in Seats |-> NoHint]
  /\ ready = {}
  /\ timer = Timed
  /\ fired = 0
  /\ SeatingInit

Next ==
  \/ Fire \/ TimeUp
  \/ \E s \in Seats :
       \/ \E p, q \in Layout : RemovePair(s, p, q)
       \/ RequestHint(s) \/ AskRematch(s)
       \/ \E b \in NewBoards : Rematch(s, b)
  \/ \E c \in sockets : LeaveTable(c)
  \/ \E s \in Seats \cap Movers : MoveOn(s)
  \/ \E d \in grace : Expire(d)
  \/ Connection

\* The runtime fires timers, and who waits for a mutex gets it.
Spec == Init /\ [][Next]_vars /\ WF_vars(Fire) /\ WF_vars(TimeUp)

-----------------------------------------------------------------------------
(* Properties. *)

TypeOK ==
  /\ mode \in Modes /\ status \in {"playing", "finished"} /\ winner \in Seats \cup {Nobody}
  /\ board \in [Boards -> [group : [Layout -> Group], left : SUBSET Layout]]
  /\ removedBy \in [Seats -> SUBSET Layout] /\ pairs \in [Seats -> Nat]
  /\ hints \in [Seats -> 0..StartingHints]
  /\ hint \in [Seats -> {NoHint} \cup (Layout \X Layout)]
  /\ ready \subseteq Seats /\ timer \in BOOLEAN /\ fired \in 0..MaxFired
  /\ SeatingTypeOK

\* Every tile that is gone counts for exactly one player: pairs, the tiles shown
\* as theirs and the boards agree, whoever claims a pair first.
EveryPairCounted ==
  \A s \in Seats :
    IF Duel
    THEN Tiles(s) + 2 * pairs[s] = Cardinality(Layout)
    ELSE /\ Cardinality(removedBy[s]) = 2 * pairs[s]
         /\ board[0].left = Layout \ (removedBy[0] \cup removedBy[1])

\* While a round is played there is a pair to remove on every board, or no
\* arrangement of its tiles could be cleared.
PairUnlessIrreducible ==
  status = "playing" =>
    \A i \in Boards : Pairs(board[i]) # {} \/ Pairings[board[i].left] = {}

\* The pair shown to a player in a duel can be removed: nobody else touches the
\* player's board, and removing a pair takes the hint away.
DuelHintFits ==
  Duel /\ status = "playing" =>
    \A s \in Seats : hint[s] # NoHint => CanRemove(board[StateIndex(s)], hint[s][1], hint[s][2])

\* Whatever is dealt, at the start of a round or by a reshuffle, can be cleared.
DealsAreSolvable ==
  [][\A i \in Boards :
       board'[i].group # board[i].group \/ ~ board'[i].left \subseteq board[i].left =>
         board'[i] \in Clearable]_vars

\* A duel is won by the player who clears the board, by the one with fewer tiles
\* when the time is up, or because the other seat is given up: by leaving, or by an
\* absence that has lasted for the whole grace period.
DuelEndHasCause ==
  [][status = "playing" /\ status' = "finished" =>
       IF winner' = Nobody
       THEN Duel => Tiles(0) = Tiles(1)
       ELSE \/ board'[StateIndex(winner')].left = {}
            \/ Tiles(winner') < Tiles(Other(winner'))
            \/ Forfeits(Other(winner'))]_vars

\* A round against the clock ends.
TimedRoundEnds == (status = "playing" /\ mode # "zen") ~> status = "finished"

=============================================================================
