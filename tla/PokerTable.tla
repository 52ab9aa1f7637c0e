----------------------------- MODULE PokerTable -----------------------------
(***************************************************************************)
(* The heads-up betting engine (server/core/poker/table.go), for Hold'em   *)
(* and Five-Card Draw.  A table is a record; every helper of the engine is *)
(* an operator from tables to tables, composed in the order the code calls *)
(* them, so that one action is one whole call of Act, Discard or           *)
(* StartHand.                                                              *)
(*                                                                         *)
(* Cards are abstract: who wins a showdown is a choice (the parameter w),  *)
(* made once per action whether the action comes to a showdown or not.     *)
(***************************************************************************)
EXTENDS Integers

CONSTANTS
  StartingStack, SmallBlind, BigBlind,
  Modes            \* the modes tables are opened in

ASSUME TableAssumption ==
  /\ StartingStack \in Nat \ {0}
  /\ SmallBlind \in Nat \ {0}
  /\ BigBlind \in Nat \ {0}
  /\ SmallBlind <= BigBlind
  /\ Modes \subseteq {"holdem", "five-card-draw"}

VARIABLE table

Seats == {0, 1}
Other(i) == 1 - i

Least(a, b) == IF a <= b THEN a ELSE b

Holdem(t) == t.mode = "holdem"

BettingPhases == {"preflop", "flop", "turn", "river", "draw-bet", "final-bet"}
HandOver      == {"showdown", "hand-finished"}
Phases        == BettingPhases \cup HandOver \cup {"draw"}

Showdowns == {{0}, {1}, {0, 1}}    \* who may hold the best hand

Both(v) == [i \in Seats |-> v]

-----------------------------------------------------------------------------
(* Chips. *)

\* Mutant of Pay: a seat pays more than it has.
PayUncapped(t, i, amount) ==
  [t EXCEPT !.stack[i] = @ - amount, !.roundBet[i] = @ + amount, !.totalBet[i] = @ + amount,
            !.allIn[i] = (t.stack[i] <= amount)]

\* Up to amount chips of seat i go in front of it.
Pay(t, i, amount) ==
  LET paid == Least(amount, t.stack[i])
  IN  [t EXCEPT !.stack[i]    = @ - paid,
                !.roundBet[i] = @ + paid,
                !.totalBet[i] = @ + paid,
                !.allIn[i]    = (t.stack[i] = paid)]

\* Mutant of CollectBets: the pot of the earlier rounds is lost.
CollectBetsAnew(t) ==
  [t EXCEPT !.pot = t.roundBet[0] + t.roundBet[1], !.roundBet = Both(0),
            !.acted = Both(FALSE), !.currentBet = 0, !.minRaise = BigBlind]

\* The bets of the round go into the pot.
CollectBets(t) ==
  [t EXCEPT !.pot        = @ + t.roundBet[0] + t.roundBet[1],
            !.roundBet   = Both(0),
            !.acted      = Both(FALSE),
            !.currentBet = 0,
            !.minRaise   = BigBlind]

ToCall(t, i) == IF t.currentBet > t.roundBet[i] THEN t.currentBet - t.roundBet[i] ELSE 0

-----------------------------------------------------------------------------
(* Ends of a hand. *)

FinishByFold(t, winner) ==
  LET c == CollectBets(t)
  IN  [c EXCEPT !.awarded       = c.pot,
                !.stack[winner] = @ + c.pot,
                !.winners       = {winner},
                !.phase         = "hand-finished",
                !.pot           = 0]

Matched(t) == Least(t.totalBet[0], t.totalBet[1])

\* Mutant of Excess: the unmatched chips go to the player who matched them.
ExcessSwapped(t, i) == t.totalBet[Other(i)] - Matched(t)

\* What seat i put in that the other could not match.
Excess(t, i) == t.totalBet[i] - Matched(t)

\* What seat i gets of the pot when w won it: the odd chip of a split pot would
\* go to the first winner (ChipsConserved and NobodyOverpays: there is none).
Prize(w, i, pot) ==
  CASE w = {i}            -> pot
    [] i \notin w         -> 0
    [] w # {i} /\ i \in w -> pot \div 2 + (IF i = 0 THEN pot % 2 ELSE 0)

\* Mutant of Showdown: chips the opponent could not match are not refunded.
ShowdownNoRefund(t, w) ==
  LET c == CollectBets(t)
  IN  [c EXCEPT !.stack   = [i \in Seats |-> c.stack[i] + Prize(w, i, c.pot)],
                !.awarded = c.pot, !.winners = w, !.phase = "showdown", !.pot = 0]

\* Unmatched chips go back, the winners share the rest.
Showdown(t, w) ==
  LET c   == CollectBets(t)
      pot == c.pot - Excess(c, 0) - Excess(c, 1)
  IN  [c EXCEPT !.stack   = [i \in Seats |-> c.stack[i] + Excess(c, i) + Prize(w, i, pot)],
                !.awarded = pot,
                !.winners = w,
                !.phase   = "showdown",
                !.pot     = 0]

\* The rest of the board is dealt without betting.
RunOut(t, w) ==
  Showdown(IF Holdem(t) THEN [CollectBets(t) EXCEPT !.board = 5] ELSE t, w)

-----------------------------------------------------------------------------
(* Start of a hand. *)

\* Betting starts with the blinds on the table; the button acts first.
StartHoldem(t, w) ==
  LET posted  == Pay(Pay(t, t.dealer, SmallBlind), Other(t.dealer), BigBlind)
      started == [posted EXCEPT !.phase      = "preflop",
                                !.currentBet = BigBlind,
                                !.minRaise   = BigBlind,
                                !.turn       = t.dealer]
  IN  IF started.allIn[0] \/ started.allIn[1] THEN RunOut(started, w) ELSE started

\* Both post an ante; with a player all-in there is nothing left to bet.
StartFiveCardDraw(t) ==
  LET posted == CollectBets(Pay(Pay(t, 0, SmallBlind), 1, SmallBlind))
  IN  [posted EXCEPT
         !.phase = IF posted.allIn[0] \/ posted.allIn[1] THEN "draw" ELSE "draw-bet",
         !.turn  = Other(t.dealer)]

\* A new hand: the button has moved and nothing is on the table.
Clean(t) ==
  [t EXCEPT !.pot = 0, !.awarded = 0, !.currentBet = 0, !.minRaise = BigBlind,
            !.dealer = (@ + 1) % 2, !.winners = {}, !.board = 0,
            !.folded = Both(FALSE), !.allIn = Both(FALSE),
            !.roundBet = Both(0), !.totalBet = Both(0),
            !.acted = Both(FALSE), !.discarded = Both(FALSE)]

StartHand(t, w) ==
  IF Holdem(t) THEN StartHoldem(Clean(t), w) ELSE StartFiveCardDraw(Clean(t))

\* The table before its first hand.
NewTable(mode) ==
  [mode |-> mode, phase |-> "hand-finished", dealer |-> -1, turn |-> 0,
   stack |-> Both(StartingStack), folded |-> Both(FALSE), allIn |-> Both(FALSE),
   roundBet |-> Both(0), totalBet |-> Both(0), acted |-> Both(FALSE),
   discarded |-> Both(FALSE), pot |-> 0, awarded |-> 0, currentBet |-> 0,
   minRaise |-> BigBlind, winners |-> {}, board |-> 0]

-----------------------------------------------------------------------------
(* A betting round. *)

\* The next street, the draw or the showdown.
AdvancePhase(t, w) ==
  LET c == CollectBets(t)
      street(phase, board) == [c EXCEPT !.phase = phase, !.board = board,
                                        !.turn = Other(t.dealer)]
  IN  CASE t.phase = "preflop"               -> street("flop", 3)
        [] t.phase = "flop"                  -> street("turn", 4)
        [] t.phase = "turn"                  -> street("river", 5)
        [] t.phase = "draw-bet"              -> street("draw", 0)
        [] t.phase \in {"river", "final-bet"} -> Showdown(c, w)

BetsMatched(t) == t.roundBet[0] = t.roundBet[1]

\* Mutant of AfterAction: the round closes as soon as the bets are equal.
AfterActionMatched(t, i, w) ==
  IF (t.allIn[0] \/ t.allIn[1]) /\ (BetsMatched(t) \/ t.allIn[Other(i)])
  THEN IF t.phase = "draw-bet" THEN AdvancePhase(t, w) ELSE RunOut(t, w)
  ELSE IF BetsMatched(t) THEN AdvancePhase(t, w) ELSE [t EXCEPT !.turn = Other(i)]

\* Mutant of AfterAction: an all-in that the opponent has not answered is run out.
AfterActionAllIn(t, i, w) ==
  IF t.allIn[0] \/ t.allIn[1]
  THEN IF t.phase = "draw-bet" THEN AdvancePhase(t, w) ELSE RunOut(t, w)
  ELSE IF BetsMatched(t) /\ t.acted[0] /\ t.acted[1]
       THEN AdvancePhase(t, w)
       ELSE [t EXCEPT !.turn = Other(i)]

\* Mutant of AfterAction: the turn always passes, also to a player who is all-in.
AfterActionPass(t, i, w) ==
  IF BetsMatched(t) /\ t.acted[0] /\ t.acted[1]
  THEN AdvancePhase(t, w)
  ELSE [t EXCEPT !.turn = Other(i)]

\* What follows seat i's action: no more betting, the next phase, or the
\* other player's turn.
AfterAction(t, i, w) ==
  IF (t.allIn[0] \/ t.allIn[1]) /\ (BetsMatched(t) \/ t.allIn[Other(i)])
  THEN IF t.phase = "draw-bet" THEN AdvancePhase(t, w) ELSE RunOut(t, w)
  ELSE IF BetsMatched(t) /\ t.acted[0] /\ t.acted[1]
       THEN AdvancePhase(t, w)
       ELSE [t EXCEPT !.turn = IF t.allIn[Other(i)] THEN i ELSE Other(i)]

Acted(t, i) == [t EXCEPT !.acted[i] = TRUE]

CanAct(t, i) ==
  /\ i = t.turn
  /\ t.phase \in BettingPhases
  /\ ~ t.folded[i] /\ ~ t.allIn[i]

\* raiseTo's conditions for a raise of seat i to target.
RaiseAllowed(t, i, target, allIn) ==
  /\ ~ t.allIn[Other(i)]
  /\ target > t.currentBet
  /\ target - t.roundBet[i] <= t.stack[i]
  /\ \/ target - t.currentBet >= t.minRaise
     \/ allIn /\ target - t.roundBet[i] = t.stack[i]

\* Mutant of Raised: the bet to call stays what it was.
RaisedOldBet(t, i, target) ==
  [Pay(t, i, target - t.roundBet[i]) EXCEPT !.acted[i] = TRUE, !.acted[Other(i)] = FALSE]

Raised(t, i, target) ==
  LET size == target - t.currentBet
      paid == Pay(t, i, target - t.roundBet[i])
  IN  [paid EXCEPT !.minRaise = IF size >= @ THEN size ELSE @,
                   !.currentBet = target,
                   !.acted[i] = TRUE,
                   !.acted[Other(i)] = FALSE]

-----------------------------------------------------------------------------
(* The calls of Act and Discard that change the table. *)

Fold(i) ==
  /\ CanAct(table, i)
  /\ table' = FinishByFold([Acted(table, i) EXCEPT !.folded[i] = TRUE], Other(i))

Check(i, w) ==
  /\ CanAct(table, i)
  /\ ToCall(table, i) = 0
  /\ table' = AfterAction(Acted(table, i), i, w)

Call(i, w) ==
  /\ CanAct(table, i)
  /\ ToCall(table, i) # 0
  /\ table' = AfterAction(Acted(Pay(table, i, ToCall(table, i)), i), i, w)

RaiseTo(i, target, w) ==
  /\ CanAct(table, i)
  /\ RaiseAllowed(table, i, target, FALSE)
  /\ table' = AfterAction(Raised(table, i, target), i, w)

\* All-in is a raise when it exceeds the bet and a call otherwise.
AllIn(i, w) ==
  LET target == table.roundBet[i] + table.stack[i]
  IN  /\ CanAct(table, i)
      /\ table.stack[i] # 0
      /\ IF target > table.currentBet
         THEN /\ RaiseAllowed(table, i, target, TRUE)
              /\ table' = AfterAction(Raised(table, i, target), i, w)
         ELSE table' = AfterAction(Acted(Pay(table, i, table.stack[i]), i), i, w)

Discard(i, w) ==
  LET drawn == [table EXCEPT !.discarded[i] = TRUE]
  IN  /\ table.phase = "draw"
      /\ i = table.turn
      /\ ~ table.discarded[i]
      /\ table' = IF ~ table.discarded[Other(i)]
                  THEN [drawn EXCEPT !.turn = Other(i)]
                  ELSE IF table.allIn[0] \/ table.allIn[1]
                  THEN Showdown(drawn, w)
                  ELSE [drawn EXCEPT !.phase = "final-bet", !.turn = Other(table.dealer)]

\* Room.Handle "next-hand" with both players ready: stacks start over once
\* somebody is bust.
Restacked(t) ==
  IF t.stack[0] = 0 \/ t.stack[1] = 0 THEN [t EXCEPT !.stack = Both(StartingStack)] ELSE t

NextHand(w) ==
  /\ table.phase \in HandOver
  /\ table' = StartHand(Restacked(table), w)

\* Room.leaveLocked: the player who leaves gives up the hand.
Leave(i) ==
  /\ table.phase \notin HandOver
  /\ table' = FinishByFold(table, Other(i))

Init == \E mode \in Modes, w \in Showdowns : table = StartHand(NewTable(mode), w)

Bet(i, w) ==
  \/ Fold(i) \/ Check(i, w) \/ Call(i, w) \/ AllIn(i, w)
  \/ \E target \in 1..(2 * StartingStack) : RaiseTo(i, target, w)

Next ==
  \E w \in Showdowns :
    \/ NextHand(w)
    \/ \E i \in Seats : Bet(i, w) \/ Discard(i, w) \/ Leave(i)

Spec == Init /\ [][Next]_table

-----------------------------------------------------------------------------
(* Properties. *)

Chips(t) == t.stack[0] + t.stack[1] + t.roundBet[0] + t.roundBet[1] + t.pot

TableType ==
  [mode : Modes, phase : Phases, dealer : Seats, turn : Seats,
   stack : [Seats -> Nat], folded : [Seats -> BOOLEAN], allIn : [Seats -> BOOLEAN],
   roundBet : [Seats -> Nat], totalBet : [Seats -> Nat], acted : [Seats -> BOOLEAN],
   discarded : [Seats -> BOOLEAN], pot : Nat, awarded : Nat, currentBet : Nat,
   minRaise : Nat, winners : SUBSET Seats, board : {0, 3, 4, 5}]

TypeOK == table \in TableType

\* No chip is made or lost by betting, refunding, splitting or folding.
ChipsConserved == Chips(table) = 2 * StartingStack

\* While the hand is played everything on the table is somebody's bet, which is
\* what the refund of unmatched chips at the showdown relies on.
PotIsBets ==
  table.phase \notin HandOver =>
    table.pot + table.roundBet[0] + table.roundBet[1] = table.totalBet[0] + table.totalBet[1]

\* The player whose turn it is can act: not all-in, not folded, and chips left.
\* Otherwise the action timer would try, fail and start again for ever.
TurnCanAct ==
  table.phase \in BettingPhases =>
    /\ ~ table.folded[table.turn] /\ ~ table.allIn[table.turn]
    /\ table.stack[table.turn] > 0

\* The bet to call is the larger of the bets in front of the players.
BetIsMatchable ==
  table.phase \in BettingPhases =>
    /\ \A i \in Seats : table.roundBet[i] <= table.currentBet
    /\ \E i \in Seats : table.roundBet[i] = table.currentBet

\* A showdown costs nobody more than the opponent had at stake: the pot that is
\* awarded is twice the smaller of the two bets.
NobodyOverpays ==
  table.phase = "showdown" => table.awarded = 2 * Matched(table)

\* The betting of a hand goes on until both players have answered the last
\* raise, or one who put in less has no chips left: a phase of betting is left
\* without a fold only with equal bets or behind a player who is all-in.
StreetsAreEarned ==
  [][table.phase \in BettingPhases /\ table'.phase \notin {table.phase, "hand-finished"} =>
       \A i \in Seats :
         \/ table'.totalBet[i] >= table'.totalBet[Other(i)]
         \/ table'.allIn[i]]_table

\* Nobody is dealt past a player who has not had a turn in the round, unless
\* there is no betting left to do.
BothHaveActed ==
  [][table.phase \in BettingPhases /\ table'.phase \in (Phases \ HandOver) \ {table.phase} =>
       \/ table'.allIn[0] \/ table'.allIn[1]
       \/ table.acted[Other(table.turn)]]_table

-----------------------------------------------------------------------------
(* The abstract specification. *)

\* What the players have behind and at stake.
Money(t) ==
  [behind |-> t.stack,
   stake  |-> IF t.phase \in HandOver THEN Both(0) ELSE t.totalBet,
   open   |-> t.phase \notin HandOver]

Promise == INSTANCE Stakes WITH hand <- Money(table)

\* Whatever is dealt, bet, raised, refunded and split, in any order the engine
\* allows: chips move only as the stakes of the players say, and hands are compared
\* only when both have answered or have no chips left.
KeepsPromise == Promise!Spec

=============================================================================
