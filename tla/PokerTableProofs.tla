-------------------------- MODULE PokerTableProofs --------------------------
(***************************************************************************)
(* Proofs about PokerTable, for all stacks and blinds and for any number   *)
(* of hands: chips are conserved, whoever has the turn can act, betting    *)
(* stops only when it may, and the table implements Stakes.                *)
(***************************************************************************)
EXTENDS PokerTable, TLAPS

\* What is on the table is somebody's bet.
Staked(t) == t.pot + t.roundBet[0] + t.roundBet[1] = t.totalBet[0] + t.totalBet[1]

\* No bet in front of a player exceeds the bet to call, and one of them is it.
Bounded(t) == t.roundBet[0] <= t.currentBet /\ t.roundBet[1] <= t.currentBet
Level(t)   == t.roundBet[0] = t.currentBet \/ t.roundBet[1] = t.currentBet

\* A table in a hand, and one between two hands.
Live(t) == t \in TableType /\ Staked(t)
Over(t) ==
  /\ t \in TableType
  /\ t.phase \in HandOver
  /\ t.pot = 0 /\ t.roundBet[0] = 0 /\ t.roundBet[1] = 0
  /\ t.phase = "showdown" => t.awarded = 2 * Matched(t)

\* What holds of a table between two calls.
Sound(t) ==
  \/ Over(t)
  \/ Live(t) /\ t.phase \notin HandOver /\ Bounded(t) /\ Level(t)

LEMMA TableFields ==
  ASSUME NEW t \in TableType
  PROVE  /\ t.stack[0] \in Nat /\ t.stack[1] \in Nat
         /\ t.roundBet[0] \in Nat /\ t.roundBet[1] \in Nat
         /\ t.totalBet[0] \in Nat /\ t.totalBet[1] \in Nat
         /\ t.pot \in Nat /\ t.currentBet \in Nat /\ t.minRaise \in Nat
         /\ t.phase \in Phases /\ t.mode \in Modes
         /\ t.dealer \in Seats /\ t.turn \in Seats
BY DEF TableType, Seats

LEMMA PayKeeps ==
  ASSUME NEW t \in TableType, NEW i \in Seats, NEW amount \in Nat
  PROVE  /\ Pay(t, i, amount) \in TableType
         /\ Chips(Pay(t, i, amount)) = Chips(t)
         /\ Staked(t) => Staked(Pay(t, i, amount))
         /\ Pay(t, i, amount).phase = t.phase
<1> DEFINE paid == Least(amount, t.stack[i])
           p == Pay(t, i, amount)
<1>1. paid \in Nat /\ t.stack[i] - paid \in Nat /\ t.stack[i] \in Nat
      /\ t.roundBet[i] \in Nat /\ t.totalBet[i] \in Nat
  BY DEF TableType, Least
<1>2. p = [t EXCEPT !.stack = [t.stack EXCEPT ![i] = @ - paid],
                    !.roundBet = [t.roundBet EXCEPT ![i] = @ + paid],
                    !.totalBet = [t.totalBet EXCEPT ![i] = @ + paid],
                    !.allIn = [t.allIn EXCEPT ![i] = (t.stack[i] = paid)]]
  BY DEF Pay, TableType
<1>a. /\ [t.stack EXCEPT ![i] = @ - paid] \in [Seats -> Nat]
      /\ [t.roundBet EXCEPT ![i] = @ + paid] \in [Seats -> Nat]
      /\ [t.totalBet EXCEPT ![i] = @ + paid] \in [Seats -> Nat]
      /\ [t.allIn EXCEPT ![i] = (t.stack[i] = paid)] \in [Seats -> BOOLEAN]
  BY <1>1 DEF TableType
<1>3. p \in TableType
  BY <1>a, <1>2 DEF TableType
<1>4. Chips(p) = Chips(t)
  BY <1>1, <1>2 DEF TableType, Chips, Seats
<1>5. Staked(t) => Staked(p)
  BY <1>1, <1>2 DEF TableType, Staked, Seats
<1>6. p.phase = t.phase
  BY <1>2 DEF TableType
<1> QED BY <1>3, <1>4, <1>5, <1>6

LEMMA CollectKeeps ==
  ASSUME NEW t \in TableType
  PROVE  /\ CollectBets(t) \in TableType
         /\ Chips(CollectBets(t)) = Chips(t)
         /\ Staked(t) => Staked(CollectBets(t))
         /\ CollectBets(t).roundBet = Both(0)
         /\ CollectBets(t).currentBet = 0
         /\ CollectBets(t).pot = t.pot + t.roundBet[0] + t.roundBet[1]
         /\ CollectBets(t).totalBet = t.totalBet
         /\ CollectBets(t).stack = t.stack
         /\ CollectBets(t).phase = t.phase
<1> DEFINE c == CollectBets(t)
<1>1. BigBlind \in Nat
  BY TableAssumption
<1>a. /\ Both(0) \in [Seats -> Nat] /\ Both(FALSE) \in [Seats -> BOOLEAN]
      /\ t.pot + t.roundBet[0] + t.roundBet[1] \in Nat
  BY TableFields DEF Both
<1>2. c \in TableType
  BY <1>1, <1>a DEF CollectBets, TableType
<1>3. c.roundBet = Both(0) /\ c.currentBet = 0 /\ c.totalBet = t.totalBet /\ c.stack = t.stack
      /\ c.pot = t.pot + t.roundBet[0] + t.roundBet[1] /\ c.phase = t.phase
  BY DEF CollectBets, TableType
<1>4. Both(0)[0] = 0 /\ Both(0)[1] = 0
  BY DEF Both, Seats
<1>5. Chips(c) = Chips(t) /\ (Staked(t) => Staked(c))
  BY <1>3, <1>4, TableFields DEF Chips, Staked
<1> QED BY <1>2, <1>3, <1>5

\* The table after the pot has been paid out.
Settled(t, award, stack, winners, phase) ==
  [t EXCEPT !.awarded = award, !.stack = stack, !.winners = winners, !.phase = phase, !.pot = 0]

LEMMA SettledType ==
  ASSUME NEW t \in TableType, NEW award \in Nat, NEW stack \in [Seats -> Nat],
         NEW winners \in SUBSET Seats, NEW phase \in HandOver
  PROVE  /\ Settled(t, award, stack, winners, phase) \in TableType
         /\ Settled(t, award, stack, winners, phase).phase = phase
         /\ Settled(t, award, stack, winners, phase).pot = 0
         /\ Settled(t, award, stack, winners, phase).roundBet = t.roundBet
         /\ Settled(t, award, stack, winners, phase).stack = stack
         /\ Settled(t, award, stack, winners, phase).awarded = award
         /\ Settled(t, award, stack, winners, phase).totalBet = t.totalBet
<1>1. phase \in Phases
  BY DEF Phases
<1> QED BY <1>1 DEF Settled, TableType

LEMMA NothingBet == Both(0)[0] = 0 /\ Both(0)[1] = 0
BY DEF Both, Seats

LEMMA FoldEnds ==
  ASSUME NEW t \in TableType, NEW winner \in Seats
  PROVE  Over(FinishByFold(t, winner)) /\ Chips(FinishByFold(t, winner)) = Chips(t)
<1> DEFINE c == CollectBets(t)
           stack == [c.stack EXCEPT ![winner] = @ + c.pot]
           f == Settled(c, c.pot, stack, {winner}, "hand-finished")
<1>1. c \in TableType /\ Chips(c) = Chips(t) /\ c.roundBet = Both(0)
  BY CollectKeeps
<1>2. FinishByFold(t, winner) = f
  BY <1>1 DEF FinishByFold, TableType, Settled
<1>3. c.pot \in Nat /\ c.stack[winner] \in Nat /\ c.stack[0] \in Nat /\ c.stack[1] \in Nat
  BY <1>1 DEF TableType, Seats
<1>4. stack \in [Seats -> Nat] /\ stack[0] + stack[1] = c.stack[0] + c.stack[1] + c.pot
  BY <1>1, <1>3 DEF TableType, Seats
<1>5. "hand-finished" \in HandOver
  BY DEF HandOver
<1> HIDE DEF c, stack, f
<1>6. f \in TableType /\ f.phase = "hand-finished" /\ f.pot = 0 /\ f.roundBet = Both(0)
      /\ f.stack = stack
  BY <1>1, <1>3, <1>4, <1>5, SettledType DEF f
<1>7. Over(f)
  BY <1>1, <1>5, <1>6, NothingBet DEF Over
<1>8. Chips(f) = Chips(t)
  BY <1>1, <1>3, <1>4, <1>6, NothingBet DEF Chips
<1> QED BY <1>2, <1>7, <1>8

LEMMA ShowdownEnds ==
  ASSUME NEW t, Live(t), NEW w \in Showdowns
  PROVE  Over(Showdown(t, w)) /\ Chips(Showdown(t, w)) = Chips(t)
<1> DEFINE c == CollectBets(t)
           pot == c.pot - Excess(c, 0) - Excess(c, 1)
           stack == [i \in Seats |-> c.stack[i] + Excess(c, i) + Prize(w, i, pot)]
           s == Settled(c, pot, stack, w, "showdown")
<1>1. t \in TableType /\ Staked(t)
  BY DEF Live
<1>2. c \in TableType /\ Chips(c) = Chips(t) /\ c.roundBet = Both(0) /\ Staked(c)
  BY <1>1, CollectKeeps
<1>3. Showdown(t, w) = s
  BY <1>2 DEF Showdown, TableType, Settled
<1> HIDE DEF c
<1>4. /\ c.pot \in Nat /\ c.stack[0] \in Nat /\ c.stack[1] \in Nat
      /\ c.totalBet[0] \in Nat /\ c.totalBet[1] \in Nat
  BY <1>2, TableFields
<1>5. c.pot = c.totalBet[0] + c.totalBet[1]
  BY <1>2, <1>4, NothingBet DEF Staked
<1>6. Excess(c, 0) \in Nat /\ Excess(c, 1) \in Nat /\ pot \in Nat /\ pot = 2 * Matched(c)
  BY <1>4, <1>5 DEF Excess, Matched, Least
<1> HIDE DEF pot
<1>7. /\ Prize(w, 0, pot) \in Nat /\ Prize(w, 1, pot) \in Nat
      /\ Prize(w, 0, pot) + Prize(w, 1, pot) = pot
  <2>1. CASE w = {0}
    BY <2>1, <1>6 DEF Prize
  <2>2. CASE w = {1}
    BY <2>2, <1>6 DEF Prize
  <2>3. CASE w = {0, 1}
    <3>1. /\ Prize(w, 0, pot) = (pot \div 2) + (pot % 2)
          /\ Prize(w, 1, pot) = pot \div 2
      <4>1. w # {0} /\ w # {1} /\ 0 \in w /\ 1 \in w
        BY <2>3
      <4>2. pot \div 2 \in Int
        BY <1>6
      <4> QED BY <4>1, <4>2 DEF Prize
    <3>2. pot \in Nat
      BY <1>6
    <3> QED BY <3>1, <3>2
  <2> QED BY <2>1, <2>2, <2>3 DEF Showdowns
<1>8. stack \in [Seats -> Nat]
      /\ stack[0] + stack[1] = c.stack[0] + c.stack[1] + c.pot
  BY <1>4, <1>6, <1>7 DEF Seats, pot
<1>9. "showdown" \in HandOver /\ w \in SUBSET Seats
  BY DEF HandOver, Showdowns, Seats
<1> HIDE DEF stack, s
<1>10. s \in TableType /\ s.phase = "showdown" /\ s.pot = 0 /\ s.roundBet = Both(0)
       /\ s.stack = stack /\ s.awarded = pot /\ s.totalBet = c.totalBet
  BY <1>2, <1>6, <1>8, <1>9, SettledType DEF s
<1>11. Over(s)
  <2>1. Matched(s) = Matched(c)
    BY <1>10 DEF Matched
  <2> QED BY <2>1, <1>6, <1>9, <1>10, NothingBet DEF Over
<1>12. Chips(s) = Chips(t)
  BY <1>2, <1>4, <1>8, <1>10, NothingBet DEF Chips
<1> QED BY <1>3, <1>11, <1>12

LEMMA BoardType ==
  ASSUME NEW t \in TableType, NEW b \in {0, 3, 4, 5}
  PROVE  /\ [t EXCEPT !.board = b] \in TableType
         /\ Chips([t EXCEPT !.board = b]) = Chips(t)
         /\ Staked(t) => Staked([t EXCEPT !.board = b])
BY DEF TableType, Chips, Staked

LEMMA RunOutEnds ==
  ASSUME NEW t, Live(t), NEW w \in Showdowns
  PROVE  Over(RunOut(t, w)) /\ Chips(RunOut(t, w)) = Chips(t)
<1> DEFINE c == CollectBets(t)
           d == [c EXCEPT !.board = 5]
<1>1. t \in TableType /\ Staked(t)
  BY DEF Live
<1>2. c \in TableType /\ Chips(c) = Chips(t) /\ Staked(c)
  BY <1>1, CollectKeeps
<1> HIDE DEF c
<1>3. Live(d) /\ Chips(d) = Chips(t)
  BY <1>2, BoardType DEF Live
<1>4. RunOut(t, w) = Showdown(d, w) \/ RunOut(t, w) = Showdown(t, w)
  BY DEF RunOut, c
<1> HIDE DEF d
<1>5. Over(Showdown(d, w)) /\ Chips(Showdown(d, w)) = Chips(t)
  BY <1>3, ShowdownEnds
<1> QED BY <1>4, <1>5, ShowdownEnds

\* The table of the next street.
Street(t, phase, board) ==
  [CollectBets(t) EXCEPT !.phase = phase, !.board = board, !.turn = Other(t.dealer)]

LEMMA StreetSound ==
  ASSUME NEW t, Live(t), NEW phase \in BettingPhases \cup {"draw"}, NEW board \in {0, 3, 4, 5}
  PROVE  Sound(Street(t, phase, board)) /\ Chips(Street(t, phase, board)) = Chips(t)
<1> DEFINE c == CollectBets(t)
           turn == Other(t.dealer)
           s == [c EXCEPT !.phase = phase, !.board = board, !.turn = turn]
<1>1. t \in TableType /\ Staked(t)
  BY DEF Live
<1>2. c \in TableType /\ Chips(c) = Chips(t) /\ c.roundBet = Both(0) /\ c.currentBet = 0
      /\ Staked(c)
  BY <1>1, CollectKeeps
<1>3. turn \in Seats
  BY <1>1, TableFields DEF Other, Seats
<1>4. phase \in Phases /\ phase \notin HandOver
  BY DEF Phases, BettingPhases, HandOver
<1> HIDE DEF c, turn
<1>5. /\ s \in TableType /\ s.phase = phase /\ s.roundBet = c.roundBet /\ s.pot = c.pot
      /\ s.totalBet = c.totalBet /\ s.stack = c.stack /\ s.currentBet = c.currentBet
  BY <1>2, <1>3, <1>4 DEF TableType
<1>6. Street(t, phase, board) = s
  BY DEF Street, c, turn
<1> HIDE DEF s
<1>7. Staked(s) /\ Chips(s) = Chips(t)
  BY <1>2, <1>5 DEF Staked, Chips
<1>8. Bounded(s) /\ Level(s)
  BY <1>2, <1>5, NothingBet DEF Bounded, Level
<1> QED BY <1>4, <1>5, <1>6, <1>7, <1>8 DEF Sound, Live

LEMMA AdvanceSound ==
  ASSUME NEW t, Live(t), t.phase \in BettingPhases, NEW w \in Showdowns
  PROVE  Sound(AdvancePhase(t, w)) /\ Chips(AdvancePhase(t, w)) = Chips(t)
<1>1. t \in TableType /\ Staked(t)
  BY DEF Live
<1>2. CollectBets(t) \in TableType /\ Staked(CollectBets(t))
      /\ Chips(CollectBets(t)) = Chips(t)
  BY <1>1, CollectKeeps
<1>3. Sound(Showdown(CollectBets(t), w)) /\ Chips(Showdown(CollectBets(t), w)) = Chips(t)
  BY <1>2, ShowdownEnds DEF Live, Sound
<1>4. \/ AdvancePhase(t, w) = Street(t, "flop", 3)
      \/ AdvancePhase(t, w) = Street(t, "turn", 4)
      \/ AdvancePhase(t, w) = Street(t, "river", 5)
      \/ AdvancePhase(t, w) = Street(t, "draw", 0)
      \/ AdvancePhase(t, w) = Showdown(CollectBets(t), w)
  BY DEF AdvancePhase, Street, BettingPhases
<1>5. /\ "flop" \in BettingPhases /\ "turn" \in BettingPhases /\ "river" \in BettingPhases
  BY DEF BettingPhases
<1> QED BY <1>3, <1>4, <1>5, StreetSound

\* A table in a round of betting.
Betting(t) == Live(t) /\ Bounded(t) /\ Level(t) /\ t.phase \in BettingPhases

LEMMA TurnSound ==
  ASSUME NEW t, Live(t), Bounded(t), t.phase \notin HandOver,
         Level(t), NEW turn \in Seats
  PROVE  /\ Sound([t EXCEPT !.turn = turn])
         /\ Chips([t EXCEPT !.turn = turn]) = Chips(t)
<1> DEFINE s == [t EXCEPT !.turn = turn]
<1>1. /\ s \in TableType /\ s.phase = t.phase /\ s.roundBet = t.roundBet /\ s.pot = t.pot
      /\ s.totalBet = t.totalBet /\ s.stack = t.stack /\ s.currentBet = t.currentBet
  BY DEF Live, TableType
<1> HIDE DEF s
<1>2. Sound(s) /\ Chips(s) = Chips(t)
  BY <1>1 DEF Sound, Live, Staked, Bounded, Level, Chips
<1> QED BY <1>2 DEF s

LEMMA AfterActionSound ==
  ASSUME NEW t, Betting(t), NEW i \in Seats, NEW w \in Showdowns
  PROVE  Sound(AfterAction(t, i, w)) /\ Chips(AfterAction(t, i, w)) = Chips(t)
<1>1. Live(t) /\ Bounded(t) /\ Level(t) /\ t.phase \in BettingPhases
      /\ t.phase \notin HandOver
  BY DEF Betting, BettingPhases, HandOver
<1>2. Sound(RunOut(t, w)) /\ Chips(RunOut(t, w)) = Chips(t)
  BY <1>1, RunOutEnds DEF Sound
<1>3. Sound(AdvancePhase(t, w)) /\ Chips(AdvancePhase(t, w)) = Chips(t)
  BY <1>1, AdvanceSound
<1>4. \A turn \in Seats : Sound([t EXCEPT !.turn = turn])
                          /\ Chips([t EXCEPT !.turn = turn]) = Chips(t)
  BY <1>1, TurnSound
<1>5. i \in Seats /\ Other(i) \in Seats
  BY DEF Other, Seats
<1>6. \/ AfterAction(t, i, w) = RunOut(t, w)
      \/ AfterAction(t, i, w) = AdvancePhase(t, w)
      \/ \E turn \in Seats : AfterAction(t, i, w) = [t EXCEPT !.turn = turn]
  BY <1>5 DEF AfterAction
<1> QED BY <1>2, <1>3, <1>4, <1>6

LEMMA ActedKeeps ==
  ASSUME NEW t, NEW i \in Seats
  PROVE  /\ Live(t) => Live(Acted(t, i))
         /\ Betting(t) => Betting(Acted(t, i))
         /\ t \in TableType => Chips(Acted(t, i)) = Chips(t)
<1> DEFINE acted == [t.acted EXCEPT ![i] = TRUE]
           a == [t EXCEPT !.acted = acted]
<1> SUFFICES ASSUME t \in TableType
             PROVE  /\ Live(t) => Live(Acted(t, i))
                    /\ Betting(t) => Betting(Acted(t, i))
                    /\ Chips(Acted(t, i)) = Chips(t)
  BY DEF Betting, Live
<1>1. Acted(t, i) = a
  BY DEF Acted, TableType
<1>2. acted \in [Seats -> BOOLEAN]
  BY DEF TableType
<1> HIDE DEF acted
<1>3. /\ a \in TableType /\ a.phase = t.phase /\ a.roundBet = t.roundBet /\ a.pot = t.pot
      /\ a.totalBet = t.totalBet /\ a.stack = t.stack /\ a.currentBet = t.currentBet
  BY <1>2 DEF TableType
<1> HIDE DEF a
<1> QED BY <1>1, <1>3 DEF Live, Betting, Staked, Bounded, Level, Chips

\* Putting in chips up to the bet to call keeps the round in order.
LEMMA CallBetting ==
  ASSUME NEW t, Betting(t), NEW i \in Seats, NEW amount \in Nat,
         t.roundBet[i] < t.currentBet,
         t.roundBet[i] + Least(amount, t.stack[i]) <= t.currentBet
  PROVE  Betting(Pay(t, i, amount)) /\ Chips(Pay(t, i, amount)) = Chips(t)
<1> DEFINE p == Pay(t, i, amount)
<1>1. t \in TableType /\ Staked(t) /\ Bounded(t) /\ Level(t) /\ t.phase \in BettingPhases
  BY DEF Betting, Live
<1>a. /\ p.currentBet = t.currentBet
      /\ p.roundBet = [t.roundBet EXCEPT ![i] = @ + Least(amount, t.stack[i])]
  BY <1>1 DEF Pay, TableType
<1>b. p \in TableType /\ Chips(p) = Chips(t) /\ Staked(p) /\ p.phase = t.phase
  BY <1>1, PayKeeps
<1>2. /\ p \in TableType /\ Chips(p) = Chips(t) /\ Staked(p) /\ p.phase = t.phase
      /\ p.currentBet = t.currentBet
      /\ p.roundBet = [t.roundBet EXCEPT ![i] = @ + Least(amount, t.stack[i])]
  BY <1>a, <1>b
<1> HIDE DEF p
<1>3. p.roundBet[i] <= t.currentBet
      /\ p.roundBet[Other(i)] = t.roundBet[Other(i)]
      /\ t.roundBet[Other(i)] = t.currentBet
  BY <1>1, <1>2, TableFields DEF TableType, Other, Seats, Level
<1>4. Bounded(p) /\ Level(p)
  BY <1>1, <1>2, <1>3, TableFields DEF Bounded, Level, Other, Seats
<1> QED BY <1>1, <1>2, <1>4 DEF Betting, Live, p

LEMMA RaisedBetting ==
  ASSUME NEW t, Betting(t), NEW i \in Seats, NEW target \in Nat, NEW allIn \in BOOLEAN,
         RaiseAllowed(t, i, target, allIn)
  PROVE  Betting(Raised(t, i, target)) /\ Chips(Raised(t, i, target)) = Chips(t)
<1> DEFINE size == target - t.currentBet
           amount == target - t.roundBet[i]
           p == Pay(t, i, amount)
           raise == IF size >= p.minRaise THEN size ELSE p.minRaise
           acted == [[p.acted EXCEPT ![i] = TRUE] EXCEPT ![Other(i)] = FALSE]
           r == [p EXCEPT !.minRaise = raise, !.currentBet = target, !.acted = acted]
<1>1. t \in TableType /\ Staked(t) /\ Bounded(t) /\ t.phase \in BettingPhases
  BY DEF Betting, Live
<1>2. target > t.currentBet /\ amount <= t.stack[i]
  BY DEF RaiseAllowed
<1>3. amount \in Nat /\ size \in Nat /\ Least(amount, t.stack[i]) = amount
  BY <1>1, <1>2, TableFields DEF Bounded, Seats, Least
<1> HIDE DEF amount, size
<1>a. p.roundBet = [t.roundBet EXCEPT ![i] = @ + Least(amount, t.stack[i])]
  BY <1>1, <1>3 DEF Pay, TableType
<1>b. p \in TableType /\ Chips(p) = Chips(t) /\ Staked(p) /\ p.phase = t.phase
  BY <1>1, <1>3, PayKeeps
<1>4. /\ p \in TableType /\ Chips(p) = Chips(t) /\ Staked(p) /\ p.phase = t.phase
      /\ p.roundBet = [t.roundBet EXCEPT ![i] = @ + amount]
  BY <1>3, <1>a, <1>b
<1> HIDE DEF p
<1>5. Raised(t, i, target) = r
  BY <1>4 DEF Raised, TableType, p, amount, size
<1>6. raise \in Nat /\ acted \in [Seats -> BOOLEAN]
  BY <1>3, <1>4 DEF TableType
<1> HIDE DEF raise, acted
<1>7. /\ r \in TableType /\ r.phase = p.phase /\ r.roundBet = p.roundBet /\ r.pot = p.pot
      /\ r.totalBet = p.totalBet /\ r.stack = p.stack /\ r.currentBet = target
  BY <1>4, <1>6 DEF TableType
<1> HIDE DEF r
<1>8. r.roundBet[i] = target
  BY <1>1, <1>4, <1>7, TableFields DEF TableType, amount, Seats
<1>9. r.roundBet[Other(i)] = t.roundBet[Other(i)] /\ t.roundBet[Other(i)] <= target
  BY <1>1, <1>2, <1>4, <1>7, TableFields DEF TableType, Bounded, Other, Seats
<1>10. Bounded(r) /\ Level(r)
  BY <1>1, <1>7, <1>8, <1>9, TableFields DEF Bounded, Level, Other, Seats
<1>11. Staked(r) /\ Chips(r) = Chips(t)
  BY <1>4, <1>7 DEF Staked, Chips
<1> QED BY <1>1, <1>4, <1>5, <1>7, <1>10, <1>11 DEF Betting, Live

\* A table with nothing bet, before the blinds of a hand.
Fresh(t) == t \in TableType /\ t.pot = 0 /\ t.roundBet = Both(0) /\ t.totalBet = Both(0)

LEMMA StartHoldemSound ==
  ASSUME NEW t, Fresh(t), NEW w \in Showdowns
  PROVE  Sound(StartHoldem(t, w)) /\ Chips(StartHoldem(t, w)) = Chips(t)
<1> DEFINE d == t.dealer
           o == Other(t.dealer)
           p == Pay(t, d, SmallBlind)
           q == Pay(p, o, BigBlind)
           s == [q EXCEPT !.phase = "preflop", !.currentBet = BigBlind,
                          !.minRaise = BigBlind, !.turn = d]
<1>1. /\ SmallBlind \in Nat /\ BigBlind \in Nat /\ SmallBlind <= BigBlind
      /\ t \in TableType /\ d \in Seats /\ o \in Seats /\ o # d /\ Seats = {d, o}
  BY TableAssumption, TableFields DEF Fresh, Other, Seats
<1>2. Staked(t)
  BY NothingBet DEF Fresh, Staked
<1> HIDE DEF d, o
<1>3. p \in TableType /\ Chips(p) = Chips(t) /\ Staked(p)
  BY <1>1, <1>2, PayKeeps
<1>4. p.roundBet = [Both(0) EXCEPT ![d] = Least(SmallBlind, t.stack[d])]
  <2>1. p.roundBet = [t.roundBet EXCEPT ![d] = @ + Least(SmallBlind, t.stack[d])]
    BY <1>1 DEF Pay, TableType
  <2>2. Least(SmallBlind, t.stack[d]) \in Nat
    BY <1>1 DEF Least, TableType
  <2>3. t.roundBet = Both(0) /\ Both(0)[d] = 0
    BY <1>1 DEF Fresh, Both
  <2> QED BY <2>1, <2>2, <2>3
<1>5. p.roundBet[o] = 0 /\ p.roundBet[d] <= BigBlind /\ p.roundBet[d] \in Nat
  BY <1>1, <1>4 DEF Both, Least, TableType
<1> HIDE DEF p
<1>6. q \in TableType /\ Chips(q) = Chips(t) /\ Staked(q)
  BY <1>1, <1>3, PayKeeps
<1>7. /\ q.roundBet = [p.roundBet EXCEPT ![o] = @ + Least(BigBlind, p.stack[o])]
      /\ q.allIn = [p.allIn EXCEPT ![o] = (p.stack[o] = Least(BigBlind, p.stack[o]))]
  BY <1>1, <1>3 DEF Pay, TableType
<1>8. Least(BigBlind, p.stack[o]) \in Nat /\ Least(BigBlind, p.stack[o]) <= BigBlind
      /\ (p.stack[o] = Least(BigBlind, p.stack[o]) \/ Least(BigBlind, p.stack[o]) = BigBlind)
  BY <1>1, <1>3 DEF Least, TableType
<1>9. /\ q.roundBet[o] <= BigBlind /\ q.roundBet[d] <= BigBlind
      /\ ~ q.allIn[o] => q.roundBet[o] = BigBlind
  <2>1. p.roundBet \in [Seats -> Nat] /\ p.allIn \in [Seats -> BOOLEAN]
    BY <1>3 DEF TableType
  <2>2. q.roundBet[o] = Least(BigBlind, p.stack[o]) /\ q.roundBet[d] = p.roundBet[d]
    BY <1>1, <1>5, <1>7, <1>8, <2>1
  <2>3. q.allIn[o] = (p.stack[o] = Least(BigBlind, p.stack[o]))
    BY <1>1, <1>7, <2>1
  <2>4. ~ q.allIn[o] => Least(BigBlind, p.stack[o]) = BigBlind
    BY <1>8, <2>3
  <2> QED BY <1>5, <1>8, <2>2, <2>4
<1> HIDE DEF q
<1>10. StartHoldem(t, w) = IF s.allIn[0] \/ s.allIn[1] THEN RunOut(s, w) ELSE s
  BY <1>6 DEF StartHoldem, d, o, p, q
<1>11. /\ s \in TableType /\ s.phase = "preflop" /\ s.roundBet = q.roundBet /\ s.pot = q.pot
       /\ s.totalBet = q.totalBet /\ s.stack = q.stack /\ s.currentBet = BigBlind
       /\ s.allIn = q.allIn
  BY <1>1, <1>6 DEF TableType, Phases, BettingPhases
<1> HIDE DEF s
<1>12. Live(s) /\ Chips(s) = Chips(t)
  BY <1>6, <1>11 DEF Live, Staked, Chips
<1>13. Over(RunOut(s, w)) /\ Chips(RunOut(s, w)) = Chips(t)
  BY <1>12, RunOutEnds
<1>14. ASSUME ~ (s.allIn[0] \/ s.allIn[1])
       PROVE  Sound(s)
  <2>1. Bounded(s)
    BY <1>1, <1>9, <1>11 DEF Bounded, Seats
  <2>2. ~ q.allIn[o]
    BY <1>1, <1>11, <1>14 DEF Seats
  <2>3. Level(s)
    BY <1>1, <1>9, <1>11, <2>2 DEF Level, Seats
  <2>4. s.phase \notin HandOver
    BY <1>11 DEF HandOver
  <2> QED BY <1>12, <2>1, <2>3, <2>4 DEF Sound
<1> QED BY <1>10, <1>12, <1>13, <1>14 DEF Sound

LEMMA StartDrawSound ==
  ASSUME NEW t, Fresh(t)
  PROVE  Sound(StartFiveCardDraw(t)) /\ Chips(StartFiveCardDraw(t)) = Chips(t)
<1> DEFINE p == Pay(t, 0, SmallBlind)
           q == Pay(p, 1, SmallBlind)
           c == CollectBets(q)
           phase == IF c.allIn[0] \/ c.allIn[1] THEN "draw" ELSE "draw-bet"
           turn == Other(t.dealer)
           s == [c EXCEPT !.phase = phase, !.turn = turn]
<1>1. /\ SmallBlind \in Nat /\ t \in TableType /\ turn \in Seats /\ 0 \in Seats /\ 1 \in Seats
  BY TableAssumption, TableFields DEF Fresh, Other, Seats
<1>2. Staked(t)
  BY NothingBet DEF Fresh, Staked
<1>3. p \in TableType /\ Chips(p) = Chips(t) /\ Staked(p)
  BY <1>1, <1>2, PayKeeps
<1> HIDE DEF p
<1>4. q \in TableType /\ Chips(q) = Chips(t) /\ Staked(q)
  BY <1>1, <1>3, PayKeeps
<1> HIDE DEF q
<1>5. c \in TableType /\ Chips(c) = Chips(t) /\ Staked(c) /\ c.roundBet = Both(0)
      /\ c.currentBet = 0
  BY <1>4, CollectKeeps
<1>6. StartFiveCardDraw(t) = s
  BY DEF StartFiveCardDraw, p, q
<1> HIDE DEF c, turn
<1>7. phase \in Phases /\ phase \notin HandOver
  BY DEF Phases, BettingPhases, HandOver
<1> HIDE DEF phase
<1>8. /\ s \in TableType /\ s.phase = phase /\ s.roundBet = c.roundBet /\ s.pot = c.pot
      /\ s.totalBet = c.totalBet /\ s.stack = c.stack /\ s.currentBet = c.currentBet
  BY <1>1, <1>5, <1>7 DEF TableType
<1> HIDE DEF s
<1>9. Staked(s) /\ Chips(s) = Chips(t)
  BY <1>5, <1>8 DEF Staked, Chips
<1>10. Bounded(s) /\ Level(s)
  BY <1>5, <1>8, NothingBet DEF Bounded, Level
<1> QED BY <1>6, <1>7, <1>8, <1>9, <1>10 DEF Sound, Live

\* A table of TableType, or one that has not been dealt a hand.
StartType ==
  [mode : Modes, phase : Phases, dealer : Seats \cup {-1}, turn : Seats,
   stack : [Seats -> Nat], folded : [Seats -> BOOLEAN], allIn : [Seats -> BOOLEAN],
   roundBet : [Seats -> Nat], totalBet : [Seats -> Nat], acted : [Seats -> BOOLEAN],
   discarded : [Seats -> BOOLEAN], pot : Nat, awarded : Nat, currentBet : Nat,
   minRaise : Nat, winners : SUBSET Seats, board : {0, 3, 4, 5}]

LEMMA StartHandSound ==
  ASSUME NEW t \in StartType, NEW w \in Showdowns
  PROVE  Sound(StartHand(t, w)) /\ Chips(StartHand(t, w)) = t.stack[0] + t.stack[1]
<1> DEFINE dealer == (t.dealer + 1) % 2
           c == Clean(t)
<1>1. dealer \in Seats
  BY DEF StartType, Seats
<1>2. /\ BigBlind \in Nat /\ Both(0) \in [Seats -> Nat] /\ Both(FALSE) \in [Seats -> BOOLEAN]
      /\ {} \in SUBSET Seats
  BY TableAssumption DEF Both
<1>3. c = [t EXCEPT !.pot = 0, !.awarded = 0, !.currentBet = 0, !.minRaise = BigBlind,
                    !.dealer = dealer, !.winners = {}, !.board = 0,
                    !.folded = Both(FALSE), !.allIn = Both(FALSE),
                    !.roundBet = Both(0), !.totalBet = Both(0),
                    !.acted = Both(FALSE), !.discarded = Both(FALSE)]
  BY DEF Clean, StartType
<1> HIDE DEF dealer, c
<1>4. c \in TableType
  BY <1>1, <1>2, <1>3 DEF StartType, TableType
<1>5. c.stack = t.stack /\ c.pot = 0 /\ c.roundBet = Both(0) /\ c.totalBet = Both(0)
  BY <1>3 DEF StartType
<1>6. Fresh(c) /\ Chips(c) = t.stack[0] + t.stack[1]
  BY <1>4, <1>5, NothingBet, TableFields DEF Fresh, Chips
<1>7. StartHand(t, w) = StartHoldem(c, w) \/ StartHand(t, w) = StartFiveCardDraw(c)
  BY DEF StartHand, c
<1> QED BY <1>6, <1>7, StartHoldemSound, StartDrawSound

-----------------------------------------------------------------------------
(* The invariant. *)

TableInv == Sound(table) /\ Chips(table) = 2 * StartingStack

LEMMA InitSound == Init => TableInv
<1> SUFFICES ASSUME NEW mode \in Modes, NEW w \in Showdowns
             PROVE  /\ Sound(StartHand(NewTable(mode), w))
                    /\ Chips(StartHand(NewTable(mode), w)) = 2 * StartingStack
  BY DEF Init, TableInv
<1> DEFINE t == NewTable(mode)
<1>1. StartingStack \in Nat /\ BigBlind \in Nat
  BY TableAssumption
<1>2. /\ "hand-finished" \in Phases /\ Both(0) \in [Seats -> Nat]
      /\ Both(StartingStack) \in [Seats -> Nat] /\ Both(FALSE) \in [Seats -> BOOLEAN]
  BY <1>1 DEF Phases, HandOver, Both
<1>3. t \in StartType
  BY <1>1, <1>2 DEF NewTable, StartType, Seats
<1>4. t.stack[0] + t.stack[1] = 2 * StartingStack
  BY <1>1 DEF NewTable, Both, Seats
<1> HIDE DEF t
<1>5. Sound(StartHand(t, w)) /\ Chips(StartHand(t, w)) = t.stack[0] + t.stack[1]
  BY <1>3, StartHandSound
<1> QED BY <1>4, <1>5 DEF t

LEMMA NextHandSound ==
  ASSUME TableInv, NEW w \in Showdowns, NextHand(w)
  PROVE  TableInv'
<1> DEFINE t == Restacked(table)
<1>1. table.phase \in HandOver /\ table' = StartHand(t, w)
  BY DEF NextHand
<1>2. Over(table) /\ table \in TableType
  BY <1>1 DEF TableInv, Sound, Over
<1>3. table.stack[0] + table.stack[1] = 2 * StartingStack
  BY <1>2, TableFields DEF TableInv, Over, Chips
<1>4. StartingStack \in Nat /\ Both(StartingStack) \in [Seats -> Nat]
      /\ Both(StartingStack)[0] = StartingStack /\ Both(StartingStack)[1] = StartingStack
  BY TableAssumption DEF Both, Seats
<1>5. t \in StartType /\ t.stack[0] + t.stack[1] = 2 * StartingStack
  <2>1. table \in StartType
    BY <1>2 DEF StartType, TableType
  <2>2. CASE t = table
    BY <2>1, <2>2, <1>3
  <2>3. CASE t = [table EXCEPT !.stack = Both(StartingStack)]
    <3>1. t.stack = Both(StartingStack) /\ t \in StartType
      BY <2>1, <2>3, <1>4 DEF StartType
    <3> QED BY <3>1, <1>4
  <2> QED BY <2>2, <2>3 DEF Restacked
<1> HIDE DEF t
<1>6. Sound(table') /\ Chips(table') = 2 * StartingStack
  BY <1>1, <1>5, StartHandSound
<1> QED BY <1>6 DEF TableInv

LEMMA InBetting ==
  ASSUME TableInv, NEW i \in Seats, CanAct(table, i)
  PROVE  Betting(table) /\ table \in TableType
BY DEF TableInv, Sound, Over, CanAct, Betting, BettingPhases, HandOver, Live

LEMMA FoldSound ==
  ASSUME TableInv, NEW i \in Seats, Fold(i)
  PROVE  TableInv'
<1> DEFINE a == Acted(table, i)
           folded == [a.folded EXCEPT ![i] = TRUE]
           f == [a EXCEPT !.folded = folded]
<1>1. Betting(table) /\ table \in TableType
  BY InBetting DEF Fold
<1>2. a \in TableType /\ Chips(a) = 2 * StartingStack
  BY <1>1, ActedKeeps DEF TableInv, Betting, Live
<1> HIDE DEF a
<1>3. folded \in [Seats -> BOOLEAN]
  BY <1>2 DEF TableType
<1>4. table' = FinishByFold(f, Other(i)) /\ Other(i) \in Seats
  BY <1>2 DEF Fold, a, TableType, Other, Seats
<1> HIDE DEF folded
<1>5. f \in TableType /\ Chips(f) = 2 * StartingStack
  BY <1>2, <1>3 DEF TableType, Chips
<1> HIDE DEF f
<1> QED BY <1>4, <1>5, FoldEnds DEF TableInv, Sound

LEMMA CheckSound ==
  ASSUME TableInv, NEW i \in Seats, NEW w \in Showdowns, Check(i, w)
  PROVE  TableInv'
<1>1. Betting(table) /\ table \in TableType
  BY InBetting DEF Check
<1>2. Betting(Acted(table, i)) /\ Chips(Acted(table, i)) = 2 * StartingStack
  BY <1>1, ActedKeeps DEF TableInv
<1>3. table' = AfterAction(Acted(table, i), i, w)
  BY DEF Check
<1> QED BY <1>2, <1>3, AfterActionSound DEF TableInv

\* What follows once chips were put in, for a call and for a short all-in.
LEMMA PaidSound ==
  ASSUME TableInv, Betting(table), NEW i \in Seats, NEW w \in Showdowns, NEW amount \in Nat,
         table.roundBet[i] < table.currentBet,
         table.roundBet[i] + Least(amount, table.stack[i]) <= table.currentBet,
         table' = AfterAction(Acted(Pay(table, i, amount), i), i, w)
  PROVE  TableInv'
<1> DEFINE p == Pay(table, i, amount)
<1>1. Betting(p) /\ Chips(p) = 2 * StartingStack
  BY CallBetting DEF TableInv
<1> HIDE DEF p
<1>2. p \in TableType
  BY <1>1 DEF Betting, Live
<1>3. Betting(Acted(p, i)) /\ Chips(Acted(p, i)) = 2 * StartingStack
  BY <1>1, <1>2, ActedKeeps
<1>4. Sound(AfterAction(Acted(p, i), i, w))
      /\ Chips(AfterAction(Acted(p, i), i, w)) = 2 * StartingStack
  BY <1>3, AfterActionSound
<1> QED BY <1>4 DEF TableInv, p

LEMMA CallSound ==
  ASSUME TableInv, NEW i \in Seats, NEW w \in Showdowns, Call(i, w)
  PROVE  TableInv'
<1>1. Betting(table) /\ table \in TableType /\ Bounded(table)
  BY InBetting DEF Call, Betting
<1>2. ToCall(table, i) # 0
      /\ table' = AfterAction(Acted(Pay(table, i, ToCall(table, i)), i), i, w)
  BY DEF Call
<1>3. /\ table.roundBet[i] \in Nat /\ table.currentBet \in Nat /\ table.stack[i] \in Nat
  BY <1>1 DEF TableType
<1>4. /\ ToCall(table, i) \in Nat /\ table.roundBet[i] < table.currentBet
      /\ table.roundBet[i] + Least(ToCall(table, i), table.stack[i]) <= table.currentBet
  BY <1>2, <1>3 DEF ToCall, Least
<1> QED BY <1>1, <1>2, <1>4, PaidSound

LEMMA RaiseSound ==
  ASSUME TableInv, NEW i \in Seats, NEW w \in Showdowns, NEW target \in Nat,
         NEW allIn \in BOOLEAN,
         Betting(table), RaiseAllowed(table, i, target, allIn),
         table' = AfterAction(Raised(table, i, target), i, w)
  PROVE  TableInv'
<1>1. Betting(Raised(table, i, target)) /\ Chips(Raised(table, i, target)) = 2 * StartingStack
  BY RaisedBetting DEF TableInv
<1> QED BY <1>1, AfterActionSound DEF TableInv

LEMMA AllInSound ==
  ASSUME TableInv, NEW i \in Seats, NEW w \in Showdowns, AllIn(i, w)
  PROVE  TableInv'
<1> DEFINE target == table.roundBet[i] + table.stack[i]
<1>1. Betting(table) /\ table \in TableType
  BY InBetting DEF AllIn
<1>2. /\ table.roundBet[i] \in Nat /\ table.currentBet \in Nat /\ table.stack[i] \in Nat
      /\ table.stack[i] # 0 /\ target \in Nat
  BY <1>1 DEF TableType, AllIn
<1>3. CASE target > table.currentBet
  <2>1. RaiseAllowed(table, i, target, TRUE)
        /\ table' = AfterAction(Raised(table, i, target), i, w)
    BY <1>3 DEF AllIn
  <2> HIDE DEF target
  <2> QED BY <1>1, <1>2, <2>1, RaiseSound
<1>4. CASE ~ (target > table.currentBet)
  <2>1. table' = AfterAction(Acted(Pay(table, i, table.stack[i]), i), i, w)
    BY <1>4 DEF AllIn
  <2>2. /\ table.roundBet[i] < table.currentBet
        /\ table.roundBet[i] + Least(table.stack[i], table.stack[i]) <= table.currentBet
    BY <1>2, <1>4 DEF Least
  <2> QED BY <1>1, <1>2, <2>1, <2>2, PaidSound
<1> QED BY <1>3, <1>4

LEMMA DiscardSound ==
  ASSUME TableInv, NEW i \in Seats, NEW w \in Showdowns, Discard(i, w)
  PROVE  TableInv'
<1> DEFINE discarded == [table.discarded EXCEPT ![i] = TRUE]
           d == [table EXCEPT !.discarded = discarded]
           turn == Other(table.dealer)
           f == [d EXCEPT !.phase = "final-bet", !.turn = turn]
<1>1. /\ table \in TableType /\ Live(table) /\ Bounded(table) /\ Level(table)
      /\ table.phase = "draw"
  BY DEF TableInv, Sound, Over, Discard, HandOver, Live
<1>2. turn \in Seats /\ Other(i) \in Seats
  BY <1>1, TableFields DEF Other, Seats
<1>3. discarded \in [Seats -> BOOLEAN]
  BY <1>1 DEF TableType
<1>4. \/ table' = [d EXCEPT !.turn = Other(i)]
      \/ table' = Showdown(d, w)
      \/ table' = f
  BY <1>1 DEF Discard, TableType
<1> HIDE DEF discarded, turn
<1>5. /\ d \in TableType /\ d.phase = "draw" /\ d.roundBet = table.roundBet
      /\ d.pot = table.pot /\ d.totalBet = table.totalBet /\ d.stack = table.stack
      /\ d.currentBet = table.currentBet
  BY <1>1, <1>3 DEF TableType
<1> HIDE DEF d
<1>6. Live(d) /\ Bounded(d) /\ Level(d) /\ Chips(d) = 2 * StartingStack
  BY <1>1, <1>5 DEF Live, Staked, Bounded, Level, Chips, TableInv
<1>7. d.phase \notin HandOver /\ "final-bet" \in Phases /\ "final-bet" \notin HandOver
  BY <1>5 DEF HandOver, Phases, BettingPhases
<1>8. CASE table' = [d EXCEPT !.turn = Other(i)]
  BY <1>2, <1>6, <1>7, <1>8, TurnSound DEF TableInv
<1>9. CASE table' = Showdown(d, w)
  BY <1>6, <1>9, ShowdownEnds DEF TableInv, Sound
<1>10. CASE table' = f
  <2>1. /\ f \in TableType /\ f.phase = "final-bet" /\ f.roundBet = d.roundBet
        /\ f.pot = d.pot /\ f.totalBet = d.totalBet /\ f.stack = d.stack
        /\ f.currentBet = d.currentBet
    BY <1>2, <1>5, <1>7 DEF TableType
  <2> HIDE DEF f
  <2>2. Sound(f) /\ Chips(f) = 2 * StartingStack
    BY <1>6, <1>7, <2>1 DEF Sound, Live, Staked, Bounded, Level, Chips
  <2> QED BY <1>10, <2>2 DEF TableInv
<1> QED BY <1>4, <1>8, <1>9, <1>10

LEMMA LeaveSound ==
  ASSUME TableInv, NEW i \in Seats, Leave(i)
  PROVE  TableInv'
<1>1. table \in TableType /\ Other(i) \in Seats
  BY DEF TableInv, Sound, Over, Live, Other, Seats
<1> QED BY <1>1, FoldEnds DEF Leave, TableInv, Sound

LEMMA StepSound == TableInv /\ [Next]_table => TableInv'
<1> SUFFICES ASSUME TableInv, [Next]_table
             PROVE  TableInv'
  OBVIOUS
<1>1. CASE UNCHANGED table
  BY <1>1 DEF TableInv, Sound, Over, Live, Staked, Bounded, Level, Matched, Chips
<1>2. ASSUME NEW w \in Showdowns, NextHand(w)
      PROVE  TableInv'
  BY <1>2, NextHandSound
<1>3. ASSUME NEW w \in Showdowns, NEW i \in Seats, Bet(i, w)
      PROVE  TableInv'
  <2>1. CASE Fold(i)
    BY <2>1, FoldSound
  <2>2. CASE Check(i, w)
    BY <2>2, CheckSound
  <2>3. CASE Call(i, w)
    BY <2>3, CallSound
  <2>4. CASE AllIn(i, w)
    BY <2>4, AllInSound
  <2>5. ASSUME NEW target \in 1..(2 * StartingStack), RaiseTo(i, target, w)
        PROVE  TableInv'
    <3>1. target \in Nat /\ Betting(table)
      BY <2>5, InBetting, TableAssumption DEF RaiseTo
    <3>2. RaiseAllowed(table, i, target, FALSE)
          /\ table' = AfterAction(Raised(table, i, target), i, w)
      BY <2>5 DEF RaiseTo
    <3> QED BY <3>1, <3>2, RaiseSound
  <2> QED BY <1>3, <2>1, <2>2, <2>3, <2>4, <2>5 DEF Bet
<1>4. ASSUME NEW w \in Showdowns, NEW i \in Seats, Discard(i, w)
      PROVE  TableInv'
  BY <1>4, DiscardSound
<1>5. ASSUME NEW i \in Seats, Leave(i)
      PROVE  TableInv'
  BY <1>5, LeaveSound
<1> QED BY <1>1, <1>2, <1>3, <1>4, <1>5 DEF Next

\* The table is always between two hands with nothing bet, or in a hand whose
\* pot and bets add up, and both players' chips never change in sum.
THEOREM TableInvariant == Spec => []TableInv
BY InitSound, StepSound, PTL DEF Spec

-----------------------------------------------------------------------------
(* What the runs check of it. *)

\* The table's fields have their types, whatever the stacks and blinds.
THEOREM TypeCorrect == Spec => []TypeOK
<1>1. TableInv => TypeOK
  BY DEF TableInv, Sound, Over, Live, TypeOK
<1> QED BY <1>1, TableInvariant, PTL

\* No bet, raise, refund, split pot or fold makes or loses a chip.
THEOREM ConservesChips == Spec => []ChipsConserved
<1>1. TableInv => ChipsConserved
  BY DEF TableInv, ChipsConserved
<1> QED BY <1>1, TableInvariant, PTL

\* In a hand the pot and the bets of the round are what the players have put in.
THEOREM PotAddsUp == Spec => []PotIsBets
<1>1. TableInv => PotIsBets
  BY DEF TableInv, Sound, Over, Live, Staked, PotIsBets
<1> QED BY <1>1, TableInvariant, PTL

\* The bet to call is the larger of the two bets, so a call always evens them.
THEOREM CallEvens == Spec => []BetIsMatchable
<1>1. TableInv => BetIsMatchable
  BY DEF TableInv, Sound, Over, Bounded, Level, BetIsMatchable, Seats, BettingPhases, HandOver
<1> QED BY <1>1, TableInvariant, PTL

\* A showdown awards twice what the player with less at stake had put in.
THEOREM OverpaysNobody == Spec => []NobodyOverpays
<1>1. TableInv => NobodyOverpays
  BY DEF TableInv, Sound, Over, NobodyOverpays, HandOver
<1> QED BY <1>1, TableInvariant, PTL

-----------------------------------------------------------------------------
(* Whoever has the turn can act, and betting stops only when it may, for   *)
(* all stacks and blinds.                                                  *)

\* Nobody has folded, and who is all-in has no chips left, and nobody else.
Able(t) == \A j \in Seats : ~ t.folded[j] /\ (t.allIn[j] <=> t.stack[j] = 0)

\* The rounds before this one were closed with equal bets.
Even(t) == t.totalBet[0] - t.roundBet[0] = t.totalBet[1] - t.roundBet[1]

\* What holds of a table between two calls.
TurnSafe(t) ==
  /\ t.phase \notin HandOver => Able(t)
  /\ t.phase \in BettingPhases => Even(t) /\ ~ t.allIn[t.turn]
  /\ t.phase = "draw" /\ ~ t.allIn[0] /\ ~ t.allIn[1] => Even(t)

\* Seat i has met the bet or has nothing left.
Answered(t, i) == t.roundBet[i] = t.currentBet \/ t.allIn[i]

\* Nobody has put in less than the opponent, except for who is all-in.
Earned(t) == \A j \in Seats : t.totalBet[j] >= t.totalBet[Other(j)] \/ t.allIn[j]

\* What the engine does to a table t in a round of betting when it closes it.
ClosesWell(t, s) ==
  /\ TurnSafe(s)
  /\ s.phase # t.phase => Earned(s)
  /\ s.phase # t.phase /\ s.phase \notin HandOver =>
       s.allIn[0] \/ s.allIn[1] \/ (t.acted[0] /\ t.acted[1])

-----------------------------------------------------------------------------
(* What the helpers of the engine leave alone. *)

LEMMA CollectEffect ==
  ASSUME NEW t \in TableType
  PROVE  /\ CollectBets(t).folded = t.folded /\ CollectBets(t).allIn = t.allIn
         /\ CollectBets(t).dealer = t.dealer
BY DEF CollectBets, TableType

LEMMA ShowdownEffect ==
  ASSUME NEW t \in TableType, NEW w
  PROVE  /\ Showdown(t, w).totalBet = t.totalBet /\ Showdown(t, w).allIn = t.allIn
         /\ Showdown(t, w).phase = "showdown"
<1> DEFINE c == CollectBets(t)
<1>1. c \in TableType /\ c.totalBet = t.totalBet /\ c.allIn = t.allIn
  BY CollectKeeps, CollectEffect
<1> HIDE DEF c
<1>2. \A award, stack :
        LET s == [c EXCEPT !.stack = stack, !.awarded = award, !.winners = w,
                           !.phase = "showdown", !.pot = 0]
        IN  s.totalBet = c.totalBet /\ s.allIn = c.allIn /\ s.phase = "showdown"
  BY <1>1 DEF TableType
<1> QED BY <1>1, <1>2 DEF Showdown, c

LEMMA RunOutEffect ==
  ASSUME NEW t \in TableType, NEW w
  PROVE  /\ RunOut(t, w).totalBet = t.totalBet /\ RunOut(t, w).allIn = t.allIn
         /\ RunOut(t, w).phase = "showdown"
<1> DEFINE c == CollectBets(t)
           d == [c EXCEPT !.board = 5]
<1>1. c \in TableType /\ c.totalBet = t.totalBet /\ c.allIn = t.allIn
  BY CollectKeeps, CollectEffect
<1>2. RunOut(t, w) = Showdown(d, w) \/ RunOut(t, w) = Showdown(t, w)
  BY DEF RunOut
<1> HIDE DEF c
<1>3. d \in TableType /\ d.totalBet = t.totalBet /\ d.allIn = t.allIn
  BY <1>1 DEF TableType
<1> HIDE DEF d
<1> QED BY <1>2, <1>3, ShowdownEffect

LEMMA StreetEffect ==
  ASSUME NEW t \in TableType, NEW phase, NEW board
  PROVE  /\ Street(t, phase, board).phase = phase
         /\ Street(t, phase, board).totalBet = t.totalBet
         /\ Street(t, phase, board).roundBet = Both(0)
         /\ Street(t, phase, board).allIn = t.allIn
         /\ Street(t, phase, board).folded = t.folded
         /\ Street(t, phase, board).stack = t.stack
         /\ Street(t, phase, board).turn \in Seats
<1> DEFINE c == CollectBets(t)
           turn == Other(t.dealer)
           s == [c EXCEPT !.phase = phase, !.board = board, !.turn = turn]
<1>1. /\ c \in TableType /\ c.totalBet = t.totalBet /\ c.allIn = t.allIn
      /\ c.folded = t.folded /\ c.stack = t.stack /\ c.roundBet = Both(0)
  BY CollectKeeps, CollectEffect
<1>2. turn \in Seats
  BY TableFields DEF Other, Seats
<1>3. Street(t, phase, board) = s
  BY DEF Street
<1> HIDE DEF c, turn
<1>4. /\ s.phase = phase /\ s.totalBet = c.totalBet /\ s.roundBet = c.roundBet
      /\ s.allIn = c.allIn /\ s.folded = c.folded /\ s.stack = c.stack /\ s.turn = turn
  BY <1>1 DEF TableType
<1> QED BY <1>1, <1>2, <1>3, <1>4

LEMMA AdvanceCases ==
  ASSUME NEW t \in TableType, t.phase \in BettingPhases, NEW w
  PROVE  \/ \E phase \in BettingPhases, board \in {3, 4, 5} :
              t.phase # "draw-bet" /\ AdvancePhase(t, w) = Street(t, phase, board)
         \/ t.phase = "draw-bet" /\ AdvancePhase(t, w) = Street(t, "draw", 0)
         \/ t.phase # "draw-bet" /\ AdvancePhase(t, w) = Showdown(CollectBets(t), w)
<1>1. CASE t.phase = "preflop"
  BY <1>1 DEF AdvancePhase, Street, BettingPhases
<1>2. CASE t.phase = "flop"
  BY <1>2 DEF AdvancePhase, Street, BettingPhases
<1>3. CASE t.phase = "turn"
  BY <1>3 DEF AdvancePhase, Street, BettingPhases
<1>4. CASE t.phase = "draw-bet"
  BY <1>4 DEF AdvancePhase, Street
<1>5. CASE t.phase \in {"river", "final-bet"}
  BY <1>5 DEF AdvancePhase
<1> QED BY <1>1, <1>2, <1>3, <1>4, <1>5 DEF BettingPhases

-----------------------------------------------------------------------------
(* What follows an action. *)

LEMMA OverSafe ==
  ASSUME NEW t, t.phase \in HandOver
  PROVE  TurnSafe(t)
BY DEF TurnSafe, HandOver, BettingPhases

\* A round that is closed with equal bets, or behind an opponent who is all-in.
LEMMA CloseEarned ==
  ASSUME NEW t, Betting(t), Even(t), NEW i \in Seats, Answered(t, i),
         BetsMatched(t) \/ t.allIn[Other(i)]
  PROVE  Earned(t)
<1>1. t \in TableType /\ Bounded(t)
  BY DEF Betting, Live
<1>2. /\ t.roundBet[0] \in Nat /\ t.roundBet[1] \in Nat
      /\ t.totalBet[0] \in Nat /\ t.totalBet[1] \in Nat /\ t.currentBet \in Nat
  BY <1>1, TableFields
<1>3. CASE BetsMatched(t)
  <2>1. t.totalBet[0] = t.totalBet[1]
    BY <1>2, <1>3 DEF BetsMatched, Even
  <2> QED BY <1>2, <2>1 DEF Earned, Other, Seats
<1>4. CASE t.allIn[Other(i)] /\ t.allIn[i]
  BY <1>4 DEF Earned, Other, Seats
<1>5. CASE t.allIn[Other(i)] /\ t.roundBet[i] = t.currentBet
  <2>1. t.totalBet[i] >= t.totalBet[Other(i)]
    BY <1>1, <1>2, <1>5 DEF Bounded, Even, Other, Seats
  <2> QED BY <1>5, <2>1 DEF Earned, Other, Seats
<1> QED BY <1>3, <1>4, <1>5 DEF Answered

LEMMA RunOutCloses ==
  ASSUME NEW t, Betting(t), Earned(t), NEW w \in Showdowns
  PROVE  ClosesWell(t, RunOut(t, w))
<1> DEFINE s == RunOut(t, w)
<1>1. t \in TableType /\ Live(t)
  BY DEF Betting, Live
<1>2. Over(s) /\ s.totalBet = t.totalBet /\ s.allIn = t.allIn
  BY <1>1, RunOutEnds, RunOutEffect
<1> HIDE DEF s
<1>3. s.phase \in HandOver /\ Earned(s)
  BY <1>2 DEF Over, Earned
<1> QED BY <1>3, OverSafe DEF ClosesWell, s

LEMMA AdvanceCloses ==
  ASSUME NEW t, Betting(t), Able(t), Even(t), Earned(t), NEW w \in Showdowns,
         \/ t.phase = "draw-bet" /\ (t.allIn[0] \/ t.allIn[1])
         \/ ~ t.allIn[0] /\ ~ t.allIn[1] /\ BetsMatched(t) /\ t.acted[0] /\ t.acted[1]
  PROVE  ClosesWell(t, AdvancePhase(t, w))
<1> DEFINE s == AdvancePhase(t, w)
<1>1. t \in TableType /\ Live(t) /\ t.phase \in BettingPhases
  BY DEF Betting, Live
<1>2. ASSUME t.phase # "draw-bet", s = Showdown(CollectBets(t), w)
      PROVE  ClosesWell(t, s)
  <2>1. CollectBets(t) \in TableType /\ CollectBets(t).totalBet = t.totalBet
        /\ CollectBets(t).allIn = t.allIn
    BY <1>1, CollectKeeps, CollectEffect
  <2>2. s.totalBet = t.totalBet /\ s.allIn = t.allIn /\ s.phase = "showdown"
    BY <1>2, <2>1, ShowdownEffect
  <2> HIDE DEF s
  <2>3. s.phase \in HandOver /\ Earned(s)
    BY <2>2 DEF HandOver, Earned
  <2> QED BY <2>3, OverSafe DEF ClosesWell
<1>3. ASSUME NEW phase \in BettingPhases \cup {"draw"}, NEW board, s = Street(t, phase, board),
             phase \in BettingPhases => t.phase # "draw-bet"
      PROVE  ClosesWell(t, s)
  <2>1. /\ s.phase = phase /\ s.totalBet = t.totalBet /\ s.roundBet = Both(0)
        /\ s.allIn = t.allIn /\ s.folded = t.folded /\ s.stack = t.stack /\ s.turn \in Seats
    BY <1>1, <1>3, StreetEffect
  <2> HIDE DEF s
  <2>2. Able(s) /\ Earned(s)
    BY <2>1 DEF Able, Earned
  <2>3. ASSUME ~ t.allIn[0], ~ t.allIn[1]
        PROVE  Even(s) /\ ~ s.allIn[s.turn]
    <3>1. BetsMatched(t)
      BY <2>3
    <3>2. t.totalBet[0] = t.totalBet[1]
      BY <1>1, <3>1, TableFields DEF Even, BetsMatched
    <3>3. Even(s)
      BY <2>1, <3>2, NothingBet DEF Even
    <3>4. ~ s.allIn[s.turn]
      BY <2>1, <2>3 DEF Seats
    <3> QED BY <3>3, <3>4
  <2>a. phase \in BettingPhases => ~ t.allIn[0] /\ ~ t.allIn[1]
    BY <1>3
  <2>4. TurnSafe(s)
    BY <2>1, <2>2, <2>3, <2>a DEF TurnSafe
  <2>5. s.allIn[0] \/ s.allIn[1] \/ (t.acted[0] /\ t.acted[1])
    BY <2>1
  <2> QED BY <2>2, <2>4, <2>5 DEF ClosesWell
<1>4. "draw" \notin BettingPhases
  BY DEF BettingPhases
<1> HIDE DEF s
<1>5. \/ \E phase \in BettingPhases, board \in {3, 4, 5} :
           t.phase # "draw-bet" /\ s = Street(t, phase, board)
      \/ t.phase = "draw-bet" /\ s = Street(t, "draw", 0)
      \/ t.phase # "draw-bet" /\ s = Showdown(CollectBets(t), w)
  BY <1>1, AdvanceCases DEF s
<1> QED BY <1>2, <1>3, <1>4, <1>5 DEF s

LEMMA AfterActionCloses ==
  ASSUME NEW t, Betting(t), Able(t), Even(t), NEW i \in Seats, NEW w \in Showdowns,
         Answered(t, i)
  PROVE  ClosesWell(t, AfterAction(t, i, w))
<1> DEFINE behind == (t.allIn[0] \/ t.allIn[1]) /\ (BetsMatched(t) \/ t.allIn[Other(i)])
           closed == BetsMatched(t) /\ t.acted[0] /\ t.acted[1]
<1>1. t \in TableType /\ t.phase \in BettingPhases /\ i \in {0, 1} /\ Other(i) \in Seats
  BY DEF Betting, Live, Other, Seats
<1>2. CASE behind
  <2>1. Earned(t)
    BY <1>2, CloseEarned
  <2>2. \/ AfterAction(t, i, w) = RunOut(t, w)
        \/ t.phase = "draw-bet" /\ AfterAction(t, i, w) = AdvancePhase(t, w)
    BY <1>2 DEF AfterAction
  <2> QED BY <1>2, <2>1, <2>2, RunOutCloses, AdvanceCloses
<1>3. CASE ~ behind /\ closed
  <2>1. Earned(t)
    BY <1>3, CloseEarned
  <2>2. ~ t.allIn[0] /\ ~ t.allIn[1]
    BY <1>3
  <2>3. AfterAction(t, i, w) = AdvancePhase(t, w)
    BY <1>3 DEF AfterAction
  <2> QED BY <1>3, <2>1, <2>2, <2>3, AdvanceCloses
<1>4. CASE ~ behind /\ ~ closed
  <2>1. ~ t.allIn[Other(i)]
    BY <1>4 DEF Other, Seats
  <2> DEFINE s == [t EXCEPT !.turn = Other(i)]
  <2>2. AfterAction(t, i, w) = s
    BY <1>4, <2>1 DEF AfterAction
  <2>3. /\ s.phase = t.phase /\ s.totalBet = t.totalBet /\ s.roundBet = t.roundBet
        /\ s.allIn = t.allIn /\ s.folded = t.folded /\ s.stack = t.stack /\ s.turn = Other(i)
    BY <1>1 DEF TableType
  <2> HIDE DEF s
  <2>4. TurnSafe(s)
    BY <2>1, <2>3 DEF TurnSafe, Able, Even
  <2> QED BY <2>2, <2>3, <2>4 DEF ClosesWell
<1> QED BY <1>2, <1>3, <1>4

-----------------------------------------------------------------------------
(* The actions of a round of betting. *)

LEMMA PayEffect ==
  ASSUME NEW t \in TableType, NEW i \in Seats, NEW amount \in Nat
  PROVE  /\ Least(amount, t.stack[i]) \in Nat
         /\ Pay(t, i, amount).stack = [t.stack EXCEPT ![i] = @ - Least(amount, t.stack[i])]
         /\ Pay(t, i, amount).roundBet = [t.roundBet EXCEPT ![i] = @ + Least(amount, t.stack[i])]
         /\ Pay(t, i, amount).totalBet = [t.totalBet EXCEPT ![i] = @ + Least(amount, t.stack[i])]
         /\ Pay(t, i, amount).folded = t.folded /\ Pay(t, i, amount).acted = t.acted
         /\ Pay(t, i, amount).currentBet = t.currentBet /\ Pay(t, i, amount).dealer = t.dealer
<1>1. Least(amount, t.stack[i]) \in Nat
  BY DEF Least, TableType
<1> QED BY <1>1 DEF Pay, TableType

LEMMA PayAllIn ==
  ASSUME NEW t \in TableType, NEW i \in Seats, NEW amount \in Nat
  PROVE  Pay(t, i, amount).allIn =
           [t.allIn EXCEPT ![i] = (t.stack[i] = Least(amount, t.stack[i]))]
BY DEF Pay, TableType

\* Paying keeps track of who is all-in, and adds to both bets of a player.
LEMMA PayAble ==
  ASSUME NEW t \in TableType, NEW i \in Seats, NEW amount \in Nat
  PROVE  /\ Able(t) => Able(Pay(t, i, amount))
         /\ Even(t) => Even(Pay(t, i, amount))
<1> DEFINE paid == Least(amount, t.stack[i])
           p == Pay(t, i, amount)
<1>1. /\ paid \in Nat
      /\ p.stack = [t.stack EXCEPT ![i] = @ - paid]
      /\ p.roundBet = [t.roundBet EXCEPT ![i] = @ + paid]
      /\ p.totalBet = [t.totalBet EXCEPT ![i] = @ + paid]
      /\ p.folded = t.folded
  BY PayEffect
<1>a. p.allIn = [t.allIn EXCEPT ![i] = (t.stack[i] = paid)]
  BY PayAllIn
<1> HIDE DEF paid, p
<1>2. /\ t.stack \in [Seats -> Nat] /\ t.roundBet \in [Seats -> Nat]
      /\ t.totalBet \in [Seats -> Nat] /\ t.allIn \in [Seats -> BOOLEAN]
  BY DEF TableType
<1>3. Even(t) => Even(p)
  BY <1>1, <1>2 DEF Even, Seats
<1>4. ASSUME Able(t), NEW j \in Seats
      PROVE  ~ p.folded[j] /\ (p.allIn[j] <=> p.stack[j] = 0)
  <2>1. ~ p.folded[j]
    BY <1>1, <1>4 DEF Able
  <2>2. CASE j = i
    <3>1. p.allIn[j] = (t.stack[i] = paid) /\ p.stack[j] = t.stack[i] - paid
      BY <1>1, <1>a, <1>2, <2>2
    <3>2. t.stack[i] \in Nat
      BY <1>2
    <3>3. t.stack[i] = paid <=> t.stack[i] - paid = 0
      BY <1>1, <3>2
    <3> QED BY <2>1, <3>1, <3>3
  <2>3. CASE j # i
    BY <1>1, <1>a, <1>2, <1>4, <2>1, <2>3 DEF Able
  <2> QED BY <2>2, <2>3
<1> QED BY <1>3, <1>4 DEF Able, p

LEMMA ActedEffect ==
  ASSUME NEW t \in TableType, NEW i \in Seats
  PROVE  /\ Able(t) => Able(Acted(t, i))
         /\ Even(t) => Even(Acted(t, i))
         /\ Answered(t, i) => Answered(Acted(t, i), i)
         /\ Acted(t, i).phase = t.phase
         /\ Acted(t, i).acted[Other(i)] = t.acted[Other(i)]
<1>1. /\ Acted(t, i).folded = t.folded /\ Acted(t, i).allIn = t.allIn
      /\ Acted(t, i).stack = t.stack /\ Acted(t, i).totalBet = t.totalBet
      /\ Acted(t, i).roundBet = t.roundBet /\ Acted(t, i).currentBet = t.currentBet
      /\ Acted(t, i).phase = t.phase /\ Acted(t, i).acted = [t.acted EXCEPT ![i] = TRUE]
  BY DEF Acted, TableType
<1>2. Other(i) \in Seats /\ Other(i) # i
  BY DEF Other, Seats
<1> QED BY <1>1, <1>2 DEF Able, Even, Answered, TableType

LEMMA RaisedEffect ==
  ASSUME NEW t, Betting(t), NEW i \in Seats, NEW target \in Nat, NEW allIn \in BOOLEAN,
         RaiseAllowed(t, i, target, allIn)
  PROVE  /\ Able(t) => Able(Raised(t, i, target))
         /\ Even(t) => Even(Raised(t, i, target))
         /\ Answered(Raised(t, i, target), i)
         /\ Raised(t, i, target).phase = t.phase
         /\ ~ Raised(t, i, target).acted[Other(i)]
<1> DEFINE amount == target - t.roundBet[i]
           p == Pay(t, i, amount)
           r == Raised(t, i, target)
<1>1. t \in TableType /\ Bounded(t) /\ t.roundBet[i] \in Nat /\ t.currentBet \in Nat
      /\ t.stack[i] \in Nat /\ t.roundBet[i] <= t.currentBet
  BY DEF Betting, Live, Bounded, TableType, Seats
<1>2. target > t.currentBet /\ amount <= t.stack[i]
  BY DEF RaiseAllowed
<1>3. amount \in Nat /\ Least(amount, t.stack[i]) = amount
  BY <1>1, <1>2 DEF Least
<1>4. /\ p \in TableType /\ p.phase = t.phase
      /\ Able(t) => Able(p)
      /\ Even(t) => Even(p)
      /\ p.roundBet = [t.roundBet EXCEPT ![i] = @ + amount]
  <2> HIDE DEF amount
  <2>1. p \in TableType /\ p.phase = t.phase
    BY <1>1, <1>3, PayKeeps
  <2>2. (Able(t) => Able(p)) /\ (Even(t) => Even(p))
    BY <1>1, <1>3, PayAble
  <2>3. p.roundBet = [t.roundBet EXCEPT ![i] = @ + amount]
    <3>1. p.roundBet = [t.roundBet EXCEPT ![i] = @ + Least(amount, t.stack[i])]
      BY <1>1, <1>3 DEF Pay, TableType
    <3> QED BY <1>3, <3>1
  <2> QED BY <2>1, <2>2, <2>3
<1>5. p.roundBet[i] = target
  BY <1>1, <1>4 DEF TableType
<1>6. /\ r.folded = p.folded /\ r.allIn = p.allIn /\ r.stack = p.stack
      /\ r.totalBet = p.totalBet /\ r.roundBet = p.roundBet /\ r.currentBet = target
      /\ r.phase = p.phase /\ r.acted = [[p.acted EXCEPT ![i] = TRUE] EXCEPT ![Other(i)] = FALSE]
  <2> HIDE DEF p
  <2>1. Raised(t, i, target) =
          [p EXCEPT !.minRaise = IF target - t.currentBet >= @ THEN target - t.currentBet ELSE @,
                    !.currentBet = target, !.acted[i] = TRUE, !.acted[Other(i)] = FALSE]
    BY DEF Raised, p
  <2> QED BY <1>4, <2>1 DEF TableType
<1> HIDE DEF p, r
<1>7. Other(i) \in Seats /\ p.acted \in [Seats -> BOOLEAN]
  BY <1>4 DEF Other, Seats, TableType
<1>8. ~ r.acted[Other(i)]
  BY <1>6, <1>7
<1> QED BY <1>4, <1>5, <1>6, <1>8 DEF Able, Even, Answered, r

\* What the action properties say of a step from a round of betting.
Closing ==
  /\ table'.phase # table.phase => table'.phase = "hand-finished" \/ Earned(table)'
  /\ table'.phase # table.phase /\ table'.phase \notin HandOver =>
       table'.allIn[0] \/ table'.allIn[1] \/ table.acted[Other(table.turn)]

TurnInv == TableInv /\ TurnSafe(table)

\* The table t that seat i's action leaves to AfterAction.
LEMMA BetCloses ==
  ASSUME NEW i \in Seats, table.turn = i, NEW w \in Showdowns, NEW t,
         Betting(t), Able(t), Even(t), Answered(t, i), t.phase = table.phase,
         t.acted[Other(i)] => table.acted[Other(i)],
         table' = AfterAction(t, i, w)
  PROVE  TurnSafe(table') /\ Closing
<1>1. ClosesWell(t, table')
  BY AfterActionCloses
<1>2. t.acted[0] /\ t.acted[1] => t.acted[Other(i)]
  BY DEF Other, Seats
<1>3. Earned(table') => Earned(table)'
  BY DEF Earned
<1> QED BY <1>1, <1>2, <1>3 DEF ClosesWell, Closing

LEMMA MayAct ==
  ASSUME TurnInv, NEW i \in Seats, CanAct(table, i)
  PROVE  /\ Betting(table) /\ table \in TableType /\ Able(table) /\ Even(table)
         /\ table.turn = i /\ table.phase \in BettingPhases
         /\ table.roundBet[i] \in Nat /\ table.currentBet \in Nat /\ table.stack[i] \in Nat
         /\ table.roundBet[i] <= table.currentBet
<1>1. Betting(table) /\ table \in TableType
  BY InBetting DEF TurnInv
<1>2. table.roundBet[i] \in Nat /\ table.currentBet \in Nat /\ table.stack[i] \in Nat
  BY <1>1 DEF TableType
<1> QED BY <1>1, <1>2 DEF TurnInv, CanAct, TurnSafe, Betting, Bounded, Seats, BettingPhases, HandOver

\* Chips were put in, or none, without a raise.
LEMMA PaidCloses ==
  ASSUME TurnInv, NEW i \in Seats, CanAct(table, i), NEW w \in Showdowns, NEW t,
         Betting(t), Able(t), Even(t), Answered(t, i), t.phase = table.phase,
         t.acted = table.acted,
         table' = AfterAction(Acted(t, i), i, w)
  PROVE  TurnSafe(table') /\ Closing
<1>1. t \in TableType /\ table.turn = i
  BY DEF Betting, Live, CanAct
<1>2. /\ Betting(Acted(t, i)) /\ Able(Acted(t, i)) /\ Even(Acted(t, i))
      /\ Answered(Acted(t, i), i) /\ Acted(t, i).phase = table.phase
      /\ Acted(t, i).acted[Other(i)] = table.acted[Other(i)]
  BY <1>1, ActedKeeps, ActedEffect
<1> QED BY <1>1, <1>2, BetCloses

LEMMA CheckCloses ==
  ASSUME TurnInv, NEW i \in Seats, NEW w \in Showdowns, Check(i, w)
  PROVE  TurnSafe(table') /\ Closing
<1>1. CanAct(table, i) /\ ToCall(table, i) = 0 /\ table' = AfterAction(Acted(table, i), i, w)
  BY DEF Check
<1>2. Answered(table, i)
  BY <1>1, MayAct DEF Answered, ToCall
<1> QED BY <1>1, <1>2, MayAct, PaidCloses

LEMMA CallCloses ==
  ASSUME TurnInv, NEW i \in Seats, NEW w \in Showdowns, CanAct(table, i), NEW amount \in Nat,
         table.roundBet[i] < table.currentBet,
         table.roundBet[i] + Least(amount, table.stack[i]) <= table.currentBet,
         amount = table.stack[i] \/ amount = table.currentBet - table.roundBet[i],
         table' = AfterAction(Acted(Pay(table, i, amount), i), i, w)
  PROVE  TurnSafe(table') /\ Closing
<1> DEFINE p == Pay(table, i, amount)
           paid == Least(amount, table.stack[i])
<1>1. /\ Betting(table) /\ table \in TableType /\ Able(table) /\ Even(table)
      /\ table.roundBet[i] \in Nat /\ table.currentBet \in Nat /\ table.stack[i] \in Nat
  BY MayAct
<1>2. Betting(p)
  BY <1>1, CallBetting
<1>3. Able(p) /\ Even(p)
  BY <1>1, PayAble
<1>4. /\ p.roundBet = [table.roundBet EXCEPT ![i] = @ + paid]
      /\ p.acted = table.acted /\ p.phase = table.phase /\ p.currentBet = table.currentBet
  BY <1>1 DEF Pay, TableType
<1>a. p.allIn = [table.allIn EXCEPT ![i] = (table.stack[i] = paid)]
  BY <1>1, PayAllIn
<1>5. Answered(p, i)
  <2>1. table.roundBet \in [Seats -> Nat] /\ table.allIn \in [Seats -> BOOLEAN]
    BY <1>1 DEF TableType
  <2>2. table.stack[i] = paid \/ paid = table.currentBet - table.roundBet[i]
    BY <1>1 DEF Least
  <2>3. CASE table.stack[i] = paid
    <3> HIDE DEF p, paid
    <3>1. p.allIn[i] = (table.stack[i] = paid)
      BY <1>a, <2>1
    <3> QED BY <2>3, <3>1 DEF Answered
  <2>4. CASE paid = table.currentBet - table.roundBet[i]
    <3> HIDE DEF p, paid
    <3>1. p.roundBet[i] = table.currentBet
      BY <1>1, <1>4, <2>1, <2>4
    <3> QED BY <1>4, <3>1 DEF Answered
  <2> QED BY <2>2, <2>3, <2>4
<1> HIDE DEF p
<1>6. table' = AfterAction(Acted(p, i), i, w)
  BY DEF p
<1> QED BY <1>2, <1>3, <1>4, <1>5, <1>6, PaidCloses

LEMMA RaiseCloses ==
  ASSUME TurnInv, NEW i \in Seats, NEW w \in Showdowns, CanAct(table, i),
         NEW target \in Nat, NEW allIn \in BOOLEAN, RaiseAllowed(table, i, target, allIn),
         table' = AfterAction(Raised(table, i, target), i, w)
  PROVE  TurnSafe(table') /\ Closing
<1>1. Betting(table) /\ Able(table) /\ Even(table) /\ table.turn = i
  BY MayAct
<1>2. /\ Betting(Raised(table, i, target)) /\ Able(Raised(table, i, target))
      /\ Even(Raised(table, i, target)) /\ Answered(Raised(table, i, target), i)
      /\ Raised(table, i, target).phase = table.phase
      /\ ~ Raised(table, i, target).acted[Other(i)]
  BY <1>1, RaisedBetting, RaisedEffect
<1> QED BY <1>1, <1>2, BetCloses

LEMMA AllInCloses ==
  ASSUME TurnInv, NEW i \in Seats, NEW w \in Showdowns, AllIn(i, w)
  PROVE  TurnSafe(table') /\ Closing
<1> DEFINE target == table.roundBet[i] + table.stack[i]
<1>1. CanAct(table, i) /\ table.stack[i] # 0
  BY DEF AllIn
<1>2. /\ table.roundBet[i] \in Nat /\ table.currentBet \in Nat /\ table.stack[i] \in Nat
      /\ target \in Nat
  BY <1>1, MayAct
<1>3. CASE target > table.currentBet
  <2>1. RaiseAllowed(table, i, target, TRUE)
        /\ table' = AfterAction(Raised(table, i, target), i, w)
    BY <1>3 DEF AllIn
  <2> HIDE DEF target
  <2> QED BY <1>1, <1>2, <2>1, RaiseCloses
<1>4. CASE ~ (target > table.currentBet)
  <2>1. table' = AfterAction(Acted(Pay(table, i, table.stack[i]), i), i, w)
    BY <1>4 DEF AllIn
  <2>2. /\ table.roundBet[i] < table.currentBet
        /\ table.roundBet[i] + Least(table.stack[i], table.stack[i]) <= table.currentBet
    BY <1>1, <1>2, <1>4 DEF Least
  <2> QED BY <1>1, <1>2, <2>1, <2>2, CallCloses
<1> QED BY <1>3, <1>4

\* A fold and a leave end the hand.
LEMMA GivenUpCloses ==
  ASSUME NEW t \in TableType, NEW winner \in Seats, table' = FinishByFold(t, winner)
  PROVE  TurnSafe(table') /\ Closing
<1>1. Over(table')
  BY FoldEnds
<1>2. table'.phase = "hand-finished"
  <2>1. CollectBets(t) \in TableType
    BY CollectKeeps
  <2> QED BY <2>1 DEF FinishByFold, TableType
<1> QED BY <1>1, <1>2, OverSafe DEF Over, Closing

LEMMA FoldCloses ==
  ASSUME TurnInv, NEW i \in Seats, Fold(i)
  PROVE  TurnSafe(table') /\ Closing
<1> DEFINE a == Acted(table, i)
           folded == [a.folded EXCEPT ![i] = TRUE]
           f == [a EXCEPT !.folded = folded]
<1>1. Betting(table) /\ table \in TableType
  BY MayAct DEF Fold
<1>2. a \in TableType
  BY <1>1, ActedKeeps DEF Betting, Live
<1> HIDE DEF a
<1>3. folded \in [Seats -> BOOLEAN]
  BY <1>2 DEF TableType
<1>4. table' = FinishByFold(f, Other(i)) /\ Other(i) \in Seats
  BY <1>2 DEF Fold, a, TableType, Other, Seats
<1> HIDE DEF folded
<1>5. f \in TableType
  BY <1>2, <1>3 DEF TableType
<1> HIDE DEF f
<1> QED BY <1>4, <1>5, GivenUpCloses

LEMMA BetKeeps ==
  ASSUME TurnInv, NEW i \in Seats, NEW w \in Showdowns, Bet(i, w)
  PROVE  TurnSafe(table') /\ Closing
<1>1. CASE Fold(i)
  BY <1>1, FoldCloses
<1>2. CASE Check(i, w)
  BY <1>2, CheckCloses
<1>3. CASE Call(i, w)
  <2>1. CanAct(table, i) /\ ToCall(table, i) # 0
        /\ table' = AfterAction(Acted(Pay(table, i, ToCall(table, i)), i), i, w)
    BY <1>3 DEF Call
  <2>2. /\ table.roundBet[i] \in Nat /\ table.currentBet \in Nat /\ table.stack[i] \in Nat
    BY <2>1, MayAct
  <2>3. /\ ToCall(table, i) = table.currentBet - table.roundBet[i]
        /\ ToCall(table, i) \in Nat /\ table.roundBet[i] < table.currentBet
        /\ table.roundBet[i] + Least(ToCall(table, i), table.stack[i]) <= table.currentBet
    BY <2>1, <2>2 DEF ToCall, Least
  <2> QED BY <2>1, <2>3, CallCloses
<1>4. CASE AllIn(i, w)
  BY <1>4, AllInCloses
<1>5. ASSUME NEW target \in 1..(2 * StartingStack), RaiseTo(i, target, w)
      PROVE  TurnSafe(table') /\ Closing
  <2>1. target \in Nat
    BY <1>5, TableAssumption
  <2>2. CanAct(table, i) /\ RaiseAllowed(table, i, target, FALSE)
        /\ table' = AfterAction(Raised(table, i, target), i, w)
    BY <1>5 DEF RaiseTo
  <2> QED BY <2>1, <2>2, RaiseCloses
<1> QED BY <1>1, <1>2, <1>3, <1>4, <1>5 DEF Bet

-----------------------------------------------------------------------------
(* The other actions. *)

\* A table with nothing bet whose players have chips, before the blinds.
Dealt(t) ==
  /\ Fresh(t)
  /\ t.folded = Both(FALSE) /\ t.allIn = Both(FALSE)
  /\ t.stack[0] # 0 /\ t.stack[1] # 0

LEMMA DealtAble ==
  ASSUME NEW t, Dealt(t)
  PROVE  t \in TableType /\ Able(t) /\ Even(t)
<1>1. \A j \in Seats : Both(FALSE)[j] = FALSE /\ Both(0)[j] = 0
  BY DEF Both
<1>2. Able(t)
  BY <1>1 DEF Dealt, Able, Seats
<1> QED BY <1>2, NothingBet DEF Dealt, Fresh, Even

LEMMA StartHoldemTurn ==
  ASSUME NEW t, Dealt(t), NEW w \in Showdowns
  PROVE  TurnSafe(StartHoldem(t, w))
<1> DEFINE d == t.dealer
           o == Other(t.dealer)
           p == Pay(t, d, SmallBlind)
           q == Pay(p, o, BigBlind)
           s == [q EXCEPT !.phase = "preflop", !.currentBet = BigBlind,
                          !.minRaise = BigBlind, !.turn = d]
<1>1. /\ SmallBlind \in Nat /\ BigBlind \in Nat /\ t \in TableType /\ Able(t) /\ Even(t)
      /\ d \in Seats /\ o \in Seats
  BY DealtAble, TableAssumption, TableFields DEF Other, Seats
<1> HIDE DEF d, o
<1>2. p \in TableType /\ Able(p) /\ Even(p)
  BY <1>1, PayKeeps, PayAble
<1> HIDE DEF p
<1>3. q \in TableType /\ Able(q) /\ Even(q)
  BY <1>1, <1>2, PayKeeps, PayAble
<1> HIDE DEF q
<1>4. StartHoldem(t, w) = IF s.allIn[0] \/ s.allIn[1] THEN RunOut(s, w) ELSE s
  BY <1>3 DEF StartHoldem, d, o, p, q
<1>5. /\ s \in TableType /\ s.phase = "preflop" /\ s.turn = d /\ s.roundBet = q.roundBet
      /\ s.totalBet = q.totalBet /\ s.stack = q.stack /\ s.allIn = q.allIn
      /\ s.folded = q.folded
  BY <1>1, <1>3 DEF TableType, Phases, BettingPhases
<1> HIDE DEF s
<1>6. TurnSafe(RunOut(s, w))
  <2>1. RunOut(s, w).phase = "showdown"
    BY <1>5, RunOutEffect
  <2> HIDE DEF s
  <2> QED BY <2>1, OverSafe DEF HandOver
<1>7. ASSUME ~ (s.allIn[0] \/ s.allIn[1])
      PROVE  TurnSafe(s)
  <2>1. Able(s) /\ Even(s)
    BY <1>3, <1>5 DEF Able, Even
  <2>2. ~ s.allIn[s.turn]
    BY <1>1, <1>5, <1>7 DEF Seats
  <2> QED BY <2>1, <2>2 DEF TurnSafe
<1> QED BY <1>4, <1>6, <1>7

LEMMA StartDrawTurn ==
  ASSUME NEW t, Dealt(t)
  PROVE  TurnSafe(StartFiveCardDraw(t))
<1> DEFINE p == Pay(t, 0, SmallBlind)
           q == Pay(p, 1, SmallBlind)
           c == CollectBets(q)
           phase == IF c.allIn[0] \/ c.allIn[1] THEN "draw" ELSE "draw-bet"
           turn == Other(t.dealer)
           s == [c EXCEPT !.phase = phase, !.turn = turn]
           ante0 == Least(SmallBlind, t.stack[0])
           ante1 == Least(SmallBlind, p.stack[1])
<1>1. /\ SmallBlind \in Nat /\ t \in TableType /\ Able(t) /\ Even(t) /\ turn \in Seats
      /\ 0 \in Seats /\ 1 \in Seats
  BY DealtAble, TableAssumption, TableFields DEF Other, Seats
<1>2. p \in TableType /\ Able(p) /\ Even(p)
  BY <1>1, PayKeeps, PayAble
<1>3. /\ p.totalBet = [t.totalBet EXCEPT ![0] = @ + ante0] /\ ante0 \in Nat
      /\ t.totalBet = Both(0)
  <2>1. ante0 \in Nat
    BY <1>1, PayEffect
  <2>2. p.totalBet = [t.totalBet EXCEPT ![0] = @ + ante0]
    BY <1>1, <2>1 DEF Pay, TableType
  <2> QED BY <2>1, <2>2 DEF Dealt, Fresh
<1>4. p.allIn = [t.allIn EXCEPT ![0] = (t.stack[0] = ante0)]
  BY <1>1, PayAllIn
<1> HIDE DEF p
<1>5. q \in TableType /\ Able(q) /\ Even(q)
  BY <1>1, <1>2, PayKeeps, PayAble
<1>6. q.totalBet = [p.totalBet EXCEPT ![1] = @ + ante1] /\ ante1 \in Nat
  <2>1. ante1 \in Nat
    BY <1>1, <1>2, PayEffect
  <2>2. q.totalBet = [p.totalBet EXCEPT ![1] = @ + ante1]
    BY <1>1, <1>2, <2>1 DEF Pay, TableType
  <2> QED BY <2>1, <2>2
<1>7. q.allIn = [p.allIn EXCEPT ![1] = (p.stack[1] = ante1)]
  BY <1>1, <1>2, PayAllIn
<1> HIDE DEF q
<1>8. /\ c \in TableType /\ c.roundBet = Both(0) /\ c.totalBet = q.totalBet
      /\ c.stack = q.stack /\ c.allIn = q.allIn /\ c.folded = q.folded
  BY <1>5, CollectKeeps, CollectEffect
<1>9. StartFiveCardDraw(t) = s
  BY DEF StartFiveCardDraw, p, q
<1> HIDE DEF c, turn
<1>10. phase \in {"draw", "draw-bet"}
       /\ (phase = "draw-bet" => ~ c.allIn[0] /\ ~ c.allIn[1])
       /\ (phase = "draw" => c.allIn[0] \/ c.allIn[1])
  OBVIOUS
<1> HIDE DEF phase
<1>11. /\ s.phase = phase /\ s.turn = turn /\ s.roundBet = Both(0) /\ s.totalBet = q.totalBet
       /\ s.stack = q.stack /\ s.allIn = q.allIn /\ s.folded = q.folded
  BY <1>1, <1>8 DEF TableType
<1> HIDE DEF s
<1>12. Able(s)
  BY <1>5, <1>11 DEF Able
<1>13. ASSUME ~ q.allIn[0], ~ q.allIn[1]
       PROVE  Even(s) /\ ~ s.allIn[s.turn]
  <2>1. ante0 = SmallBlind
    <3>1. t.stack[0] # ante0
      BY <1>1, <1>2, <1>4, <1>7, <1>13 DEF TableType, Seats
    <3> QED BY <1>1, <3>1 DEF Least
  <2>2. ante1 = SmallBlind
    <3>1. p.stack[1] # ante1
      BY <1>1, <1>2, <1>7, <1>13 DEF TableType
    <3> QED BY <1>1, <3>1 DEF Least
  <2> HIDE DEF ante0, ante1
  <2>3. q.totalBet[0] = SmallBlind /\ q.totalBet[1] = SmallBlind
    <3>1. Both(0) \in [Seats -> Nat] /\ Both(0)[0] = 0 /\ Both(0)[1] = 0
      BY DEF Both, Seats
    <3> QED BY <1>1, <1>3, <1>6, <2>1, <2>2, <3>1
  <2>4. Even(s)
    BY <1>11, <2>3, NothingBet DEF Even
  <2>5. ~ s.allIn[s.turn]
    BY <1>1, <1>11, <1>13 DEF Seats
  <2> QED BY <2>4, <2>5
<1>14. TurnSafe(s)
  BY <1>8, <1>10, <1>11, <1>12, <1>13 DEF TurnSafe, BettingPhases
<1> QED BY <1>9, <1>14

LEMMA StartHandTurn ==
  ASSUME NEW t \in StartType, t.stack[0] # 0, t.stack[1] # 0, NEW w \in Showdowns
  PROVE  TurnSafe(StartHand(t, w))
<1> DEFINE dealer == (t.dealer + 1) % 2
           c == Clean(t)
<1>1. dealer \in Seats
  BY DEF StartType, Seats
<1>2. /\ BigBlind \in Nat /\ Both(0) \in [Seats -> Nat] /\ Both(FALSE) \in [Seats -> BOOLEAN]
      /\ {} \in SUBSET Seats
  BY TableAssumption DEF Both
<1>3. c = [t EXCEPT !.pot = 0, !.awarded = 0, !.currentBet = 0, !.minRaise = BigBlind,
                    !.dealer = dealer, !.winners = {}, !.board = 0,
                    !.folded = Both(FALSE), !.allIn = Both(FALSE),
                    !.roundBet = Both(0), !.totalBet = Both(0),
                    !.acted = Both(FALSE), !.discarded = Both(FALSE)]
  BY DEF Clean, StartType
<1> HIDE DEF dealer, c
<1>4. c \in TableType
  BY <1>1, <1>2, <1>3 DEF StartType, TableType
<1>5. /\ c.stack = t.stack /\ c.pot = 0 /\ c.roundBet = Both(0) /\ c.totalBet = Both(0)
      /\ c.folded = Both(FALSE) /\ c.allIn = Both(FALSE)
  BY <1>3 DEF StartType
<1>6. Dealt(c)
  BY <1>4, <1>5 DEF Dealt, Fresh
<1>7. StartHand(t, w) = StartHoldem(c, w) \/ StartHand(t, w) = StartFiveCardDraw(c)
  BY DEF StartHand, c
<1> QED BY <1>6, <1>7, StartHoldemTurn, StartDrawTurn

LEMMA InitTurn == Init => TurnSafe(table)
<1> SUFFICES ASSUME NEW mode \in Modes, NEW w \in Showdowns
             PROVE  TurnSafe(StartHand(NewTable(mode), w))
  BY DEF Init
<1> DEFINE t == NewTable(mode)
<1>1. StartingStack \in Nat /\ StartingStack # 0 /\ BigBlind \in Nat
  BY TableAssumption
<1>2. /\ "hand-finished" \in Phases /\ Both(0) \in [Seats -> Nat]
      /\ Both(StartingStack) \in [Seats -> Nat] /\ Both(FALSE) \in [Seats -> BOOLEAN]
  BY <1>1 DEF Phases, HandOver, Both
<1>3. t \in StartType
  BY <1>1, <1>2 DEF NewTable, StartType, Seats
<1>4. t.stack[0] # 0 /\ t.stack[1] # 0
  BY <1>1 DEF NewTable, Both, Seats
<1> HIDE DEF t
<1>5. TurnSafe(StartHand(t, w))
  BY <1>3, <1>4, StartHandTurn
<1> QED BY <1>5 DEF t

LEMMA NextHandTurn ==
  ASSUME TableInv, NEW w \in Showdowns, NextHand(w)
  PROVE  TurnSafe(table')
<1> DEFINE t == Restacked(table)
<1>1. table.phase \in HandOver /\ table' = StartHand(t, w)
  BY DEF NextHand
<1>2. table \in TableType
  BY <1>1 DEF TableInv, Sound, Over
<1>3. table \in StartType
  BY <1>2 DEF StartType, TableType
<1>4. /\ Both(StartingStack) \in [Seats -> Nat] /\ StartingStack # 0
      /\ Both(StartingStack)[0] = StartingStack /\ Both(StartingStack)[1] = StartingStack
  BY TableAssumption DEF Both, Seats
<1>5. t \in StartType /\ t.stack[0] # 0 /\ t.stack[1] # 0
  <2>1. CASE table.stack[0] = 0 \/ table.stack[1] = 0
    <3>1. t = [table EXCEPT !.stack = Both(StartingStack)]
      BY <2>1 DEF Restacked
    <3>2. t.stack = Both(StartingStack) /\ t \in StartType
      BY <1>3, <1>4, <3>1 DEF StartType
    <3> QED BY <1>4, <3>2
  <2>2. CASE ~ (table.stack[0] = 0 \/ table.stack[1] = 0)
    BY <1>3, <2>2 DEF Restacked
  <2> QED BY <2>1, <2>2
<1> HIDE DEF t
<1> QED BY <1>1, <1>5, StartHandTurn

LEMMA DiscardTurn ==
  ASSUME TurnInv, NEW i \in Seats, NEW w \in Showdowns, Discard(i, w)
  PROVE  TurnSafe(table')
<1> DEFINE discarded == [table.discarded EXCEPT ![i] = TRUE]
           d == [table EXCEPT !.discarded = discarded]
           turn == Other(table.dealer)
           f == [d EXCEPT !.phase = "final-bet", !.turn = turn]
           g == [d EXCEPT !.turn = Other(i)]
<1>1. /\ table \in TableType /\ table.phase = "draw" /\ Able(table)
      /\ (~ table.allIn[0] /\ ~ table.allIn[1] => Even(table))
  BY DEF TurnInv, TableInv, Sound, Over, Live, Discard, HandOver, TurnSafe
<1>2. turn \in Seats /\ Other(i) \in Seats
  BY <1>1, TableFields DEF Other, Seats
<1>3. discarded \in [Seats -> BOOLEAN]
  BY <1>1 DEF TableType
<1>4. \/ table' = g
      \/ table' = Showdown(d, w)
      \/ table' = f /\ ~ table.allIn[0] /\ ~ table.allIn[1]
  BY <1>1 DEF Discard, TableType
<1> HIDE DEF discarded, turn
<1>5. /\ d \in TableType /\ d.phase = "draw" /\ d.roundBet = table.roundBet
      /\ d.totalBet = table.totalBet /\ d.stack = table.stack
      /\ d.allIn = table.allIn /\ d.folded = table.folded
  BY <1>1, <1>3 DEF TableType
<1> HIDE DEF d
<1>6. CASE table' = g
  <2>1. /\ g.phase = "draw" /\ g.roundBet = d.roundBet /\ g.totalBet = d.totalBet
        /\ g.stack = d.stack /\ g.allIn = d.allIn /\ g.folded = d.folded
    BY <1>5 DEF TableType
  <2> HIDE DEF g
  <2>2. TurnSafe(g)
    BY <1>1, <1>5, <2>1 DEF TurnSafe, Able, Even, BettingPhases
  <2> QED BY <1>6, <2>2
<1>7. CASE table' = Showdown(d, w)
  <2>1. Showdown(d, w).phase = "showdown"
    BY <1>5, ShowdownEffect
  <2> QED BY <1>7, <2>1, OverSafe DEF HandOver
<1>8. CASE table' = f /\ ~ table.allIn[0] /\ ~ table.allIn[1]
  <2>1. /\ f.phase = "final-bet" /\ f.roundBet = d.roundBet /\ f.totalBet = d.totalBet
        /\ f.stack = d.stack /\ f.allIn = d.allIn /\ f.folded = d.folded /\ f.turn = turn
    BY <1>5 DEF TableType
  <2> HIDE DEF f
  <2>2. ~ f.allIn[f.turn]
    BY <1>2, <1>5, <1>8, <2>1 DEF Seats
  <2>3. Able(f) /\ Even(f)
    BY <1>1, <1>5, <1>8, <2>1 DEF Able, Even
  <2>4. TurnSafe(f)
    BY <2>1, <2>2, <2>3 DEF TurnSafe
  <2> QED BY <1>8, <2>4
<1> QED BY <1>4, <1>6, <1>7, <1>8

LEMMA LeaveCloses ==
  ASSUME TurnInv, NEW i \in Seats, Leave(i)
  PROVE  TurnSafe(table') /\ Closing
<1>1. table \in TableType /\ Other(i) \in Seats
  BY DEF TurnInv, TableInv, Sound, Over, Live, Other, Seats
<1>2. table' = FinishByFold(table, Other(i))
  BY DEF Leave
<1> QED BY <1>1, <1>2, GivenUpCloses

-----------------------------------------------------------------------------
(* The invariant, and what a step from a round of betting does. *)

LEMMA StepTurn ==
  TurnInv /\ [Next]_table => TurnSafe(table)' /\ (table.phase \in BettingPhases => Closing)
<1> SUFFICES ASSUME TurnInv, [Next]_table
             PROVE  TurnSafe(table') /\ (table.phase \in BettingPhases => Closing)
  BY DEF TurnSafe, Able, Even
<1>1. CASE UNCHANGED table
  BY <1>1 DEF TurnInv, TurnSafe, Able, Even, Closing
<1>2. ASSUME NEW w \in Showdowns, NextHand(w)
      PROVE  TurnSafe(table') /\ table.phase \notin BettingPhases
  BY <1>2, NextHandTurn DEF TurnInv, NextHand, HandOver, BettingPhases
<1>3. ASSUME NEW w \in Showdowns, NEW i \in Seats, Bet(i, w)
      PROVE  TurnSafe(table') /\ Closing
  BY <1>3, BetKeeps
<1>4. ASSUME NEW w \in Showdowns, NEW i \in Seats, Discard(i, w)
      PROVE  TurnSafe(table') /\ table.phase \notin BettingPhases
  BY <1>4, DiscardTurn DEF Discard, BettingPhases
<1>5. ASSUME NEW i \in Seats, Leave(i)
      PROVE  TurnSafe(table') /\ Closing
  BY <1>5, LeaveCloses
<1> QED BY <1>1, <1>2, <1>3, <1>4, <1>5 DEF Next

\* In a hand nobody has folded and only a player without chips is all-in; in a
\* round of betting the earlier rounds were closed with equal bets, and the
\* player whose turn it is is not all-in.
THEOREM TurnInvariant == Spec => []TurnInv
<1>1. Init => TurnInv
  BY InitSound, InitTurn DEF TurnInv
<1>2. TurnInv /\ [Next]_table => TurnInv'
  BY StepSound, StepTurn DEF TurnInv
<1> QED BY <1>1, <1>2, PTL DEF Spec

\* Act never leaves the turn with a player who cannot act, so the action timer
\* can always act for whoever lets it run out.
THEOREM TurnsCanBeTaken == Spec => []TurnCanAct
<1>1. TurnInv => TurnCanAct
  <2> SUFFICES ASSUME TurnInv, table.phase \in BettingPhases
               PROVE  /\ ~ table.folded[table.turn] /\ ~ table.allIn[table.turn]
                      /\ table.stack[table.turn] > 0
    BY DEF TurnCanAct
  <2>1. table \in TableType
    BY DEF TurnInv, TableInv, Sound, Over, Live
  <2>2. table.turn \in Seats /\ table.stack[table.turn] \in Nat
    BY <2>1 DEF TableType
  <2>3. Able(table) /\ ~ table.allIn[table.turn]
    BY DEF TurnInv, TurnSafe, BettingPhases, HandOver
  <2>4. ~ table.folded[table.turn] /\ table.stack[table.turn] # 0
    BY <2>2, <2>3 DEF Able
  <2> QED BY <2>2, <2>3, <2>4
<1> QED BY <1>1, TurnInvariant, PTL

\* A round of betting is left without a fold only with equal bets, or behind a
\* player who is all-in for less.
THEOREM StreetsAreEarnedAlways == Spec => StreetsAreEarned
<1>1. TurnInv /\ [Next]_table =>
        [table.phase \in BettingPhases /\ table'.phase \notin {table.phase, "hand-finished"} =>
           \A i \in Seats :
             \/ table'.totalBet[i] >= table'.totalBet[Other(i)]
             \/ table'.allIn[i]]_table
  BY StepTurn DEF Closing, Earned
<1> QED BY <1>1, TurnInvariant, PTL DEF Spec, StreetsAreEarned

\* The next street is dealt, with betting still to do, only once the player who
\* did not close the round had acted in it.
THEOREM EverybodyActs == Spec => BothHaveActed
<1>1. TurnInv /\ [Next]_table =>
        [table.phase \in BettingPhases /\ table'.phase \in (Phases \ HandOver) \ {table.phase} =>
           \/ table'.allIn[0] \/ table'.allIn[1]
           \/ table.acted[Other(table.turn)]]_table
  BY StepTurn DEF Closing
<1> QED BY <1>1, TurnInvariant, PTL DEF Spec, BothHaveActed

-----------------------------------------------------------------------------
(* The engine keeps what Stakes promises: a table's money, followed through *)
(* the helpers and then through the actions.                               *)

\* Money that is on its way back to the players.
LEMMA MoneyOver ==
  ASSUME NEW t, t.phase \in HandOver
  PROVE  Money(t) = Promise!Closed(t.stack)
<1>1. Both(0) = [i \in Promise!Players |-> 0]
  BY DEF Both, Seats, Promise!Players
<1> QED BY <1>1 DEF Money, Promise!Closed

LEMMA MoneyLive ==
  ASSUME NEW t, t.phase \notin HandOver
  PROVE  Money(t) = Promise!Open(t.stack, t.totalBet)
BY DEF Money, Promise!Open

\* What a refund and a share of the pot come to.
LEMMA RefundAndPrize ==
  ASSUME NEW c \in TableType, NEW w \in Showdowns, NEW i \in Seats
  PROVE  Excess(c, i) + Prize(w, i, 2 * Matched(c)) = Promise!Worth(c.totalBet, w, i)
<1> DEFINE m == Matched(c)
<1>1. m \in Nat /\ m = Promise!Smaller(c.totalBet[0], c.totalBet[1]) /\ c.totalBet[i] \in Nat
  BY TableFields DEF Matched, Least, Promise!Smaller, Seats
<1>2. (2 * m) \div 2 = m /\ (2 * m) % 2 = 0 /\ 2 * m \in Nat
  BY <1>1
<1> HIDE DEF m
<1>3. Prize(w, i, 2 * m) = IF i \notin w THEN 0 ELSE IF w = Promise!Players THEN m ELSE 2 * m
  <2>1. CASE w = {i}
    <3>1. Prize(w, i, 2 * m) = 2 * m
      BY <2>1 DEF Prize
    <3>2. i \in w /\ w # Promise!Players
      BY <2>1 DEF Promise!Players, Seats
    <3> QED BY <3>1, <3>2
  <2>2. CASE i \notin w
    <3>1. Prize(w, i, 2 * m) = 0
      BY <2>2 DEF Prize
    <3> QED BY <2>2, <3>1
  <2>3. CASE w # {i} /\ i \in w
    <3>1. Prize(w, i, 2 * m) = (2 * m) \div 2 + (IF i = 0 THEN (2 * m) % 2 ELSE 0)
      BY <2>3 DEF Prize
    <3>2. w = Promise!Players
      BY <2>3 DEF Showdowns, Seats, Promise!Players
    <3>3. (2 * m) \div 2 + (IF i = 0 THEN (2 * m) % 2 ELSE 0) = m
      BY <1>1, <1>2
    <3> QED BY <2>3, <3>1, <3>2, <3>3
  <2> QED BY <2>1, <2>2, <2>3
<1> QED BY <1>1, <1>3 DEF Excess, m, Promise!Worth

\* A showdown gives the players what their stakes are worth.
LEMMA ShowdownPays ==
  ASSUME NEW t, Live(t), NEW w \in Showdowns
  PROVE  Money(Showdown(t, w)) = Promise!Closed(Promise!Compared(t.stack, t.totalBet, w))
<1> DEFINE c == CollectBets(t)
           pot == c.pot - Excess(c, 0) - Excess(c, 1)
           stack == [i \in Seats |-> c.stack[i] + Excess(c, i) + Prize(w, i, pot)]
           s == Settled(c, pot, stack, w, "showdown")
<1>1. t \in TableType /\ Staked(t)
  BY DEF Live
<1>2. /\ c \in TableType /\ c.roundBet = Both(0) /\ Staked(c)
      /\ c.stack = t.stack /\ c.totalBet = t.totalBet
  BY <1>1, CollectKeeps
<1>3. Showdown(t, w) = s
  BY <1>2 DEF Showdown, TableType, Settled
<1> HIDE DEF c
<1>4. /\ c.pot \in Nat /\ c.totalBet[0] \in Nat /\ c.totalBet[1] \in Nat
  BY <1>2, TableFields
<1>5. c.pot = c.totalBet[0] + c.totalBet[1]
  BY <1>2, <1>4, NothingBet DEF Staked
<1>6. pot = 2 * Matched(c) /\ \A i \in Seats : Excess(c, i) \in Nat
  BY <1>4, <1>5 DEF Excess, Matched, Least, Seats
<1> HIDE DEF pot
<1>7. ASSUME NEW i \in Seats
      PROVE  stack[i] = Promise!Compared(t.stack, t.totalBet, w)[i]
  <2>1. Excess(c, i) + Prize(w, i, pot) = Promise!Worth(t.totalBet, w, i)
    BY <1>2, <1>6, RefundAndPrize
  <2>2. c.stack[i] \in Nat /\ Excess(c, i) \in Nat
    BY <1>2, <1>6 DEF TableType
  <2>3. Prize(w, i, pot) \in Int
    <3>1. Matched(c) \in Nat
      BY <1>4 DEF Matched, Least
    <3>2. pot \in Nat /\ pot \div 2 \in Nat /\ pot % 2 \in Nat
      BY <1>6, <3>1
    <3> HIDE DEF pot
    <3> QED BY <3>2 DEF Prize, Showdowns, Seats
  <2>4. stack[i] = t.stack[i] + Promise!Worth(t.totalBet, w, i)
    <3>1. stack[i] = c.stack[i] + Excess(c, i) + Prize(w, i, pot)
      OBVIOUS
    <3> QED BY <1>2, <2>1, <2>2, <2>3, <3>1
  <2> QED BY <2>4 DEF Promise!Compared, Promise!Players, Seats
<1>8. stack = Promise!Compared(t.stack, t.totalBet, w)
  <2>1. DOMAIN Promise!Compared(t.stack, t.totalBet, w) = Seats
    BY DEF Promise!Compared, Promise!Players, Seats
  <2>2. Promise!Compared(t.stack, t.totalBet, w)
          = [i \in Seats |-> Promise!Compared(t.stack, t.totalBet, w)[i]]
    BY <2>1 DEF Promise!Compared, Promise!Players, Seats
  <2> QED BY <1>7, <2>2
<1>9. "showdown" \in HandOver /\ s.stack = stack /\ s.phase = "showdown"
  <2> HIDE DEF pot, stack
  <2> QED BY <1>2 DEF HandOver, Settled, TableType
<1> HIDE DEF s, stack
<1> QED BY <1>3, <1>8, <1>9, MoneyOver

LEMMA RunOutPays ==
  ASSUME NEW t, Live(t), NEW w \in Showdowns
  PROVE  Money(RunOut(t, w)) = Promise!Closed(Promise!Compared(t.stack, t.totalBet, w))
<1> DEFINE c == CollectBets(t)
           d == [c EXCEPT !.board = 5]
<1>1. t \in TableType /\ Staked(t)
  BY DEF Live
<1>2. c \in TableType /\ Staked(c) /\ c.stack = t.stack /\ c.totalBet = t.totalBet
  BY <1>1, CollectKeeps
<1>3. RunOut(t, w) = Showdown(d, w) \/ RunOut(t, w) = Showdown(t, w)
  BY DEF RunOut
<1> HIDE DEF c
<1>4. Live(d)
  BY <1>2, BoardType DEF Live
<1>5. d.stack = t.stack /\ d.totalBet = t.totalBet
  BY <1>2 DEF TableType
<1> HIDE DEF d
<1> QED BY <1>3, <1>4, <1>5, ShowdownPays

\* Seats whose bets are earned have answered each other.
LEMMA EarnedAnswered ==
  ASSUME NEW t \in TableType, Able(t), Earned(t)
  PROVE  Promise!Answered(t.stack, t.totalBet)
BY DEF Able, Earned, Promise!Answered, Promise!Players, Promise!Opponent, Other, Seats

\* What follows an action leaves the stakes alone or is a comparison of hands.
LEMMA AfterActionPays ==
  ASSUME NEW t, Betting(t), NEW i \in Seats, NEW w \in Showdowns
  PROVE  LET s == AfterAction(t, i, w)
         IN  \/ Money(s) = Promise!Open(t.stack, t.totalBet)
             \/ /\ Money(s) = Promise!Closed(Promise!Compared(t.stack, t.totalBet, w))
                /\ s.totalBet = t.totalBet /\ s.allIn = t.allIn /\ s.phase = "showdown"
<1> DEFINE s == AfterAction(t, i, w)
           Goes(r) == Money(r) = Promise!Open(t.stack, t.totalBet)
           Pays(r) == /\ Money(r) = Promise!Closed(Promise!Compared(t.stack, t.totalBet, w))
                      /\ r.totalBet = t.totalBet /\ r.allIn = t.allIn /\ r.phase = "showdown"
<1>1. Live(t) /\ t \in TableType /\ t.phase \in BettingPhases /\ Other(i) \in Seats
  BY DEF Betting, Live, Other, Seats
<1>2. Pays(RunOut(t, w))
  BY <1>1, RunOutPays, RunOutEffect
<1>3. Pays(Showdown(CollectBets(t), w))
  <2> DEFINE c == CollectBets(t)
  <2>1. Live(c) /\ c.stack = t.stack /\ c.totalBet = t.totalBet /\ c.allIn = t.allIn
    BY <1>1, CollectKeeps, CollectEffect DEF Live
  <2> HIDE DEF c
  <2>2. Money(Showdown(c, w)) = Promise!Closed(Promise!Compared(t.stack, t.totalBet, w))
    BY <2>1, ShowdownPays
  <2>3. c \in TableType
    BY <2>1 DEF Live
  <2>4. /\ Showdown(c, w).totalBet = t.totalBet /\ Showdown(c, w).allIn = t.allIn
        /\ Showdown(c, w).phase = "showdown"
    BY <2>1, <2>3, ShowdownEffect
  <2> QED BY <2>2, <2>4 DEF c
<1>4. ASSUME NEW phase \in BettingPhases \cup {"draw"}, NEW board
      PROVE  Goes(Street(t, phase, board))
  <2> DEFINE r == Street(t, phase, board)
  <2>1. r.phase = phase /\ r.totalBet = t.totalBet /\ r.stack = t.stack
    BY <1>1, StreetEffect
  <2>2. phase \notin HandOver
    BY DEF BettingPhases, HandOver
  <2> HIDE DEF r
  <2>3. r.phase \notin HandOver
    BY <2>1, <2>2
  <2>4. Money(r) = Promise!Open(r.stack, r.totalBet)
    BY <2>3, MoneyLive
  <2> QED BY <2>1, <2>4 DEF r
<1>5. ASSUME NEW turn \in Seats
      PROVE  Goes([t EXCEPT !.turn = turn])
  <2> DEFINE r == [t EXCEPT !.turn = turn]
  <2>1. r.phase = t.phase /\ r.totalBet = t.totalBet /\ r.stack = t.stack
    BY <1>1 DEF TableType
  <2> HIDE DEF r
  <2>2. r.phase \notin HandOver
    BY <1>1, <2>1 DEF BettingPhases, HandOver
  <2>3. Money(r) = Promise!Open(r.stack, r.totalBet)
    BY <2>2, MoneyLive
  <2> QED BY <2>1, <2>3 DEF r
<1> HIDE DEF Goes, Pays
<1>6. Goes(AdvancePhase(t, w)) \/ Pays(AdvancePhase(t, w))
  BY <1>1, <1>3, <1>4, AdvanceCases
<1>7. \/ s = RunOut(t, w) \/ s = AdvancePhase(t, w)
      \/ \E turn \in Seats : s = [t EXCEPT !.turn = turn]
  BY <1>1 DEF AfterAction
<1>8. Goes(s) \/ Pays(s)
  BY <1>2, <1>5, <1>6, <1>7
<1> QED BY <1>8 DEF Goes, Pays

-----------------------------------------------------------------------------
(* The actions. *)

\* Seat i has put paid chips in and the engine goes on from the table t.
LEMMA BetPays ==
  ASSUME NEW i \in Seats, NEW w \in Showdowns, NEW t, NEW paid \in 0 .. table.stack[i],
         table.phase \notin HandOver,
         Betting(t), Able(t), Even(t), Answered(t, i),
         t.stack = [table.stack EXCEPT ![i] = @ - paid],
         t.totalBet = [table.totalBet EXCEPT ![i] = @ + paid],
         table' = AfterAction(t, i, w)
  PROVE  Promise!PutIn(i, paid)
<1>1. t \in TableType /\ t.phase \in BettingPhases /\ w \in Promise!Winners
  BY DEF Betting, Live, Showdowns, Promise!Winners
<1>2. Money(table) = Promise!Open(table.stack, table.totalBet)
  BY MoneyLive
<1>3. /\ Money(table).open /\ Money(table).behind = table.stack
      /\ Money(table).stake = table.totalBet
  BY <1>2 DEF Promise!Open
<1>4. \/ Money(table') = Promise!Open(t.stack, t.totalBet)
      \/ /\ Money(table') = Promise!Closed(Promise!Compared(t.stack, t.totalBet, w))
         /\ table'.totalBet = t.totalBet /\ table'.allIn = t.allIn
         /\ table'.phase = "showdown"
  BY AfterActionPays
<1>5. ASSUME table'.totalBet = t.totalBet, table'.allIn = t.allIn, table'.phase = "showdown"
      PROVE  Promise!Answered(t.stack, t.totalBet)
  <2>1. Earned(table')
    BY <1>1, <1>5, AfterActionCloses DEF ClosesWell, BettingPhases
  <2>2. Earned(t)
    BY <1>5, <2>1 DEF Earned
  <2> QED BY <1>1, <2>2, EarnedAnswered
<1>6. Money(table') = Money(table)'
  BY DEF Money
<1> QED BY <1>1, <1>3, <1>4, <1>5, <1>6 DEF Promise!PutIn

\* A player gave up.
LEMMA GivenUpPays ==
  ASSUME NEW t \in TableType, NEW i \in Seats, table.phase \notin HandOver,
         Staked(t), t.stack = table.stack, t.totalBet = table.totalBet,
         table' = FinishByFold(t, Other(i))
  PROVE  Promise!GiveUp(i)
<1> DEFINE c == CollectBets(t)
           stack == [c.stack EXCEPT ![Other(i)] = @ + c.pot]
           f == Settled(c, c.pot, stack, {Other(i)}, "hand-finished")
<1>1. /\ c \in TableType /\ c.stack = table.stack /\ c.totalBet = table.totalBet
      /\ c.roundBet = Both(0) /\ Staked(c)
  BY CollectKeeps
<1>2. table' = f
  BY <1>1 DEF FinishByFold, TableType, Settled
<1> HIDE DEF c
<1>3. c.pot = c.totalBet[0] + c.totalBet[1]
  BY <1>1, NothingBet, TableFields DEF Staked
<1> HIDE DEF stack
<1>4. f.stack = stack /\ f.phase = "hand-finished"
  BY <1>1 DEF Settled, TableType
<1> HIDE DEF f
<1>5. Money(table)' = Promise!Closed(stack)
  <2>1. f.phase \in HandOver
    BY <1>4 DEF HandOver
  <2>2. Money(f) = Promise!Closed(stack)
    BY <1>4, <2>1, MoneyOver
  <2> QED BY <1>2, <2>2 DEF Money
<1>6. /\ Money(table).open /\ Money(table).behind = table.stack
      /\ Money(table).stake = table.totalBet
  BY MoneyLive DEF Promise!Open
<1>7. stack = [table.stack EXCEPT ![Promise!Opponent(i)] =
                  @ + table.totalBet[0] + table.totalBet[1]]
  <2>1. Other(i) = Promise!Opponent(i) /\ Other(i) \in Seats
    BY DEF Other, Promise!Opponent, Seats
  <2>2. table.stack[Other(i)] \in Nat /\ table.totalBet[0] \in Nat /\ table.totalBet[1] \in Nat
    BY <1>1, <2>1, TableFields DEF TableType
  <2>3. table.stack[Other(i)] + c.pot
          = table.stack[Other(i)] + table.totalBet[0] + table.totalBet[1]
    BY <1>1, <1>3, <2>2
  <2> QED BY <1>1, <2>1, <2>3 DEF stack
<1> QED BY <1>5, <1>6, <1>7 DEF Promise!GiveUp

LEMMA FoldPays ==
  ASSUME TurnInv, NEW i \in Seats, Fold(i)
  PROVE  Promise!GiveUp(i)
<1> DEFINE a == Acted(table, i)
           folded == [a.folded EXCEPT ![i] = TRUE]
           f == [a EXCEPT !.folded = folded]
<1>1. Betting(table) /\ table \in TableType /\ table.phase \in BettingPhases
  BY MayAct DEF Fold
<1>2. a \in TableType /\ Staked(a) /\ a.stack = table.stack /\ a.totalBet = table.totalBet
  <2>1. Live(a)
    BY <1>1, ActedKeeps DEF Betting
  <2>2. a.stack = table.stack /\ a.totalBet = table.totalBet
    BY <1>1 DEF Acted, TableType
  <2> QED BY <2>1, <2>2 DEF Live
<1> HIDE DEF a
<1>3. folded \in [Seats -> BOOLEAN]
  BY <1>2 DEF TableType
<1>4. table' = FinishByFold(f, Other(i))
  BY <1>2 DEF Fold, a, TableType, Other, Seats
<1> HIDE DEF folded
<1>5. /\ f \in TableType /\ f.stack = a.stack /\ f.totalBet = a.totalBet
      /\ f.pot = a.pot /\ f.roundBet = a.roundBet
  BY <1>2, <1>3 DEF TableType
<1> HIDE DEF f
<1>6. Staked(f) /\ table.phase \notin HandOver
  BY <1>1, <1>2, <1>5 DEF Staked, BettingPhases, HandOver
<1> QED BY <1>2, <1>4, <1>5, <1>6, GivenUpPays

LEMMA LeavePays ==
  ASSUME TurnInv, NEW i \in Seats, Leave(i)
  PROVE  Promise!GiveUp(i)
<1>1. table.phase \notin HandOver /\ table' = FinishByFold(table, Other(i))
  BY DEF Leave
<1>2. table \in TableType /\ Staked(table)
  BY <1>1 DEF TurnInv, TableInv, Sound, Over, Live
<1> QED BY <1>1, <1>2, GivenUpPays

\* Chips were put in, or none, without a raise.
LEMMA AnsweredPays ==
  ASSUME TurnInv, NEW i \in Seats, CanAct(table, i), NEW w \in Showdowns, NEW t,
         NEW paid \in 0 .. table.stack[i],
         Betting(t), Able(t), Even(t), Answered(t, i),
         t.stack = [table.stack EXCEPT ![i] = @ - paid],
         t.totalBet = [table.totalBet EXCEPT ![i] = @ + paid],
         table' = AfterAction(Acted(t, i), i, w)
  PROVE  Promise!PutIn(i, paid)
<1> DEFINE a == Acted(t, i)
<1>1. t \in TableType
  BY DEF Betting, Live
<1>2. Betting(a) /\ Able(a) /\ Even(a) /\ Answered(a, i)
  BY <1>1, ActedKeeps, ActedEffect
<1>3. a.stack = t.stack /\ a.totalBet = t.totalBet
  BY <1>1 DEF Acted, TableType
<1>4. table.phase \notin HandOver
  BY DEF CanAct, BettingPhases, HandOver
<1> HIDE DEF a
<1>5. table' = AfterAction(a, i, w)
  BY DEF a
<1> QED BY <1>2, <1>3, <1>4, <1>5, BetPays

LEMMA CheckPays ==
  ASSUME TurnInv, NEW i \in Seats, NEW w \in Showdowns, Check(i, w)
  PROVE  Promise!PutIn(i, 0)
<1>1. CanAct(table, i) /\ ToCall(table, i) = 0 /\ table' = AfterAction(Acted(table, i), i, w)
  BY DEF Check
<1>2. Answered(table, i)
  BY <1>1, MayAct DEF Answered, ToCall
<1>3. /\ Betting(table) /\ Able(table) /\ Even(table) /\ table \in TableType
      /\ 0 \in 0 .. table.stack[i]
  BY <1>1, MayAct
<1>4. table.stack = [table.stack EXCEPT ![i] = @ - 0]
      /\ table.totalBet = [table.totalBet EXCEPT ![i] = @ + 0]
  BY <1>3 DEF TableType
<1> QED BY <1>1, <1>2, <1>3, <1>4, AnsweredPays

LEMMA CallPays ==
  ASSUME TurnInv, NEW i \in Seats, NEW w \in Showdowns, CanAct(table, i), NEW amount \in Nat,
         table.roundBet[i] < table.currentBet,
         table.roundBet[i] + Least(amount, table.stack[i]) <= table.currentBet,
         amount = table.stack[i] \/ amount = table.currentBet - table.roundBet[i],
         table' = AfterAction(Acted(Pay(table, i, amount), i), i, w)
  PROVE  \E n \in 0 .. table.stack[i] : Promise!PutIn(i, n)
<1> DEFINE p == Pay(table, i, amount)
           paid == Least(amount, table.stack[i])
<1>1. /\ Betting(table) /\ table \in TableType /\ Able(table) /\ Even(table)
      /\ table.roundBet[i] \in Nat /\ table.currentBet \in Nat /\ table.stack[i] \in Nat
  BY MayAct
<1>2. Betting(p)
  BY <1>1, CallBetting
<1>3. Able(p) /\ Even(p)
  BY <1>1, PayAble
<1>4. /\ p.roundBet = [table.roundBet EXCEPT ![i] = @ + paid]
      /\ p.stack = [table.stack EXCEPT ![i] = @ - paid]
      /\ p.totalBet = [table.totalBet EXCEPT ![i] = @ + paid]
      /\ p.currentBet = table.currentBet
  BY <1>1, PayEffect
<1>a. p.allIn = [table.allIn EXCEPT ![i] = (table.stack[i] = paid)]
  BY <1>1, PayAllIn
<1>5. Answered(p, i)
  <2>1. table.roundBet \in [Seats -> Nat] /\ table.allIn \in [Seats -> BOOLEAN]
    BY <1>1 DEF TableType
  <2>2. table.stack[i] = paid \/ paid = table.currentBet - table.roundBet[i]
    BY <1>1 DEF Least
  <2>3. CASE table.stack[i] = paid
    <3> HIDE DEF p, paid
    <3>1. p.allIn[i] = (table.stack[i] = paid)
      BY <1>a, <2>1
    <3> QED BY <2>3, <3>1 DEF Answered
  <2>4. CASE paid = table.currentBet - table.roundBet[i]
    <3> HIDE DEF p, paid
    <3>1. p.roundBet[i] = table.currentBet
      BY <1>1, <1>4, <2>1, <2>4
    <3> QED BY <1>4, <3>1 DEF Answered
  <2> QED BY <2>2, <2>3, <2>4
<1>6. paid \in 0 .. table.stack[i]
  BY <1>1 DEF Least
<1> HIDE DEF p, paid
<1>7. table' = AfterAction(Acted(p, i), i, w)
  BY DEF p
<1> QED BY <1>2, <1>3, <1>4, <1>5, <1>6, <1>7, AnsweredPays

LEMMA RaisePays ==
  ASSUME TurnInv, NEW i \in Seats, NEW w \in Showdowns, CanAct(table, i),
         NEW target \in Nat, NEW allIn \in BOOLEAN, RaiseAllowed(table, i, target, allIn),
         table' = AfterAction(Raised(table, i, target), i, w)
  PROVE  \E n \in 0 .. table.stack[i] : Promise!PutIn(i, n)
<1> DEFINE amount == target - table.roundBet[i]
           p == Pay(table, i, amount)
           r == Raised(table, i, target)
<1>1. /\ Betting(table) /\ Able(table) /\ Even(table) /\ table \in TableType
      /\ table.roundBet[i] \in Nat /\ table.currentBet \in Nat /\ table.stack[i] \in Nat
      /\ table.roundBet[i] <= table.currentBet
  BY MayAct
<1>2. Betting(r) /\ Able(r) /\ Even(r) /\ Answered(r, i)
  BY <1>1, RaisedBetting, RaisedEffect
<1>3. amount \in 0 .. table.stack[i] /\ amount \in Nat /\ Least(amount, table.stack[i]) = amount
  BY <1>1 DEF RaiseAllowed, Least
<1>4. /\ p \in TableType
      /\ p.stack = [table.stack EXCEPT ![i] = @ - amount]
      /\ p.totalBet = [table.totalBet EXCEPT ![i] = @ + amount]
  <2> HIDE DEF amount
  <2>1. p \in TableType
    BY <1>1, <1>3, PayKeeps
  <2>2. /\ p.stack = [table.stack EXCEPT ![i] = @ - Least(amount, table.stack[i])]
        /\ p.totalBet = [table.totalBet EXCEPT ![i] = @ + Least(amount, table.stack[i])]
    BY <1>1, <1>3 DEF Pay, TableType
  <2> QED BY <1>3, <2>1, <2>2
<1>5. r.stack = p.stack /\ r.totalBet = p.totalBet
  <2> HIDE DEF p
  <2>1. r = [p EXCEPT !.minRaise = IF target - table.currentBet >= @
                                   THEN target - table.currentBet ELSE @,
                      !.currentBet = target, !.acted[i] = TRUE, !.acted[Other(i)] = FALSE]
    BY DEF Raised, p
  <2> QED BY <1>4, <2>1 DEF TableType
<1>6. table.phase \notin HandOver
  BY DEF CanAct, BettingPhases, HandOver
<1> HIDE DEF p, r, amount
<1>7. table' = AfterAction(r, i, w)
  BY DEF r
<1> QED BY <1>2, <1>3, <1>4, <1>5, <1>6, <1>7, BetPays

\* Money was put in, or somebody gave up.
LEMMA BetKeepsPromise ==
  ASSUME TurnInv, NEW i \in Seats, NEW w \in Showdowns, Bet(i, w)
  PROVE  (\E n \in 0 .. table.stack[i] : Promise!PutIn(i, n)) \/ Promise!GiveUp(i)
<1>1. CASE Fold(i)
  BY <1>1, FoldPays
<1>2. CASE Check(i, w)
  <2>1. table.stack[i] \in Nat
    BY <1>2, MayAct DEF Check
  <2>2. 0 \in 0 .. table.stack[i]
    BY <2>1
  <2> QED BY <1>2, <2>2, CheckPays
<1>3. CASE Call(i, w)
  <2>1. CanAct(table, i) /\ ToCall(table, i) # 0
        /\ table' = AfterAction(Acted(Pay(table, i, ToCall(table, i)), i), i, w)
    BY <1>3 DEF Call
  <2>2. /\ table.roundBet[i] \in Nat /\ table.currentBet \in Nat /\ table.stack[i] \in Nat
    BY <2>1, MayAct
  <2>3. /\ ToCall(table, i) = table.currentBet - table.roundBet[i]
        /\ ToCall(table, i) \in Nat /\ table.roundBet[i] < table.currentBet
        /\ table.roundBet[i] + Least(ToCall(table, i), table.stack[i]) <= table.currentBet
    BY <2>1, <2>2 DEF ToCall, Least
  <2> QED BY <2>1, <2>3, CallPays
<1>4. CASE AllIn(i, w)
  <2> DEFINE target == table.roundBet[i] + table.stack[i]
  <2>1. CanAct(table, i) /\ table.stack[i] # 0
    BY <1>4 DEF AllIn
  <2>2. /\ table.roundBet[i] \in Nat /\ table.currentBet \in Nat /\ table.stack[i] \in Nat
        /\ target \in Nat
    BY <2>1, MayAct
  <2>3. CASE target > table.currentBet
    <3>1. RaiseAllowed(table, i, target, TRUE)
          /\ table' = AfterAction(Raised(table, i, target), i, w)
      BY <1>4, <2>3 DEF AllIn
    <3> HIDE DEF target
    <3> QED BY <2>1, <2>2, <3>1, RaisePays
  <2>4. CASE ~ (target > table.currentBet)
    <3>1. table' = AfterAction(Acted(Pay(table, i, table.stack[i]), i), i, w)
      BY <1>4, <2>4 DEF AllIn
    <3>2. /\ table.roundBet[i] < table.currentBet
          /\ table.roundBet[i] + Least(table.stack[i], table.stack[i]) <= table.currentBet
      BY <2>1, <2>2, <2>4 DEF Least
    <3> QED BY <2>1, <2>2, <3>1, <3>2, CallPays
  <2> QED BY <2>3, <2>4
<1>5. ASSUME NEW target \in 1..(2 * StartingStack), RaiseTo(i, target, w)
      PROVE  \E n \in 0 .. table.stack[i] : Promise!PutIn(i, n)
  <2>1. target \in Nat
    BY <1>5, TableAssumption
  <2>2. CanAct(table, i) /\ RaiseAllowed(table, i, target, FALSE)
        /\ table' = AfterAction(Raised(table, i, target), i, w)
    BY <1>5 DEF RaiseTo
  <2> QED BY <2>1, <2>2, RaisePays
<1> QED BY <1>1, <1>2, <1>3, <1>4, <1>5 DEF Bet

-----------------------------------------------------------------------------
(* The start of a hand. *)

LEMMA OpeningsHave ==
  ASSUME NEW forced \in Promise!Forced, NEW chips
  PROVE  LET behind == Promise!Behind(forced, chips)
             stake  == Promise!Posted(forced, chips)
         IN  /\ Promise!Open(behind, stake) \in Promise!Openings(chips)
             /\ \A w \in Promise!Winners :
                  (\E i \in Seats : behind[i] = 0) =>
                    Promise!Closed(Promise!Compared(behind, stake, w))
                      \in Promise!Openings(chips)
<1> DEFINE stake == Promise!Posted(forced, chips)
           behind == Promise!Behind(forced, chips)
<1>1. Promise!Started(behind, stake) \subseteq Promise!Openings(chips)
  BY Zenon DEF Promise!Openings
<1> HIDE DEF stake, behind
<1>2. Promise!Open(behind, stake) \in Promise!Started(behind, stake)
  BY DEF Promise!Started
<1>3. ASSUME NEW w \in Promise!Winners, NEW i \in Seats, behind[i] = 0
      PROVE  Promise!Closed(Promise!Compared(behind, stake, w))
               \in Promise!Started(behind, stake)
  <2>1. i \in Promise!Players
    BY DEF Promise!Players, Seats
  <2> QED BY <1>3, <2>1 DEF Promise!Started
<1>4. ASSUME NEW w \in Promise!Winners, \E i \in Seats : behind[i] = 0
      PROVE  Promise!Closed(Promise!Compared(behind, stake, w)) \in Promise!Openings(chips)
  BY <1>1, <1>3, <1>4
<1> QED BY <1>1, <1>2, <1>4 DEF stake, behind

\* Seat i has put in what it must, for a bet of amount.
LEMMA PostedBy ==
  ASSUME NEW t \in TableType, NEW i \in Seats, NEW amount \in Nat, t.totalBet[i] = 0
  PROVE  /\ Pay(t, i, amount).totalBet[i] = Promise!Smaller(amount, t.stack[i])
         /\ Pay(t, i, amount).stack[i] = t.stack[i] - Promise!Smaller(amount, t.stack[i])
         /\ Pay(t, i, amount).totalBet[Other(i)] = t.totalBet[Other(i)]
         /\ Pay(t, i, amount).stack[Other(i)] = t.stack[Other(i)]
<1>1. /\ Least(amount, t.stack[i]) \in Nat
      /\ Least(amount, t.stack[i]) = Promise!Smaller(amount, t.stack[i])
  BY DEF Least, Promise!Smaller, TableType
<1>2. /\ Pay(t, i, amount).stack = [t.stack EXCEPT ![i] = @ - Least(amount, t.stack[i])]
      /\ Pay(t, i, amount).totalBet = [t.totalBet EXCEPT ![i] = @ + Least(amount, t.stack[i])]
  BY <1>1 DEF Pay, TableType
<1>3. Other(i) \in Seats /\ Other(i) # i
  BY DEF Other, Seats
<1> QED BY <1>1, <1>2, <1>3 DEF TableType

\* Both forced bets, put in by seat a first.
LEMMA BothPost ==
  ASSUME NEW t \in TableType, t.totalBet = Both(0), NEW a \in Seats,
         NEW first \in Nat, NEW second \in Nat,
         NEW forced \in [Seats -> Nat], forced[a] = first, forced[Other(a)] = second
  PROVE  LET q == Pay(Pay(t, a, first), Other(a), second)
         IN  /\ q.totalBet = Promise!Posted(forced, t.stack)
             /\ q.stack = Promise!Behind(forced, t.stack)
<1> DEFINE b == Other(a)
           p == Pay(t, a, first)
           q == Pay(p, b, second)
<1>1. b \in Seats /\ b # a /\ Other(b) = a /\ Seats = {a, b}
  BY DEF Other, Seats
<1>2. t.totalBet[a] = 0 /\ t.totalBet[b] = 0
  BY <1>1 DEF Both
<1> HIDE DEF b
<1>3. /\ p.totalBet[a] = Promise!Smaller(first, t.stack[a])
      /\ p.stack[a] = t.stack[a] - Promise!Smaller(first, t.stack[a])
      /\ p.totalBet[b] = t.totalBet[b] /\ p.stack[b] = t.stack[b]
  BY <1>2, PostedBy DEF b
<1>4. p \in TableType
  BY PayKeeps
<1> HIDE DEF p
<1>5. /\ q.totalBet[b] = Promise!Smaller(second, t.stack[b])
      /\ q.stack[b] = t.stack[b] - Promise!Smaller(second, t.stack[b])
      /\ q.totalBet[a] = p.totalBet[a] /\ q.stack[a] = p.stack[a]
  BY <1>1, <1>2, <1>3, <1>4, PostedBy
<1>6. q \in TableType
  BY <1>1, <1>4, PayKeeps
<1> HIDE DEF q
<1>7. q.totalBet \in [Seats -> Nat] /\ q.stack \in [Seats -> Nat]
  BY <1>6 DEF TableType
<1>8. \A j \in Seats : q.totalBet[j] = Promise!Smaller(forced[j], t.stack[j])
  BY <1>1, <1>3, <1>5 DEF b
<1>9. q.totalBet = Promise!Posted(forced, t.stack)
  BY <1>7, <1>8 DEF Promise!Posted, Promise!Players, Seats
<1>10. \A j \in Seats : q.stack[j] = t.stack[j] - Promise!Smaller(forced[j], t.stack[j])
  BY <1>1, <1>3, <1>5 DEF b
<1>11. q.stack = Promise!Behind(forced, t.stack)
  BY <1>7, <1>8, <1>9, <1>10 DEF Promise!Behind, Promise!Players, Seats
<1> QED BY <1>9, <1>11 DEF p, q, b

LEMMA StartHoldemPays ==
  ASSUME NEW t, Dealt(t), NEW w \in Showdowns
  PROVE  /\ Money(StartHoldem(t, w)) \in Promise!Openings(t.stack)
         /\ StartHoldem(t, w).phase # "draw"
<1> DEFINE d == t.dealer
           o == Other(t.dealer)
           p == Pay(t, d, SmallBlind)
           q == Pay(p, o, BigBlind)
           s == [q EXCEPT !.phase = "preflop", !.currentBet = BigBlind,
                          !.minRaise = BigBlind, !.turn = d]
           forced == [i \in Seats |-> IF i = d THEN SmallBlind ELSE BigBlind]
           behind == Promise!Behind(forced, t.stack)
           stake == Promise!Posted(forced, t.stack)
<1>1. /\ SmallBlind \in Nat /\ BigBlind \in Nat /\ t \in TableType /\ Able(t)
      /\ d \in Seats /\ o \in Seats
  BY DealtAble, TableAssumption, TableFields DEF Other, Seats
<1>a. t.totalBet = Both(0)
  BY DEF Dealt, Fresh
<1>2. Staked(t)
  BY NothingBet DEF Dealt, Fresh, Staked
<1>3. forced \in [Seats -> Nat] /\ forced[d] = SmallBlind /\ forced[o] = BigBlind
      /\ forced \in Promise!Forced
  <2>1. o # d
    BY <1>1 DEF Other, Seats
  <2>2. forced \in [Seats -> Nat] /\ forced[d] = SmallBlind /\ forced[o] = BigBlind
    BY <1>1, <2>1
  <2>3. Promise!Players = Seats
    BY DEF Promise!Players, Seats
  <2>4. forced \in Promise!Forced
    BY <1>1, <2>3 DEF Promise!Forced
  <2> QED BY <2>2, <2>4
<1> HIDE DEF forced
<1>4. q.totalBet = stake /\ q.stack = behind
  BY <1>1, <1>a, <1>3, BothPost
<1> HIDE DEF d, o
<1>5. p \in TableType /\ Able(p) /\ Staked(p)
  BY <1>1, <1>2, PayKeeps, PayAble
<1> HIDE DEF p
<1>6. q \in TableType /\ Able(q) /\ Staked(q)
  BY <1>1, <1>5, PayKeeps, PayAble
<1> HIDE DEF q, stake, behind
<1>7. StartHoldem(t, w) = IF s.allIn[0] \/ s.allIn[1] THEN RunOut(s, w) ELSE s
  BY <1>6 DEF StartHoldem, d, o, p, q
<1>8. /\ s \in TableType /\ s.phase = "preflop" /\ s.roundBet = q.roundBet /\ s.pot = q.pot
      /\ s.totalBet = stake /\ s.stack = behind /\ s.allIn = q.allIn
  BY <1>1, <1>4, <1>6 DEF TableType, Phases, BettingPhases
<1> HIDE DEF s
<1>9. Live(s)
  BY <1>6, <1>4, <1>8 DEF Live, Staked
<1>10. CASE s.allIn[0] \/ s.allIn[1]
  <2>1. \E i \in Seats : behind[i] = 0
    BY <1>4, <1>6, <1>8, <1>10 DEF Able, Seats
  <2>2. w \in Promise!Winners
    BY DEF Showdowns, Promise!Winners
  <2>3. Promise!Closed(Promise!Compared(behind, stake, w)) \in Promise!Openings(t.stack)
    BY <1>3, <2>1, <2>2, OpeningsHave DEF behind, stake
  <2>4. Money(RunOut(s, w)) = Promise!Closed(Promise!Compared(behind, stake, w))
    BY <1>8, <1>9, RunOutPays
  <2>5. RunOut(s, w).phase = "showdown"
    BY <1>8, RunOutEffect
  <2>6. StartHoldem(t, w) = RunOut(s, w)
    BY <1>7, <1>10
  <2> QED BY <2>3, <2>4, <2>5, <2>6
<1>11. CASE ~ (s.allIn[0] \/ s.allIn[1])
  <2>1. Promise!Open(behind, stake) \in Promise!Openings(t.stack)
    BY <1>3, OpeningsHave DEF behind, stake
  <2>2. s.phase \notin HandOver
    BY <1>8 DEF HandOver
  <2>3. Money(s) = Promise!Open(behind, stake)
    BY <1>8, <2>2, MoneyLive
  <2>4. StartHoldem(t, w) = s
    BY <1>7, <1>11
  <2> QED BY <1>8, <2>1, <2>3, <2>4
<1> QED BY <1>10, <1>11

\* An ante that is smaller than the other is somebody's last chip.
LEMMA StartDrawPays ==
  ASSUME NEW t, Dealt(t)
  PROVE  /\ Money(StartFiveCardDraw(t)) \in Promise!Openings(t.stack)
         /\ Earned(StartFiveCardDraw(t))
<1> DEFINE p == Pay(t, 0, SmallBlind)
           q == Pay(p, 1, SmallBlind)
           c == CollectBets(q)
           phase == IF c.allIn[0] \/ c.allIn[1] THEN "draw" ELSE "draw-bet"
           turn == Other(t.dealer)
           s == [c EXCEPT !.phase = phase, !.turn = turn]
           forced == [i \in Seats |-> SmallBlind]
           behind == Promise!Behind(forced, t.stack)
           stake == Promise!Posted(forced, t.stack)
<1>1. /\ SmallBlind \in Nat /\ t \in TableType /\ Able(t) /\ turn \in Seats
      /\ 0 \in Seats /\ 1 \in Seats /\ Other(0) = 1
  BY DealtAble, TableAssumption, TableFields DEF Other, Seats
<1>a. t.totalBet = Both(0)
  BY DEF Dealt, Fresh
<1>2. /\ forced \in [Seats -> Nat] /\ forced[0] = SmallBlind /\ forced[1] = SmallBlind
      /\ forced \in Promise!Forced
  BY <1>1 DEF Promise!Forced, Promise!Players, Seats
<1> HIDE DEF forced
<1>3. q.totalBet = stake /\ q.stack = behind
  <2>1. LET r == Pay(Pay(t, 0, SmallBlind), Other(0), SmallBlind)
        IN  /\ r.totalBet = Promise!Posted(forced, t.stack)
            /\ r.stack = Promise!Behind(forced, t.stack)
    BY <1>1, <1>a, <1>2, BothPost
  <2> QED BY <1>1, <2>1
<1>4. p \in TableType /\ Able(p)
  BY <1>1, PayKeeps, PayAble
<1> HIDE DEF p
<1>5. q \in TableType /\ Able(q)
  BY <1>1, <1>4, PayKeeps, PayAble
<1> HIDE DEF q
<1>6. /\ c \in TableType /\ c.totalBet = q.totalBet /\ c.stack = q.stack /\ c.allIn = q.allIn
  BY <1>5, CollectKeeps, CollectEffect
<1>7. StartFiveCardDraw(t) = s
  BY DEF StartFiveCardDraw, p, q
<1> HIDE DEF c, turn
<1>8. phase \notin HandOver
  BY DEF HandOver
<1> HIDE DEF phase
<1>9. /\ s.phase = phase /\ s.totalBet = stake /\ s.stack = behind /\ s.allIn = q.allIn
  BY <1>1, <1>3, <1>6 DEF TableType
<1> HIDE DEF s
<1>10. Money(s) = Promise!Open(behind, stake)
  BY <1>8, <1>9, MoneyLive
<1>11. Promise!Open(behind, stake) \in Promise!Openings(t.stack)
  BY <1>2, OpeningsHave
<1>12. ASSUME NEW j \in Seats, ~ q.allIn[j]
       PROVE  stake[j] = SmallBlind
  <2>1. behind[j] # 0
    BY <1>3, <1>5, <1>12 DEF Able
  <2>2. stake[j] = Promise!Smaller(SmallBlind, t.stack[j]) /\ behind[j] = t.stack[j] - stake[j]
    BY <1>1, <1>2 DEF Promise!Posted, Promise!Behind, Promise!Players, Seats
  <2>3. t.stack[j] \in Nat
    BY <1>1 DEF TableType
  <2> HIDE DEF stake, behind
  <2> QED BY <1>1, <2>1, <2>2, <2>3 DEF Promise!Smaller
<1>13. \A j \in Seats : stake[j] <= SmallBlind
  <2>1. \A j \in Seats : stake[j] = Promise!Smaller(SmallBlind, t.stack[j]) /\ t.stack[j] \in Nat
    BY <1>1, <1>2 DEF Promise!Posted, Promise!Players, Seats, TableType
  <2> HIDE DEF stake
  <2> QED BY <1>1, <2>1 DEF Promise!Smaller
<1> HIDE DEF stake, behind
<1>14. \A j \in Seats : stake[j] \in Nat
  BY <1>3, <1>5 DEF TableType
<1>15. Earned(s)
  <2> SUFFICES ASSUME NEW j \in Seats, ~ s.allIn[j]
               PROVE  s.totalBet[j] >= s.totalBet[Other(j)]
    BY DEF Earned
  <2>1. stake[j] = SmallBlind
    BY <1>9, <1>12
  <2>2. Other(j) \in Seats
    BY DEF Other, Seats
  <2>3. stake[Other(j)] <= SmallBlind /\ stake[Other(j)] \in Nat
    BY <1>13, <1>14, <2>2
  <2> QED BY <1>1, <1>9, <2>1, <2>3
<1> QED BY <1>7, <1>10, <1>11, <1>15

LEMMA StartHandPays ==
  ASSUME NEW t \in StartType, t.stack[0] # 0, t.stack[1] # 0, NEW w \in Showdowns
  PROVE  /\ Money(StartHand(t, w)) \in Promise!Openings(t.stack)
         /\ StartHand(t, w).phase = "draw" => Earned(StartHand(t, w))
<1> DEFINE dealer == (t.dealer + 1) % 2
           c == Clean(t)
<1>1. dealer \in Seats
  BY DEF StartType, Seats
<1>2. /\ BigBlind \in Nat /\ Both(0) \in [Seats -> Nat] /\ Both(FALSE) \in [Seats -> BOOLEAN]
      /\ {} \in SUBSET Seats
  BY TableAssumption DEF Both
<1>3. c = [t EXCEPT !.pot = 0, !.awarded = 0, !.currentBet = 0, !.minRaise = BigBlind,
                    !.dealer = dealer, !.winners = {}, !.board = 0,
                    !.folded = Both(FALSE), !.allIn = Both(FALSE),
                    !.roundBet = Both(0), !.totalBet = Both(0),
                    !.acted = Both(FALSE), !.discarded = Both(FALSE)]
  BY DEF Clean, StartType
<1> HIDE DEF dealer, c
<1>4. c \in TableType
  BY <1>1, <1>2, <1>3 DEF StartType, TableType
<1>5. /\ c.stack = t.stack /\ c.pot = 0 /\ c.roundBet = Both(0) /\ c.totalBet = Both(0)
      /\ c.folded = Both(FALSE) /\ c.allIn = Both(FALSE)
  BY <1>3 DEF StartType
<1>6. Dealt(c)
  BY <1>4, <1>5 DEF Dealt, Fresh
<1>7. StartHand(t, w) = StartHoldem(c, w) \/ StartHand(t, w) = StartFiveCardDraw(c)
  BY DEF StartHand, c
<1> QED BY <1>5, <1>6, <1>7, StartHoldemPays, StartDrawPays

-----------------------------------------------------------------------------
(* The refinement. *)

\* Hands are compared after a draw, without another bet, only behind a player
\* who was all-in when the draw began.
DrawEarned == table.phase = "draw" => Earned(table)

PromiseInv == TurnInv /\ DrawEarned

LEMMA InitPays == Init => Promise!Init /\ DrawEarned
<1> SUFFICES ASSUME NEW mode \in Modes, NEW w \in Showdowns,
                    table = StartHand(NewTable(mode), w)
             PROVE  Promise!Init /\ DrawEarned
  BY DEF Init
<1> DEFINE t == NewTable(mode)
<1>1. StartingStack \in Nat /\ StartingStack # 0 /\ BigBlind \in Nat
  BY TableAssumption
<1>2. /\ "hand-finished" \in Phases /\ Both(0) \in [Seats -> Nat]
      /\ Both(StartingStack) \in [Seats -> Nat] /\ Both(FALSE) \in [Seats -> BOOLEAN]
  BY <1>1 DEF Phases, HandOver, Both
<1>3. t \in StartType
  BY <1>1, <1>2 DEF NewTable, StartType, Seats
<1>4. t.stack = Promise!NewChips /\ t.stack[0] # 0 /\ t.stack[1] # 0
  BY <1>1 DEF NewTable, Both, Seats, Promise!NewChips, Promise!Players
<1> HIDE DEF t
<1>5. /\ Money(StartHand(t, w)) \in Promise!Openings(t.stack)
      /\ StartHand(t, w).phase = "draw" => Earned(StartHand(t, w))
  BY <1>3, <1>4, StartHandPays
<1>6. table = StartHand(t, w)
  BY DEF t
<1> QED BY <1>4, <1>5, <1>6 DEF Promise!Init, DrawEarned

LEMMA NextHandPays ==
  ASSUME TurnInv, NEW w \in Showdowns, NextHand(w)
  PROVE  Promise!Start /\ DrawEarned'
<1> DEFINE t == Restacked(table)
<1>1. table.phase \in HandOver /\ table' = StartHand(t, w)
  BY DEF NextHand
<1>2. table \in TableType
  BY <1>1 DEF TurnInv, TableInv, Sound, Over
<1>3. table \in StartType
  BY <1>2 DEF StartType, TableType
<1>4. /\ Both(StartingStack) \in [Seats -> Nat] /\ StartingStack # 0
      /\ Both(StartingStack)[0] = StartingStack /\ Both(StartingStack)[1] = StartingStack
      /\ Both(StartingStack) = Promise!NewChips
  BY TableAssumption DEF Both, Seats, Promise!NewChips, Promise!Players
<1>5. /\ t \in StartType /\ t.stack[0] # 0 /\ t.stack[1] # 0
      /\ t.stack = IF \E i \in Promise!Players : table.stack[i] = 0
                   THEN Promise!NewChips ELSE table.stack
  <2>1. (\E i \in Promise!Players : table.stack[i] = 0)
          <=> table.stack[0] = 0 \/ table.stack[1] = 0
    BY DEF Promise!Players
  <2>2. CASE table.stack[0] = 0 \/ table.stack[1] = 0
    <3>1. t = [table EXCEPT !.stack = Both(StartingStack)]
      BY <2>2 DEF Restacked
    <3>2. t.stack = Both(StartingStack) /\ t \in StartType
      BY <1>3, <1>4, <3>1 DEF StartType
    <3> QED BY <1>4, <2>1, <2>2, <3>2
  <2>3. CASE ~ (table.stack[0] = 0 \/ table.stack[1] = 0)
    BY <1>3, <2>1, <2>3 DEF Restacked
  <2> QED BY <2>2, <2>3
<1> HIDE DEF t
<1>6. /\ Money(StartHand(t, w)) \in Promise!Openings(t.stack)
      /\ StartHand(t, w).phase = "draw" => Earned(StartHand(t, w))
  BY <1>5, StartHandPays
<1>7. ~ Money(table).open /\ Money(table).behind = table.stack
  BY <1>1, MoneyOver DEF Promise!Closed
<1>8. Money(table)' \in Promise!Openings(t.stack)
  BY <1>1, <1>6 DEF Money
<1>9. DrawEarned'
  BY <1>1, <1>6 DEF DrawEarned, Earned
<1> QED BY <1>5, <1>7, <1>8, <1>9 DEF Promise!Start

\* Players discard without moving a chip, and after the last discard only a
\* player without chips comes to a showdown.
LEMMA DiscardPays ==
  ASSUME PromiseInv, NEW i \in Seats, NEW w \in Showdowns, Discard(i, w)
  PROVE  Promise!PutIn(i, 0) /\ DrawEarned'
<1> DEFINE discarded == [table.discarded EXCEPT ![i] = TRUE]
           d == [table EXCEPT !.discarded = discarded]
           turn == Other(table.dealer)
           f == [d EXCEPT !.phase = "final-bet", !.turn = turn]
           g == [d EXCEPT !.turn = Other(i)]
<1>1. /\ table \in TableType /\ table.phase = "draw" /\ Able(table) /\ Staked(table)
      /\ Earned(table)
  BY DEF PromiseInv, DrawEarned, TurnInv, TableInv, Sound, Over, Live, Discard, HandOver,
         TurnSafe
<1>2. turn \in Seats /\ Other(i) \in Seats
  BY <1>1, TableFields DEF Other, Seats
<1>3. discarded \in [Seats -> BOOLEAN]
  BY <1>1 DEF TableType
<1>4. table' = g \/ table' = Showdown(d, w) \/ table' = f
  BY <1>1 DEF Discard, TableType
<1> HIDE DEF discarded, turn
<1>5. /\ d \in TableType /\ d.phase = "draw" /\ d.roundBet = table.roundBet
      /\ d.totalBet = table.totalBet /\ d.stack = table.stack /\ d.pot = table.pot
      /\ d.allIn = table.allIn
  BY <1>1, <1>3 DEF TableType
<1> HIDE DEF d
<1>6. /\ Live(d) /\ table.phase \notin HandOver /\ w \in Promise!Winners
  BY <1>1, <1>5 DEF Live, Staked, HandOver, Showdowns, Promise!Winners
<1>7. /\ Money(table).open /\ Money(table).behind = table.stack
      /\ Money(table).stake = table.totalBet
  BY <1>6, MoneyLive DEF Promise!Open
<1>8. /\ table.stack = [table.stack EXCEPT ![i] = @ - 0]
      /\ table.totalBet = [table.totalBet EXCEPT ![i] = @ + 0]
  BY <1>1 DEF TableType
<1>9. Money(table') = Money(table)'
  BY DEF Money
<1>10. CASE table' = Showdown(d, w)
  <2>1. Money(table') = Promise!Closed(Promise!Compared(table.stack, table.totalBet, w))
    BY <1>5, <1>6, <1>10, ShowdownPays
  <2>2. Promise!Answered(table.stack, table.totalBet)
    BY <1>1, EarnedAnswered
  <2>3. table'.phase = "showdown"
    BY <1>5, <1>10, ShowdownEffect
  <2>4. Promise!PutIn(i, 0)
    BY <1>6, <1>7, <1>8, <1>9, <2>1, <2>2 DEF Promise!PutIn
  <2> QED BY <2>3, <2>4 DEF DrawEarned
<1>11. CASE table' = f \/ table' = g
  <2>1. /\ f.phase = "final-bet" /\ f.totalBet = d.totalBet /\ f.stack = d.stack
        /\ g.phase = "draw" /\ g.totalBet = d.totalBet /\ g.stack = d.stack
        /\ f.allIn = d.allIn /\ g.allIn = d.allIn
    BY <1>2, <1>5 DEF TableType
  <2> HIDE DEF f, g
  <2>2. /\ table'.phase \notin HandOver /\ table'.stack = table.stack
        /\ table'.totalBet = table.totalBet /\ table'.allIn = table.allIn
    BY <1>5, <1>11, <2>1 DEF HandOver
  <2>3. Money(table') = Promise!Open(table.stack, table.totalBet)
    BY <2>2, MoneyLive
  <2>4. Promise!PutIn(i, 0)
    BY <1>7, <1>8, <1>9, <2>3 DEF Promise!PutIn
  <2> QED BY <1>1, <2>2, <2>4 DEF DrawEarned, Earned
<1> QED BY <1>4, <1>10, <1>11

LEMMA StepPays == PromiseInv /\ [Next]_table => [Promise!Next]_(Money(table)) /\ DrawEarned'
<1> SUFFICES ASSUME PromiseInv, [Next]_table
             PROVE  [Promise!Next]_(Money(table)) /\ DrawEarned'
  OBVIOUS
<1>1. CASE UNCHANGED table
  BY <1>1 DEF PromiseInv, DrawEarned, Earned, Money
<1>2. ASSUME NEW w \in Showdowns, NextHand(w)
      PROVE  Promise!Next /\ DrawEarned'
  BY <1>2, NextHandPays DEF PromiseInv, Promise!Next
<1>3. ASSUME NEW w \in Showdowns, NEW i \in Seats, Bet(i, w)
      PROVE  Promise!Next /\ DrawEarned'
  <2>1. (\E n \in 0 .. table.stack[i] : Promise!PutIn(i, n)) \/ Promise!GiveUp(i)
    BY <1>3, BetKeepsPromise DEF PromiseInv
  <2>2. table.phase \in BettingPhases /\ Closing
    <3>1. Closing
      BY <1>3, BetKeeps DEF PromiseInv
    <3>2. CanAct(table, i)
      BY <1>3 DEF Bet, Fold, Check, Call, AllIn, RaiseTo
    <3> QED BY <3>1, <3>2 DEF CanAct
  <2>3. DrawEarned'
    BY <2>2 DEF Closing, DrawEarned, BettingPhases
  <2>4. Money(table).behind = table.stack /\ i \in Promise!Players
    BY DEF Money, Promise!Players, Seats
  <2> QED BY <2>1, <2>3, <2>4 DEF Promise!Next
<1>4. ASSUME NEW w \in Showdowns, NEW i \in Seats, Discard(i, w)
      PROVE  Promise!Next /\ DrawEarned'
  <2>1. Promise!PutIn(i, 0) /\ DrawEarned'
    BY <1>4, DiscardPays
  <2>2. table.stack[i] \in Nat /\ Money(table).behind = table.stack /\ i \in Promise!Players
    BY DEF PromiseInv, TurnInv, TableInv, Sound, Over, Live, TableType, Money, Promise!Players,
           Seats
  <2>3. 0 \in 0 .. Money(table).behind[i]
    BY <2>2
  <2> QED BY <2>1, <2>2, <2>3 DEF Promise!Next
<1>5. ASSUME NEW i \in Seats, Leave(i)
      PROVE  Promise!Next /\ DrawEarned'
  <2>1. Promise!GiveUp(i)
    BY <1>5, LeavePays DEF PromiseInv
  <2>2. table.phase \notin HandOver /\ table' = FinishByFold(table, Other(i))
        /\ table \in TableType /\ Other(i) \in Seats
    BY <1>5 DEF Leave, PromiseInv, TurnInv, TableInv, Sound, Over, Live, Other, Seats
  <2>3. Over(table')
    BY <2>2, FoldEnds
  <2>4. DrawEarned'
    BY <2>3 DEF Over, DrawEarned, HandOver
  <2>5. i \in Promise!Players
    BY DEF Promise!Players, Seats
  <2> QED BY <2>1, <2>4, <2>5 DEF Promise!Next
<1> QED BY <1>1, <1>2, <1>3, <1>4, <1>5 DEF Next

\* Whatever streets, raises, refunds, discards and disconnects a hand goes
\* through, the table's chips move only as Stakes allows.
THEOREM TableKeepsPromise == Spec => KeepsPromise
<1>1. Init => PromiseInv /\ Promise!Init
  BY InitSound, InitTurn, InitPays DEF PromiseInv, TurnInv
<1>2. PromiseInv /\ [Next]_table => PromiseInv' /\ [Promise!Next]_(Money(table))
  BY StepSound, StepTurn, StepPays DEF PromiseInv, TurnInv
<1> QED BY <1>1, <1>2, PTL DEF Spec, KeepsPromise, Promise!Spec

=============================================================================
