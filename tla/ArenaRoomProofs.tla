-------------------------- MODULE ArenaRoomProofs --------------------------
(***************************************************************************)
(* Proofs about ArenaRoom, for every length of the series, every size of   *)
(* the board and every setting of the clocks.                              *)
(***************************************************************************)
EXTENDS ArenaRoom, TLAPS

-----------------------------------------------------------------------------
(* Types. *)

\* Times stay natural numbers.
LEMMA LessType ==
  ASSUME NEW r \in Nat, NEW t \in Nat
  PROVE  Less(r, t) \in Nat
BY DEF Less

\* The time allowed for a turn is a natural number.
LEMMA DurationType ==
  ASSUME NEW m \in Mark, NEW n \in Nat, NEW ck \in [Mark -> Nat]
  PROVE  /\ Duration(m, n, ck) \in Nat
         /\ Opening(n) \in BOOLEAN
BY RoomAssumption DEF Duration, Opening, Clocked

\* Clocks start as clocks.
LEMMA FullClockType == FullClock \in [Mark -> Nat]
BY RoomAssumption DEF FullClock, NoClock, Clocked

\* Stopping the timer keeps the timer's variables in their types.
LEMMA StopTimerType ==
  ASSUME TypeOK, StopTimer
  PROVE  /\ armed' \subseteq Callback
         /\ version' \in Nat
         /\ started' \in BOOLEAN
         /\ elapsed' \in Nat
<1>1. version' \in Nat /\ elapsed' \in Nat
  BY DEF StopTimer, TypeOK
<1>2. armed' \subseteq Callback /\ started' \in BOOLEAN
  BY Zenon DEF StopTimer
<1>3. QED
  BY <1>1, <1>2

\* Setting the timer of a turn keeps the timer's variables in their types.
LEMMA ResetTimerType ==
  ASSUME TypeOK, NEW m \in Mark, NEW n \in Nat, NEW ck \in [Mark -> Nat],
         ResetTimer(m, n, ck)
  PROVE  /\ armed' \subseteq Callback
         /\ version' \in Nat
         /\ started' \in BOOLEAN
         /\ elapsed' \in Nat
<1>1. Opening(n) \in BOOLEAN
  BY DurationType
<1>2. Clocked \in BOOLEAN
  BY DEF Clocked
<1>3. version \in Nat
  BY DEF TypeOK
<1>4. CASE Duration(m, n, ck) = 0
  BY <1>4, StopTimerType DEF ResetTimer
<1>5. CASE Duration(m, n, ck) # 0
  <2>1. [version |-> version + 2, mark |-> m, opening |-> Opening(n)] \in Callback
    BY <1>1, <1>3 DEF Callback
  <2>2. QED
    BY <1>1, <1>2, <1>3, <1>5, <2>1 DEF ResetTimer
<1>6. QED
  BY <1>4, <1>5

\* Ending a round keeps every variable it touches in its type.
LEMMA FinishRoundType ==
  ASSUME TypeOK, NEW w \in Mark \cup {None}, NEW ck \in [Mark -> Nat],
         FinishRound(w, ck)
  PROVE  /\ clock' \in [Mark -> Nat]
         /\ armed' \subseteq Callback
         /\ version' \in Nat
         /\ started' \in BOOLEAN
         /\ elapsed' \in Nat
         /\ winner' \in Mark \cup {None}
         /\ seriesWinner' \in Mark \cup {None}
         /\ score' \in [Mark -> Nat]
         /\ status' \in {"round-finished", "finished"}
         /\ round' \in Nat
         /\ turn' \in Mark
<1>1. clock' \in [Mark -> Nat]
  BY LessType DEF FinishRound, TypeOK
<1>2. score' \in [Mark -> Nat]
  BY DEF FinishRound, TypeOK
<1>3. seriesWinner' \in Mark \cup {None} /\ status' \in {"round-finished", "finished"}
  BY DEF FinishRound, TypeOK
<1>4. QED
  BY <1>1, <1>2, <1>3, StopTimerType DEF FinishRound, TypeOK

\* Opposite is the other mark.
LEMMA OppositeType ==
  ASSUME NEW m \in Mark
  PROVE  Opposite(m) \in Mark /\ Opposite(m) # m /\ Opposite(Opposite(m)) = m
BY DEF Opposite, Mark

\* No mark is the empty string.
LEMMA NoneIsNoMark == None \notin Mark
BY DEF None, Mark

\* Starting a round keeps every variable it touches in its type.
LEMMA StartNextRoundType ==
  ASSUME TypeOK, NEW r \in Nat, StartNextRound(r)
  PROVE  /\ round' \in Nat /\ winner' \in Mark \cup {None} /\ status' = "playing"
         /\ offer' \in Mark \cup {None} /\ ready' \subseteq Mark /\ moves' \in 0..Cells
         /\ turn' \in Mark /\ clock' \in [Mark -> Nat] /\ fair' \in [Mark -> Nat]
         /\ armed' \subseteq Callback /\ version' \in Nat
         /\ started' \in BOOLEAN /\ elapsed' \in Nat
<1>1. Opener(r) \in Mark
  BY DEF Opener, Mark
<1>2. ResetTimer(Opener(r), 0, FullClock)
  BY DEF StartNextRound
<1>3. /\ armed' \subseteq Callback /\ version' \in Nat
      /\ started' \in BOOLEAN /\ elapsed' \in Nat
  BY <1>1, <1>2, FullClockType, ResetTimerType
<1>4. QED
  BY <1>1, <1>3, FullClockType, RoomAssumption DEF StartNextRound

\* Passing the turn keeps every variable it touches in its type.
LEMMA PassTurnType ==
  ASSUME TypeOK, NEW ck \in [Mark -> Nat], PassTurn(ck)
  PROVE  /\ turn' \in Mark /\ clock' \in [Mark -> Nat]
         /\ armed' \subseteq Callback /\ version' \in Nat
         /\ started' \in BOOLEAN /\ elapsed' \in Nat
         /\ UNCHANGED seriesVars
<1>1. Opposite(turn) \in Mark
  BY OppositeType DEF TypeOK
<1>2. moves + 1 \in Nat
  BY RoomAssumption DEF TypeOK
<1>3. ResetTimer(Opposite(turn), moves + 1, ck)
  BY DEF PassTurn
<1>4. QED
  BY <1>1, <1>2, <1>3, ResetTimerType DEF PassTurn

\* The clocks after a move are clocks.
LEMMA ClockType ==
  ASSUME TypeOK, NEW m \in Mark, NEW ck \in [Mark -> Nat]
  PROVE  Incremented(m, ck) \in [Mark -> Nat] /\ Charged(m) \in [Mark -> Nat]
<1>1. Less(clock[m], elapsed) \in Nat /\ clock \in [Mark -> Nat]
  BY LessType DEF TypeOK
<1>2. Charged(m) \in [Mark -> Nat]
  BY <1>1 DEF Charged
<1>3. [ck EXCEPT ![m] = @ + ClockIncrement] \in [Mark -> Nat]
  BY RoomAssumption
<1>4. QED
  BY <1>2, <1>3 DEF Incremented

\* Every step keeps the variables in their types.
LEMMA TypeStep == TypeOK /\ [Next]_vars => TypeOK'
<1> SUFFICES ASSUME TypeOK, [Next]_vars PROVE TypeOK'
  OBVIOUS
<1> USE DEF turnVars, seriesVars, timerVars
<1>1. ASSUME NEW m \in Mark, GridMove(m) PROVE TypeOK'
  <2>1. moves' \in 0..Cells /\ UNCHANGED <<ready, offer, fired, fair>>
    BY <1>1, RoomAssumption DEF GridMove, TypeOK
  <2>2. CASE FinishRound(IF Misere THEN Opposite(m) ELSE m, clock)
    <3>1. (IF Misere THEN Opposite(m) ELSE m) \in Mark \cup {None} /\ clock \in [Mark -> Nat]
      BY OppositeType DEF TypeOK
    <3>2. QED
      BY <2>1, <2>2, <3>1, FinishRoundType DEF TypeOK
  <2>3. CASE FinishRound(None, clock)
    <3>1. clock \in [Mark -> Nat]
      BY DEF TypeOK
    <3>2. QED
      BY <2>1, <2>3, <3>1, FinishRoundType DEF TypeOK
  <2>4. CASE PassTurn(clock)
    <3>1. clock \in [Mark -> Nat]
      BY DEF TypeOK
    <3>2. QED
      BY <2>1, <2>4, <3>1, PassTurnType DEF TypeOK
  <2>5. QED
    BY <1>1, <2>2, <2>3, <2>4 DEF GridMove
<1>2. ASSUME NEW m \in Mark, ChessMove(m) PROVE TypeOK'
  <2>1. Incremented(m, Charged(m)) \in [Mark -> Nat]
    <3>1. clock \in [Mark -> Nat]
      BY DEF TypeOK
    <3>2. Charged(m) \in [Mark -> Nat]
      BY <3>1, ClockType
    <3>3. QED
      BY <3>2, ClockType
  <2>2. fair' \in [Mark -> Nat]
    BY <1>2, ClockType DEF ChessMove, TypeOK
  <2>3. /\ moves' \in 0..Cells /\ UNCHANGED <<ready, fired>>
        /\ offer' \in Mark \cup {None}
    BY <1>2, RoomAssumption DEF ChessMove, TypeOK, OfferAfterMove
  <2>4. ASSUME NEW w \in {m, None}, FinishRound(w, Incremented(m, Charged(m)))
        PROVE  TypeOK'
    BY <2>1, <2>2, <2>3, <2>4, FinishRoundType DEF TypeOK
  <2>5. CASE PassTurn(Incremented(m, Charged(m)))
    BY <2>1, <2>2, <2>3, <2>5, PassTurnType DEF TypeOK
  <2>6. QED
    BY <1>2, <2>4, <2>5 DEF ChessMove
<1>3. ASSUME NEW m \in Mark, ChessMoveTooLate(m) PROVE TypeOK'
  <2>1. Opposite(m) \in Mark \cup {None} /\ [clock EXCEPT ![m] = 0] \in [Mark -> Nat]
    BY OppositeType DEF TypeOK
  <2>2. QED
    BY <1>3, <2>1, FinishRoundType DEF ChessMoveTooLate, TypeOK
<1>4. ASSUME NEW m \in Mark, OfferDraw(m) \/ DeclineDraw(m) \/ AskRematch(m) PROVE TypeOK'
  BY <1>4 DEF OfferDraw, DeclineDraw, AskRematch, TypeOK
<1>5. ASSUME NEW m \in Mark, AcceptDraw(m) PROVE TypeOK'
  <2>1. clock \in [Mark -> Nat]
    BY DEF TypeOK
  <2>2. QED
    BY <1>5, <2>1, FinishRoundType DEF AcceptDraw, TypeOK
<1>6. ASSUME NEW m \in Mark, Resign(m) \/ Forfeit(m) PROVE TypeOK'
  <2>1. Opposite(m) \in Mark \cup {None} /\ clock \in [Mark -> Nat]
    BY OppositeType DEF TypeOK
  <2>2. QED
    BY <1>6, <2>1, FinishRoundType DEF Resign, Forfeit, TypeOK
<1>7. ASSUME NEW m \in Mark, AgreeRematch(m) PROVE TypeOK'
  <2>1. CASE status = "finished"
    <3>1. StartNextRound(1) /\ score' \in [Mark -> Nat] /\ seriesWinner' = None /\ fired' = fired
      BY <1>7, <2>1 DEF AgreeRematch
    <3>2. QED
      BY <3>1, StartNextRoundType DEF TypeOK
  <2>2. CASE status # "finished"
    <3>1. /\ StartNextRound(round + 1) /\ round + 1 \in Nat
          /\ UNCHANGED <<score, seriesWinner, fired>>
      BY <1>7, <2>2 DEF AgreeRematch, TypeOK
    <3>2. QED
      BY <3>1, StartNextRoundType DEF TypeOK
  <2>3. QED
    BY <2>1, <2>2
<1>8. CASE Archive
  BY <1>8, StopTimerType DEF Archive, TypeOK
<1>9. CASE Tick
  <2>1. fair' \in [Mark -> Nat] /\ elapsed' \in Nat
    <3>1. Less(fair[turn], 1) \in Nat /\ fair \in [Mark -> Nat]
      BY LessType DEF TypeOK
    <3>2. fair' = [fair EXCEPT ![turn] = Less(@, 1)] \/ fair' = fair
      BY <1>9 DEF Tick
    <3>3. elapsed' \in Nat
      BY <1>9 DEF Tick, TypeOK
    <3>4. QED
      BY <3>1, <3>2, <3>3
  <2>2. QED
    BY <1>9, <2>1 DEF Tick, TypeOK
<1>10. ASSUME NEW c \in armed, FireTimer(c) PROVE TypeOK'
  BY <1>10 DEF FireTimer, TypeOK
<1>11. ASSUME NEW c \in fired, TimeOut(c) PROVE TypeOK'
  <2>1. c.mark \in Mark
    BY DEF TypeOK, Callback
  <2>2. Opposite(c.mark) \in Mark \cup {None}
    BY <2>1, OppositeType
  <2>3. (IF Clocked /\ ~ c.opening THEN [clock EXCEPT ![c.mark] = 0] ELSE clock) \in [Mark -> Nat]
    BY DEF TypeOK
  <2>4. QED
    BY <1>11, <2>2, <2>3, FinishRoundType DEF TimeOut, TypeOK
<1>12. ASSUME NEW c \in fired, StaleCallback(c) PROVE TypeOK'
  BY <1>12 DEF StaleCallback, TypeOK
<1>13. CASE UNCHANGED vars
  BY <1>13 DEF vars, TypeOK
<1>14. QED
  BY <1>1, <1>2, <1>3, <1>4, <1>5, <1>6, <1>7, <1>8, <1>9, <1>10, <1>11, <1>12, <1>13
     DEF Next, Request, Timers

\* The room starts with every variable in its type.
LEMMA TypeInit == Init => TypeOK
<1> SUFFICES ASSUME Init PROVE TypeOK
  OBVIOUS
<1>1. FullClock \in [Mark -> Nat]
  BY FullClockType
<1>2. armed \subseteq Callback
  <2>1. "one" \in Mark
    BY DEF Mark
  <2>2. Opening(0) \in BOOLEAN
    BY <1>1, <2>1, DurationType
  <2>3. [version |-> 2, mark |-> "one", opening |-> Opening(0)] \in Callback
    BY <2>1, <2>2 DEF Callback
  <2>4. QED
    BY <2>3 DEF Init
<1>3. QED
  <2>1. version \in Nat /\ moves \in 0..Cells /\ elapsed \in Nat /\ round \in Nat
    BY RoomAssumption DEF Init
  <2>2. started \in BOOLEAN
    BY DEF Init
  <2>3. QED
    BY <1>1, <1>2, <2>1, <2>2 DEF Init, TypeOK, Mark, None

\* TypeOK is an invariant of the room, whatever the settings of the table.
THEOREM TypeCorrect == Spec => []TypeOK
BY TypeInit, TypeStep, PTL DEF Spec

-----------------------------------------------------------------------------
(* The turn timer. *)

\* After the timer is stopped because the round is over, every callback that
\* is still on its way is an old one.
LEMMA StopTimerTimed ==
  ASSUME TypeOK, TimerInv, StopTimer, fired' \subseteq fired, status' # "playing"
  PROVE  TimerInv'
<1>1. armed' = {} /\ version' = version + 1 /\ version \in Nat
  BY DEF StopTimer, TypeOK
<1>2. \A c \in fired' : c.version \in Nat /\ c.version <= version
  BY DEF TypeOK, Callback, TimerInv
<1>3. \A c \in fired' : c.version <= version' /\ c.version # version'
  BY <1>1, <1>2
<1>4. QED
  BY <1>1, <1>3 DEF TimerInv

\* After a turn's timer is set it is the only one that speaks for the turn.
LEMMA ResetTimerTimed ==
  ASSUME TypeOK, TimerInv, NEW m \in Mark, NEW n \in Nat, NEW ck \in [Mark -> Nat],
         ResetTimer(m, n, ck), fired' = fired,
         turn' = m, moves' = n, clock' = ck, status' = "playing"
  PROVE  TimerInv'
<1>1. version \in Nat /\ \A c \in fired : c.version \in Nat /\ c.version <= version
  BY DEF TypeOK, Callback, TimerInv
<1>2. Duration(turn', moves', clock') = Duration(m, n, ck)
  BY DEF Duration
<1>3. CASE Duration(m, n, ck) = 0
  <2>1. armed' = {} /\ version' = version + 1
    BY <1>3 DEF ResetTimer, StopTimer
  <2>2. \A c \in fired' : c.version <= version' /\ c.version # version'
    BY <1>1, <2>1
  <2>3. Duration(turn, moves, clock)' = 0
    BY <1>2, <1>3
  <2>4. QED
    BY <2>1, <2>2, <2>3 DEF TimerInv
<1>4. CASE Duration(m, n, ck) # 0
  <2> DEFINE new == [version |-> version + 2, mark |-> m, opening |-> Opening(n)]
  <2>1. armed' = {new} /\ version' = version + 2
    BY <1>4 DEF ResetTimer
  <2>2. new.version = version' /\ new.mark = m
    BY <2>1
  <2>3. \A c \in fired' : c.version <= version' /\ c.version # version'
    BY <1>1, <2>1
  <2>4. \A c \in armed' : c.version = version' /\ c.mark = turn'
    BY <2>1, <2>2
  <2>5. \E c \in armed' \cup fired' : c.version = version' /\ c.mark = turn'
    BY <2>1, <2>2
  <2>6. \A c, d \in armed' : c = d
    BY <2>1
  <2>7. QED
    BY <2>3, <2>4, <2>5, <2>6 DEF TimerInv
<1>5. QED
  BY <1>3, <1>4

\* The end of a round leaves no timer behind.
LEMMA FinishRoundTimed ==
  ASSUME TypeOK, TimerInv, NEW w \in Mark \cup {None}, NEW ck \in [Mark -> Nat],
         FinishRound(w, ck), fired' \subseteq fired
  PROVE  TimerInv' /\ ClockPositive'
<1>1. StopTimer /\ status' # "playing"
  BY DEF FinishRound
<1>2. QED
  BY <1>1, StopTimerTimed DEF ClockPositive

\* Passing the turn sets the other player's timer.
LEMMA PassTurnTimed ==
  ASSUME TypeOK, TimerInv, NEW ck \in [Mark -> Nat], PassTurn(ck), fired' = fired,
         moves' = moves + 1, status = "playing"
  PROVE  TimerInv'
<1>1. Opposite(turn) \in Mark /\ moves + 1 \in Nat
  BY OppositeType, RoomAssumption DEF TypeOK
<1>2. ResetTimer(Opposite(turn), moves + 1, ck)
  BY DEF PassTurn
<1>3. turn' = Opposite(turn) /\ clock' = ck /\ status' = "playing"
  BY DEF PassTurn, seriesVars
<1>4. QED
  BY <1>1, <1>2, <1>3, ResetTimerTimed

\* A new round sets its opener's timer and gives both players a full clock.
LEMMA StartNextRoundTimed ==
  ASSUME TypeOK, TimerInv, NEW r \in Nat, StartNextRound(r), fired' = fired
  PROVE  TimerInv' /\ ClockPositive'
<1>1. Opener(r) \in Mark /\ 0 \in Nat /\ FullClock \in [Mark -> Nat]
  BY FullClockType DEF Opener, Mark
<1>2. /\ ResetTimer(Opener(r), 0, FullClock)
      /\ turn' = Opener(r) /\ moves' = 0 /\ clock' = FullClock /\ status' = "playing"
  BY DEF StartNextRound
<1>3. TimerInv'
  BY <1>1, <1>2, ResetTimerTimed
<1>4. ClockPositive'
  BY <1>2, RoomAssumption DEF ClockPositive, FullClock, Clocked
<1>5. QED
  BY <1>3, <1>4

\* A move in time leaves the mover time on the clock.
LEMMA ClockLeft ==
  ASSUME TypeOK, ClockPositive, NEW m \in Mark, status = "playing",
         started => clock[m] > elapsed
  PROVE  Clocked => \A k \in Mark : Incremented(m, Charged(m))[k] > 0
<1> SUFFICES ASSUME Clocked, NEW k \in Mark
             PROVE  Incremented(m, Charged(m))[k] > 0
  OBVIOUS
<1>1. clock \in [Mark -> Nat] /\ clock[k] > 0 /\ elapsed \in Nat
  BY DEF TypeOK, ClockPositive
<1>2. CASE ~ started
  BY <1>1, <1>2 DEF Incremented, Charged
<1>3. CASE started
  <2>1. Less(clock[m], elapsed) \in Nat /\ Less(clock[m], elapsed) > 0
    BY <1>1, <1>3 DEF Less
  <2>2. Charged(m) = [clock EXCEPT ![m] = Less(@, elapsed)]
    BY <1>3 DEF Charged
  <2>3. Charged(m) \in [Mark -> Nat] /\ Charged(m)[k] > 0
    BY <1>1, <2>1, <2>2
  <2>4. Incremented(m, Charged(m)) = [Charged(m) EXCEPT ![m] = @ + ClockIncrement]
    BY <1>3 DEF Incremented
  <2>5. QED
    BY <2>3, <2>4, RoomAssumption
<1>4. QED
  BY <1>2, <1>3

\* Every step keeps the timer, the clocks, the offer and the list of requests
\* for the next round in order.
LEMMA RoomStep == RoomInv /\ [Next]_vars => RoomInv'
<1> SUFFICES ASSUME RoomInv, [Next]_vars PROVE RoomInv'
  OBVIOUS
<1> USE DEF turnVars, seriesVars, timerVars
<1>0. /\ TypeOK /\ TimerInv /\ ClockPositive
      /\ RematchFresh /\ OffersInChess /\ OfferAwaitsOpponent
  BY DEF RoomInv
<1>T. TypeOK'
  BY <1>0, TypeStep
<1>C. OffersInChess'
  <2>1. offer' \in {None, offer} \/ Kind = "chess"
    BY <1>0
       DEF Next, vars, Request, Timers, GridMove, ChessMove, ChessMoveTooLate, OfferDraw,
           AcceptDraw, DeclineDraw, Resign, AskRematch, AgreeRematch, Forfeit, Archive,
           Tick, FireTimer, TimeOut, StaleCallback, StartNextRound
  <2>2. QED
    BY <1>0, <2>1 DEF OffersInChess
<1>O. ASSUME status' # "playing" PROVE OfferAwaitsOpponent' /\ RematchFresh'
  BY <1>O DEF OfferAwaitsOpponent, RematchFresh
<1>F. ASSUME NEW w \in Mark \cup {None}, NEW ck \in [Mark -> Nat],
             FinishRound(w, ck), fired' \subseteq fired
      PROVE  RoomInv'
  <2>1. TimerInv' /\ ClockPositive'
    BY <1>0, <1>F, FinishRoundTimed
  <2>2. status' # "playing"
    BY <1>F DEF FinishRound
  <2>3. QED
    BY <1>T, <1>C, <1>O, <2>1, <2>2 DEF RoomInv
<1>S. ASSUME NEW r \in Nat, StartNextRound(r), fired' = fired PROVE RoomInv'
  <2>1. TimerInv' /\ ClockPositive'
    BY <1>0, <1>S, StartNextRoundTimed
  <2>2. offer' = None /\ ready' = {}
    BY <1>S DEF StartNextRound
  <2>3. QED
    BY <1>T, <1>C, <2>1, <2>2 DEF RoomInv, OfferAwaitsOpponent, RematchFresh
<1>U. ASSUME UNCHANGED <<turn, moves, status, armed, version, elapsed, clock>>,
             fired' \subseteq fired, \A c \in fired : c \in fired' \/ ~ Current(c)
      PROVE  TimerInv' /\ ClockPositive'
  <2>1. Duration(turn, moves, clock)' = Duration(turn, moves, clock)
    BY <1>U DEF Duration
  <2>2. \A c \in fired : c.version = version => Current(c)
    BY <1>0 DEF TimerInv, Current
  <2>3. TimerInv'
    BY <1>0, <1>U, <2>1, <2>2 DEF TimerInv
  <2>4. QED
    BY <1>0, <1>U, <2>3 DEF ClockPositive
<1>1. ASSUME NEW m \in Mark, GridMove(m) PROVE RoomInv'
  <2>1. clock \in [Mark -> Nat] /\ (IF Misere THEN Opposite(m) ELSE m) \in Mark
    BY <1>0, OppositeType DEF TypeOK
  <2>2. fired' = fired /\ status = "playing" /\ moves' = moves + 1 /\ ~ Clocked
        /\ ready' = ready /\ offer' = offer
    BY <1>1 DEF GridMove, Clocked
  <2>3. CASE PassTurn(clock)
    <3>1. TimerInv'
      BY <1>0, <2>1, <2>2, <2>3, PassTurnTimed
    <3>2. offer' = None /\ ready' = {}
      BY <1>0, <1>1, <2>2 DEF GridMove, OffersInChess, RematchFresh
    <3>3. QED
      BY <1>T, <1>C, <2>2, <3>1, <3>2
         DEF RoomInv, ClockPositive, OfferAwaitsOpponent, RematchFresh
  <2>4. CASE \E w \in Mark \cup {None} : FinishRound(w, clock)
    BY <1>F, <2>1, <2>2, <2>4
  <2>5. QED
    BY <1>1, <2>1, <2>3, <2>4 DEF GridMove
<1>2. ASSUME NEW m \in Mark, ChessMove(m) PROVE RoomInv'
  <2>1. clock \in [Mark -> Nat]
    BY <1>0 DEF TypeOK
  <2>2. Charged(m) \in [Mark -> Nat]
    BY <1>0, <2>1, ClockType
  <2>3. Incremented(m, Charged(m)) \in [Mark -> Nat]
    BY <1>0, <2>2, ClockType
  <2>4. /\ fired' = fired /\ status = "playing" /\ moves' = moves + 1 /\ m = turn
        /\ ready' = ready /\ offer' = OfferAfterMove(m)
        /\ started => clock[m] > elapsed
    BY <1>2 DEF ChessMove
  <2>5. CASE PassTurn(Incremented(m, Charged(m)))
    <3>1. TimerInv'
      BY <1>0, <2>3, <2>4, <2>5, PassTurnTimed
    <3>2. ClockPositive'
      <4>1. clock' = Incremented(m, Charged(m)) /\ status' = status
        BY <2>5 DEF PassTurn
      <4>2. QED
        BY <1>0, <2>4, <4>1, ClockLeft DEF ClockPositive
    <3>3. OfferAwaitsOpponent'
      <4>1. turn' = Opposite(turn)
        BY <2>5 DEF PassTurn
      <4>2. offer # m
        BY <1>0, <2>4, NoneIsNoMark, OppositeType DEF OfferAwaitsOpponent
      <4>3. offer' = None
        BY <2>4, <4>2 DEF OfferAfterMove
      <4>4. QED
        BY <4>3 DEF OfferAwaitsOpponent
    <3>4. RematchFresh'
      BY <1>0, <2>4 DEF RematchFresh
    <3>5. QED
      BY <1>T, <1>C, <3>1, <3>2, <3>3, <3>4 DEF RoomInv
  <2>6. ASSUME NEW w \in {m, None}, FinishRound(w, Incremented(m, Charged(m)))
        PROVE  RoomInv'
    BY <1>F, <2>3, <2>4, <2>6
  <2>7. QED
    BY <1>2, <2>5, <2>6 DEF ChessMove
<1>3. ASSUME NEW m \in Mark, ChessMoveTooLate(m) PROVE RoomInv'
  <2>1. Opposite(m) \in Mark \cup {None} /\ [clock EXCEPT ![m] = 0] \in [Mark -> Nat]
    BY <1>0, OppositeType DEF TypeOK
  <2>2. QED
    BY <1>3, <1>F, <2>1 DEF ChessMoveTooLate
<1>4. ASSUME NEW m \in Mark, OfferDraw(m) PROVE RoomInv'
  <2>1. TimerInv' /\ ClockPositive'
    BY <1>4, <1>U DEF OfferDraw
  <2>2. turn' = Opposite(offer')
    BY <1>0, <1>4 DEF OfferDraw, TypeOK, Opposite, Mark
  <2>3. QED
    BY <1>0, <1>4, <1>T, <1>C, <2>1, <2>2 DEF OfferDraw, RoomInv, OfferAwaitsOpponent, RematchFresh
<1>5. ASSUME NEW m \in Mark, DeclineDraw(m) PROVE RoomInv'
  <2>1. TimerInv' /\ ClockPositive'
    BY <1>5, <1>U DEF DeclineDraw
  <2>2. QED
    BY <1>0, <1>5, <1>T, <1>C, <2>1 DEF DeclineDraw, RoomInv, OfferAwaitsOpponent, RematchFresh
<1>6. ASSUME NEW m \in Mark, AskRematch(m) PROVE RoomInv'
  <2>1. TimerInv' /\ ClockPositive'
    BY <1>6, <1>U DEF AskRematch
  <2>2. status' # "playing"
    BY <1>6 DEF AskRematch
  <2>3. QED
    BY <1>T, <1>C, <1>O, <2>1, <2>2 DEF RoomInv
<1>7. ASSUME NEW m \in Mark, AcceptDraw(m) PROVE RoomInv'
  <2>1. clock \in [Mark -> Nat]
    BY <1>0 DEF TypeOK
  <2>2. QED
    BY <1>7, <1>F, <2>1 DEF AcceptDraw
<1>8. ASSUME NEW m \in Mark, Resign(m) \/ Forfeit(m) PROVE RoomInv'
  <2>1. clock \in [Mark -> Nat] /\ Opposite(m) \in Mark
    BY <1>0, OppositeType DEF TypeOK
  <2>2. QED
    BY <1>8, <1>F, <2>1 DEF Resign, Forfeit
<1>9. ASSUME NEW m \in Mark, AgreeRematch(m) PROVE RoomInv'
  <2>1. StartNextRound(1) \/ StartNextRound(round + 1)
    BY <1>9 DEF AgreeRematch
  <2>2. fired' = fired /\ round + 1 \in Nat
    BY <1>0, <1>9 DEF AgreeRematch, TypeOK
  <2>3. QED
    BY <1>S, <2>1, <2>2
<1>10. CASE Archive
  <2>1. StopTimer /\ status' # "playing" /\ fired' = fired
    BY <1>10 DEF Archive
  <2>2. TimerInv'
    BY <1>0, <2>1, StopTimerTimed
  <2>3. QED
    BY <1>T, <1>C, <1>O, <2>1, <2>2 DEF RoomInv, ClockPositive
<1>11. CASE Tick
  <2>1. Duration(turn, moves, clock)' = Duration(turn, moves, clock)
    BY <1>11 DEF Tick, Duration
  <2>2. elapsed' >= elapsed /\ elapsed \in Nat /\ elapsed' \in Nat
        /\ Duration(turn, moves, clock) \in Nat
    BY <1>0, <1>11, DurationType, RoomAssumption DEF Tick, TypeOK
  <2>3. TimerInv'
    BY <1>0, <1>11, <2>1, <2>2 DEF Tick, TimerInv
  <2>4. QED
    BY <1>0, <1>11, <1>T, <1>C, <2>3
       DEF Tick, RoomInv, ClockPositive, OfferAwaitsOpponent, RematchFresh
<1>12. ASSUME NEW c \in armed, FireTimer(c) PROVE RoomInv'
  <2>1. Duration(turn, moves, clock)' = Duration(turn, moves, clock)
    BY <1>12 DEF FireTimer, Duration
  <2>2. /\ status = "playing" /\ c.version = version /\ c.mark = turn
        /\ version \in Nat /\ elapsed >= Duration(turn, moves, clock)
    BY <1>0, <1>12 DEF FireTimer, TimerInv, TypeOK
  <2>3. \A d \in fired : d.version # version
    BY <1>0, <1>12 DEF TimerInv
  <2>4. \A d \in armed : d = c
    BY <1>0 DEF TimerInv
  <2>5. armed' = {} /\ fired' = fired \cup {c}
    BY <1>12, <2>4 DEF FireTimer
  <2>6. TimerInv'
    BY <1>0, <1>12, <2>1, <2>2, <2>3, <2>5 DEF FireTimer, TimerInv
  <2>7. QED
    BY <1>0, <1>12, <1>T, <1>C, <2>6
       DEF FireTimer, RoomInv, ClockPositive, OfferAwaitsOpponent, RematchFresh
<1>13. ASSUME NEW c \in fired, TimeOut(c) PROVE RoomInv'
  <2>1. Opposite(c.mark) \in Mark \cup {None}
    BY <1>0, OppositeType DEF TypeOK, Callback
  <2>2. (IF Clocked /\ ~ c.opening THEN [clock EXCEPT ![c.mark] = 0] ELSE clock) \in [Mark -> Nat]
    BY <1>0 DEF TypeOK
  <2>3. QED
    BY <1>13, <1>F, <2>1, <2>2 DEF TimeOut
<1>14. ASSUME NEW c \in fired, StaleCallback(c) PROVE RoomInv'
  <2>1. TimerInv' /\ ClockPositive'
    BY <1>14, <1>U DEF StaleCallback
  <2>2. QED
    BY <1>0, <1>14, <1>T, <1>C, <2>1 DEF StaleCallback, RoomInv, OfferAwaitsOpponent, RematchFresh
<1>15. CASE UNCHANGED vars
  <2>1. TimerInv' /\ ClockPositive'
    BY <1>15, <1>U DEF vars
  <2>2. QED
    BY <1>0, <1>15, <1>T, <1>C, <2>1 DEF vars, RoomInv, OfferAwaitsOpponent, RematchFresh
<1>16. QED
  BY <1>1, <1>2, <1>3, <1>4, <1>5, <1>6, <1>7, <1>8, <1>9, <1>10, <1>11, <1>12,
     <1>13, <1>14, <1>15
     DEF Next, Request, Timers

\* The room starts in order.
LEMMA RoomInit == Init => RoomInv
<1> SUFFICES ASSUME Init PROVE RoomInv
  OBVIOUS
<1>1. TypeOK
  BY TypeInit
<1>2. turn = "one" /\ moves = 0 /\ clock = FullClock /\ fired = {} /\ status = "playing"
  BY DEF Init
<1>3. TimerInv
  <2>1. CASE Duration("one", 0, FullClock) = 0
    BY <1>2, <2>1 DEF Init, TimerInv
  <2>2. CASE Duration("one", 0, FullClock) # 0
    <3> DEFINE first == [version |-> 2, mark |-> "one", opening |-> Opening(0)]
    <3>1. armed = {first} /\ version = 2 /\ first.version = 2 /\ first.mark = "one"
      BY <2>2 DEF Init
    <3> HIDE DEF first
    <3>2. QED
      BY <1>2, <3>1 DEF TimerInv
  <2>3. QED
    BY <2>1, <2>2
<1>4. ClockPositive
  BY <1>2, RoomAssumption DEF ClockPositive, FullClock, Clocked
<1>5. QED
  BY <1>1, <1>3, <1>4 DEF Init, RoomInv, RematchFresh, OffersInChess, OfferAwaitsOpponent

\* The inductive invariant of the room.
THEOREM RoomInvariant == Spec => []RoomInv
BY RoomInit, RoomStep, PTL DEF Spec

\* A draw offer is only ever open in the opponent's turn, at every table.
THEOREM OffersAwaitOpponents == Spec => []OfferAwaitsOpponent
<1>1. RoomInv => OfferAwaitsOpponent
  BY DEF RoomInv
<1>2. QED
  BY <1>1, RoomInvariant, PTL

\* No request for the next round survives into it, at every table.
THEOREM RequestsDoNotOutlive == Spec => []RematchFresh
<1>1. RoomInv => RematchFresh
  BY DEF RoomInv
<1>2. QED
  BY <1>1, RoomInvariant, PTL

\* At every timed table every turn has its own deadline.
THEOREM EveryTurnIsTimed == Spec => []TurnIsTimed
<1>1. RoomInv => TurnIsTimed
  <2> SUFFICES ASSUME RoomInv, status = "playing", Clocked \/ TurnLimit # 0
               PROVE  \E c \in armed \cup fired : c.version = version /\ c.mark = turn
    BY DEF TurnIsTimed
  <2>1. turn \in Mark /\ (Clocked => clock[turn] > 0)
    BY DEF RoomInv, TypeOK, ClockPositive
  <2>2. Duration(turn, moves, clock) # 0
    BY <2>1, RoomAssumption DEF Duration, Opening
  <2>3. QED
    BY <2>2 DEF RoomInv, TimerInv
<1>2. QED
  BY <1>1, RoomInvariant, PTL

\* No timer callback that lost the race for the lock ends a later turn.
THEOREM TimeoutsAreDue == Spec => NoEarlyTimeout
<1> DEFINE Due == \A c \in fired : c \notin fired' /\ status = "playing" /\ status' # "playing"
                    => elapsed >= Duration(turn, moves, clock)
<1>1. RoomInv /\ [Next]_vars => [Due]_vars
  <2> SUFFICES ASSUME RoomInv, Next, NEW c \in fired, c \notin fired',
                      status = "playing", status' # "playing"
               PROVE  elapsed >= Duration(turn, moves, clock)
    OBVIOUS
  <2>1. \E d \in fired : (TimeOut(d) \/ StaleCallback(d)) /\ fired' = fired \ {d}
    BY DEF Next, vars, Request, Timers, GridMove, ChessMove, ChessMoveTooLate, OfferDraw,
           AcceptDraw, DeclineDraw, Resign, AskRematch, AgreeRematch, Forfeit, Archive,
           Tick, FireTimer, TimeOut, StaleCallback
  <2>2. PICK d \in fired : (TimeOut(d) \/ StaleCallback(d)) /\ fired' = fired \ {d}
    BY <2>1
  <2>3. ~ StaleCallback(d)
    BY DEF StaleCallback, seriesVars
  <2>4. d.version = version
    BY <2>2, <2>3 DEF TimeOut, Current
  <2>5. QED
    BY <2>4 DEF RoomInv, TimerInv
<1>2. QED
  BY <1>1, RoomInvariant, PTL DEF Spec, NoEarlyTimeout

-----------------------------------------------------------------------------
(* The series.  At a table that has no draw offers, every round ends while   *)
(* it is being played and the series is what module Series promises.         *)

\* winsNeeded is the least number of wins that is a majority of the rounds.
LEMMA Majority ==
  ASSUME NEW n \in Nat
  PROVE  n + 1 >= WinsNeeded <=> 2 * (n + 1) > BestOf
<1>1. BestOf \in Nat /\ BestOf \div 2 \in Nat
  BY RoomAssumption
<1>2. 2 * (BestOf \div 2) <= BestOf /\ BestOf < 2 * (BestOf \div 2) + 2
  BY <1>1
<1>3. QED
  BY <1>1, <1>2 DEF WinsNeeded

\* Ending a round that is being played is one of the two ends of a round.
LEMMA FinishRoundPromised ==
  ASSUME TypeOK, SeriesConsistent, status = "playing",
         NEW w \in Mark \cup {None}, NEW ck, FinishRound(w, ck)
  PROVE  SeriesConsistent' /\ (Promise!DrawRound \/ \E s \in Mark : Promise!WinRound(s))
<1>1. score \in [Mark -> Nat] /\ seriesWinner = None /\ \A m \in Mark : 2 * score[m] <= BestOf
  BY DEF TypeOK, SeriesConsistent
<1>2. CASE w = None
  <2>1. score' = score
    BY <1>1, <1>2, NoneIsNoMark DEF FinishRound
  <2>2. status' = "round-finished" /\ winner' = None /\ seriesWinner' = seriesWinner
    BY <1>2 DEF FinishRound
  <2>3. QED
    BY <1>1, <2>1, <2>2 DEF SeriesConsistent, Promise!DrawRound
<1>3. CASE w \in Mark
  <2>1. w # None /\ score[w] \in Nat
    BY <1>1, <1>3, NoneIsNoMark
  <2>2. score' = [score EXCEPT ![w] = @ + 1]
    BY <1>1, <1>3 DEF FinishRound
  <2>3. score[w] + 1 >= WinsNeeded <=> 2 * (score[w] + 1) > BestOf
    BY <2>1, Majority
  <2>4. winner' = w
    BY DEF FinishRound
  <2>5. CASE 2 * (score[w] + 1) > BestOf
    <3>1. status' = "finished" /\ seriesWinner' = w
      BY <2>1, <2>3, <2>5 DEF FinishRound
    <3>2. Opposite(w) \in Mark /\ Opposite(w) # w
      BY <1>3, OppositeType
    <3>3. SeriesConsistent'
      BY <1>1, <1>3, <2>1, <2>2, <2>4, <2>5, <3>1, <3>2 DEF SeriesConsistent
    <3>4. QED
      BY <1>3, <2>2, <2>4, <2>5, <3>1, <3>3 DEF Promise!WinRound, Promise!Decides
  <2>6. CASE ~ (2 * (score[w] + 1) > BestOf)
    <3>1. status' = "round-finished" /\ seriesWinner' = None
      BY <1>1, <2>3, <2>6 DEF FinishRound
    <3>2. \A m \in Mark : 2 * score'[m] <= BestOf
      BY <1>1, <1>3, <2>1, <2>2, <2>6, RoomAssumption
    <3>3. SeriesConsistent'
      BY <3>1, <3>2 DEF SeriesConsistent
    <3>4. QED
      BY <1>3, <2>2, <2>4, <2>6, <3>1, <3>3 DEF Promise!WinRound, Promise!Decides
  <2>7. QED
    BY <2>5, <2>6
<1>4. QED
  BY <1>2, <1>3

\* Every step of a grid game is a step of the series or leaves it alone.
LEMMA SeriesStep ==
  Kind = "grid" /\ RoomInv /\ SeriesConsistent /\ [Next]_vars
    => SeriesConsistent' /\ [Promise!SeriesNext]_(Promise!seriesState)
<1> SUFFICES ASSUME Kind = "grid", RoomInv, SeriesConsistent, [Next]_vars
             PROVE  SeriesConsistent' /\ [Promise!SeriesNext]_(Promise!seriesState)
  OBVIOUS
<1> USE DEF turnVars, seriesVars, timerVars
<1>0. TypeOK /\ offer = None
  BY DEF RoomInv, OffersInChess
<1>F. ASSUME status = "playing", NEW w \in Mark \cup {None}, NEW ck, FinishRound(w, ck)
      PROVE  SeriesConsistent' /\ [Promise!SeriesNext]_(Promise!seriesState)
  BY <1>0, <1>F, FinishRoundPromised DEF Promise!SeriesNext
<1>U. ASSUME UNCHANGED <<status, winner, seriesWinner, score>>
      PROVE  SeriesConsistent' /\ [Promise!SeriesNext]_(Promise!seriesState)
  BY <1>U DEF SeriesConsistent, Promise!seriesState
<1>1. ASSUME NEW m \in Mark, GridMove(m)
      PROVE  SeriesConsistent' /\ [Promise!SeriesNext]_(Promise!seriesState)
  <2>1. (IF Misere THEN Opposite(m) ELSE m) \in Mark \cup {None} /\ status = "playing"
    BY <1>1, OppositeType DEF GridMove
  <2>2. CASE PassTurn(clock)
    BY <1>U, <2>2 DEF PassTurn
  <2>3. CASE \E w \in Mark \cup {None} : FinishRound(w, clock)
    BY <1>F, <2>1, <2>3
  <2>4. QED
    BY <1>1, <2>1, <2>2, <2>3 DEF GridMove
<1>2. ASSUME NEW m \in Mark,
             ChessMove(m) \/ ChessMoveTooLate(m) \/ OfferDraw(m) \/ AcceptDraw(m) \/ DeclineDraw(m)
      PROVE  FALSE
  BY <1>0, <1>2 DEF ChessMove, ChessMoveTooLate, OfferDraw, AcceptDraw, DeclineDraw
<1>3. ASSUME NEW m \in Mark, Resign(m) \/ Forfeit(m)
      PROVE  SeriesConsistent' /\ [Promise!SeriesNext]_(Promise!seriesState)
  <2>1. Opposite(m) \in Mark /\ status = "playing" /\ FinishRound(Opposite(m), clock)
    BY <1>3, OppositeType DEF Resign, Forfeit
  <2>2. QED
    BY <1>F, <2>1
<1>4. ASSUME NEW m \in Mark, AskRematch(m)
      PROVE  SeriesConsistent' /\ [Promise!SeriesNext]_(Promise!seriesState)
  BY <1>4, <1>U DEF AskRematch
<1>5. ASSUME NEW m \in Mark, AgreeRematch(m)
      PROVE  SeriesConsistent' /\ [Promise!SeriesNext]_(Promise!seriesState)
  <2>1. status' = "playing" /\ winner' = None
    BY <1>5 DEF AgreeRematch, StartNextRound
  <2>2. CASE status = "finished"
    <3>1. score' = [k \in Mark |-> 0] /\ seriesWinner' = None
      BY <1>5, <2>2 DEF AgreeRematch
    <3>2. SeriesConsistent'
      BY <2>1, <3>1, RoomAssumption DEF SeriesConsistent
    <3>3. Promise!NewSeries
      BY <2>1, <2>2, <3>1 DEF Promise!NewSeries
    <3>4. QED
      BY <3>2, <3>3 DEF Promise!SeriesNext
  <2>3. CASE status = "round-finished"
    <3>1. score' = score /\ seriesWinner' = seriesWinner
      BY <1>5, <2>3 DEF AgreeRematch
    <3>2. SeriesConsistent'
      BY <2>1, <2>3, <3>1 DEF SeriesConsistent
    <3>3. Promise!NextRound
      BY <2>1, <2>3, <3>1 DEF Promise!NextRound
    <3>4. QED
      BY <3>2, <3>3 DEF Promise!SeriesNext
  <2>4. QED
    BY <1>5, <2>2, <2>3 DEF AgreeRematch
<1>6. CASE Archive
  <2>1. Promise!CloseTable
    BY <1>6 DEF Archive, Promise!CloseTable
  <2>2. SeriesConsistent'
    BY <1>6 DEF Archive, SeriesConsistent
  <2>3. QED
    BY <2>1, <2>2 DEF Promise!SeriesNext
<1>7. CASE Tick
  BY <1>7, <1>U DEF Tick
<1>8. ASSUME NEW c \in armed, FireTimer(c)
      PROVE  SeriesConsistent' /\ [Promise!SeriesNext]_(Promise!seriesState)
  BY <1>8, <1>U DEF FireTimer
<1>9. ASSUME NEW c \in fired, TimeOut(c)
      PROVE  SeriesConsistent' /\ [Promise!SeriesNext]_(Promise!seriesState)
  <2>1. Opposite(c.mark) \in Mark /\ status = "playing"
    BY <1>0, <1>9, OppositeType DEF TypeOK, Callback, TimeOut, Current
  <2>2. QED
    BY <1>9, <1>F, <2>1 DEF TimeOut
<1>10. ASSUME NEW c \in fired, StaleCallback(c)
       PROVE  SeriesConsistent' /\ [Promise!SeriesNext]_(Promise!seriesState)
  BY <1>10, <1>U DEF StaleCallback
<1>11. CASE UNCHANGED vars
  BY <1>11, <1>U DEF vars
<1>12. QED
  BY <1>1, <1>2, <1>3, <1>4, <1>5, <1>6, <1>7, <1>8, <1>9, <1>10, <1>11
     DEF Next, Request, Timers

\* The series of a grid game is decided by a majority of its rounds, once.
THEOREM SeriesDecided == Kind = "grid" => (Spec => []SeriesConsistent)
<1> SUFFICES ASSUME Kind = "grid" PROVE Spec => []SeriesConsistent
  OBVIOUS
<1>1. Init => SeriesConsistent
  BY RoomAssumption DEF Init, SeriesConsistent
<1>2. RoomInv /\ SeriesConsistent /\ [Next]_vars => SeriesConsistent'
  BY SeriesStep
<1>3. QED
  BY <1>1, <1>2, RoomInvariant, PTL DEF Spec

\* A table of a grid game implements the series that module Series promises.
THEOREM SeriesRefined == Kind = "grid" => (Spec => KeepsPromise)
<1> SUFFICES ASSUME Kind = "grid" PROVE Spec => KeepsPromise
  OBVIOUS
<1>1. Init => Promise!SeriesInit
  BY DEF Init, Promise!SeriesInit
<1>2. RoomInv /\ SeriesConsistent /\ [Next]_vars => [Promise!SeriesNext]_(Promise!seriesState)
  BY SeriesStep
<1>3. QED
  BY <1>1, <1>2, RoomInvariant, SeriesDecided, PTL DEF Spec, KeepsPromise, Promise!SeriesSpec

-----------------------------------------------------------------------------
(* Whose turn it is and what the clocks show, for every setting of the     *)
(* clocks and every length of the series.                                  *)

\* What the clocks must show while a round is played, and when they run: a
\* chess clock runs from the third move on, and nothing else does.
ClockInv ==
  status = "playing" =>
    /\ started <=> Clocked /\ moves >= 2
    /\ \A m \in Mark :
         fair[m] = IF started /\ m = turn THEN Less(clock[m], elapsed) ELSE clock[m]

\* The inductive invariant.
PlayInv == RoomInv /\ ClockInv /\ TurnAlternates

\* A step ends the round or is over, starts a round, passes the turn, lets time
\* pass, or leaves turn and clocks alone.
LEMMA StepKinds ==
  ASSUME TypeOK, [Next]_vars
  PROVE  \/ status' # "playing"
         \/ \E r \in Nat : StartNextRound(r)
         \/ \E m \in Mark : GridMove(m) /\ PassTurn(clock)
         \/ \E m \in Mark : ChessMove(m) /\ PassTurn(Incremented(m, Charged(m)))
         \/ Tick
         \/ UNCHANGED <<status, turn, moves, round, clock, fair, started, elapsed>>
<1> USE DEF turnVars, seriesVars, timerVars
<1> DEFINE Still == UNCHANGED <<status, turn, moves, round, clock, fair, started, elapsed>>
<1>F. ASSUME NEW w, NEW ck, FinishRound(w, ck) PROVE status' # "playing"
  BY <1>F DEF FinishRound
<1>1. ASSUME NEW m \in Mark, GridMove(m) PROVE status' # "playing" \/ PassTurn(clock)
  BY <1>1, <1>F DEF GridMove
<1>2. ASSUME NEW m \in Mark, ChessMove(m)
      PROVE  status' # "playing" \/ PassTurn(Incremented(m, Charged(m)))
  BY <1>2, <1>F DEF ChessMove
<1>3. ASSUME NEW m \in Mark, ChessMoveTooLate(m) \/ AcceptDraw(m) \/ Resign(m) \/ Forfeit(m)
      PROVE  status' # "playing"
  BY <1>3, <1>F DEF ChessMoveTooLate, AcceptDraw, Resign, Forfeit
<1>4. ASSUME NEW m \in Mark, OfferDraw(m) \/ DeclineDraw(m) \/ AskRematch(m)
      PROVE  Still
  BY <1>4 DEF OfferDraw, DeclineDraw, AskRematch
<1>5. ASSUME NEW m \in Mark, AgreeRematch(m) PROVE \E r \in Nat : StartNextRound(r)
  <2>1. StartNextRound(1) \/ StartNextRound(round + 1)
    BY <1>5 DEF AgreeRematch
  <2>2. 1 \in Nat /\ round + 1 \in Nat
    BY DEF TypeOK
  <2> QED BY <2>1, <2>2
<1>6. CASE Archive
  BY <1>6 DEF Archive
<1>7. ASSUME NEW c \in armed, FireTimer(c) PROVE Still
  BY <1>7 DEF FireTimer
<1>8. ASSUME NEW c \in fired, TimeOut(c) PROVE status' # "playing"
  BY <1>8, <1>F DEF TimeOut
<1>9. ASSUME NEW c \in fired, StaleCallback(c) PROVE Still
  BY <1>9 DEF StaleCallback
<1>10. CASE UNCHANGED vars
  BY <1>10 DEF vars
<1> HIDE DEF Still
<1>11. CASE \E m \in Mark : Request(m)
  <2>1. PICK m \in Mark : Request(m)
    BY <1>11
  <2>2. CASE GridMove(m)
    BY <1>1, <2>2
  <2>3. CASE ChessMove(m)
    BY <1>2, <2>3
  <2>4. CASE ChessMoveTooLate(m) \/ AcceptDraw(m) \/ Resign(m) \/ Forfeit(m)
    BY <1>3, <2>4
  <2>5. CASE OfferDraw(m) \/ DeclineDraw(m) \/ AskRematch(m)
    BY <1>4, <2>5 DEF Still
  <2>6. CASE AgreeRematch(m)
    BY <1>5, <2>6
  <2> QED BY <2>1, <2>2, <2>3, <2>4, <2>5, <2>6 DEF Request
<1>12. CASE Timers
  BY <1>7, <1>8, <1>9, <1>12 DEF Timers, Still
<1> QED BY <1>6, <1>10, <1>11, <1>12 DEF Next

\* Every turn but an untimed one starts its clock when it must run.
LEMMA ResetStarts ==
  ASSUME NEW m \in Mark, NEW n \in Nat, NEW ck \in [Mark -> Nat], ResetTimer(m, n, ck),
         Clocked => ck[m] > 0
  PROVE  /\ elapsed' = 0
         /\ started' <=> Clocked /\ n >= 2
<1>1. CASE Duration(m, n, ck) = 0
  <2>1. ~ Clocked
    BY <1>1, RoomAssumption DEF Duration, Opening
  <2>2. elapsed' = 0 /\ started' = FALSE
    BY <1>1 DEF ResetTimer, StopTimer
  <2> QED BY <2>1, <2>2
<1>2. CASE Duration(m, n, ck) # 0
  <2>1. elapsed' = 0 /\ started' = (Clocked /\ ~ Opening(n))
    BY <1>2 DEF ResetTimer
  <2>2. Clocked => (~ Opening(n) <=> n >= 2)
    BY DEF Opening
  <2> QED BY <2>1, <2>2
<1> QED BY <1>1, <1>2

\* Clocks are honest at the start of a turn whose clocks are the fair ones.
LEMMA HonestStart ==
  ASSUME clock' \in [Mark -> Nat], fair' = clock', elapsed' = 0, turn' \in Mark,
         started' <=> Clocked /\ moves' >= 2
  PROVE  ClockInv'
<1>1. \A r \in Nat : Less(r, 0) = r
  BY DEF Less
<1>2. ASSUME NEW m \in Mark
      PROVE  fair'[m] = IF started' /\ m = turn' THEN Less(clock'[m], elapsed') ELSE clock'[m]
  <2>1. clock'[m] \in Nat
    OBVIOUS
  <2> QED BY <1>1, <2>1
<1> QED BY <1>2 DEF ClockInv

LEMMA StartRoundClock ==
  ASSUME NEW r \in Nat, StartNextRound(r)
  PROVE  ClockInv' /\ TurnAlternates'
<1>1. /\ moves' = 0 /\ turn' = Opener(r) /\ round' = r /\ clock' = FullClock /\ fair' = FullClock
      /\ ResetTimer(Opener(r), 0, FullClock)
  BY DEF StartNextRound
<1>2. Opener(r) \in Mark /\ FullClock \in [Mark -> Nat]
  BY FullClockType DEF Opener, Mark
<1>3. Clocked => FullClock[Opener(r)] > 0
  BY <1>2, RoomAssumption DEF FullClock
<1>4. elapsed' = 0 /\ (started' <=> Clocked /\ 0 >= 2)
  BY <1>1, <1>2, <1>3, ResetStarts
<1>5. ClockInv'
  BY <1>1, <1>2, <1>4, HonestStart
<1>6. Opener(r) = IF Kind = "grid" /\ r % 2 = 0 THEN "two" ELSE "one"
  <2>1. r % 2 \in 0..1
    OBVIOUS
  <2>2. r % 2 = 0 \/ r % 2 = 1
    BY <2>1
  <2>3. Clocked <=> ~ (Kind = "grid")
    BY RoomAssumption DEF Clocked
  <2> QED BY <2>2, <2>3 DEF Opener
<1>7. TurnAlternates'
  BY <1>1, <1>6 DEF TurnAlternates
<1> QED BY <1>5, <1>7

\* The turn passes with the number of moves.
LEMMA PassAlternates ==
  ASSUME TypeOK, TurnAlternates, status = "playing", moves' = moves + 1,
         turn' = Opposite(turn), round' = round
  PROVE  TurnAlternates'
<1> DEFINE opener == IF Kind = "grid" /\ round % 2 = 0 THEN "two" ELSE "one"
<1>1. opener \in Mark
  BY DEF Mark
<1> HIDE DEF opener
<1>2. moves \in Nat
  BY RoomAssumption DEF TypeOK
<1>3. turn = IF moves % 2 = 0 THEN opener ELSE Opposite(opener)
  BY DEF TurnAlternates, opener
<1>4. moves % 2 = 0 <=> ~ ((moves + 1) % 2 = 0)
  BY <1>2
<1>5. turn' = IF moves' % 2 = 0 THEN opener ELSE Opposite(opener)
  <2>1. CASE moves % 2 = 0
    BY <1>3, <1>4, <2>1
  <2>2. CASE ~ (moves % 2 = 0)
    <3>1. turn' = Opposite(Opposite(opener))
      BY <1>3, <2>2
    <3> QED BY <1>1, <1>4, <2>2, <3>1, OppositeType
  <2> QED BY <2>1, <2>2
<1>6. opener = IF Kind = "grid" /\ round' % 2 = 0 THEN "two" ELSE "one"
  BY DEF opener
<1> QED BY <1>5, <1>6 DEF TurnAlternates

\* A move that passes the turn hands over honest clocks.
LEMMA PassClock ==
  ASSUME RoomInv, RoomInv', status = "playing", NEW ck \in [Mark -> Nat], PassTurn(ck),
         moves' = moves + 1, fair' = ck
  PROVE  ClockInv'
<1>1. /\ turn' = Opposite(turn) /\ clock' = ck /\ status' = status
      /\ ResetTimer(Opposite(turn), moves + 1, ck)
  BY DEF PassTurn, seriesVars
<1>2. Opposite(turn) \in Mark /\ moves + 1 \in Nat
  BY OppositeType, RoomAssumption DEF RoomInv, TypeOK
<1>3. Clocked => ck[Opposite(turn)] > 0
  BY <1>1, <1>2 DEF RoomInv, ClockPositive
<1>4. elapsed' = 0 /\ (started' <=> Clocked /\ moves + 1 >= 2)
  BY <1>1, <1>2, <1>3, ResetStarts
<1> QED BY <1>1, <1>2, <1>4, HonestStart

LEMMA TickClock ==
  ASSUME RoomInv, ClockInv, Tick
  PROVE  ClockInv'
<1>1. /\ status = "playing" /\ elapsed' = elapsed + 1
      /\ fair' = IF Clocked /\ moves >= 2 THEN [fair EXCEPT ![turn] = Less(@, 1)] ELSE fair
      /\ UNCHANGED <<status, turn, moves, clock, started>>
  BY DEF Tick, turnVars, seriesVars
<1>2. /\ elapsed \in Nat /\ clock \in [Mark -> Nat] /\ fair \in [Mark -> Nat] /\ turn \in Mark
  BY DEF RoomInv, TypeOK
<1>3. started <=> Clocked /\ moves >= 2
  BY <1>1 DEF ClockInv
<1>4. ASSUME NEW m \in Mark
      PROVE  fair'[m] = IF started /\ m = turn THEN Less(clock[m], elapsed') ELSE clock[m]
  <2>1. fair[m] = IF started /\ m = turn THEN Less(clock[m], elapsed) ELSE clock[m]
    BY <1>1 DEF ClockInv
  <2>2. clock[m] \in Nat
    BY <1>2
  <2>3. CASE started /\ m = turn
    <3>1. fair'[m] = Less(Less(clock[m], elapsed), 1)
      BY <1>1, <1>2, <1>3, <2>1, <2>3
    <3>2. Less(Less(clock[m], elapsed), 1) = Less(clock[m], elapsed + 1)
      BY <1>2, <2>2 DEF Less
    <3> QED BY <1>1, <2>3, <3>1, <3>2
  <2>4. CASE ~ (started /\ m = turn)
    BY <1>1, <1>2, <1>3, <2>1, <2>4
  <2> QED BY <2>3, <2>4
<1> QED BY <1>1, <1>3, <1>4 DEF ClockInv

LEMMA PlayStep == PlayInv /\ [Next]_vars => PlayInv'
<1> SUFFICES ASSUME PlayInv, [Next]_vars
             PROVE  ClockInv' /\ TurnAlternates'
  BY RoomStep DEF PlayInv
<1>1. TypeOK /\ RoomInv /\ RoomInv' /\ ClockInv /\ TurnAlternates
  BY RoomStep DEF PlayInv, RoomInv
<1>2. CASE status' # "playing"
  BY <1>2 DEF ClockInv, TurnAlternates
<1>3. CASE \E r \in Nat : StartNextRound(r)
  BY <1>3, StartRoundClock
<1>4. ASSUME NEW m \in Mark, GridMove(m), PassTurn(clock)
      PROVE  ClockInv' /\ TurnAlternates'
  <2>1. /\ status = "playing" /\ moves' = moves + 1 /\ fair' = fair /\ ~ Clocked
    BY <1>4 DEF GridMove, Clocked
  <2>2. turn' = Opposite(turn) /\ round' = round
    BY <1>4 DEF PassTurn, seriesVars
  <2>3. clock \in [Mark -> Nat] /\ fair \in [Mark -> Nat]
    BY <1>1 DEF TypeOK
  <2>4. \A k \in Mark : fair[k] = clock[k]
    BY <1>1, <2>1 DEF ClockInv
  <2>5. fair = clock
    BY <2>3, <2>4
  <2> QED BY <1>1, <1>4, <2>1, <2>2, <2>3, <2>5, PassClock, PassAlternates
<1>5. ASSUME NEW m \in Mark, ChessMove(m), PassTurn(Incremented(m, Charged(m)))
      PROVE  ClockInv' /\ TurnAlternates'
  <2>1. /\ status = "playing" /\ moves' = moves + 1 /\ m = turn
        /\ fair' = Incremented(m, fair)
    BY <1>5 DEF ChessMove
  <2>2. turn' = Opposite(turn) /\ round' = round
    BY <1>5 DEF PassTurn, seriesVars
  <2>3. clock \in [Mark -> Nat] /\ fair \in [Mark -> Nat]
    BY <1>1 DEF TypeOK
  <2>4. Charged(m) \in [Mark -> Nat]
    BY <1>1, <2>3, ClockType
  <2>5. Incremented(m, Charged(m)) \in [Mark -> Nat]
    BY <1>1, <2>4, ClockType
  <2>6. ASSUME NEW k \in Mark
        PROVE  fair[k] = Charged(m)[k]
    <3>1. fair[k] = IF started /\ k = turn THEN Less(clock[k], elapsed) ELSE clock[k]
      BY <1>1, <2>1 DEF ClockInv
    <3>2. Charged(m)[k] = IF started /\ k = m THEN Less(clock[k], elapsed) ELSE clock[k]
      BY <2>3 DEF Charged
    <3> QED BY <2>1, <3>1, <3>2
  <2>7. fair = Charged(m)
    BY <2>3, <2>4, <2>6
  <2>8. fair' = Incremented(m, Charged(m))
    BY <2>1, <2>7
  <2>9. ClockInv'
    BY <1>1, <1>5, <2>1, <2>5, <2>8, PassClock
  <2> QED BY <1>1, <2>1, <2>2, <2>9, PassAlternates
<1>6. CASE Tick
  <2>1. TurnAlternates'
    BY <1>1, <1>6 DEF Tick, turnVars, seriesVars, TurnAlternates
  <2> QED BY <1>1, <1>6, <2>1, TickClock
<1>7. CASE UNCHANGED <<status, turn, moves, round, clock, fair, started, elapsed>>
  BY <1>1, <1>7 DEF ClockInv, TurnAlternates
<1> QED BY <1>1, <1>2, <1>3, <1>4, <1>5, <1>6, <1>7, StepKinds

LEMMA PlayInit == Init => PlayInv
<1> SUFFICES ASSUME Init PROVE ClockInv /\ TurnAlternates
  BY RoomInit DEF PlayInv
<1>1. moves = 0 /\ turn = "one" /\ round = 1 /\ clock = FullClock /\ fair = FullClock
      /\ elapsed = 0 /\ started = FALSE
  BY DEF Init
<1>2. ClockInv
  BY <1>1 DEF ClockInv
<1>3. TurnAlternates
  BY <1>1 DEF TurnAlternates
<1> QED BY <1>2, <1>3

\* Whose turn it is follows from the round and the number of moves, whatever
\* timers, offers and late callbacks do in between.
THEOREM TurnsAlternate == Spec => []TurnAlternates
<1>1. PlayInv => TurnAlternates
  BY DEF PlayInv
<1> QED BY <1>1, PlayInit, PlayStep, PTL DEF Spec

\* While a round is played the clocks show the time each player really has left.
THEOREM ClocksAreHonest == Spec => []ClockHonest
<1>1. PlayInv => ClockHonest
  BY DEF PlayInv, ClockInv, ClockHonest
<1> QED BY <1>1, PlayInit, PlayStep, PTL DEF Spec

=============================================================================
