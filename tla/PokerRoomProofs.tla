--------------------------- MODULE PokerRoomProofs ---------------------------
(***************************************************************************)
(* The poker room makes only moves of the betting engine, times every turn *)
(* and takes a hand only for a fold, for leaving or for an absence, for    *)
(* all stacks, blinds and bounds.                                          *)
(***************************************************************************)
EXTENDS PokerRoom, PokerTableProofs

\* The types of what the room adds to the table.
TimingType == hand \in Nat /\ timer \in Timers /\ fired \in SUBSET Timers /\ ready \in SUBSET Seats

-----------------------------------------------------------------------------
(* The players' connections. *)

PlayerType == [generation : Nat, connected : BOOLEAN, left : BOOLEAN]
SocketType == [object : Objects, join : Nat, read : Nat, at : Stages]
GraceType  == [object : Objects, join : Nat, generation : Nat, back : BOOLEAN]

\* A socket holds no later generation than that of its object.
Known(s) == s.read <= player[s.object].generation

\* A player who has come back since the socket was gone has a later generation.
Past(d) ==
  /\ d.generation <= player[d.object].generation
  /\ d.back => d.generation < player[d.object].generation

Generations == (\A s \in sockets : Known(s)) /\ (\A d \in grace : Past(d))

SeatingInv == SeatingTypeOK /\ Generations

SeatingStep ==
  \/ Connecting
  \/ \E s \in sockets : StandUp(s)
  \/ \E i \in Places \cap Movers : MoveAway(i)
  \/ \E d \in grace : GraceOver(d)

LEMMA SeatingInitSound == SeatingInit => SeatingInv
<1> SUFFICES ASSUME SeatingInit
             PROVE  SeatingInv
  OBVIOUS
<1>1. player \in [Objects -> PlayerType] /\ \A o \in Objects : player[o].generation = 1
  BY DEF SeatingInit, Joined, PlayerType
<1>2. ASSUME NEW o \in Movers
      PROVE  /\ Serving(o, 1) \in SocketType /\ Serving(o, 1).read <= 1 /\ Serving(o, 1).object = o
             /\ Waiting(o) \in SocketType /\ Waiting(o).read <= 1 /\ Waiting(o).object = o
  BY <1>2 DEF Serving, Waiting, SocketType, Objects, Stages
<1>3. \A s \in sockets : \E o \in Movers : s = Serving(o, 1) \/ s = Waiting(o)
  BY DEF SeatingInit
<1>4. \A s \in sockets : s \in SocketType /\ Known(s)
  BY <1>1, <1>2, <1>3 DEF Known, Objects
<1> QED
  BY <1>1, <1>4 DEF SeatingInit, SeatingInv, SeatingTypeOK, Generations, PlayerType, SocketType

LEMMA SeatingUnchanged == SeatingInv /\ UNCHANGED seating => SeatingInv'
BY DEF SeatingInv, SeatingTypeOK, Generations, Known, Past, seating, Objects, Places, Stages

\* Steps that change no generation.
LEMMA GenerationsKept ==
  ASSUME SeatingInv,
         player' \in [Objects -> PlayerType],
         \A o \in Objects : player'[o].generation = player[o].generation,
         entries' \subseteq entries,
         \A s \in sockets' : s \in SocketType /\ Known(s),
         \A d \in grace' : d \in GraceType /\ Past(d)
  PROVE  SeatingInv'
<1>1. Objects' = Objects
  BY DEF Objects, Places
<1>2. ASSUME NEW s \in sockets'
      PROVE  Known(s)'
  <2>1. s.object \in Objects
    BY DEF SocketType
  <2> QED BY <2>1 DEF Known
<1>3. ASSUME NEW d \in grace'
      PROVE  Past(d)'
  <2>1. d.object \in Objects
    BY DEF GraceType
  <2> QED BY <2>1 DEF Past
<1>4. SeatingTypeOK'
  BY <1>1 DEF SeatingInv, SeatingTypeOK, PlayerType, SocketType, GraceType, Stages, Places
<1> QED BY <1>2, <1>3, <1>4 DEF SeatingInv, Generations

LEMMA SeatingKept ==
  ASSUME SeatingInv, SeatingStep
  PROVE  SeatingInv'
<1>0. /\ player \in [Objects -> PlayerType] /\ entries \subseteq Places
      /\ \A s \in sockets : s \in SocketType /\ Known(s)
      /\ \A d \in grace : d \in GraceType /\ Past(d)
  BY DEF SeatingInv, SeatingTypeOK, Generations, PlayerType, SocketType, GraceType
<1>1. ASSUME NEW o \in Objects
      PROVE  /\ player[o] \in PlayerType
             /\ LeftBy(o) \in [Objects -> PlayerType]
             /\ \A p \in Objects : LeftBy(o)[p].generation = player[p].generation
  <2>1. player[o] \in PlayerType
    BY <1>0
  <2>2. LeftBy(o) = [player EXCEPT ![o] = [player[o] EXCEPT !.connected = FALSE, !.left = TRUE]]
    BY <1>0 DEF LeftBy
  <2> QED BY <1>0, <2>1, <2>2 DEF PlayerType
<1>2. ASSUME NEW o \in Objects
      PROVE  /\ [player EXCEPT ![o].connected = FALSE] \in [Objects -> PlayerType]
             /\ \A p \in Objects :
                  [player EXCEPT ![o].connected = FALSE][p].generation = player[p].generation
  BY <1>0, <1>1 DEF PlayerType
<1>3. ASSUME NEW s \in sockets, NEW stage \in Stages
      PROVE  /\ s.object \in Objects /\ s.read \in Nat /\ s.join \in Nat
             /\ [s EXCEPT !.at = stage] \in SocketType /\ Known([s EXCEPT !.at = stage])
  BY <1>0 DEF SocketType, Known
<1>4. ASSUME NEW s \in sockets
      PROVE  \A t \in Returned(s) : t \in SocketType /\ Known(t)
  <2>1. \A t \in Returned(s) : t \in sockets \/ t = [s EXCEPT !.at = "closing"]
    BY DEF Returned, Going
  <2> QED BY <1>0, <1>3, <2>1 DEF Stages
<1>5. ASSUME NEW s \in sockets, StandUp(s)
      PROVE  SeatingInv'
  <2>1. \A t \in sockets' : t \in sockets \/ t = [s EXCEPT !.at = "leaving"]
    BY <1>5 DEF StandUp, Going
  <2>2. \A t \in sockets' : t \in SocketType /\ Known(t)
    BY <1>0, <1>3, <2>1 DEF Stages
  <2>3. player' = LeftBy(s.object) /\ s.object \in Objects /\ UNCHANGED <<entries, grace>>
    BY <1>3, <1>5 DEF StandUp, Stages
  <2> QED BY <1>0, <1>1, <2>2, <2>3, GenerationsKept
<1>6. ASSUME NEW i \in Places \cap Movers, MoveAway(i)
      PROVE  SeatingInv'
  <2>1. player' = LeftBy(i) /\ i \in Objects /\ entries' \subseteq entries /\ UNCHANGED <<sockets, grace>>
    BY <1>6 DEF MoveAway, Objects
  <2> QED BY <1>0, <1>1, <2>1, GenerationsKept
<1>7. ASSUME NEW d \in grace, GraceOver(d)
      PROVE  SeatingInv'
  BY <1>0, <1>7, GenerationsKept DEF GraceOver
<1>8. ASSUME NEW i \in Places \cap Movers, Rejoin(i)
      PROVE  SeatingInv'
  <2> DEFINE n == player[i].generation + 1
             Met(d) == [d EXCEPT !.back = d.back \/ d.object = i]
  <2>0. i \in Objects /\ player[i].generation \in Nat /\ n \in Nat
    BY <1>0, <1>8 DEF Objects, PlayerType
  <2>1. /\ player' = [player EXCEPT ![i] = Joined(n)] /\ entries' = entries
        /\ sockets' = sockets \cup {Serving(i, n)}
        /\ grace' = {Met(d) : d \in grace}
    BY <1>8 DEF Rejoin
  <2>2. Joined(n) \in PlayerType /\ Joined(n).generation = n
    BY <2>0 DEF Joined, PlayerType
  <2>3. /\ player' \in [Objects -> PlayerType] /\ player'[i].generation = n
        /\ \A o \in Objects : o # i => player'[o].generation = player[o].generation
    BY <1>0, <2>0, <2>1, <2>2
  <2>4. ASSUME NEW s \in sockets'
        PROVE  s \in SocketType /\ Known(s)'
    <3>1. CASE s = Serving(i, n)
      BY <2>0, <2>3, <3>1 DEF Serving, SocketType, Known, Stages
    <3>2. CASE s \in sockets
      <4>1. s \in SocketType /\ Known(s) /\ s.object \in Objects /\ s.read \in Nat
        BY <1>0, <3>2 DEF SocketType
      <4>2. s.object = i => s.read <= player[i].generation
        BY <4>1 DEF Known
      <4> QED BY <2>0, <2>3, <4>1, <4>2 DEF Known
    <3> QED BY <2>1, <3>1, <3>2
  <2>5. ASSUME NEW e \in grace'
        PROVE  e \in GraceType /\ Past(e)'
    <3>1. PICK d \in grace : e = Met(d)
      BY <2>1
    <3>2. d \in GraceType /\ Past(d) /\ d.object \in Objects /\ d.generation \in Nat
      BY <1>0 DEF GraceType
    <3>3. /\ e \in GraceType /\ e.object = d.object /\ e.generation = d.generation
          /\ e.back = (d.back \/ d.object = i)
      BY <3>1, <3>2 DEF GraceType
    <3>4. CASE d.object = i
      BY <2>0, <2>3, <3>2, <3>3, <3>4 DEF Past
    <3>5. CASE d.object # i
      BY <2>3, <3>2, <3>3, <3>5 DEF Past
    <3> QED BY <3>3, <3>4, <3>5
  <2> HIDE DEF n, Met
  <2>6. SeatingTypeOK'
    BY <1>0, <2>1, <2>3, <2>4, <2>5
       DEF SeatingTypeOK, Objects, Places, PlayerType, SocketType, GraceType, Stages
  <2> QED BY <2>4, <2>5, <2>6 DEF SeatingInv, Generations
<1>9. ASSUME NEW s \in sockets, ReadGeneration(s)
      PROVE  SeatingInv'
  <2>1. PICK r : r = player[s.object].generation
    OBVIOUS
  <2>2. r \in Nat /\ s \in SocketType
    BY <1>0, <2>1 DEF SocketType, PlayerType
  <2>3. \A t \in sockets' : t \in sockets \/ t = [s EXCEPT !.at = "serving", !.read = r]
    BY <1>9, <2>1 DEF ReadGeneration, Going
  <2>4. PICK t : t = [s EXCEPT !.at = "serving", !.read = r]
    OBVIOUS
  <2>5. t \in SocketType /\ t.read = r /\ t.object = s.object
    BY <2>2, <2>4 DEF SocketType, Stages
  <2>6. Known(t)
    BY <2>1, <2>2, <2>5 DEF Known
  <2>7. \A u \in sockets' : u \in SocketType /\ Known(u)
    BY <1>0, <2>3, <2>4, <2>5, <2>6
  <2>8. UNCHANGED <<player, entries, grace>>
    BY <1>9 DEF ReadGeneration
  <2> QED BY <1>0, <2>7, <2>8, GenerationsKept
<1>10. ASSUME NEW s \in sockets, Unmap(s)
       PROVE  SeatingInv'
  <2>1. sockets' = Returned(s) /\ entries' \subseteq entries /\ UNCHANGED <<player, grace>>
    BY <1>10 DEF Unmap
  <2> QED BY <1>0, <1>4, <2>1, GenerationsKept
<1>11. ASSUME NEW s \in sockets, Close(s)
       PROVE  SeatingInv'
  <2>1. sockets' = Returned(s) /\ UNCHANGED <<player, entries, grace>>
    BY <1>11 DEF Close
  <2> QED BY <1>0, <1>4, <2>1, GenerationsKept
<1>12. ASSUME NEW s \in sockets, CloseUnmatched(s)
       PROVE  SeatingInv'
  <2>1. /\ player' = [player EXCEPT ![s.object].connected = FALSE] /\ s.object \in Objects
        /\ \A t \in sockets' : t \in sockets
        /\ UNCHANGED <<entries, grace>>
    BY <1>3, <1>12 DEF CloseUnmatched, Stages
  <2> QED BY <1>0, <1>2, <2>1, GenerationsKept
<1>13. ASSUME NEW s \in sockets, Drop(s)
       PROVE  SeatingInv'
  <2>1. PICK d : d = [object |-> s.object, join |-> s.join, generation |-> s.read,
                      back |-> player[s.object].generation # s.read]
    OBVIOUS
  <2>2. /\ player' = [player EXCEPT ![s.object].connected = FALSE] /\ s.object \in Objects
        /\ \A t \in sockets' : t \in sockets
        /\ \A e \in grace' : e \in grace \/ e = d
        /\ UNCHANGED entries
    BY <1>3, <1>13, <2>1 DEF Drop, Stages
  <2>3. d \in GraceType /\ Past(d)
    <3>1. /\ s.read <= player[s.object].generation
          /\ s.read \in Nat /\ s.join \in Nat /\ player[s.object].generation \in Nat
      BY <1>0, <2>2 DEF Known, SocketType, PlayerType
    <3>2. d \in GraceType
      BY <2>1, <2>2, <3>1 DEF GraceType
    <3>3. d.object = s.object /\ d.generation = s.read
          /\ (d.back <=> player[s.object].generation # s.read)
      BY <2>1
    <3> QED BY <3>1, <3>2, <3>3 DEF Past
  <2> QED BY <1>0, <1>2, <2>2, <2>3, GenerationsKept
<1> QED
  BY <1>5, <1>6, <1>7, <1>8, <1>9, <1>10, <1>11, <1>12, <1>13 DEF SeatingStep, Connecting

\* The grace period costs nothing to a player who has come back.
LEMMA NobodyBack ==
  ASSUME SeatingInv, NEW d \in grace, Absent(d)
  PROVE  ~ d.back /\ d.object \in Objects /\ SeatOf(d.object) \in Places
<1>1. d \in GraceType /\ Past(d) /\ player[d.object].generation = d.generation
  BY DEF SeatingInv, SeatingTypeOK, Generations, GraceType, Absent
<1> QED BY <1>1 DEF GraceType, Past, SeatOf, Places

\* Who leaves is marked as gone.
LEMMA StandUpLeaves ==
  ASSUME SeatingInv, NEW s \in sockets, StandUp(s)
  PROVE  s.object \in Objects /\ player'[s.object].left /\ sockets' # sockets
<1>1. /\ player \in [Objects -> PlayerType]
      /\ s \in SocketType
  BY DEF SeatingInv, SeatingTypeOK, PlayerType, SocketType
<1>2. s.object \in Objects /\ s.at = "serving"
  BY <1>1 DEF SocketType, StandUp
<1>3. player'[s.object].left
  BY <1>1, <1>2 DEF StandUp, LeftBy, PlayerType
<1>4. s # [s EXCEPT !.at = "leaving"]
  BY <1>1, <1>2 DEF SocketType
<1>5. s \notin sockets'
  BY <1>4 DEF StandUp, Going
<1> QED BY <1>2, <1>3, <1>5

LEMMA MoveAwayLeaves ==
  ASSUME SeatingInv, NEW i \in Places, MoveAway(i)
  PROVE  i \in Objects /\ SeatOf(i) = i /\ player'[i].left /\ entries' # entries
<1>1. player \in [Objects -> PlayerType] /\ i \in Objects
  BY DEF SeatingInv, SeatingTypeOK, PlayerType, Objects
<1>2. player'[i].left /\ i \in entries /\ entries' = entries \ {i}
  BY <1>1 DEF MoveAway, LeftBy, PlayerType
<1> QED BY <1>1, <1>2 DEF SeatOf

-----------------------------------------------------------------------------

\* The inductive invariant.
RoomInv ==
  /\ TableInv
  /\ TimingType /\ SeatingInv
  /\ ReadyIsFresh /\ TurnIsTimed

-----------------------------------------------------------------------------
(* The table. *)

LEMMA PhaseOfTable ==
  ASSUME TableInv
  PROVE  /\ table \in TableType
         /\ table.turn \in Seats
         /\ table.phase \in TimedPhases \cup HandOver
         /\ Playing <=> table.phase \in TimedPhases
<1>1. table \in TableType
  BY DEF TableInv, Sound, Over, Live
<1> QED BY <1>1, TableFields
     DEF Playing, TimedPhases, HandOver, Phases, BettingPhases

\* Only an engine in a hand can be moved on.
LEMMA MovesInHand ==
  ASSUME NEW i \in Seats, NEW w \in Showdowns, Bet(i, w) \/ Discard(i, w)
  PROVE  Playing
<1>1. CASE Bet(i, w)
  <2>1. CanAct(table, i)
    BY <1>1 DEF Bet, Fold, Check, Call, AllIn, RaiseTo
  <2> QED BY <2>1 DEF CanAct, Playing, BettingPhases, HandOver
<1>2. CASE Discard(i, w)
  BY <1>2 DEF Discard, Playing, HandOver
<1> QED BY <1>1, <1>2

\* The move that the callback makes is one of the engine's.
LEMMA TimeoutIsMove ==
  ASSUME NEW w \in Showdowns, TimeoutMove(w)
  PROVE  Bet(table.turn, w) \/ Discard(table.turn, w)
BY DEF TimeoutMove, Bet

\* The table steps that a room makes under room.mu.
TableStep(w) ==
  \/ NextHand(w)
  \/ \E i \in Seats : Bet(i, w) \/ Discard(i, w) \/ Leave(i)

LEMMA TableStepNext ==
  ASSUME NEW w \in Showdowns, TableStep(w)
  PROVE  Next
BY DEF TableStep, Next

\* What a step of the room does to the table and to the action timer.
LEMMA StepOfTable ==
  ASSUME RoomInv, RoomNext
  PROVE  \/ /\ \E w \in Showdowns : TableStep(w)
            /\ \E callbacks \in SUBSET Timers : ResetActionTimer(callbacks)
            /\ hand' \in Nat
         \/ /\ UNCHANGED <<table, hand>>
            /\ \/ UNCHANGED <<timer, fired>>
               \/ Fire
               \/ UNCHANGED timer /\ \E c \in fired : fired' = fired \ {c} /\ ~ Accepted(c)
<1> USE DEF RoomInv
<1>0. /\ table.turn \in Seats /\ hand \in Nat /\ fired \in SUBSET Timers
      /\ \A o : SeatOf(o) \in Seats
  BY PhaseOfTable DEF TimingType, SeatOf, Places, Seats
<1>1. CASE Fire
  BY <1>1 DEF Fire
<1>2. ASSUME NEW c \in fired, NEW w \in Showdowns, Timeout(c, w)
      PROVE  \/ TableStep(w) /\ ResetActionTimer(fired \ {c}) /\ hand' \in Nat
             \/ UNCHANGED <<table, hand, timer>> /\ fired' = fired \ {c} /\ ~ Accepted(c)
  <2>1. CASE Accepted(c)
    <3>1. TimeoutMove(w) /\ ResetActionTimer(fired \ {c}) /\ hand' = hand
      BY <1>2, <2>1 DEF Timeout
    <3>2. TableStep(w)
      BY <1>0, <3>1, TimeoutIsMove DEF TableStep
    <3> QED BY <1>0, <3>1, <3>2
  <2>2. CASE ~ Accepted(c)
    BY <1>2, <2>2 DEF Timeout
  <2> QED BY <2>1, <2>2
<1>3. ASSUME NEW i \in Seats, NEW w \in Showdowns, Move(i, w)
      PROVE  TableStep(w) /\ ResetActionTimer(fired) /\ hand' \in Nat
  BY <1>0, <1>3 DEF Move, TableStep
<1>4. ASSUME NEW i \in Seats, NEW w \in Showdowns, StartNextHand(i, w)
      PROVE  TableStep(w) /\ ResetActionTimer(fired) /\ hand' \in Nat
  <2>1. NextHand(w) /\ ResetActionTimer(fired) /\ hand' = hand + 1
    BY <1>4 DEF StartNextHand
  <2> QED BY <1>0, <2>1 DEF TableStep
<1>5. ASSUME NEW i \in Seats, AskNextHand(i)
      PROVE  UNCHANGED <<table, hand, timer, fired>>
  BY <1>5 DEF AskNextHand, timing
<1>6. ASSUME NEW i \in Seats, GiveUp(i), hand' = hand
      PROVE  \/ /\ \E w \in Showdowns : TableStep(w)
                /\ ResetActionTimer(fired) /\ hand' \in Nat
             \/ UNCHANGED <<table, hand, timer, fired>>
  <2>1. {0} \in Showdowns
    BY DEF Showdowns
  <2> QED BY <1>0, <1>6, <2>1 DEF GiveUp, TableStep
<1>7. ASSUME \/ \E s \in sockets : LeaveTable(s)
             \/ \E i \in Seats \cap Movers : MoveOn(i)
             \/ \E d \in grace : Expire(d)
      PROVE  \/ \E i \in Seats : GiveUp(i) /\ hand' = hand
             \/ UNCHANGED <<table, hand, timer, fired>>
  BY <1>0, <1>7 DEF LeaveTable, MoveOn, Expire
<1>8. CASE Connection
  BY <1>8 DEF Connection, timing
<1> QED
  BY <1>0, <1>1, <1>2, <1>3, <1>4, <1>5, <1>6, <1>7, <1>8 DEF RoomNext

-----------------------------------------------------------------------------
(* The action timer. *)

LEMMA TimerTypes ==
  ASSUME NEW n \in Nat, NEW t \in TableType
  PROVE  /\ TimerFor(n, t) \in Timers
         /\ t.phase \in TimedPhases => TimerFor(n, t) = Captured(n, t)
         /\ t.phase \notin TimedPhases => TimerFor(n, t) = NoTimer
BY TableFields DEF TimerFor, Captured, Timers

LEMMA OutdatedTypes ==
  ASSUME NEW callbacks \in SUBSET Timers
  PROVE  /\ Outdated(callbacks) \in SUBSET Timers
         /\ \A c \in Outdated(callbacks) : c.current = FALSE
<1>1. ASSUME NEW c \in Timers
      PROVE  [c EXCEPT !.current = FALSE] \in Timers /\ [c EXCEPT !.current = FALSE].current = FALSE
  <2>1. CASE c = NoTimer
    <3>1. NoTimer \in [current : {FALSE}, hand : {0}, phase : {"none"}, turn : {0}]
      BY DEF NoTimer
    <3>2. [c EXCEPT !.current = FALSE] = NoTimer /\ NoTimer.current = FALSE
      BY <2>1, <3>1
    <3> QED BY <3>2 DEF Timers
  <2>2. CASE c # NoTimer
    BY <2>2 DEF Timers
  <2> QED BY <2>1, <2>2
<1> QED BY <1>1 DEF Outdated

\* After a reset nothing that waits for the lock is accepted.
LEMMA ResetOutdates ==
  ASSUME NEW callbacks \in SUBSET Timers, ResetActionTimer(callbacks)
  PROVE  fired' \in SUBSET Timers /\ \A c \in fired' : ~ Accepted(c)'
<1>1. fired' = Outdated(callbacks)
  BY DEF ResetActionTimer
<1>2. Captured(hand', table').current = TRUE
  BY DEF Captured
<1>3. \A c \in fired' : c # Captured(hand', table')
  BY <1>1, <1>2, OutdatedTypes
<1>4. \A c : Accepted(c)' <=> c = Captured(hand', table')
  BY DEF Accepted, Captured
<1> QED BY <1>1, <1>3, <1>4, OutdatedTypes

\* A reset times the turn that comes, and nothing when the hand is over.
LEMMA ResetTimes ==
  ASSUME NEW callbacks \in SUBSET Timers, ResetActionTimer(callbacks), TableInv', hand' \in Nat
  PROVE  timer' \in Timers /\ fired' \in SUBSET Timers /\ TurnIsTimed'
<1>1. /\ table' \in TableType
      /\ table'.phase \in TimedPhases \cup HandOver
      /\ Playing' <=> table'.phase \in TimedPhases
  <2>1. table' \in TableType
    BY DEF TableInv, Sound, Over, Live
  <2> QED BY <2>1, TableFields DEF Playing, TimedPhases, HandOver, Phases, BettingPhases
<1>2. timer' = TimerFor(hand', table')
  BY DEF ResetActionTimer
<1>3. timer' \in Timers /\ (Playing' => timer' = Captured(hand', table')) /\ (~ Playing' => timer' = NoTimer)
  BY <1>1, <1>2, TimerTypes
<1>4. fired' \in SUBSET Timers /\ \A c \in fired' : ~ Accepted(c)'
  BY ResetOutdates
<1> QED BY <1>3, <1>4 DEF TurnIsTimed, Accepted

LEMMA TimingKept ==
  ASSUME RoomInv, RoomNext
  PROVE  TableInv' /\ hand' \in Nat /\ timer' \in Timers /\ fired' \in SUBSET Timers /\ TurnIsTimed'
<1>0. TableInv /\ TimingType /\ TurnIsTimed
  BY DEF RoomInv
<1>1. CASE /\ \E w \in Showdowns : TableStep(w)
           /\ \E callbacks \in SUBSET Timers : ResetActionTimer(callbacks)
           /\ hand' \in Nat
  <2>1. TableInv'
    BY <1>0, <1>1, TableStepNext, StepSound
  <2> QED BY <1>1, <2>1, ResetTimes
<1>2. CASE /\ UNCHANGED <<table, hand>>
           /\ \/ UNCHANGED <<timer, fired>>
              \/ Fire
              \/ UNCHANGED timer /\ \E c \in fired : fired' = fired \ {c} /\ ~ Accepted(c)
  <2>1. TableInv'
    BY <1>0, <1>2, StepSound
  <2>2. CASE UNCHANGED <<timer, fired>>
    BY <1>0, <1>2, <2>1, <2>2 DEF TimingType, TurnIsTimed, Playing, Accepted, Captured
  <2>3. CASE Fire
    <3>1. timer # NoTimer /\ fired' = fired \cup {timer} /\ timer' = NoTimer
      BY <2>3 DEF Fire
    <3>2. Playing
      BY <1>0, <3>1 DEF TurnIsTimed
    <3>3. \E c \in fired' : Accepted(c)
      BY <1>0, <3>1, <3>2 DEF TurnIsTimed
    <3>4. (Playing <=> Playing') /\ \A c \in fired' : Accepted(c) <=> Accepted(c)'
      BY <1>2 DEF Playing, Accepted, Captured
    <3>5. TurnIsTimed'
      BY <3>2, <3>3, <3>4 DEF TurnIsTimed
    <3> QED BY <1>0, <1>2, <2>1, <3>1, <3>5 DEF TimingType, Timers
  <2>4. ASSUME UNCHANGED timer, NEW c \in fired, fired' = fired \ {c}, ~ Accepted(c)
        PROVE  fired' \in SUBSET Timers /\ TurnIsTimed'
    BY <1>0, <1>2, <2>4 DEF TimingType, TurnIsTimed, Playing, Accepted, Captured
  <2> QED BY <1>0, <1>2, <2>1, <2>2, <2>3, <2>4 DEF TimingType
<1> QED BY <1>1, <1>2, StepOfTable

-----------------------------------------------------------------------------
(* Readiness. *)

LEMMA ReadyKeeps ==
  ASSUME RoomInv, RoomNext
  PROVE  ready' \in SUBSET Seats /\ ReadyIsFresh'
<1>0. /\ ready \in SUBSET Seats /\ ReadyIsFresh
      /\ table.turn \in Seats /\ \A o : SeatOf(o) \in Seats
  BY PhaseOfTable DEF RoomInv, TimingType, SeatOf, Places, Seats
<1>1. CASE UNCHANGED ready /\ (Playing' => Playing)
  BY <1>0, <1>1 DEF ReadyIsFresh
<1>2. ASSUME NEW c \in fired, NEW w \in Showdowns, Timeout(c, w)
      PROVE  UNCHANGED ready /\ (Playing' => Playing)
  <2>1. CASE Accepted(c)
    BY <1>0, <1>2, <2>1, TimeoutIsMove, MovesInHand DEF Timeout
  <2>2. CASE ~ Accepted(c)
    BY <1>2, <2>2 DEF Timeout, Playing
  <2> QED BY <2>1, <2>2
<1>3. ASSUME NEW i \in Seats, NEW w \in Showdowns, Move(i, w)
      PROVE  UNCHANGED ready /\ (Playing' => Playing)
  BY <1>3, MovesInHand DEF Move
<1>4. ASSUME NEW i \in Seats, NEW w \in Showdowns, StartNextHand(i, w)
      PROVE  ready' = {}
  BY <1>4 DEF StartNextHand, ReadyAfter
<1>5. ASSUME NEW i \in Seats, AskNextHand(i)
      PROVE  ready' \in SUBSET Seats /\ ~ Playing'
  BY <1>0, <1>5 DEF AskNextHand, ReadyAfter, Playing
<1>6. ASSUME NEW i \in Seats, GiveUp(i)
      PROVE  Playing' => Playing
  BY <1>6 DEF GiveUp, Playing
<1>7. ASSUME \/ \E s \in sockets : LeaveTable(s)
             \/ \E i \in Seats \cap Movers : MoveOn(i)
             \/ \E d \in grace : Expire(d)
      PROVE  UNCHANGED ready /\ (Playing' => Playing)
  BY <1>0, <1>6, <1>7 DEF LeaveTable, MoveOn, Expire, Playing
<1>8. CASE Connection
  BY <1>1, <1>8 DEF Connection, Playing
<1>9. CASE Fire
  BY <1>1, <1>9 DEF Fire, Playing
<1>10. ready' = {} => ready' \in SUBSET Seats /\ ReadyIsFresh'
  BY DEF ReadyIsFresh
<1>11. ready' \in SUBSET Seats /\ ~ Playing' => ready' \in SUBSET Seats /\ ReadyIsFresh'
  BY DEF ReadyIsFresh
<1> QED
  BY <1>1, <1>2, <1>3, <1>4, <1>5, <1>7, <1>8, <1>9, <1>10, <1>11 DEF RoomNext

\* The room adds nothing to what its connections do.
LEMMA RoomKeepsSeating ==
  ASSUME SeatingInv, RoomNext
  PROVE  SeatingInv'
<1>1. UNCHANGED seating \/ SeatingStep
  <2>1. \A i \in Seats \cap Movers : i \in Places \cap Movers
    BY DEF Seats, Places
  <2> QED
    BY <2>1 DEF RoomNext, SeatingStep, Fire, Timeout, Move, StartNextHand, AskNextHand,
                LeaveTable, MoveOn, Expire, Connection
<1>2. CASE UNCHANGED seating
  BY <1>2, SeatingUnchanged
<1> QED BY <1>1, <1>2, SeatingKept

-----------------------------------------------------------------------------
(* The invariant. *)

LEMMA RoomInitSound == RoomInit => RoomInv
<1> SUFFICES ASSUME RoomInit
             PROVE  RoomInv
  OBVIOUS
<1>1. TableInv
  BY InitSound DEF RoomInit
<1>2. table \in TableType /\ (Playing <=> table.phase \in TimedPhases)
  BY <1>1, PhaseOfTable
<1>3. timer \in Timers /\ (Playing => timer = Captured(hand, table)) /\ (~ Playing => timer = NoTimer)
  BY <1>2, TimerTypes DEF RoomInit
<1>4. TimingType /\ ReadyIsFresh /\ TurnIsTimed
  BY <1>3 DEF RoomInit, TimingType, ReadyIsFresh, TurnIsTimed, Accepted
<1>5. SeatingInv
  BY SeatingInitSound DEF RoomInit
<1> QED BY <1>1, <1>4, <1>5 DEF RoomInv

LEMMA RoomStepSound == RoomInv /\ [RoomNext]_roomVars => RoomInv'
<1>1. ASSUME RoomInv, RoomNext
      PROVE  RoomInv'
  BY <1>1, TimingKept, ReadyKeeps, RoomKeepsSeating DEF RoomInv, TimingType
<1>2. ASSUME RoomInv, UNCHANGED roomVars
      PROVE  RoomInv'
  <2>1. UNCHANGED <<table, ready, hand, timer, fired, seating>>
    BY <1>2 DEF roomVars, timing
  <2>2. TableInv'
    BY <1>2, <2>1, StepSound DEF RoomInv
  <2>3. TimingType' /\ SeatingInv'
    BY <1>2, <2>1, SeatingUnchanged DEF RoomInv, TimingType
  <2>4. ReadyIsFresh' /\ TurnIsTimed'
    BY <1>2, <2>1 DEF RoomInv, ReadyIsFresh, TurnIsTimed, Playing, Accepted, Captured
  <2> QED BY <2>2, <2>3, <2>4 DEF RoomInv
<1> QED BY <1>1, <1>2

\* The inductive invariant of the room: the table is sound, every turn is timed
\* by something that will be accepted, nobody is ready while a hand is played, and
\* whoever joins again has a later generation than all who were gone before.
THEOREM RoomInvariant == RoomSpec => []RoomInv
BY RoomInitSound, RoomStepSound, PTL DEF RoomSpec

\* The variables of the room have their types, however many hands are played.
THEOREM RoomTypeCorrect == RoomSpec => []RoomTypeOK
<1>1. RoomInv => RoomTypeOK
  BY PhaseOfTable
     DEF RoomInv, TimingType, SeatingInv, RoomTypeOK, TypeOK
<1> QED BY <1>1, RoomInvariant, PTL

\* Every turn has its timer, or a callback on its way that will be accepted.
THEOREM EveryTurnIsTimed == RoomSpec => []TurnIsTimed
<1>1. RoomInv => TurnIsTimed
  BY DEF RoomInv
<1> QED BY <1>1, RoomInvariant, PTL

\* Nobody is ready for the next hand while one is played.
THEOREM NobodyIsReady == RoomSpec => []ReadyIsFresh
<1>1. RoomInv => ReadyIsFresh
  BY DEF RoomInv
<1> QED BY <1>1, RoomInvariant, PTL

\* What changes the table makes every callback that waits for the lock too late.
THEOREM CallbacksComeInTime == RoomSpec => NoLateTimeout
<1>1. RoomInv /\ [RoomNext]_roomVars => [table' # table => \A c \in fired' : ~ Accepted(c)']_roomVars
  <2> SUFFICES ASSUME RoomInv, RoomNext, table' # table
               PROVE  \A c \in fired' : ~ Accepted(c)'
    OBVIOUS
  <2>1. PICK callbacks \in SUBSET Timers : ResetActionTimer(callbacks)
    BY StepOfTable
  <2> QED BY <2>1, ResetOutdates
<1> QED BY <1>1, RoomInvariant, PTL DEF RoomSpec, NoLateTimeout

\* The room makes only moves of the betting engine, so what is proved of the
\* engine holds of every table in a room.
THEOREM RoomRefinesTable == RoomSpec => RefinesTable
<1>1. RoomInit => Init
  BY DEF RoomInit
<1>2. RoomInv /\ [RoomNext]_roomVars => [Next]_table
  <2>1. ASSUME RoomInv, RoomNext
        PROVE  [Next]_table
    BY <2>1, StepOfTable, TableStepNext
  <2>2. ASSUME UNCHANGED roomVars
        PROVE  [Next]_table
    BY <2>2 DEF roomVars
  <2> QED BY <2>1, <2>2
<1> QED BY <1>1, <1>2, RoomInvariant, PTL DEF RoomSpec, RefinesTable

\* With timeouts, disconnects, readiness and leaving around it the table still
\* moves chips only as Stakes allows.
THEOREM RoomKeepsPromise == RoomSpec => KeepsPromise
<1>1. [UNCHANGED table \/ Next]_table => [Next]_table
  OBVIOUS
<1> QED BY <1>1, RoomRefinesTable, TableKeepsPromise, PTL DEF RefinesTable, Spec

-----------------------------------------------------------------------------
(* Forfeits. *)

LEMMA FoldFields ==
  ASSUME NEW t \in TableType, NEW winner \in Seats
  PROVE  /\ FinishByFold(t, winner).folded = t.folded
         /\ FinishByFold(t, winner).winners = {winner}
<1> DEFINE c == CollectBets(t)
<1>1. c \in TableType /\ c.folded = t.folded
  <2>1. c.folded = t.folded
    BY DEF CollectBets, TableType
  <2> QED BY <2>1, CollectKeeps
<1>2. FinishByFold(t, winner) =
        [c EXCEPT !.awarded = c.pot, !.stack = [c.stack EXCEPT ![winner] = @ + c.pot],
                  !.winners = {winner}, !.phase = "hand-finished", !.pot = 0]
  BY <1>1 DEF FinishByFold, TableType
<1> HIDE DEF c
<1> QED BY <1>1, <1>2 DEF TableType

LEMMA ActedType ==
  ASSUME NEW t \in TableType, NEW i \in Seats
  PROVE  Acted(t, i) \in TableType /\ Acted(t, i).phase = t.phase
<1>1. [t.acted EXCEPT ![i] = TRUE] \in [Seats -> BOOLEAN]
  BY DEF TableType
<1> QED BY <1>1 DEF Acted, TableType

LEMMA ShowdownPhase ==
  ASSUME NEW t \in TableType, NEW w
  PROVE  Showdown(t, w).phase = "showdown"
BY CollectKeeps DEF Showdown, TableType

\* Betting and drawing never end a hand without a showdown.
LEMMA AfterActionPhase ==
  ASSUME NEW t \in TableType, t.phase \in BettingPhases, NEW i \in Seats, NEW w \in Showdowns
  PROVE  AfterAction(t, i, w).phase # "hand-finished"
<1>1. CollectBets(t) \in TableType
  BY CollectKeeps
<1>2. Showdown(t, w).phase = "showdown" /\ Showdown(CollectBets(t), w).phase = "showdown"
      /\ Showdown([CollectBets(t) EXCEPT !.board = 5], w).phase = "showdown"
  BY <1>1, BoardType, ShowdownPhase
<1>3. RunOut(t, w).phase = "showdown"
  BY <1>2 DEF RunOut
<1>4. ASSUME NEW phase \in {"flop", "turn", "river", "draw"}, NEW board
      PROVE  Street(t, phase, board).phase = phase
  BY <1>1 DEF Street, TableType
<1>5. AdvancePhase(t, w).phase # "hand-finished"
  <2>1. \/ AdvancePhase(t, w) = Street(t, "flop", 3)
        \/ AdvancePhase(t, w) = Street(t, "turn", 4)
        \/ AdvancePhase(t, w) = Street(t, "river", 5)
        \/ AdvancePhase(t, w) = Street(t, "draw", 0)
        \/ AdvancePhase(t, w) = Showdown(CollectBets(t), w)
    BY DEF AdvancePhase, Street, BettingPhases
  <2> QED BY <1>2, <1>4, <2>1
<1>6. ASSUME NEW turn
      PROVE  [t EXCEPT !.turn = turn].phase # "hand-finished"
  BY DEF TableType, BettingPhases
<1>7. \/ AfterAction(t, i, w) = RunOut(t, w)
      \/ AfterAction(t, i, w) = AdvancePhase(t, w)
      \/ \E turn : AfterAction(t, i, w) = [t EXCEPT !.turn = turn]
  BY DEF AfterAction
<1> QED BY <1>3, <1>5, <1>6, <1>7

\* A move that ends a hand without a showdown is a fold of the player who moves.
LEMMA MoveForfeits ==
  ASSUME TableInv, NEW i \in Seats, NEW w \in Showdowns, Bet(i, w) \/ Discard(i, w),
         table'.phase = "hand-finished"
  PROVE  table'.folded[i] /\ table'.winners = {Other(i)}
<1>0. table \in TableType /\ Other(i) \in Seats
  BY PhaseOfTable DEF Other, Seats
<1>1. CASE Fold(i)
  <2> DEFINE a == Acted(table, i)
             folded == [a.folded EXCEPT ![i] = TRUE]
             f == [a EXCEPT !.folded = folded]
  <2>1. a \in TableType
    BY <1>0, ActedType
  <2>2. table' = FinishByFold(f, Other(i))
    BY <1>1, <2>1 DEF Fold, TableType
  <2> HIDE DEF a
  <2>3. folded \in [Seats -> BOOLEAN] /\ folded[i] = TRUE
    BY <2>1 DEF TableType
  <2> HIDE DEF folded
  <2>4. f \in TableType /\ f.folded = folded
    BY <2>1, <2>3 DEF TableType
  <2> HIDE DEF f
  <2> QED BY <1>0, <2>2, <2>3, <2>4, FoldFields
<1>2. ASSUME NEW t \in TableType, t.phase \in BettingPhases, table' = AfterAction(t, i, w)
      PROVE  FALSE
  BY <1>2, AfterActionPhase
<1>3. ASSUME NEW amount \in Nat, table.phase \in BettingPhases,
             table' = AfterAction(Acted(Pay(table, i, amount), i), i, w)
      PROVE  FALSE
  <2>1. Pay(table, i, amount) \in TableType /\ Pay(table, i, amount).phase = table.phase
    BY <1>0, PayKeeps
  <2>2. Acted(Pay(table, i, amount), i) \in TableType
        /\ Acted(Pay(table, i, amount), i).phase = table.phase
    BY <2>1, ActedType
  <2> QED BY <1>2, <1>3, <2>2
<1>4. ASSUME NEW target \in Nat, NEW allIn \in BOOLEAN, Betting(table),
             RaiseAllowed(table, i, target, allIn), table' = AfterAction(Raised(table, i, target), i, w)
      PROVE  FALSE
  <2>1. Betting(Raised(table, i, target))
    BY <1>4, RaisedBetting
  <2> QED BY <1>2, <1>4, <2>1 DEF Betting, Live
<1>5. CASE Check(i, w)
  <2>1. table.phase \in BettingPhases /\ table' = AfterAction(Acted(table, i), i, w)
    BY <1>5 DEF Check, CanAct
  <2> QED BY <1>0, <1>2, <2>1, ActedType
<1>6. CASE Call(i, w)
  <2>1. table.phase \in BettingPhases
        /\ table' = AfterAction(Acted(Pay(table, i, ToCall(table, i)), i), i, w)
    BY <1>6 DEF Call, CanAct
  <2>2. ToCall(table, i) \in Nat
    BY <1>0 DEF ToCall, TableType
  <2> QED BY <1>3, <2>1, <2>2
<1>7. CASE AllIn(i, w)
  <2>1. /\ Betting(table) /\ table.phase \in BettingPhases
        /\ table.stack[i] \in Nat /\ table.roundBet[i] + table.stack[i] \in Nat
    BY <1>0, <1>7, InBetting DEF AllIn, CanAct, TableType
  <2>2. \/ table' = AfterAction(Acted(Pay(table, i, table.stack[i]), i), i, w)
        \/ /\ RaiseAllowed(table, i, table.roundBet[i] + table.stack[i], TRUE)
           /\ table' = AfterAction(Raised(table, i, table.roundBet[i] + table.stack[i]), i, w)
    BY <1>7 DEF AllIn
  <2> QED BY <1>3, <1>4, <2>1, <2>2
<1>8. ASSUME NEW target \in 1..(2 * StartingStack), RaiseTo(i, target, w)
      PROVE  FALSE
  <2>1. target \in Nat /\ Betting(table)
    BY <1>8, InBetting, TableAssumption DEF RaiseTo
  <2> QED BY <1>4, <1>8, <2>1 DEF RaiseTo
<1>9. CASE Discard(i, w)
  <2> DEFINE discarded == [table.discarded EXCEPT ![i] = TRUE]
             d == [table EXCEPT !.discarded = discarded]
  <2>1. /\ table.phase = "draw"
        /\ \/ table' = [d EXCEPT !.turn = Other(i)]
           \/ table' = Showdown(d, w)
           \/ table' = [d EXCEPT !.phase = "final-bet", !.turn = Other(table.dealer)]
    BY <1>0, <1>9 DEF Discard, TableType
  <2>2. discarded \in [Seats -> BOOLEAN]
    BY <1>0 DEF TableType
  <2> HIDE DEF discarded
  <2>3. d \in TableType /\ d.phase = "draw"
    BY <1>0, <2>1, <2>2 DEF TableType
  <2> HIDE DEF d
  <2>4. Showdown(d, w).phase = "showdown"
    BY <2>3, ShowdownPhase
  <2> QED BY <2>1, <2>3, <2>4 DEF TableType
<1> QED BY <1>1, <1>5, <1>6, <1>7, <1>8, <1>9 DEF Bet

\* A hand is lost without a showdown by folding, by leaving, or by an absence from
\* which nobody came back: whoever joins again stops the timers of all earlier ones.
THEOREM ForfeitsHaveCauses == RoomSpec => ForfeitHasCause
<1> DEFINE Caused ==
      \A i \in Seats :
        Playing /\ table'.phase = "hand-finished" /\ table'.winners = {Other(i)} =>
          table'.folded[i] \/ Forfeits(i)
<1>1. ASSUME RoomInv, RoomNext
      PROVE  Caused
  <2> SUFFICES ASSUME NEW i \in Seats, Playing, table'.phase = "hand-finished",
                      table'.winners = {Other(i)}
               PROVE  table'.folded[i] \/ Forfeits(i)
    OBVIOUS
  <2>0. /\ table \in TableType /\ TableInv /\ SeatingInv
        /\ table.turn \in Seats /\ table.phase # "hand-finished"
    BY <1>1, PhaseOfTable DEF RoomInv, Playing, HandOver
  <2>1. ASSUME NEW j \in Seats, NEW w \in Showdowns, Bet(j, w) \/ Discard(j, w)
        PROVE  table'.folded[i]
    <3>1. table'.folded[j] /\ table'.winners = {Other(j)}
      BY <2>0, <2>1, MoveForfeits
    <3>2. i = j
      BY <3>1 DEF Other, Seats
    <3> QED BY <3>1, <3>2
  <2>2. ASSUME NEW j \in Seats, GiveUp(j)
        PROVE  i = j
    <3>1. table' = FinishByFold(table, Other(j)) /\ Other(j) \in Seats
      BY <2>2 DEF GiveUp, Leave, Other, Seats
    <3>2. table'.winners = {Other(j)}
      BY <2>0, <3>1, FoldFields
    <3> QED BY <3>2 DEF Other, Seats
  <2>3. table' # table
    BY <2>0
  <2>4. ASSUME NEW c \in fired, NEW w \in Showdowns, Timeout(c, w)
        PROVE  table'.folded[i]
    <3>1. TimeoutMove(w)
      BY <2>3, <2>4 DEF Timeout
    <3> QED BY <2>0, <2>1, <3>1, TimeoutIsMove
  <2>5. ASSUME NEW j \in Seats, NEW w \in Showdowns, Move(j, w)
        PROVE  table'.folded[i]
    BY <2>1, <2>5 DEF Move
  <2>6. ASSUME NEW j \in Seats, NEW w \in Showdowns, StartNextHand(j, w)
        PROVE  FALSE
    BY <2>6 DEF StartNextHand, NextHand, Playing
  <2>7. \A o : SeatOf(o) \in Seats
    BY DEF SeatOf, Places, Seats
  <2>8. ASSUME NEW s \in sockets, LeaveTable(s)
        PROVE  Forfeits(i)
    <3>1. StandUp(s) /\ GiveUp(SeatOf(s.object))
      BY <2>8 DEF LeaveTable
    <3>2. i = SeatOf(s.object)
      BY <2>2, <2>7, <3>1
    <3>3. s.object \in Objects /\ player'[s.object].left /\ sockets' # sockets
      BY <2>0, <3>1, StandUpLeaves
    <3> QED BY <3>2, <3>3 DEF Forfeits
  <2>9. ASSUME NEW j \in Seats \cap Movers, MoveOn(j)
        PROVE  Forfeits(i)
    <3>1. MoveAway(j) /\ GiveUp(j) /\ j \in Places
      BY <2>9 DEF MoveOn, Seats, Places
    <3>2. i = j
      BY <2>2, <3>1 DEF Seats, Places
    <3>3. j \in Objects /\ SeatOf(j) = j /\ player'[j].left /\ entries' # entries
      BY <2>0, <3>1, MoveAwayLeaves
    <3> QED BY <3>2, <3>3 DEF Forfeits
  <2>10. ASSUME NEW d \in grace, Expire(d)
         PROVE  Forfeits(i)
    <3>1. Absent(d) /\ GiveUp(SeatOf(d.object)) /\ GraceOver(d)
      BY <2>3, <2>10 DEF Expire
    <3>2. i = SeatOf(d.object) /\ ~ d.back
      BY <2>0, <2>2, <2>7, <3>1, NobodyBack
    <3>3. d \in grace \ grace'
      BY <3>1 DEF GraceOver
    <3> QED BY <3>2, <3>3 DEF Forfeits
  <2>11. ASSUME Fire \/ (\E j \in Seats : AskNextHand(j)) \/ Connection
         PROVE  FALSE
    BY <2>3, <2>11 DEF Fire, AskNextHand, Connection
  <2> QED BY <1>1, <2>4, <2>5, <2>6, <2>8, <2>9, <2>10, <2>11 DEF RoomNext
<1>2. RoomInv /\ [RoomNext]_roomVars => [Caused]_roomVars
  BY <1>1
<1> QED BY <1>2, RoomInvariant, PTL DEF RoomSpec, ForfeitHasCause

=============================================================================
