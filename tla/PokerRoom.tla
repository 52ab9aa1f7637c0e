------------------------------ MODULE PokerRoom ------------------------------
(***************************************************************************)
(* A poker room (server/core/poker/room.go) around the betting engine of   *)
(* module PokerTable: the action timer, the handshake that starts the next *)
(* hand, and what becomes of the hand when the players' connections, of    *)
(* module Seating, leave or drop (leaveLocked and Disconnect of hub.go).   *)
(*                                                                         *)
(* Every action is a section under room.mu, or what happens before it: the *)
(* runtime starts a timer's callback (Fire), which takes the lock later    *)
(* (Timeout).  The room looks a message's player up by the ID, so messages *)
(* are handled whatever became of the latest socket.                       *)
(*                                                                         *)
(* timerVersion only grows and is only compared with the value a callback  *)
(* has captured: each callback carries the answer instead of the number.   *)
(***************************************************************************)
EXTENDS PokerTable, Seating

CONSTANTS
  MaxHands,        \* bound: hands started
  MaxFired         \* bound: callbacks waiting for room.mu

ASSUME RoomAssumption ==
  /\ Movers \subseteq Nat /\ MaxJoins \in Nat /\ MaxLeft \in Nat
  /\ MaxHands \in Nat \ {0} /\ MaxFired \in Nat \ {0}

VARIABLES
  hand,      \* table.Hand
  timer,     \* actionTimer: what its callback has captured
  fired,     \* callbacks that run and do not have room.mu yet
  ready      \* room.ready

timing   == <<hand, timer, fired>>
roomVars == <<table, ready, timing, seating>>

NoTimer == [current |-> FALSE, hand |-> 0, phase |-> "none", turn |-> 0]

Playing == table.phase \notin HandOver

-----------------------------------------------------------------------------
(* The action timer. *)

\* What a callback that is created now captures; current: timerVersion is still
\* the version it was created with.
Captured(n, t) == [current |-> TRUE, hand |-> n, phase |-> t.phase, turn |-> t.turn]

\* timerVersion++, for the callbacks of older timers.
Outdated(callbacks) == {[c EXCEPT !.current = FALSE] : c \in callbacks}

TimedPhases == BettingPhases \cup {"draw"}

TimerForAnyPhase(n, t) == Captured(n, t)   \* mutant of TimerFor

\* Mutant of TimerFor: the callback captures the version before it is raised.
TimerForEarly(n, t) ==
  IF t.phase \in TimedPhases THEN [Captured(n, t) EXCEPT !.current = FALSE] ELSE NoTimer

TimerFor(n, t) == IF t.phase \in TimedPhases THEN Captured(n, t) ELSE NoTimer

\* resetActionTimerLocked, after the table of this step: a timer that has fired
\* cannot be stopped, but the version tells its callback that it is too late.
ResetActionTimer(callbacks) ==
  timer' = TimerFor(hand', table') /\ fired' = Outdated(callbacks)

\* The runtime starts the callback.
Fire ==
  /\ timer # NoTimer
  /\ Cardinality(fired) < MaxFired
  /\ fired' = fired \cup {timer}
  /\ timer' = NoTimer
  /\ UNCHANGED <<table, ready, hand, seating>>

\* Mutant of Accepted: the version is not compared.
AcceptedAnyVersion(c) ==
  c.hand = hand /\ c.phase = table.phase /\ c.turn = table.turn

\* The callback finds the turn it was set for.
Accepted(c) == c = Captured(hand, table)

TimeoutChecks(w) ==   \* mutant of TimeoutMove: nobody is folded
  IF table.phase = "draw" THEN Discard(table.turn, w)
  ELSE table' = AfterAction(Acted(table, table.turn), table.turn, w)

\* The move made for the player: stand pat, check, or fold.
TimeoutMove(w) ==
  LET i == table.turn
  IN  CASE table.phase = "draw"                           -> Discard(i, w)
        [] table.phase # "draw" /\ ToCall(table, i) = 0 -> Check(i, w)
        [] table.phase # "draw" /\ ToCall(table, i) # 0 -> Fold(i)

\* The callback has the lock.  HandEnds shows that the move it makes is never
\* refused: it would stay here for ever.
Timeout(c, w) ==
  /\ c \in fired
  /\ UNCHANGED <<ready, hand, seating>>
  /\ IF Accepted(c)
     THEN TimeoutMove(w) /\ ResetActionTimer(fired \ {c})
     ELSE fired' = fired \ {c} /\ UNCHANGED <<table, timer>>

-----------------------------------------------------------------------------
(* Room.Handle. *)

\* "action" and "discard", when the engine accepts them.
Move(i, w) ==
  /\ Bet(i, w) \/ Discard(i, w)
  /\ UNCHANGED <<ready, hand, seating>>
  /\ ResetActionTimer(fired)

ReadyKept(i) == ready \cup {i}   \* mutant of ReadyAfter

\* Both have asked for the next hand: the handshake starts over.
ReadyAfter(i) == IF ready \cup {i} = Seats THEN {} ELSE ready \cup {i}

\* "next-hand", of the first player and of the second.
AskNextHand(i) ==
  /\ ~ Playing
  /\ ready \cup {i} # Seats
  /\ ready' = ReadyAfter(i)
  /\ UNCHANGED <<table, timing, seating>>

StartNextHand(i, w) ==
  /\ ready \cup {i} = Seats
  /\ hand < MaxHands
  /\ NextHand(w)
  /\ hand' = hand + 1
  /\ ready' = ReadyAfter(i)
  /\ ResetActionTimer(fired)
  /\ UNCHANGED seating

-----------------------------------------------------------------------------
(* Players who leave or stay away. *)

\* Mutant of GiveUp: the timer of the turn goes on.
GiveUpTimed(i) ==
  IF Playing THEN Leave(i) /\ UNCHANGED <<timer, fired>> ELSE UNCHANGED <<table, timer, fired>>

\* The hand is given up in the name of seat i, if one is played.
GiveUp(i) ==
  IF Playing THEN Leave(i) /\ ResetActionTimer(fired) ELSE UNCHANGED <<table, timer, fired>>

\* Hub.Leave, called by the loop of socket s.
LeaveTable(s) ==
  /\ StandUp(s)
  /\ GiveUp(SeatOf(s.object))
  /\ UNCHANGED <<ready, hand>>

\* Hub.Join for another table.
MoveOn(i) ==
  /\ MoveAway(i)
  /\ GiveUp(i)
  /\ UNCHANGED <<ready, hand>>

\* The callback of the grace timer d.
Expire(d) ==
  /\ GraceOver(d)
  /\ IF Absent(d) THEN GiveUp(SeatOf(d.object)) ELSE UNCHANGED <<table, timer, fired>>
  /\ UNCHANGED <<ready, hand>>

Connection == Connecting /\ UNCHANGED <<table, ready, timing>>

-----------------------------------------------------------------------------

\* newRoom.  The first hand may be over at once.
RoomInit ==
  /\ Init
  /\ hand = 1 /\ fired = {} /\ ready = {}
  /\ timer = TimerFor(hand, table)
  /\ SeatingInit

RoomNext ==
  \/ Fire
  \/ \E c \in fired, w \in Showdowns : Timeout(c, w)
  \/ \E i \in Seats, w \in Showdowns : Move(i, w) \/ StartNextHand(i, w)
  \/ \E i \in Seats : AskNextHand(i)
  \/ \E s \in sockets : LeaveTable(s)
  \/ \E i \in Seats \cap Movers : MoveOn(i)
  \/ \E d \in grace : Expire(d)
  \/ Connection

RoomSpec == RoomInit /\ [][RoomNext]_roomVars

\* The runtime fires timers and mutexes are fair to those who wait.
FairTimers ==
  /\ WF_roomVars(Fire)
  /\ WF_roomVars(\E c \in fired, w \in Showdowns : Timeout(c, w))

FairRoomSpec == RoomSpec /\ FairTimers

-----------------------------------------------------------------------------
(* Properties. *)

Timers == {NoTimer} \cup
  [current : BOOLEAN, hand : Nat, phase : TimedPhases, turn : Seats]

RoomTypeOK ==
  /\ TypeOK
  /\ hand \in Nat /\ timer \in Timers /\ fired \subseteq Timers
  /\ ready \subseteq Seats
  /\ SeatingTypeOK

\* Every turn is timed: its timer runs, or the callback is on its way and will be
\* accepted.  Once a hand is over nothing is.
TurnIsTimed ==
  IF Playing THEN Accepted(timer) \/ \E c \in fired : Accepted(c)
          ELSE timer = NoTimer /\ \A c \in fired : ~ Accepted(c)

\* Nobody is ready for the next hand while one is played: otherwise the other
\* player alone could start one.
ReadyIsFresh == Playing => ready = {}

\* A hand that ends without a showdown is lost by folding, by leaving, or by an
\* absence that has lasted for the whole grace period: coming back always stops
\* the timers of earlier absences, although nothing cancels them.
ForfeitHasCause ==
  [][\A i \in Seats :
       Playing /\ table'.phase = "hand-finished" /\ table'.winners = {Other(i)} =>
         table'.folded[i] \/ Forfeits(i)]_roomVars

\* A callback acts in the turn it was set for or not at all: whatever changes the
\* table makes every callback that waits for the lock too late.
NoLateTimeout ==
  [][table' # table => \A c \in fired' : ~ Accepted(c)']_roomVars

\* Whatever the room does to the table is a step of the betting engine: Spec of
\* PokerTable, with the steps that leave the table alone named first.
RefinesTable == Init /\ [][UNCHANGED table \/ Next]_table

\* Every hand ends, also when both players stop acting.
HandEnds == Playing ~> ~ Playing

=============================================================================
