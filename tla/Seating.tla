------------------------------- MODULE Seating -------------------------------
(***************************************************************************)
(* The connections of the two players of a table of poker or mahjong while *)
(* the hub has the room: Join, Leave and Disconnect of poker/hub.go, as    *)
(* Serve of poker/socket.go calls them.  mahjong/hub.go and socket.go are  *)
(* the same code but for names.  What leaving or a grace period costs is   *)
(* for the room to say (LeaveTable, MoveOn and Expire of PokerRoom and of  *)
(* MahjongRoom).                                                           *)
(*                                                                         *)
(* A player ID can have several Player objects: one in room.players, and   *)
(* others that wait or waited in a queue when the room was opened.  Their  *)
(* sockets find the room all the same, because it is looked up by the ID,  *)
(* and their Seat is 0, the seat of those who wait, whoever sits there.    *)
(***************************************************************************)
EXTENDS Integers, FiniteSets

CONSTANTS
  Movers,          \* bound: the objects whose sockets leave, drop and come back
  MaxJoins,        \* bound: joins that lead to one object
  MaxLeft          \* bound: objects whose player leaves on purpose

VARIABLES
  player,    \* the Player objects
  entries,   \* the players whom the hub's playerRooms leads to this room
  sockets,   \* the calls of Serve that have not returned
  grace      \* the timers of Disconnect

seating == <<player, entries, sockets, grace>>

Places == {0, 1}

\* Objects 0 and 1 are those of room.players; any other one, of the player in
\* seat o % 2, was left in a queue.
Objects   == Places \cup Movers
SeatOf(o) == IF o \in Places THEN o ELSE 0
Owner(o)  == o % 2

\* newPlayer and replaceSender.
Joined(n) == [generation |-> n, connected |-> TRUE, left |-> FALSE]

\* A call of Serve after its Join, the n-th that led to object o.
Serving(o, n) == [object |-> o, join |-> n, read |-> 0, at |-> "joining"]

\* That of a waiting player's object that the room does not know.  No other join
\* leads to this object, so it does not matter when its generation is read.
Waiting(o) == [object |-> o, join |-> 1, read |-> 1, at |-> "serving"]

\* Socket s goes on as t.
Going(s, t) == (sockets \ {s}) \cup {t}

-----------------------------------------------------------------------------
(* Coming. *)

\* Join for the same table finds the object of room.players.  back is not in the
\* code: a grace timer's player has joined again since the socket was gone.
Rejoin(i) ==
  /\ i \in entries
  /\ player[i].generation < MaxJoins
  /\ player' = [player EXCEPT ![i] = Joined(@.generation + 1)]
  /\ sockets' = sockets \cup {Serving(i, player[i].generation + 1)}
  /\ grace' = {[d EXCEPT !.back = @ \/ d.object = i] : d \in grace}
  /\ UNCHANGED entries

\* Serve reads the generation when Join has given up the lock: perhaps that of a
\* later join.
ReadGeneration(s) ==
  /\ s.at = "joining"
  /\ sockets' = Going(s, [s EXCEPT !.at = "serving", !.read = player[s.object].generation])
  /\ UNCHANGED <<player, entries, grace>>

-----------------------------------------------------------------------------
(* Going. *)

\* leaveLocked.
LeftBy(o) == [player EXCEPT ![o].connected = FALSE, ![o].left = TRUE]

MayLeave == Cardinality({o \in Objects : player[o].left}) < MaxLeft

\* Join for another table, with the sockets of this one still there.
MoveAway(i) ==
  /\ i \in entries /\ MayLeave
  /\ player' = LeftBy(i)
  /\ entries' = entries \ {i}
  /\ UNCHANGED <<sockets, grace>>

\* "leave": under room.mu, then the entry under hub.mu.
StandUp(s) ==
  /\ s.at = "serving" /\ MayLeave
  /\ player' = LeftBy(s.object)
  /\ sockets' = Going(s, [s EXCEPT !.at = "leaving"])
  /\ UNCHANGED <<entries, grace>>

\* Serve returns and calls Disconnect, whose first test takes no lock.
Returned(s) ==
  IF player[s.object].generation = s.read
  THEN Going(s, [s EXCEPT !.at = "closing"])
  ELSE sockets \ {s}

Close(s) ==
  /\ s.at = "serving"
  /\ sockets' = Returned(s)
  /\ UNCHANGED <<player, entries, grace>>

\* Without the entry no join leads to the object any more: the test that follows
\* finds what it would find later.
Unmap(s) ==
  /\ s.at = "leaving"
  /\ entries' = entries \ {Owner(s.object)}
  /\ sockets' = Returned(s)
  /\ UNCHANGED <<player, grace>>

\* Its Join gave the player no room, so the loop may not know of this one.
Waited(s) == s.join = 1 /\ SeatOf(s.object) = 0

\* Serve returns and has not found a room: it looked before there was this one,
\* or when the entry was gone.
CloseUnmatched(s) ==
  /\ s.at = "serving" /\ Waited(s)
  /\ player' = [player EXCEPT ![s.object].connected = FALSE]
  /\ sockets' = sockets \ {s}
  /\ UNCHANGED <<entries, grace>>

\* Disconnect goes on under room.mu, with the socket's own object, and sets the
\* grace timer.
Drop(s) ==
  /\ s.at = "closing"
  /\ player' = [player EXCEPT ![s.object].connected = FALSE]
  /\ sockets' = sockets \ {s}
  /\ grace' = grace \cup {[object |-> s.object, join |-> s.join, generation |-> s.read,
                           back |-> player[s.object].generation # s.read]}
  /\ UNCHANGED entries

\* Mutant of Absent: the generation is not compared.
AbsentAnyGeneration(d) == ~ player[d.object].connected

\* What the callback of the grace timer asks of the socket's object.
Absent(d) ==
  /\ player[d.object].generation = d.generation
  /\ ~ player[d.object].connected

\* The grace period is over.
GraceOver(d) ==
  /\ grace' = grace \ {d}
  /\ UNCHANGED <<player, entries, sockets>>

-----------------------------------------------------------------------------

\* newRoom, with a socket of each object that takes part.
SeatingInit ==
  /\ player = [o \in Objects |-> Joined(1)]
  /\ entries = Places
  /\ sockets = {Serving(o, 1) : o \in Movers \cap Places}
                  \cup {Waiting(o) : o \in Movers \ Places}
  /\ grace = {}

\* The steps that do not concern the game.
Connecting ==
  \/ \E i \in Places \cap Movers : Rejoin(i)
  \/ \E s \in sockets :
       ReadGeneration(s) \/ Unmap(s) \/ Close(s) \/ CloseUnmatched(s) \/ Drop(s)

-----------------------------------------------------------------------------

Stages == {"joining", "serving", "leaving", "closing"}

SeatingTypeOK ==
  /\ player \in [Objects -> [generation : Nat, connected : BOOLEAN, left : BOOLEAN]]
  /\ entries \subseteq Places
  /\ sockets \subseteq [object : Objects, join : Nat, read : Nat, at : Stages]
  /\ grace \subseteq [object : Objects, join : Nat, generation : Nat, back : BOOLEAN]

\* A step that takes the game from seat i: an object of this seat leaves, or its
\* grace period is over and nobody has come back to it meanwhile.
Forfeits(i) ==
  \/ /\ <<entries, sockets>>' # <<entries, sockets>>
     /\ \E o \in Objects : SeatOf(o) = i /\ player'[o].left
  \/ \E d \in grace \ grace' : SeatOf(d.object) = i /\ ~ d.back

=============================================================================
