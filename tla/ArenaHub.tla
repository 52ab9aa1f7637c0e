------------------------------ MODULE ArenaHub ------------------------------
(***************************************************************************)
(* Matchmaking and seats of the arena games (server/core/arena/hub.go,     *)
(* disconnect.go, player.go) together with the socket loops that drive     *)
(* them (socket.go).  Each socket is a goroutine running ServePlayer, with *)
(* a second one polling MatchWaiting while it waits for an opponent; hub   *)
(* and rooms have a mutex each, and a step of this module is a critical    *)
(* section, or what happens between two of them.                           *)
(*                                                                         *)
(* Sockets are numbered in the order of their calls of JoinMatch.  A       *)
(* Player object has the number of the socket whose join made it, and a    *)
(* Room the number of its guest, who is seated only once.  Of a room only  *)
(* the status and the requests for the next round are kept: module         *)
(* ArenaRoom has the rest.  Durations are not kept either: whatever waits  *)
(* for a time to pass may happen at any moment after it was set up.        *)
(***************************************************************************)
EXTENDS Naturals, FiniteSets

CONSTANTS
  Id,          \* socket player IDs: one per browser tab
  Account,     \* identity.Account as a function of the ID
  Key,         \* MatchKey: the queues
  Kind, Mode,  \* ... their game and its mode
  Private,     \* ... and those that are identified by an invite code
  MaxSockets   \* bound: connections made

ASSUME HubAssumption ==
  /\ DOMAIN Account = Id
  /\ DOMAIN Kind = Key /\ DOMAIN Mode = Key
  /\ Private \subseteq Key
  /\ MaxSockets \in Nat

VARIABLES
  sock,         \* the loops: one record per socket
  player,       \* Player objects
  room,         \* Room objects
  waiting,      \* hub.waiting
  playerRooms,  \* hub.playerRooms
  grace         \* timers of Disconnect that are pending

vars == <<sock, player, room, waiting, playerRooms, grace>>

None   == 0
Socket == 1..MaxSockets

SameAccount(i, j) == Account[i] = Account[j]

-----------------------------------------------------------------------------
(* Players and rooms. *)

NoPlayer == [id |-> None, key |-> None, connected |-> FALSE, generation |-> 0]
NoRoom   == [host |-> None, status |-> "none", ready |-> {}, listed |-> FALSE,
             cleanup |-> "unset", check |-> FALSE]

NewPlayer(id, k) == [id |-> id, key |-> k, connected |-> TRUE, generation |-> 1]

Rooms == {r \in Socket : room[r].status # "none"}

\* The players of room r: its host and its guest.
Seats(r) == {room[r].host, r}

\* playerByIDLocked
SeatOf(r, id) == CHOOSE p \in Seats(r) : player[p].id = id

InRoom(r, id) == \E p \in Seats(r) : player[p].id = id

MarkGuest(p) == IF p \in Rooms THEN "guest" ELSE "host"   \* mutant of Mark

Mark(p) == IF p \in Rooms THEN "two" ELSE "one"

\* seatLocked, on the rooms and on the players' rooms.
Opened(host)             == [NoRoom EXCEPT !.host = host, !.status = "playing", !.listed = TRUE]
Registered(rms, h, g, r) == [rms EXCEPT ![h] = r, ![g] = r]

\* finishRoundLocked: the end of a series starts the one cleanup timer of the room.
Finished(rm, status) ==
  [rm EXCEPT !.status  = status,
             !.cleanup = IF status = "finished" /\ @ = "unset" THEN "armed" ELSE @]

Between == {"round-finished", "finished"}

\* A room after the round that was running is over, if there was one.
Forfeited(rm) == IF rm.status = "playing" THEN {Finished(rm, st) : st \in Between} ELSE {rm}

-----------------------------------------------------------------------------
(* JoinMatch. *)

NextSocket(n) == sock[n].pc = "none" /\ \A m \in Socket : m < n => sock[m].pc # "none"

NoSocket == [pc |-> "none", player |-> None, room |-> None, generation |-> 0]
Closed   == [NoSocket EXCEPT !.pc = "closed"]

\* A socket that serves player p, in room r or without one.
Joined(p, r) == [pc |-> "joined", player |-> p, room |-> r, generation |-> 0]

\* reconnectLocked: the old seat is good for a request for queue k.
Resumes(id, k) ==
  LET r == playerRooms[id]
      table == player[room[r].host].key
  IN  /\ r # None
      /\ Kind[table] = Kind[k]
      /\ \/ room[r].status = "playing"
         \/ room[r].status # "archived" /\ table = k

Resume(n, id, k) ==
  /\ NextSocket(n)
  /\ Resumes(id, k)
  /\ LET r == playerRooms[id]
         p == SeatOf(r, id)
     IN  /\ player' = [player EXCEPT ![p].connected = TRUE, ![p].generation = @ + 1]
         /\ sock' = [sock EXCEPT ![n] = Joined(p, r)]
  /\ UNCHANGED <<room, waiting, playerRooms, grace>>

\* The player moved on from a seat in a room of the same kind.
MovedOn(id, k) ==
  /\ playerRooms[id] # None
  /\ Kind[player[room[playerRooms[id]].host].key] = Kind[k]

\* What reconnectLocked does to that seat, when it is not resumed.
ReleasedPlayers(id, k) ==
  IF MovedOn(id, k)
  THEN [player EXCEPT ![SeatOf(playerRooms[id], id)].connected = FALSE]
  ELSE player

ReleasedRooms(id, k) ==
  IF MovedOn(id, k) THEN [room EXCEPT ![playerRooms[id]].check = TRUE] ELSE room

\* Mutant of Opponent: the accounts are not compared.
OpponentAnyAccount(id, k) == waiting[k] # None /\ player[waiting[k]].connected

\* The player at the head of queue k is somebody player id can be seated with.
Opponent(id, k) ==
  /\ waiting[k] # None
  /\ player[waiting[k]].connected
  /\ ~ SameAccount(player[waiting[k]].id, id)

\* Nobody to play with: the new player takes the place in the queue.
Enqueue(n, id, k) ==
  /\ NextSocket(n)
  /\ ~ Resumes(id, k)
  /\ ~ Opponent(id, k)
  /\ LET released == ReleasedPlayers(id, k)
         replaced == waiting[k] # None /\ SameAccount(player[waiting[k]].id, id)
     IN  player' = [p \in Socket |->
                      CASE p = n -> NewPlayer(id, k)
                        [] p # n /\ replaced /\ p = waiting[k] ->
                             [released[p] EXCEPT !.connected = FALSE]
                        [] OTHER -> released[p]]
  /\ room' = ReleasedRooms(id, k)
  /\ waiting' = [waiting EXCEPT ![k] = n]
  /\ playerRooms' = [playerRooms EXCEPT ![id] = None]
  /\ sock' = [sock EXCEPT ![n] = Joined(n, None)]
  /\ UNCHANGED grace

\* Somebody is waiting: a room is opened for the two.
Pair(n, id, k) ==
  /\ NextSocket(n)
  /\ ~ Resumes(id, k)
  /\ Opponent(id, k)
  /\ player' = [ReleasedPlayers(id, k) EXCEPT ![n] = NewPlayer(id, k)]
  /\ room' = [ReleasedRooms(id, k) EXCEPT ![n] = Opened(waiting[k])]
  /\ waiting' = [waiting EXCEPT ![k] = None]
  /\ playerRooms' = Registered(playerRooms, player[waiting[k]].id, id, n)
  /\ sock' = [sock EXCEPT ![n] = Joined(n, n)]
  /\ UNCHANGED grace

\* ServePlayer goes on after JoinMatch: only now it looks at the generation.
ReadGeneration(n) ==
  /\ sock[n].pc = "joined"
  /\ sock' = [sock EXCEPT ![n].pc = "serving",
                          ![n].generation = player[sock[n].player].generation]
  /\ UNCHANGED <<player, room, waiting, playerRooms, grace>>

-----------------------------------------------------------------------------
(* MatchWaiting: the poller of a socket that waits for an opponent.  It is   *)
(* at work until the socket has a room or the player is disconnected, also   *)
(* while the socket's loop is already returning.                             *)

Polling(n) == sock[n].pc \in {"serving", "dropping"} /\ sock[n].room = None

MappedRoom(n) == playerRooms[player[sock[n].player].id]

\* The loop learns of the room, by the poller or when a message arrives first.
Matched(n) ==
  /\ sock[n].pc = "serving"
  /\ sock[n].room = None
  /\ MappedRoom(n) # None
  /\ sock' = [sock EXCEPT ![n].room = MappedRoom(n)]
  /\ UNCHANGED <<player, room, waiting, playerRooms, grace>>

\* Mutant of FallsBackTo: only the exact settings will do, as in JoinMatch.
FallsBackToExact(p, o) ==
  /\ waiting[player[p].key] = p /\ p # o /\ waiting[player[p].key] = o
  /\ player[o].connected /\ ~ SameAccount(player[o].id, player[p].id)

\* fallbackLocked's test of the players p and o: any public queue of the same
\* game and mode will do.
FallsBackTo(p, o) ==
  LET own == player[p].key
      key == player[o].key
  IN  /\ waiting[own] = p /\ own \notin Private
      /\ p # o /\ waiting[key] = o
      /\ key \notin Private /\ Kind[key] = Kind[own] /\ Mode[key] = Mode[own]
      /\ player[o].connected
      /\ ~ SameAccount(player[o].id, player[p].id)

InQueue(p) == \E k \in Key : waiting[k] = p

\* Mutant of Unqueued: only the other player leaves the queue.
UnqueuedOther(p, o) == [waiting EXCEPT ![player[o].key] = None]

Unqueued(p, o) == [waiting EXCEPT ![player[p].key] = None, ![player[o].key] = None]

\* The one who joined earlier is the host.  Both loops are told by Matched.
Fallback(n) ==
  LET p == sock[n].player
  IN  /\ Polling(n)
      /\ MappedRoom(n) = None
      /\ player[p].connected
      /\ InQueue(p)
      /\ \E o \in Socket :
           LET host  == IF p < o THEN p ELSE o
               guest == IF p < o THEN o ELSE p
           IN  /\ InQueue(o)
               /\ FallsBackTo(p, o)
               /\ waiting' = Unqueued(p, o)
               /\ room' = [room EXCEPT ![guest] = Opened(host)]
               /\ playerRooms' =
                    Registered(playerRooms, player[host].id, player[guest].id, guest)
      /\ UNCHANGED <<sock, player, grace>>

-----------------------------------------------------------------------------
(* The loop of ServePlayer. *)

\* The connection is lost or closed by the client, or MatchWaiting gave up
\* because another tab took the place in the queue.  The deferred function asks
\* once more for the room of a player without one.
Drop(n) ==
  LET r == IF sock[n].room = None THEN MappedRoom(n) ELSE sock[n].room
  IN  /\ sock[n].pc = "serving"
      /\ sock' = [sock EXCEPT ![n].room = r,
                              ![n].pc   = IF r = None THEN "dropping" ELSE "disconnecting"]
      /\ UNCHANGED <<player, room, waiting, playerRooms, grace>>

Seated(n) == sock[n].pc = "serving" /\ sock[n].room # None

\* LeaveRoom, under room.mu.
Leave(n) ==
  /\ Seated(n)
  /\ player' = [player EXCEPT ![sock[n].player].connected = FALSE]
  /\ \E rm \in Forfeited(room[sock[n].room]) : room' = [room EXCEPT ![sock[n].room] = rm]
  /\ sock' = [sock EXCEPT ![n].pc = "leaving"]
  /\ UNCHANGED <<waiting, playerRooms, grace>>

\* The player's entry no longer points to room r.
Unmapped(id, r) == [playerRooms EXCEPT ![id] = IF @ = r THEN None ELSE @]

\* LeaveRoom, under hub.mu; then ServePlayer returns.
LeaveHub(n) ==
  /\ sock[n].pc = "leaving"
  /\ playerRooms' = Unmapped(player[sock[n].player].id, sock[n].room)
  /\ room' = [room EXCEPT ![sock[n].room].check = TRUE]
  /\ sock' = [sock EXCEPT ![n].pc = "disconnecting"]
  /\ UNCHANGED <<player, waiting, grace>>

\* ... without a room it gives up the place in the queue,
LeaveWaiting(n) ==
  /\ sock[n].pc = "dropping"
  /\ player' = [player EXCEPT ![sock[n].player].connected = FALSE]
  /\ waiting' = [k \in Key |-> IF waiting[k] = sock[n].player THEN None ELSE waiting[k]]
  /\ sock' = [sock EXCEPT ![n] = Closed]
  /\ UNCHANGED <<room, playerRooms, grace>>

\* The socket's connection is still the player's latest.
Latest(n) == sock[n].generation = player[sock[n].player].generation

\* ... or disconnects from the room, unless the player has come back since.
Disconnect(n) ==
  LET p == sock[n].player
      r == sock[n].room
  IN  /\ sock[n].pc = "disconnecting"
      /\ IF Latest(n)
         THEN /\ player' = [player EXCEPT ![p].connected = FALSE]
              /\ room' = [room EXCEPT ![r].check = TRUE]
              /\ grace' = grace \cup
                            {[player |-> p, room |-> r, generation |-> sock[n].generation]}
         ELSE UNCHANGED <<player, room, grace>>
      /\ sock' = [sock EXCEPT ![n] = Closed]
      /\ UNCHANGED <<waiting, playerRooms>>

-----------------------------------------------------------------------------
(* Timers. *)

AbsentAnyGeneration(g) == ~ player[g.player].connected   \* mutant of Absent

\* The player has not come back since the timer g was set.
Absent(g) ==
  /\ player[g.player].generation = g.generation
  /\ ~ player[g.player].connected

\* disconnectGrace is over.
Expire(g) ==
  /\ g \in grace
  /\ grace' = grace \ {g}
  /\ IF Absent(g)
     THEN \E rm \in Forfeited(room[g.room]) : room' = [room EXCEPT ![g.room] = rm]
     ELSE UNCHANGED room
  /\ UNCHANGED <<sock, player, waiting, playerRooms>>

UnmappedGuest(r) ==   \* mutant of UnmappedAll
  [playerRooms EXCEPT ![player[r].id] = IF @ = r THEN None ELSE @]

\* The entries of all players of room r are dropped.
UnmappedAll(r) == [id \in Id |-> IF playerRooms[id] = r /\ InRoom(r, id)
                                 THEN None ELSE playerRooms[id]]

AbandonedHost(r) == ~ player[room[r].host].connected   \* mutant of Abandoned

Abandoned(r) == \A p \in Seats(r) : ~ player[p].connected

\* removeIfAbandoned, roomRetention after somebody went.  A check that finds a
\* player in the room changes nothing.
AbandonCheck(r) ==
  /\ room[r].check
  /\ Abandoned(r)
  /\ room' = [room EXCEPT ![r].check = FALSE, ![r].status = "archived", ![r].listed = FALSE]
  /\ playerRooms' = UnmappedAll(r)
  /\ UNCHANGED <<sock, player, waiting, grace>>

\* The function of scheduleCleanup, roomRetention after the first series ended.
Cleanup(r) ==
  /\ room[r].cleanup = "armed"
  /\ room' = [room EXCEPT ![r].cleanup = "done", ![r].listed = FALSE]
  /\ playerRooms' = UnmappedAll(r)
  /\ UNCHANGED <<sock, player, waiting, grace>>

-----------------------------------------------------------------------------
(* The table: what the players and the turn timer do to the status of a room. *)

\* A move, a resignation or the turn timer ends the round.
EndRound(r) ==
  /\ room[r].status = "playing"
  /\ \E rm \in Forfeited(room[r]) : room' = [room EXCEPT ![r] = rm]
  /\ UNCHANGED <<sock, player, waiting, playerRooms, grace>>

\* A draw offer that was left open is accepted after the round.
AcceptDraw(n) ==
  /\ Seated(n)
  /\ Kind[player[room[sock[n].room].host].key] = "chess"
  /\ room[sock[n].room].status # "playing"
  /\ room' = [room EXCEPT ![sock[n].room].status = "round-finished"]
  /\ UNCHANGED <<sock, player, waiting, playerRooms, grace>>

\* ReadyRematch: the seat is found by the ID of the socket's player.
ReadyRematch(n) ==
  LET r     == sock[n].room
      ready == room[r].ready \cup {Mark(SeatOf(r, player[sock[n].player].id))}
  IN  /\ Seated(n)
      /\ room[r].status \in Between
      /\ room' = IF Cardinality(ready) = 2
                 THEN [room EXCEPT ![r].ready = {}, ![r].status = "playing"]
                 ELSE [room EXCEPT ![r].ready = ready]
      /\ UNCHANGED <<sock, player, waiting, playerRooms, grace>>

-----------------------------------------------------------------------------

Init ==
  /\ sock = [n \in Socket |-> NoSocket]
  /\ player = [p \in Socket |-> NoPlayer]
  /\ room = [r \in Socket |-> NoRoom]
  /\ waiting = [k \in Key |-> None]
  /\ playerRooms = [id \in Id |-> None]
  /\ grace = {}

JoinMatch(n) == \E id \in Id, k \in Key : Resume(n, id, k) \/ Enqueue(n, id, k) \/ Pair(n, id, k)

Loop(n) ==
  \/ Matched(n) \/ Fallback(n)
  \/ Drop(n) \/ Leave(n) \/ AcceptDraw(n) \/ ReadyRematch(n)

\* What a socket does by itself once it is on its way.
Return(n) == ReadGeneration(n) \/ LeaveHub(n) \/ LeaveWaiting(n) \/ Disconnect(n)

Next ==
  \/ \E n \in Socket : JoinMatch(n) \/ Loop(n) \/ Return(n)
  \/ \E r \in Rooms : AbandonCheck(r) \/ Cleanup(r) \/ EndRound(r)
  \/ \E g \in grace : Expire(g)

\* Goroutines run on, tickers tick and timers fire.  Nobody has to send or to
\* close anything.
Fairness ==
  /\ \A n \in Socket : WF_vars(Matched(n)) /\ WF_vars(Fallback(n)) /\ WF_vars(Return(n))
  /\ WF_vars(\E g \in grace : Expire(g))

Spec == Init /\ [][Next]_vars /\ Fairness

-----------------------------------------------------------------------------
(* Properties. *)

Number == Socket \cup {None}

TypeOK ==
  /\ sock \in [Socket -> [pc : {"none", "joined", "serving", "leaving", "dropping",
                                "disconnecting", "closed"},
                          player : Number, room : Number, generation : Nat]]
  /\ \A p \in Socket : player[p].generation # 0 =>
       player[p] \in [id : Id, key : Key, connected : BOOLEAN, generation : Nat]
  /\ room \in [Socket -> [host : Number,
                          status : {"none", "playing", "archived"} \cup Between,
                          ready : SUBSET {"one", "two"}, listed : BOOLEAN,
                          cleanup : {"unset", "armed", "done"}, check : BOOLEAN]]
  /\ waiting \in [Key -> Number]
  /\ playerRooms \in [Id -> Number]
  /\ \A g \in grace : g.player \in Socket /\ g.room \in Socket /\ g.generation \in Nat

\* Matchmaking gives a join one place: a player waits in one queue or sits in
\* one room, never both.  (JoinMatch, fallbackLocked)
OnePlace ==
  /\ \A k, l \in Key : waiting[k] # None /\ waiting[k] = waiting[l] => k = l
  /\ \A r \in Rooms, k \in Key : waiting[k] \notin Seats(r)
  /\ \A r, q \in Rooms : r # q => Seats(r) \cap Seats(q) = {}

\* Nobody is ever seated against another tab of the same account.
NoSelfPlay ==
  \A r \in Rooms : ~ SameAccount(player[room[r].host].id, player[r].id)

\* A player's entry in the hub leads to a room that is not archived and in which
\* the player has a seat: whoever reloads finds a table or the queue, not a
\* room that has been given up.
EntriesLead ==
  \A id \in Id : LET r == playerRooms[id]
                 IN  r # None => r \in Rooms /\ room[r].status # "archived" /\ InRoom(r, id)

\* A room is archived only behind both players: nobody comes back to it later
\* and nobody is in it.  (removeIfAbandoned against reconnectLocked)
ArchivedIsEmpty ==
  \A r \in Rooms : room[r].status = "archived" =>
    ~ player[room[r].host].connected /\ ~ player[r].connected

\* A player has the whole grace period after the latest disconnect: a timer
\* left over from an earlier one does not end the round while a later one is
\* running.  (Disconnect's closure)
WholeGrace ==
  [][\A g \in grace \ grace' :
       room[g.room].status = "playing" /\ room'[g.room].status # "playing" =>
         \A h \in grace : h.player = g.player => h.generation <= g.generation]_vars

\* The queue has players in it who could play each other.
CanMeet(p, o) ==
  /\ InQueue(p) /\ InQueue(o)
  /\ \A q \in {p, o} : player[q].connected /\ player[q].key \notin Private
  /\ Kind[player[p].key] = Kind[player[o].key]
  /\ Mode[player[p].key] = Mode[player[o].key]
  /\ ~ SameAccount(player[p].id, player[o].id)

\* Players in public queues of the same game and mode are not left waiting
\* beside each other: again and again there are none.  (fallbackLocked)
WaitingPlayersMeet == []<>(\A p, o \in Socket : ~ CanMeet(p, o))

-----------------------------------------------------------------------------
(* What the repository's own words promise and the code does not keep. *)

\* TestOldConnectionCannotDisconnectReconnectedPlayer: an old connection never
\* costs a round while the player is connected to the table.
OldConnectionCannotForfeit ==
  [][\A g \in grace \ grace' :
       room[g.room].status = "playing" /\ room'[g.room].status # "playing" =>
         ~ player[SeatOf(g.room, player[g.player].id)].connected]_vars

\* "leaving the opponent facing a ghost with no timeout": in a live round a
\* player who is gone has a grace period running.
NoGhostWithoutTimeout ==
  \A r \in Rooms : room[r].status = "playing" =>
    \A p \in Seats(r) : ~ player[p].connected =>
      \E g \in grace : g.player = p /\ Absent(g)

\* "Finished series are cleaned by scheduleCleanup": a live game that somebody
\* is still connected to is not.
OnlyFinishedIsCleaned ==
  [][\A r \in Rooms :
       room[r].listed /\ ~ room'[r].listed /\ room[r].status = "playing" =>
         ~ player[room[r].host].connected /\ ~ player[r].connected]_vars

=============================================================================
