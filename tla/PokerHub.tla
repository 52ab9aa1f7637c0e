------------------------------ MODULE PokerHub ------------------------------
(***************************************************************************)
(* Matchmaking, seats and spectators of poker (server/core/poker/hub.go)   *)
(* with the socket loops that drive them (socket.go).  The mahjong hub and *)
(* its sockets are the same code but for names.  What becomes of the hand  *)
(* when a player goes is in module PokerRoom; this one has who sits where. *)
(*                                                                         *)
(* Each socket is a goroutine running Serve, with a second one polling     *)
(* MatchWaiting while it waits for an opponent; hub and rooms have a mutex *)
(* each, and a step is a critical section or what happens between two.     *)
(* Sockets are numbered in the order of their calls of Join.  A Player     *)
(* object has the number of the socket whose Join made it, and a Room the  *)
(* number of its second player, who is seated only once.                   *)
(***************************************************************************)
EXTENDS Naturals, FiniteSets

CONSTANTS
  Id,          \* socket player IDs: one per browser tab
  Account,     \* identity.Account as a function of the ID
  Request,     \* the modes and invite codes joins ask for
  NoInvite,    \* the code of a public request
  AnyMode,     \* stands for the mode in the key of a private table
  MaxSockets   \* bound: connections made

ASSUME HubAssumption ==
  /\ DOMAIN Account = Id
  /\ \A q \in Request : DOMAIN q = {"mode", "invite"} /\ q.mode # AnyMode
  /\ MaxSockets \in Nat

VARIABLES
  sock,         \* the loops: one record per socket
  player,       \* Player objects
  room,         \* Room objects
  waiting,      \* hub.waiting
  playerRooms   \* hub.playerRooms

vars == <<sock, player, room, waiting, playerRooms>>

None   == 0
Socket == 1..MaxSockets

SameAccount(i, j) == Account[i] = Account[j]

-----------------------------------------------------------------------------
(* Tables and their participants. *)

\* Public players queue by mode; a private code alone identifies the table.
KeyFor(q) == IF q.invite = NoInvite THEN q ELSE [q EXCEPT !.mode = AnyMode]

Key == {KeyFor(q) : q \in Request}

NoSocket == [pc |-> "none", player |-> None, room |-> None, generation |-> 0]
NoPlayer == [id |-> None, mode |-> None, seated |-> FALSE, connected |-> FALSE, generation |-> 0]
NoRoom   == [host |-> None, table |-> None, listed |-> FALSE, spectators |-> {}, cleanups |-> 0]

\* Player objects of a join that asks for a seat, and of one that watches.
NewPlayer(id, mode) == [id |-> id, mode |-> mode, seated |-> TRUE, connected |-> TRUE, generation |-> 1]
Watcher(id)         == [NewPlayer(id, None) EXCEPT !.seated = FALSE]

Rooms == {r \in Socket : room[r].host # None}

Seats(r) == {room[r].host, r}

Named(players, id) == {p \in players : player[p].id = id}

\* participantLocked: the player of that ID, the seats first.
Participants(r, id) ==
  IF Named(Seats(r), id) # {} THEN Named(Seats(r), id) ELSE Named(room[r].spectators, id)

Participant(r, id) == CHOOSE p \in Participants(r, id) : TRUE

\* Spectators are kept by ID: one of them goes.
Unwatched(rm, id) == [rm EXCEPT !.spectators = @ \ Named(@, id)]

\* scheduleCleanup
Scheduled(rm) == [rm EXCEPT !.cleanups = @ + 1]

\* leaveLocked, on the room: who watches is removed, a seat stays.
LeftBy(rm, p) == IF player[p].seated THEN rm ELSE Unwatched(rm, player[p].id)

-----------------------------------------------------------------------------
(* Join. *)

NextSocket(n) == sock[n].pc = "none" /\ \A m \in Socket : m < n => sock[m].pc # "none"

\* The socket n has got player p, in room r or without one.
Serving(n, p, r) ==
  [sock EXCEPT ![n] = [pc |-> "joined", player |-> p, room |-> r, generation |-> 0]]

\* The role spectator.  A seat in another room, or in this one, loses its entry.
Spectate(n, id, r) ==
  /\ NextSocket(n)
  /\ room[r].listed
  /\ player' = [player EXCEPT ![n] = Watcher(id)]
  /\ room' = [room EXCEPT ![r].spectators = (@ \ Named(@, id)) \cup {n}]
  /\ playerRooms' = [playerRooms EXCEPT ![id] = r]
  /\ sock' = Serving(n, n, r)
  /\ UNCHANGED waiting

\* The player takes part in the room of the entry.
TakesPart(id) == playerRooms[id] # None /\ Participants(playerRooms[id], id) # {}

\* The same table: a reconnect.
Resumes(id, q) == TakesPart(id) /\ KeyFor(room[playerRooms[id]].table) = KeyFor(q)

Resume(n, id, q) ==
  LET r == playerRooms[id]
      p == Participant(r, id)
  IN  /\ NextSocket(n)
      /\ Resumes(id, q)
      /\ player' = [player EXCEPT ![p].connected = TRUE, ![p].generation = @ + 1]
      /\ sock' = Serving(n, p, r)
      /\ UNCHANGED <<room, waiting, playerRooms>>

\* Another table: the player leaves the old one first.
ReleasedPlayers(id) ==
  IF TakesPart(id)
  THEN [player EXCEPT ![Participant(playerRooms[id], id)].connected = FALSE]
  ELSE player

ReleasedRooms(id) ==
  LET r == playerRooms[id]
      p == Participant(r, id)
  IN  CASE ~ TakesPart(id)                       -> room
        [] TakesPart(id) /\ player[p].seated    -> [room EXCEPT ![r] = Scheduled(@)]
        [] TakesPart(id) /\ ~ player[p].seated -> [room EXCEPT ![r] = LeftBy(@, p)]

Opponent(id, q) ==
  LET o == waiting[KeyFor(q)]
  IN  o # None /\ player[o].connected /\ ~ SameAccount(player[o].id, id)

\* Nobody to play with.  Who had the place in the queue is not told.
Enqueue(n, id, q) ==
  /\ NextSocket(n)
  /\ ~ Resumes(id, q)
  /\ ~ Opponent(id, q)
  /\ player' = [ReleasedPlayers(id) EXCEPT ![n] = NewPlayer(id, q.mode)]
  /\ room' = ReleasedRooms(id)
  /\ waiting' = [waiting EXCEPT ![KeyFor(q)] = n]
  /\ playerRooms' = [playerRooms EXCEPT ![id] = None]
  /\ sock' = Serving(n, n, None)

RegisteredGuest(host, guest, r) ==   \* mutant of Registered: the host has no entry
  [playerRooms EXCEPT ![guest] = r]

Registered(host, guest, r) == [playerRooms EXCEPT ![host] = r, ![guest] = r]

\* Somebody is waiting: newRoom in the mode that the host asked for.
Pair(n, id, q) ==
  LET host == waiting[KeyFor(q)]
  IN  /\ NextSocket(n)
      /\ ~ Resumes(id, q)
      /\ Opponent(id, q)
      /\ player' = [ReleasedPlayers(id) EXCEPT ![n] = NewPlayer(id, q.mode)]
      /\ room' = [ReleasedRooms(id) EXCEPT
                    ![n] = [NoRoom EXCEPT !.host = host, !.listed = TRUE,
                                          !.table = [mode |-> player[host].mode, invite |-> q.invite]]]
      /\ waiting' = [waiting EXCEPT ![KeyFor(q)] = None]
      /\ playerRooms' = Registered(player[host].id, id, n)
      /\ sock' = Serving(n, n, n)

\* Serve goes on after Join: only now it looks at the generation.
ReadGeneration(n) ==
  /\ sock[n].pc = "joined"
  /\ sock' = [sock EXCEPT ![n].pc = "serving",
                          ![n].generation = player[sock[n].player].generation]
  /\ UNCHANGED <<player, room, waiting, playerRooms>>

-----------------------------------------------------------------------------
(* The loop of Serve. *)

MappedRoom(n) == playerRooms[player[sock[n].player].id]

\* The room of the socket, if need be the one that assignedRoom finds.
FoundRoom(n) == IF sock[n].room = None THEN MappedRoom(n) ELSE sock[n].room

\* The loop learns of the room, by MatchWaiting or when a message arrives first.
\* Both look for the player's ID: it can be a room the ID went to otherwise.
Matched(n) ==
  /\ sock[n].pc = "serving"
  /\ sock[n].room = None
  /\ MappedRoom(n) # None
  /\ sock' = [sock EXCEPT ![n].room = MappedRoom(n)]
  /\ UNCHANGED <<player, room, waiting, playerRooms>>

\* The connection is lost or closed by the client.  The deferred function asks
\* once more for the room of a player without one.
Drop(n) ==
  LET r == FoundRoom(n)
  IN  /\ sock[n].pc = "serving"
      /\ sock' = [sock EXCEPT ![n].room = r,
                              ![n].pc   = IF r = None THEN "dropping" ELSE "disconnecting"]
      /\ UNCHANGED <<player, room, waiting, playerRooms>>

\* The socket has done its work.
Closed(n) == [sock EXCEPT ![n].pc = "closed", ![n].generation = 0]

\* ... without a room it gives up the place in the queue.
LeaveWaiting(n) ==
  /\ sock[n].pc = "dropping"
  /\ player' = [player EXCEPT ![sock[n].player].connected = FALSE]
  /\ waiting' = [k \in Key |-> IF waiting[k] = sock[n].player THEN None ELSE waiting[k]]
  /\ sock' = Closed(n)
  /\ UNCHANGED <<room, playerRooms>>

\* "leave": leaveLocked under room.mu.
Leave(n) ==
  LET p == sock[n].player
  IN  /\ sock[n].pc = "serving" /\ sock[n].room # None
      /\ player' = [player EXCEPT ![p].connected = FALSE]
      /\ room' = [room EXCEPT ![sock[n].room] = LeftBy(@, p)]
      /\ sock' = [sock EXCEPT ![n].pc = "leaving"]
      /\ UNCHANGED <<waiting, playerRooms>>

\* The player's entry no longer points to the room of the socket.
Unmapped(n) ==
  [playerRooms EXCEPT ![player[sock[n].player].id] = IF @ = sock[n].room THEN None ELSE @]

\* Mutant of WhenSeated: rooms are only cleaned up behind spectators.
WhenSeatedNever(rm, p) == IF player[p].seated THEN rm ELSE Scheduled(rm)

WhenSeated(rm, p) == IF player[p].seated THEN Scheduled(rm) ELSE rm

\* Leave goes on under hub.mu; then Serve returns.
LeaveHub(n) ==
  /\ sock[n].pc = "leaving"
  /\ playerRooms' = Unmapped(n)
  /\ room' = [room EXCEPT ![sock[n].room] = WhenSeated(@, sock[n].player)]
  /\ sock' = [sock EXCEPT ![n].pc = "disconnecting"]
  /\ UNCHANGED <<player, waiting>>

\* The test of Disconnect: the socket's connection is the player's latest.
CheckLatest(n) ==
  /\ sock[n].pc = "disconnecting"
  /\ sock' = IF sock[n].generation = player[sock[n].player].generation
             THEN [sock EXCEPT ![n].pc = "marking"]
             ELSE Closed(n)
  /\ UNCHANGED <<player, room, waiting, playerRooms>>

\* Disconnect goes on under room.mu, whoever has joined since the test.
Disconnect(n) ==
  LET p == sock[n].player
  IN  /\ sock[n].pc = "marking"
      /\ player' = [player EXCEPT ![p].connected = FALSE]
      /\ room' = [room EXCEPT ![sock[n].room] = WhenSeated(LeftBy(@, p), p)]
      /\ sock' = IF player[p].seated THEN Closed(n) ELSE [sock EXCEPT ![n].pc = "unmapping"]
      /\ UNCHANGED <<waiting, playerRooms>>

\* ... and, for spectators, under hub.mu.
Unwatch(n) ==
  /\ sock[n].pc = "unmapping"
  /\ playerRooms' = Unmapped(n)
  /\ sock' = Closed(n)
  /\ UNCHANGED <<player, room, waiting>>

-----------------------------------------------------------------------------
(* cleanupRoomIfEmpty, five minutes after somebody went. *)

\* Time: what a socket does by itself takes much less than five minutes.
Settled == \A n \in Socket : sock[n].pc \in {"none", "serving", "closed"}

Abandoned(r) == \A p \in Seats(r) : ~ player[p].connected

\* The entries of both players go; those of spectators stay.
UnmappedAll(r) == [id \in Id |-> IF playerRooms[id] = r /\ Named(Seats(r), id) # {}
                                 THEN None ELSE playerRooms[id]]

Cleanup(r) ==
  /\ room[r].cleanups > 0
  /\ Settled
  /\ room' = [room EXCEPT ![r].cleanups = @ - 1, ![r].listed = @ /\ ~ Abandoned(r)]
  /\ playerRooms' = IF Abandoned(r) THEN UnmappedAll(r) ELSE playerRooms
  /\ UNCHANGED <<sock, player, waiting>>

-----------------------------------------------------------------------------

Init ==
  /\ sock = [n \in Socket |-> NoSocket]
  /\ player = [p \in Socket |-> NoPlayer]
  /\ room = [r \in Socket |-> NoRoom]
  /\ waiting = [k \in Key |-> None]
  /\ playerRooms = [id \in Id |-> None]

Join(n) ==
  \E id \in Id :
    \/ \E q \in Request : Resume(n, id, q) \/ Enqueue(n, id, q) \/ Pair(n, id, q)
    \/ \E r \in Rooms : Spectate(n, id, r)

\* What a socket does by itself once it is on its way.
Return(n) ==
  \/ ReadGeneration(n) \/ LeaveWaiting(n) \/ LeaveHub(n)
  \/ CheckLatest(n) \/ Disconnect(n) \/ Unwatch(n)

Next ==
  \/ \E n \in Socket : Join(n) \/ Matched(n) \/ Drop(n) \/ Leave(n) \/ Return(n)
  \/ \E r \in Rooms : Cleanup(r)

\* Goroutines run on and timers fire.  Nobody has to send or to close anything.
Fairness ==
  /\ \A n \in Socket : WF_vars(Matched(n)) /\ WF_vars(Return(n))
  /\ \A r \in Socket : WF_vars(Cleanup(r))

Spec == Init /\ [][Next]_vars /\ Fairness

-----------------------------------------------------------------------------
(* Properties. *)

\* A player whose socket waits has the place in the queue, or a room: only the
\* player's own connections can take them away.
WaitersKeepTheirPlace ==
  \A n \in Socket :
    sock[n].pc = "serving" /\ sock[n].room = None /\ MappedRoom(n) = None =>
      \/ \E k \in Key : waiting[k] = sock[n].player
      \/ \E m \in Socket \ {n} :
           sock[m].pc # "none" /\ SameAccount(player[sock[m].player].id, player[sock[n].player].id)

\* The entry of a player with a seat leads to a room the hub still has.
EntriesLead ==
  \A id \in Id : LET r == playerRooms[id]
                 IN  r # None /\ Named(Seats(r), id) # {} => room[r].listed

\* Whoever waits keeps the place, and whoever is seated finds the table.
PlacesAreKept == WaitersKeepTheirPlace /\ EntriesLead

\* A socket of one of the players has not found this room: it closed before it was
\* told, or the ID's entry leads elsewhere by the work of another socket.
Astray(r) ==
  \E n \in Socket :
    /\ sock[n].player \in Seats(r)
    /\ r # IF sock[n].pc \in {"dropping", "closed"} THEN sock[n].room ELSE FoundRoom(n)

\* A room that both players have left for good is removed: "A room is now removed
\* 5 minutes after both players are gone.  Poker and Mahjong already did this."
\* (src/docs/RELEASE_CHECKLIST.md:93)
AbandonedRoomsGo ==
  \A r \in Socket :
    (room[r].listed /\ Abandoned(r)) ~> (~ room[r].listed \/ ~ Abandoned(r) \/ Astray(r))

=============================================================================
