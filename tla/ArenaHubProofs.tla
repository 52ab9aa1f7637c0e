---------------------------- MODULE ArenaHubProofs ----------------------------
(***************************************************************************)
(* Nobody waits or sits in two places, nobody plays against themselves,    *)
(* and the hub's entries lead to live rooms: for any number of sockets,    *)
(* players and queues.                                                     *)
(***************************************************************************)
EXTENDS ArenaHub, TLAPS

SocketType == [pc : {"none", "joined", "serving", "leaving", "dropping",
                     "disconnecting", "closed"},
               player : Number, room : Number, generation : Nat]
PlayerType == [id : Id \cup {None}, key : Key \cup {None}, connected : BOOLEAN,
               generation : Nat]
RoomType   == [host : Number, status : {"none", "playing", "archived"} \cup Between,
               ready : SUBSET {"one", "two"}, listed : BOOLEAN,
               cleanup : {"unset", "armed", "done"}, check : BOOLEAN]

\* The players that were made, each by the join of the socket of its number.
Made == {p \in Socket : player[p].generation # 0}

Types ==
  /\ sock \in [Socket -> SocketType] /\ player \in [Socket -> PlayerType]
  /\ room \in [Socket -> RoomType] /\ waiting \in [Key -> Number]
  /\ playerRooms \in [Id -> Number]

\* What the numbers refer to.
PlayersOfSockets ==
  \A p \in Made : player[p].id \in Id /\ player[p].key \in Key /\ sock[p].pc # "none"
RoomsOfPlayers == \A r \in Rooms : r \in Made /\ room[r].host \in Made
QueuesOfPlayers ==
  \A k \in Key : waiting[k] # None => waiting[k] \in Made /\ player[waiting[k]].key = k

\* Players in rooms do not wait, and sit in one room.
SeatedDoNotWait == \A r \in Rooms, k \in Key : waiting[k] \notin Seats(r)
SeatsApart      == \A r, q \in Rooms : r # q => Seats(r) \cap Seats(q) = {}

\* EntriesLead, said of rooms.
EntriesSeat ==
  \A id \in Id, r \in Socket : playerRooms[id] = r =>
    r \in Rooms /\ room[r].status # "archived" /\ \E p \in Seats(r) : player[p].id = id

\* What holds of the hub and its rooms ...
Placed ==
  /\ PlayersOfSockets /\ RoomsOfPlayers /\ QueuesOfPlayers
  /\ SeatedDoNotWait /\ SeatsApart
  /\ NoSelfPlay /\ EntriesSeat /\ ArchivedIsEmpty

\* ... and of the loops and timers.
SocketServed(n) ==
  /\ sock[n].pc \notin {"none", "closed"} => sock[n].player \in Made
  /\ sock[n].room # None => sock[n].room \in Rooms
  /\ sock[n].pc \in {"leaving", "disconnecting"} => sock[n].room # None

Served ==
  /\ \A n \in Socket : SocketServed(n)
  /\ \A g \in grace : g.player \in Socket /\ g.room \in Rooms /\ g.generation \in Nat

HubInv == Types /\ Placed /\ Served

-----------------------------------------------------------------------------
(* Numbers, seats and entries. *)

LEMMA Numbers == None \notin Socket /\ Socket \subseteq Nat /\ Number = Socket \cup {None}
BY HubAssumption DEF None, Socket, Number

LEMMA SeatsMade ==
  ASSUME HubInv, NEW r \in Rooms
  PROVE  /\ r \in Made /\ room[r].host \in Made /\ Seats(r) \subseteq Made
         /\ Made \subseteq Socket /\ r \in Socket
BY DEF HubInv, Placed, RoomsOfPlayers, Seats, Made

\* The seat an entry leads to.
LEMMA EntrySeat ==
  ASSUME HubInv, NEW id \in Id, playerRooms[id] # None
  PROVE  /\ playerRooms[id] \in Rooms /\ playerRooms[id] \in Socket
         /\ SeatOf(playerRooms[id], id) \in Seats(playerRooms[id])
         /\ SeatOf(playerRooms[id], id) \in Made
         /\ SeatOf(playerRooms[id], id) \in Socket
<1> DEFINE r == playerRooms[id]
<1>1. r \in Rooms /\ \E p \in Seats(r) : player[p].id = id
  BY Numbers DEF HubInv, Types, Placed, EntriesSeat
<1> HIDE DEF r
<1>2. SeatOf(r, id) \in Seats(r)
  BY <1>1 DEF SeatOf
<1> QED BY <1>1, <1>2, SeatsMade DEF r

\* A step that opens no room, puts nobody in a queue and makes no player.
LEMMA Quiet ==
  ASSUME HubInv,
         \A p \in Socket : /\ player'[p].id = player[p].id /\ player'[p].key = player[p].key
                           /\ player'[p].generation # 0 <=> player[p].generation # 0,
         \A r \in Socket : /\ room'[r].host = room[r].host
                           /\ room'[r].status = "none" <=> room[r].status = "none",
         \A k \in Key : waiting'[k] \in {waiting[k], None},
         \A id \in Id : playerRooms'[id] \in {playerRooms[id], None},
         \A r \in Rooms : room'[r].status = "archived" =>
           /\ ~ player'[room[r].host].connected /\ ~ player'[r].connected
           /\ \A id \in Id : playerRooms'[id] # r,
         \A n \in Socket : sock[n].pc # "none" => sock'[n].pc # "none"
  PROVE  Placed' /\ Made' = Made /\ Rooms' = Rooms
<1>1. Made' = Made /\ Rooms' = Rooms /\ Rooms \subseteq Socket /\ Made \subseteq Socket
  BY DEF Made, Rooms
<1>2. \A r \in Rooms : /\ room'[r].host = room[r].host /\ r \in Made /\ room[r].host \in Made
                       /\ r \in Socket /\ room[r].host \in Socket
  BY <1>1, SeatsMade
<1>3. PlayersOfSockets'
  BY <1>1 DEF HubInv, Placed, PlayersOfSockets
<1>4. RoomsOfPlayers'
  BY <1>1, <1>2 DEF RoomsOfPlayers
<1>5. QueuesOfPlayers'
  <2> SUFFICES ASSUME NEW k \in Key, waiting'[k] # None
               PROVE  waiting'[k] \in Made /\ player'[waiting'[k]].key = k
    BY <1>1 DEF QueuesOfPlayers
  <2>1. waiting'[k] = waiting[k]
    OBVIOUS
  <2>2. waiting[k] \in Made /\ player[waiting[k]].key = k
    BY <2>1 DEF HubInv, Placed, QueuesOfPlayers
  <2> QED BY <1>1, <2>1, <2>2
<1>6. \A r \in Rooms : Seats(r)' = Seats(r)
  BY <1>2 DEF Seats
<1>7. SeatedDoNotWait'
  <2>1. \A r \in Rooms : None \notin Seats(r)
    BY <1>2, Numbers DEF Seats
  <2>2. \A r \in Rooms, k \in Key : waiting'[k] \notin Seats(r)
    BY <2>1 DEF HubInv, Placed, SeatedDoNotWait
  <2> QED BY <1>1, <1>6, <2>2 DEF SeatedDoNotWait
<1>8. SeatsApart'
  BY <1>1, <1>6 DEF HubInv, Placed, SeatsApart
<1>9. NoSelfPlay'
  BY <1>1, <1>2 DEF HubInv, Placed, NoSelfPlay, SameAccount
<1>10. EntriesSeat'
  <2> SUFFICES ASSUME NEW id \in Id, NEW r \in Socket, playerRooms'[id] = r
               PROVE  /\ r \in Rooms /\ room'[r].status # "archived"
                      /\ \E p \in Seats(r)' : player'[p].id = id
    BY <1>1 DEF EntriesSeat
  <2>1. playerRooms[id] = r
    BY Numbers
  <2>2. r \in Rooms /\ \E p \in Seats(r) : player[p].id = id
    BY <2>1 DEF HubInv, Placed, EntriesSeat
  <2>3. room'[r].status # "archived"
    BY <2>2
  <2>4. PICK p \in Seats(r) : player[p].id = id
    BY <2>2
  <2>5. p \in Socket /\ p \in Seats(r)'
    BY <1>1, <1>6, <2>2, SeatsMade
  <2> QED BY <2>2, <2>3, <2>4, <2>5
<1>11. ArchivedIsEmpty'
  BY <1>1, <1>2 DEF ArchivedIsEmpty
<1> QED BY <1>1, <1>3, <1>4, <1>5, <1>7, <1>8, <1>9, <1>10, <1>11 DEF Placed

\* ... of which most archive nothing and connect nobody.
LEMMA Still ==
  ASSUME HubInv,
         \A r \in Rooms : room'[r].status = "archived" => room[r].status = "archived",
         \A p \in Socket : player'[p].connected => player[p].connected,
         \A id \in Id : playerRooms'[id] \in {playerRooms[id], None}
  PROVE  \A r \in Rooms : room'[r].status = "archived" =>
           /\ ~ player'[room[r].host].connected /\ ~ player'[r].connected
           /\ \A id \in Id : playerRooms'[id] # r
<1> SUFFICES ASSUME NEW r \in Rooms, room[r].status = "archived"
             PROVE  /\ ~ player'[room[r].host].connected /\ ~ player'[r].connected
                    /\ \A id \in Id : playerRooms'[id] # r
  OBVIOUS
<1>1. r \in Socket /\ room[r].host \in Socket /\ r # None
  BY SeatsMade, Numbers
<1>2. ~ player[room[r].host].connected /\ ~ player[r].connected
  BY DEF HubInv, Placed, ArchivedIsEmpty
<1>3. \A id \in Id : playerRooms[id] # r
  BY <1>1 DEF HubInv, Placed, EntriesSeat
<1> QED BY <1>1, <1>2, <1>3

-----------------------------------------------------------------------------
(* Changes of one record. *)

LEMMA SetConnected ==
  ASSUME HubInv, NEW p \in Socket, player' = [player EXCEPT ![p].connected = FALSE]
  PROVE  /\ player' \in [Socket -> PlayerType]
         /\ \A q \in Socket :
              /\ player'[q].id = player[q].id /\ player'[q].key = player[q].key
              /\ player'[q].generation # 0 <=> player[q].generation # 0
              /\ player'[q].connected => player[q].connected
BY DEF HubInv, Types, PlayerType

LEMMA SetRoom ==
  ASSUME HubInv, NEW r \in Socket, NEW rm \in RoomType, room' = [room EXCEPT ![r] = rm],
         rm.host = room[r].host, rm.status = "none" <=> room[r].status = "none"
  PROVE  /\ room' \in [Socket -> RoomType]
         /\ \A q \in Socket : /\ room'[q].host = room[q].host
                              /\ room'[q].status = "none" <=> room[q].status = "none"
         /\ (rm.status = "archived" => room[r].status = "archived") =>
              \A q \in Socket : room'[q].status = "archived" => room[q].status = "archived"
BY DEF HubInv, Types

LEMMA SetCheck ==
  ASSUME HubInv, NEW r \in Socket, NEW c \in BOOLEAN, room' = [room EXCEPT ![r].check = c]
  PROVE  /\ room' \in [Socket -> RoomType]
         /\ \A q \in Socket : room'[q].host = room[q].host /\ room'[q].status = room[q].status
BY DEF HubInv, Types, RoomType

LEMMA ForfeitedRoom ==
  ASSUME NEW rm \in RoomType, NEW f \in Forfeited(rm)
  PROVE  /\ f \in RoomType /\ f.host = rm.host
         /\ f.status = "none" <=> rm.status = "none"
         /\ f.status = "archived" => rm.status = "archived"
<1>1. CASE rm.status = "playing"
  <2>1. PICK st \in Between : f = Finished(rm, st)
    BY <1>1 DEF Forfeited
  <2>2. /\ f \in RoomType /\ f.host = rm.host /\ f.status = st
    BY <2>1 DEF Finished, RoomType
  <2> QED BY <1>1, <2>2 DEF Between
<1>2. CASE rm.status # "playing"
  BY <1>2 DEF Forfeited
<1> QED BY <1>1, <1>2

\* A step of socket n that leaves everybody else's loop alone.
LEMMA OneSocket ==
  ASSUME HubInv, NEW n \in Socket, NEW s \in SocketType, sock' = [sock EXCEPT ![n] = s],
         Made \subseteq Made', Rooms \subseteq Rooms',
         s.pc \notin {"none", "closed"} => s.player \in Made',
         s.room # None => s.room \in Rooms',
         s.pc \in {"leaving", "disconnecting"} => s.room # None
  PROVE  sock' \in [Socket -> SocketType] /\ \A m \in Socket : SocketServed(m)'
<1>1. sock' \in [Socket -> SocketType] /\ sock'[n] = s
      /\ \A m \in Socket : m # n => sock'[m] = sock[m]
  BY DEF HubInv, Types
<1>2. ASSUME NEW m \in Socket PROVE SocketServed(m)'
  <2>1. CASE m = n
    BY <1>1, <2>1 DEF SocketServed
  <2>2. CASE m # n
    <3>1. sock'[m] = sock[m] /\ SocketServed(m)
      BY <1>1, <2>2 DEF HubInv, Served
    <3> QED BY <3>1 DEF SocketServed
  <2> QED BY <2>1, <2>2
<1> QED BY <1>1, <1>2

\* Loops and timers that a step leaves alone.
LEMMA SocketsStay ==
  ASSUME HubInv, sock' = sock, Made \subseteq Made', Rooms \subseteq Rooms'
  PROVE  sock' \in [Socket -> SocketType] /\ \A m \in Socket : SocketServed(m)'
BY DEF HubInv, Types, Served, SocketServed

LEMMA TimersStay ==
  ASSUME HubInv, grace' \subseteq grace, Rooms \subseteq Rooms'
  PROVE  \A g \in grace' : g.player \in Socket /\ g.room \in Rooms' /\ g.generation \in Nat
BY DEF HubInv, Served

\* What is left to show of a quiet step that archives nothing and connects nobody.
LEMMA StillKeeps ==
  ASSUME HubInv,
         player' \in [Socket -> PlayerType], room' \in [Socket -> RoomType],
         waiting' \in [Key -> Number], playerRooms' \in [Id -> Number],
         \A p \in Socket : /\ player'[p].id = player[p].id /\ player'[p].key = player[p].key
                           /\ player'[p].generation # 0 <=> player[p].generation # 0
                           /\ player'[p].connected => player[p].connected,
         \A r \in Socket : /\ room'[r].host = room[r].host
                           /\ room'[r].status = "none" <=> room[r].status = "none"
                           /\ room'[r].status = "archived" => room[r].status = "archived",
         \A k \in Key : waiting'[k] \in {waiting[k], None},
         \A id \in Id : playerRooms'[id] \in {playerRooms[id], None},
         \A n \in Socket : sock[n].pc # "none" => sock'[n].pc # "none",
         Made' = Made /\ Rooms' = Rooms =>
           /\ sock' \in [Socket -> SocketType] /\ \A m \in Socket : SocketServed(m)'
           /\ \A g \in grace' : g.player \in Socket /\ g.room \in Rooms' /\ g.generation \in Nat
  PROVE  HubInv'
<1>1. Rooms \subseteq Socket
  BY DEF Rooms
<1>2. \A r \in Rooms : room'[r].status = "archived" =>
        /\ ~ player'[room[r].host].connected /\ ~ player'[r].connected
        /\ \A id \in Id : playerRooms'[id] # r
  BY <1>1, Still
<1>3. Placed' /\ Made' = Made /\ Rooms' = Rooms
  BY <1>2, Quiet
<1> QED BY <1>3 DEF HubInv, Types, Served

-----------------------------------------------------------------------------
(* The actions that open no room. *)

\* A socket that is served has a player, and what its poller finds is a room.
LEMMA Serving ==
  ASSUME HubInv, NEW n \in Socket, sock[n].pc \notin {"none", "closed"}
  PROVE  /\ sock[n] \in SocketType /\ sock[n].player \in Made /\ sock[n].player \in Socket
         /\ player[sock[n].player] \in PlayerType /\ player[sock[n].player].id \in Id
         /\ MappedRoom(n) # None => MappedRoom(n) \in Rooms
         /\ MappedRoom(n) \in Number
<1>1. sock[n] \in SocketType /\ sock[n].player \in Made /\ sock[n].player \in Socket
  BY DEF HubInv, Types, Served, SocketServed, Made
<1>2. player[sock[n].player] \in PlayerType /\ player[sock[n].player].id \in Id
  BY <1>1 DEF HubInv, Types, Placed, PlayersOfSockets
<1> QED BY <1>1, <1>2, EntrySeat DEF MappedRoom, HubInv, Types

LEMMA SocketStep ==
  ASSUME HubInv, NEW n \in Socket, NEW s \in SocketType, sock' = [sock EXCEPT ![n] = s],
         UNCHANGED <<player, room, waiting, playerRooms, grace>>,
         s.pc # "none",
         s.pc \notin {"none", "closed"} => s.player \in Made,
         s.room # None => s.room \in Rooms,
         s.pc \in {"leaving", "disconnecting"} => s.room # None
  PROVE  HubInv'
<1>1. Made' = Made /\ Rooms' = Rooms
  BY DEF Made, Rooms
<1>2. sock' \in [Socket -> SocketType] /\ \A m \in Socket : SocketServed(m)'
  BY <1>1, OneSocket
<1>3. \A g \in grace' : g.player \in Socket /\ g.room \in Rooms' /\ g.generation \in Nat
  BY <1>1, TimersStay
<1>4. \A m \in Socket : sock[m].pc # "none" => sock'[m].pc # "none"
  BY DEF HubInv, Types
<1> QED BY <1>2, <1>3, <1>4, StillKeeps DEF HubInv, Types

LEMMA ReadGenerationKeeps ==
  ASSUME HubInv, NEW n \in Socket, ReadGeneration(n)
  PROVE  HubInv'
<1> DEFINE s == [sock[n] EXCEPT !.pc = "serving", !.generation = player[sock[n].player].generation]
<1>1. sock[n].pc = "joined"
  BY DEF ReadGeneration
<1>2. /\ sock[n] \in SocketType /\ sock[n].player \in Made
      /\ player[sock[n].player].generation \in Nat
  BY <1>1, Serving DEF PlayerType
<1>3. sock' = [sock EXCEPT ![n] = s] /\ UNCHANGED <<player, room, waiting, playerRooms, grace>>
  BY DEF ReadGeneration, HubInv, Types
<1>4. s \in SocketType /\ s.pc = "serving" /\ s.player = sock[n].player /\ s.room = sock[n].room
  BY <1>2 DEF SocketType
<1>5. sock[n].room # None => sock[n].room \in Rooms
  BY DEF HubInv, Served, SocketServed
<1> HIDE DEF s
<1> QED BY <1>2, <1>3, <1>4, <1>5, SocketStep

LEMMA MatchedKeeps ==
  ASSUME HubInv, NEW n \in Socket, Matched(n)
  PROVE  HubInv'
<1> DEFINE r == MappedRoom(n)
           s == [sock[n] EXCEPT !.room = r]
<1>1. sock[n].pc = "serving" /\ r # None
  BY DEF Matched
<1>2. sock[n] \in SocketType /\ sock[n].player \in Made /\ r \in Rooms /\ r \in Number
  BY <1>1, Serving
<1> HIDE DEF r
<1>3. sock' = [sock EXCEPT ![n] = s] /\ UNCHANGED <<player, room, waiting, playerRooms, grace>>
  BY DEF Matched, HubInv, Types, r
<1>4. s \in SocketType /\ s.pc = "serving" /\ s.player = sock[n].player /\ s.room = r
  BY <1>1, <1>2 DEF SocketType
<1> HIDE DEF s
<1> QED BY <1>2, <1>3, <1>4, SocketStep

LEMMA DropKeeps ==
  ASSUME HubInv, NEW n \in Socket, Drop(n)
  PROVE  HubInv'
<1> DEFINE r == IF sock[n].room = None THEN MappedRoom(n) ELSE sock[n].room
           pc == IF r = None THEN "dropping" ELSE "disconnecting"
           s == [sock[n] EXCEPT !.room = r, !.pc = pc]
<1>1. sock[n].pc = "serving"
  BY DEF Drop
<1>2. sock[n].room # None => sock[n].room \in Rooms
  BY DEF HubInv, Served, SocketServed
<1>3. sock[n] \in SocketType /\ sock[n].player \in Made /\ (r # None => r \in Rooms) /\ r \in Number
  BY <1>1, <1>2, Serving DEF SocketType
<1>4. sock' = [sock EXCEPT ![n] = s] /\ UNCHANGED <<player, room, waiting, playerRooms, grace>>
  BY DEF Drop, HubInv, Types
<1> HIDE DEF r
<1>5. pc \in {"dropping", "disconnecting"} /\ (pc = "disconnecting" => r # None)
  OBVIOUS
<1> HIDE DEF pc
<1>6. s \in SocketType /\ s.pc = pc /\ s.player = sock[n].player /\ s.room = r
  BY <1>3, <1>5 DEF SocketType
<1> HIDE DEF s
<1>7. s.pc # "none" /\ (s.pc \in {"leaving", "disconnecting"} => s.room # None)
  BY <1>5, <1>6
<1> QED BY <1>3, <1>4, <1>6, <1>7, SocketStep

LEMMA LeaveKeeps ==
  ASSUME HubInv, NEW n \in Socket, Leave(n)
  PROVE  HubInv'
<1> DEFINE p == sock[n].player
           r == sock[n].room
           s == [sock[n] EXCEPT !.pc = "leaving"]
<1>1. sock[n].pc = "serving" /\ r # None
  BY DEF Leave, Seated
<1>2. sock[n] \in SocketType /\ p \in Made /\ p \in Socket /\ r \in Rooms
  BY <1>1, Serving DEF HubInv, Served, SocketServed
<1>3. r \in Socket /\ room[r] \in RoomType
  BY <1>2, SeatsMade DEF HubInv, Types
<1>4. player' = [player EXCEPT ![p].connected = FALSE] /\ UNCHANGED <<waiting, playerRooms, grace>>
      /\ sock' = [sock EXCEPT ![n] = s]
  BY DEF Leave, HubInv, Types
<1>5. PICK rm \in Forfeited(room[r]) : room' = [room EXCEPT ![r] = rm]
  BY DEF Leave
<1>6. s \in SocketType /\ s.pc = "leaving" /\ s.player = p /\ s.room = r
  BY <1>2 DEF SocketType
<1> HIDE DEF p, r, s
<1>7. /\ player' \in [Socket -> PlayerType]
      /\ \A q \in Socket : /\ player'[q].id = player[q].id /\ player'[q].key = player[q].key
                           /\ player'[q].generation # 0 <=> player[q].generation # 0
                           /\ player'[q].connected => player[q].connected
  BY <1>2, <1>4, SetConnected
<1>8. /\ rm \in RoomType /\ rm.host = room[r].host /\ (rm.status = "none" <=> room[r].status = "none")
      /\ rm.status = "archived" => room[r].status = "archived"
  BY <1>3, <1>5, ForfeitedRoom
<1>9. /\ room' \in [Socket -> RoomType]
      /\ \A q \in Socket : /\ room'[q].host = room[q].host
                           /\ room'[q].status = "none" <=> room[q].status = "none"
                           /\ room'[q].status = "archived" => room[q].status = "archived"
  BY <1>3, <1>5, <1>8, SetRoom
<1>10. ASSUME Made' = Made, Rooms' = Rooms
       PROVE  /\ sock' \in [Socket -> SocketType] /\ \A m \in Socket : SocketServed(m)'
              /\ \A g \in grace' : g.player \in Socket /\ g.room \in Rooms' /\ g.generation \in Nat
  BY <1>1, <1>2, <1>4, <1>6, <1>10, OneSocket, TimersStay
<1>11. \A m \in Socket : sock[m].pc # "none" => sock'[m].pc # "none"
  BY <1>4, <1>6 DEF HubInv, Types
<1> QED BY <1>4, <1>7, <1>9, <1>10, <1>11, StillKeeps DEF HubInv, Types

LEMMA LeaveHubKeeps ==
  ASSUME HubInv, NEW n \in Socket, LeaveHub(n)
  PROVE  HubInv'
<1> DEFINE p == sock[n].player
           r == sock[n].room
           s == [sock[n] EXCEPT !.pc = "disconnecting"]
<1>1. sock[n].pc = "leaving"
  BY DEF LeaveHub
<1>2. sock[n] \in SocketType /\ p \in Made /\ p \in Socket /\ r \in Rooms /\ r # None
      /\ player[p].id \in Id
  BY <1>1, Serving DEF HubInv, Served, SocketServed
<1>3. r \in Socket
  BY <1>2, SeatsMade
<1>4. /\ playerRooms' = [playerRooms EXCEPT ![player[p].id] = IF @ = r THEN None ELSE @]
      /\ room' = [room EXCEPT ![r].check = TRUE]
      /\ sock' = [sock EXCEPT ![n] = s] /\ UNCHANGED <<player, waiting, grace>>
  BY DEF LeaveHub, Unmapped, HubInv, Types
<1>5. s \in SocketType /\ s.pc = "disconnecting" /\ s.player = p /\ s.room = r
  BY <1>2 DEF SocketType
<1> HIDE DEF p, r, s
<1>6. playerRooms' \in [Id -> Number] /\ \A id \in Id : playerRooms'[id] \in {playerRooms[id], None}
  BY <1>2, <1>4 DEF HubInv, Types, Number
<1>7. /\ room' \in [Socket -> RoomType]
      /\ \A q \in Socket : room'[q].host = room[q].host /\ room'[q].status = room[q].status
  BY <1>3, <1>4, SetCheck
<1>8. ASSUME Made' = Made, Rooms' = Rooms
      PROVE  /\ sock' \in [Socket -> SocketType] /\ \A m \in Socket : SocketServed(m)'
             /\ \A g \in grace' : g.player \in Socket /\ g.room \in Rooms' /\ g.generation \in Nat
  BY <1>2, <1>4, <1>5, <1>8, OneSocket, TimersStay
<1>9. \A m \in Socket : sock[m].pc # "none" => sock'[m].pc # "none"
  BY <1>4, <1>5 DEF HubInv, Types
<1> QED BY <1>4, <1>6, <1>7, <1>8, <1>9, StillKeeps DEF HubInv, Types

LEMMA LeaveWaitingKeeps ==
  ASSUME HubInv, NEW n \in Socket, LeaveWaiting(n)
  PROVE  HubInv'
<1> DEFINE p == sock[n].player
<1>1. sock[n].pc = "dropping"
  BY DEF LeaveWaiting
<1>2. p \in Socket
  BY <1>1, Serving
<1>3. /\ player' = [player EXCEPT ![p].connected = FALSE]
      /\ waiting' = [k \in Key |-> IF waiting[k] = p THEN None ELSE waiting[k]]
      /\ sock' = [sock EXCEPT ![n] = Closed] /\ UNCHANGED <<room, playerRooms, grace>>
  BY DEF LeaveWaiting
<1> HIDE DEF p
<1>4. Closed \in SocketType /\ Closed.pc = "closed" /\ Closed.room = None
  BY DEF Closed, NoSocket, SocketType, Number
<1>5. /\ player' \in [Socket -> PlayerType]
      /\ \A q \in Socket :
           /\ player'[q].id = player[q].id /\ player'[q].key = player[q].key
           /\ player'[q].generation # 0 <=> player[q].generation # 0
           /\ player'[q].connected => player[q].connected
  BY <1>2, <1>3, SetConnected
<1>6. waiting' \in [Key -> Number] /\ \A k \in Key : waiting'[k] \in {waiting[k], None}
  BY <1>3 DEF HubInv, Types, Number
<1>7. ASSUME Made' = Made, Rooms' = Rooms
      PROVE  /\ sock' \in [Socket -> SocketType] /\ \A m \in Socket : SocketServed(m)'
             /\ \A g \in grace' : g.player \in Socket /\ g.room \in Rooms' /\ g.generation \in Nat
  BY <1>3, <1>4, <1>7, OneSocket, TimersStay
<1>8. \A m \in Socket : sock[m].pc # "none" => sock'[m].pc # "none"
  BY <1>3, <1>4 DEF HubInv, Types
<1> QED BY <1>3, <1>5, <1>6, <1>7, <1>8, StillKeeps DEF HubInv, Types

LEMMA DisconnectKeeps ==
  ASSUME HubInv, NEW n \in Socket, Disconnect(n)
  PROVE  HubInv'
<1> DEFINE p == sock[n].player
           r == sock[n].room
           g == [player |-> p, room |-> r, generation |-> sock[n].generation]
<1>1. sock[n].pc = "disconnecting"
  BY DEF Disconnect
<1>2. p \in Socket /\ r \in Rooms /\ r \in Socket /\ sock[n].generation \in Nat
  BY <1>1, Serving, SeatsMade DEF HubInv, Served, SocketServed, SocketType
<1>3. /\ sock' = [sock EXCEPT ![n] = Closed] /\ UNCHANGED <<waiting, playerRooms>>
      /\ \/ /\ player' = [player EXCEPT ![p].connected = FALSE]
            /\ room' = [room EXCEPT ![r].check = TRUE]
            /\ grace' = grace \cup {g}
         \/ UNCHANGED <<player, room, grace>>
  BY DEF Disconnect
<1>a. g.player = p /\ g.room = r /\ g.generation = sock[n].generation
  OBVIOUS
<1> HIDE DEF p, r, g
<1>4. Closed \in SocketType /\ Closed.pc = "closed" /\ Closed.room = None
  BY DEF Closed, NoSocket, SocketType, Number
<1>5. /\ player' \in [Socket -> PlayerType]
      /\ \A q \in Socket :
           /\ player'[q].id = player[q].id /\ player'[q].key = player[q].key
           /\ player'[q].generation # 0 <=> player[q].generation # 0
           /\ player'[q].connected => player[q].connected
  BY <1>2, <1>3, SetConnected DEF HubInv, Types
<1>6. /\ room' \in [Socket -> RoomType]
      /\ \A q \in Socket : room'[q].host = room[q].host /\ room'[q].status = room[q].status
  BY <1>2, <1>3, SetCheck DEF HubInv, Types
<1>7. ASSUME Made' = Made, Rooms' = Rooms
      PROVE  /\ sock' \in [Socket -> SocketType] /\ \A m \in Socket : SocketServed(m)'
             /\ \A h \in grace' : h.player \in Socket /\ h.room \in Rooms' /\ h.generation \in Nat
  <2>1. sock' \in [Socket -> SocketType] /\ \A m \in Socket : SocketServed(m)'
    BY <1>3, <1>4, <1>7, OneSocket
  <2>2. \A h \in grace : h.player \in Socket /\ h.room \in Rooms /\ h.generation \in Nat
    BY DEF HubInv, Served
  <2>3. \A h \in grace' : h \in grace \/ h = g
    BY <1>3
  <2> QED BY <1>2, <1>7, <1>a, <2>1, <2>2, <2>3
<1>8. \A m \in Socket : sock[m].pc # "none" => sock'[m].pc # "none"
  BY <1>3, <1>4 DEF HubInv, Types
<1> QED BY <1>3, <1>5, <1>6, <1>7, <1>8, StillKeeps DEF HubInv, Types

\* A step that changes the status of room r, without opening or archiving it.
LEMMA RoomStep ==
  ASSUME HubInv, NEW r \in Socket, NEW rm \in RoomType, room' = [room EXCEPT ![r] = rm],
         rm.host = room[r].host, rm.status = "none" <=> room[r].status = "none",
         rm.status = "archived" => room[r].status = "archived",
         UNCHANGED <<sock, player, waiting, playerRooms>>, grace' \subseteq grace
  PROVE  HubInv'
<1>1. /\ room' \in [Socket -> RoomType]
      /\ \A q \in Socket :
           /\ room'[q].host = room[q].host
           /\ room'[q].status = "none" <=> room[q].status = "none"
           /\ room'[q].status = "archived" => room[q].status = "archived"
  BY SetRoom
<1>2. ASSUME Made' = Made, Rooms' = Rooms
      PROVE  /\ sock' \in [Socket -> SocketType] /\ \A m \in Socket : SocketServed(m)'
             /\ \A g \in grace' : g.player \in Socket /\ g.room \in Rooms' /\ g.generation \in Nat
  BY <1>2, SocketsStay, TimersStay
<1> QED BY <1>1, <1>2, StillKeeps DEF HubInv, Types

LEMMA ExpireKeeps ==
  ASSUME HubInv, NEW g \in grace, Expire(g)
  PROVE  HubInv'
<1> DEFINE r == g.room
<1>1. r \in Rooms /\ r \in Socket /\ room[r] \in RoomType
  BY SeatsMade DEF HubInv, Served, Types
<1>2. UNCHANGED <<sock, player, waiting, playerRooms>> /\ grace' \subseteq grace
  BY DEF Expire
<1>3. \/ \E rm \in Forfeited(room[r]) : room' = [room EXCEPT ![r] = rm]
      \/ room' = room
  BY DEF Expire
<1> HIDE DEF r
<1>4. CASE \E rm \in Forfeited(room[r]) : room' = [room EXCEPT ![r] = rm]
  BY <1>1, <1>2, <1>4, ForfeitedRoom, RoomStep
<1>5. CASE room' = room
  <2>1. room' = [room EXCEPT ![r] = room[r]]
    BY <1>1, <1>5 DEF HubInv, Types
  <2> QED BY <1>1, <1>2, <2>1, RoomStep
<1> QED BY <1>3, <1>4, <1>5

LEMMA EndRoundKeeps ==
  ASSUME HubInv, NEW r \in Rooms, EndRound(r)
  PROVE  HubInv'
<1>1. r \in Socket /\ room[r] \in RoomType
  BY SeatsMade DEF HubInv, Types
<1>2. PICK rm \in Forfeited(room[r]) : room' = [room EXCEPT ![r] = rm]
  BY DEF EndRound
<1>3. UNCHANGED <<sock, player, waiting, playerRooms>> /\ grace' \subseteq grace
  BY DEF EndRound
<1> QED BY <1>1, <1>2, <1>3, ForfeitedRoom, RoomStep

LEMMA AcceptDrawKeeps ==
  ASSUME HubInv, NEW n \in Socket, AcceptDraw(n)
  PROVE  HubInv'
<1> DEFINE r == sock[n].room
           rm == [room[r] EXCEPT !.status = "round-finished"]
<1>1. r # None
  BY DEF AcceptDraw, Seated
<1>2. r \in Rooms /\ r \in Socket /\ room[r] \in RoomType /\ room[r].status # "none"
  BY <1>1, SeatsMade DEF HubInv, Served, SocketServed, Types, Rooms
<1>3. room' = [room EXCEPT ![r] = rm] /\ UNCHANGED <<sock, player, waiting, playerRooms, grace>>
  BY DEF AcceptDraw, HubInv, Types
<1> HIDE DEF r
<1>4. rm \in RoomType /\ rm.host = room[r].host /\ rm.status = "round-finished"
  BY <1>2 DEF RoomType, Between
<1> HIDE DEF rm
<1> QED BY <1>2, <1>3, <1>4, RoomStep

LEMMA ReadyRematchKeeps ==
  ASSUME HubInv, NEW n \in Socket, ReadyRematch(n)
  PROVE  HubInv'
<1> DEFINE r == sock[n].room
           mark == Mark(SeatOf(r, player[sock[n].player].id))
           ready == room[r].ready \cup {mark}
           both == [room[r] EXCEPT !.ready = {}, !.status = "playing"]
           one == [room[r] EXCEPT !.ready = ready]
<1>1. r # None
  BY DEF ReadyRematch, Seated
<1>2. r \in Rooms /\ r \in Socket /\ room[r] \in RoomType /\ room[r].status # "none"
  BY <1>1, SeatsMade DEF HubInv, Served, SocketServed, Types, Rooms
<1>3. /\ room' = [room EXCEPT ![r] = both] \/ room' = [room EXCEPT ![r] = one]
      /\ UNCHANGED <<sock, player, waiting, playerRooms, grace>>
  BY DEF ReadyRematch, HubInv, Types
<1>4. mark \in {"one", "two"}
  BY DEF Mark
<1> HIDE DEF r, mark
<1>5. ready \in SUBSET {"one", "two"}
  BY <1>2, <1>4 DEF RoomType
<1> HIDE DEF ready
<1>6. /\ both \in RoomType /\ both.host = room[r].host /\ both.status = "playing"
      /\ one \in RoomType /\ one.host = room[r].host /\ one.status = room[r].status
  BY <1>2, <1>5 DEF RoomType
<1> HIDE DEF both, one
<1> QED BY <1>2, <1>3, <1>6, RoomStep

\* The entries that are dropped with room r.
LEMMA UnmappedEntries ==
  ASSUME HubInv, NEW r \in Rooms, playerRooms' = UnmappedAll(r)
  PROVE  /\ playerRooms' \in [Id -> Number]
         /\ \A id \in Id : playerRooms'[id] \in {playerRooms[id], None} /\ playerRooms'[id] # r
<1>1. r \in Socket /\ r # None /\ playerRooms \in [Id -> Number] /\ None \in Number
  BY SeatsMade, Numbers DEF HubInv, Types
<1>2. \A id \in Id : playerRooms[id] = r => InRoom(r, id)
  BY <1>1 DEF HubInv, Placed, EntriesSeat, InRoom
<1> QED BY <1>1, <1>2 DEF UnmappedAll

LEMMA CleanupKeeps ==
  ASSUME HubInv, NEW r \in Rooms, Cleanup(r)
  PROVE  HubInv'
<1> DEFINE rm == [room[r] EXCEPT !.cleanup = "done", !.listed = FALSE]
<1>1. r \in Socket /\ room[r] \in RoomType
  BY SeatsMade DEF HubInv, Types
<1>2. room' = [room EXCEPT ![r] = rm] /\ playerRooms' = UnmappedAll(r)
      /\ UNCHANGED <<sock, player, waiting, grace>>
  BY DEF Cleanup, HubInv, Types
<1>3. rm \in RoomType /\ rm.host = room[r].host /\ rm.status = room[r].status
  BY <1>1 DEF RoomType
<1> HIDE DEF rm
<1>4. /\ room' \in [Socket -> RoomType]
      /\ \A q \in Socket :
           /\ room'[q].host = room[q].host
           /\ room'[q].status = "none" <=> room[q].status = "none"
           /\ room'[q].status = "archived" => room[q].status = "archived"
  BY <1>1, <1>2, <1>3, SetRoom
<1>5. /\ playerRooms' \in [Id -> Number]
      /\ \A id \in Id : playerRooms'[id] \in {playerRooms[id], None}
  BY <1>2, UnmappedEntries
<1>6. ASSUME Made' = Made, Rooms' = Rooms
      PROVE  /\ sock' \in [Socket -> SocketType] /\ \A m \in Socket : SocketServed(m)'
             /\ \A g \in grace' : g.player \in Socket /\ g.room \in Rooms' /\ g.generation \in Nat
  BY <1>2, <1>6, SocketsStay, TimersStay
<1> QED BY <1>2, <1>4, <1>5, <1>6, StillKeeps DEF HubInv, Types

LEMMA AbandonCheckKeeps ==
  ASSUME HubInv, NEW r \in Rooms, AbandonCheck(r)
  PROVE  HubInv'
<1> DEFINE rm == [room[r] EXCEPT !.check = FALSE, !.status = "archived", !.listed = FALSE]
<1>1. r \in Socket /\ room[r] \in RoomType /\ room[r].status # "none"
  BY SeatsMade DEF HubInv, Types, Rooms
<1>2. room' = [room EXCEPT ![r] = rm] /\ playerRooms' = UnmappedAll(r)
      /\ UNCHANGED <<sock, player, waiting, grace>>
  BY DEF AbandonCheck, HubInv, Types
<1>3. rm \in RoomType /\ rm.host = room[r].host /\ rm.status = "archived"
  BY <1>1 DEF RoomType
<1>4. ~ player[room[r].host].connected /\ ~ player[r].connected
  BY DEF AbandonCheck, Abandoned, Seats
<1> HIDE DEF rm
<1>5. /\ room' \in [Socket -> RoomType] /\ room'[r] = rm
      /\ \A q \in Socket : q # r => room'[q] = room[q]
      /\ \A q \in Socket :
           /\ room'[q].host = room[q].host
           /\ room'[q].status = "none" <=> room[q].status = "none"
  BY <1>1, <1>2, <1>3 DEF HubInv, Types
<1>6. /\ playerRooms' \in [Id -> Number]
      /\ \A id \in Id : playerRooms'[id] \in {playerRooms[id], None} /\ playerRooms'[id] # r
  BY <1>2, UnmappedEntries
<1>7. ASSUME NEW q \in Rooms, room'[q].status = "archived"
      PROVE  /\ ~ player'[room[q].host].connected /\ ~ player'[q].connected
             /\ \A id \in Id : playerRooms'[id] # q
  <2>1. CASE q = r
    BY <1>2, <1>4, <1>6, <2>1
  <2>2. CASE q # r
    <3>1. q \in Socket /\ q # None
      BY SeatsMade, Numbers
    <3>2. room[q].status = "archived"
      BY <1>5, <1>7, <2>2, <3>1
    <3>3. ~ player[room[q].host].connected /\ ~ player[q].connected
      BY <3>2 DEF HubInv, Placed, ArchivedIsEmpty
    <3>4. \A id \in Id : playerRooms[id] # q
      BY <3>1, <3>2 DEF HubInv, Placed, EntriesSeat
    <3> QED BY <1>2, <1>6, <3>1, <3>3, <3>4
  <2> QED BY <2>1, <2>2
<1>8. Placed' /\ Made' = Made /\ Rooms' = Rooms
  <2>1. \A q \in Rooms : room'[q].status = "archived" =>
          /\ ~ player'[room[q].host].connected /\ ~ player'[q].connected
          /\ \A id \in Id : playerRooms'[id] # q
    BY <1>7
  <2>2. \A id \in Id : playerRooms'[id] \in {playerRooms[id], None}
    BY <1>6
  <2> QED BY <1>2, <1>5, <2>1, <2>2, Quiet
<1>9. /\ sock' \in [Socket -> SocketType] /\ \A m \in Socket : SocketServed(m)'
      /\ \A g \in grace' : g.player \in Socket /\ g.room \in Rooms' /\ g.generation \in Nat
  BY <1>2, <1>8, SocketsStay, TimersStay
<1> QED BY <1>2, <1>5, <1>6, <1>8, <1>9 DEF HubInv, Types, Served

LEMMA BackAgain ==
  ASSUME NEW x \in PlayerType, NEW g \in Nat
  PROVE  [x EXCEPT !.connected = TRUE, !.generation = g] =
           [id |-> x.id, key |-> x.key, connected |-> TRUE, generation |-> g]
<1>1. x = [id |-> x.id, key |-> x.key, connected |-> x.connected, generation |-> x.generation]
  BY DEF PlayerType
<1> DEFINE y == [x EXCEPT !.connected = TRUE, !.generation = g]
<1>2. y \in PlayerType
  BY DEF PlayerType
<1>3. y.id = x.id /\ y.key = x.key /\ y.connected = TRUE /\ y.generation = g
  BY DEF PlayerType
<1> HIDE DEF y
<1>4. y = [id |-> y.id, key |-> y.key, connected |-> y.connected, generation |-> y.generation]
  BY <1>2 DEF PlayerType
<1>5. y = [id |-> x.id, key |-> x.key, connected |-> TRUE, generation |-> g]
  BY <1>3, <1>4
<1> QED BY <1>5 DEF y

\* A player comes back to a seat: in a room that is not archived.
LEMMA ResumeKeeps ==
  ASSUME HubInv, NEW n \in Socket, NEW id \in Id, NEW k \in Key, Resume(n, id, k)
  PROVE  HubInv'
<1> DEFINE r == playerRooms[id]
           p == SeatOf(r, id)
           s == Joined(p, r)
<1>1. r # None /\ sock[n].pc = "none"
  BY DEF Resume, Resumes, NextSocket
<1>2. r \in Rooms /\ r \in Socket /\ p \in Seats(r) /\ p \in Made /\ p \in Socket
  BY <1>1, EntrySeat
<1>3. room[r].status # "archived"
  BY <1>2 DEF HubInv, Placed, EntriesSeat
<1>4. /\ player' = [player EXCEPT ![p].connected = TRUE, ![p].generation = @ + 1]
      /\ sock' = [sock EXCEPT ![n] = s] /\ UNCHANGED <<room, waiting, playerRooms, grace>>
  BY DEF Resume
<1>5. s \in SocketType /\ s.pc = "joined" /\ s.player = p /\ s.room = r
  BY <1>2, Numbers DEF Joined, SocketType
<1> HIDE DEF r, p, s
<1>6. /\ player' \in [Socket -> PlayerType]
      /\ \A q \in Socket :
           /\ player'[q].id = player[q].id /\ player'[q].key = player[q].key
           /\ player'[q].generation # 0 <=> player[q].generation # 0
           /\ q # p => player'[q] = player[q]
  <2>1. player[p] \in PlayerType /\ player[p].generation # 0 /\ player[p].generation \in Nat
    BY <1>2 DEF HubInv, Types, Made, PlayerType
  <2> DEFINE g == player[p].generation + 1
             back == [id |-> player[p].id, key |-> player[p].key, connected |-> TRUE,
                      generation |-> g]
  <2>2. g \in Nat /\ g # 0
    BY <2>1
  <2>3. player \in [Socket -> PlayerType]
    BY DEF HubInv, Types
  <2>4. player' = [player EXCEPT ![p] = back]
    <3>1. player' = [player EXCEPT ![p] = [@ EXCEPT !.connected = TRUE, !.generation = g]]
      BY <1>4
    <3>2. [player[p] EXCEPT !.connected = TRUE, !.generation = g] = back
      BY <2>1, <2>2, BackAgain
    <3> HIDE DEF g, back
    <3> QED BY <1>2, <2>3, <3>1, <3>2
  <2> HIDE DEF g
  <2>5. back \in PlayerType /\ back.id = player[p].id /\ back.key = player[p].key
        /\ back.generation # 0
    BY <2>1, <2>2 DEF PlayerType
  <2> HIDE DEF back
  <2>6. player' \in [Socket -> PlayerType] /\ player'[p] = back
        /\ \A q \in Socket : q # p => player'[q] = player[q]
    BY <1>2, <2>3, <2>4, <2>5
  <2> QED BY <2>1, <2>5, <2>6
<1>7. ASSUME NEW q \in Rooms, room[q].status = "archived"
      PROVE  /\ ~ player'[room[q].host].connected /\ ~ player'[q].connected
             /\ \A i \in Id : playerRooms[i] # q
  <2>1. q \in Socket /\ room[q].host \in Socket
    BY SeatsMade
  <2>2. Seats(q) \cap Seats(r) = {}
    BY <1>2, <1>3, <1>7 DEF HubInv, Placed, SeatsApart
  <2>3. q # p /\ room[q].host # p
    BY <1>2, <2>2 DEF Seats
  <2>4. ~ player[room[q].host].connected /\ ~ player[q].connected
    BY <1>7 DEF HubInv, Placed, ArchivedIsEmpty
  <2>5. \A i \in Id : playerRooms[i] # q
    BY <1>7, <2>1 DEF HubInv, Placed, EntriesSeat
  <2> QED BY <1>6, <2>1, <2>3, <2>4, <2>5
<1>8. \A m \in Socket : sock[m].pc # "none" => sock'[m].pc # "none"
  BY <1>4, <1>5 DEF HubInv, Types
<1>9. Placed' /\ Made' = Made /\ Rooms' = Rooms
  BY <1>4, <1>6, <1>7, <1>8, Quiet
<1>10. sock' \in [Socket -> SocketType] /\ \A m \in Socket : SocketServed(m)'
  BY <1>2, <1>4, <1>5, <1>9, OneSocket
<1>11. \A g \in grace' : g.player \in Socket /\ g.room \in Rooms' /\ g.generation \in Nat
  BY <1>4, <1>9, TimersStay
<1> QED BY <1>4, <1>6, <1>9, <1>10, <1>11 DEF HubInv, Types, Served

-----------------------------------------------------------------------------
(* The actions that make a player or open a room. *)

\* A step that makes players, puts them in queues or opens room r.
LEMMA Grown ==
  ASSUME HubInv, NEW r \in Socket,
         \A p \in Made : /\ p \in Made'
                         /\ player'[p].id = player[p].id /\ player'[p].key = player[p].key
                         /\ player'[p].connected => player[p].connected,
         PlayersOfSockets',
         Rooms \subseteq Rooms', Rooms' \subseteq Rooms \cup {r},
         \A q \in Rooms : room'[q].host = room[q].host /\ room'[q].status = room[q].status,
         r \in Rooms' \ Rooms =>
           /\ r \in Made' /\ room'[r].host \in Made' /\ room'[r].status = "playing"
           /\ ~ SameAccount(player'[room'[r].host].id, player'[r].id)
           /\ \A q \in Rooms : r \notin Seats(q) /\ room'[r].host \notin Seats(q),
         QueuesOfPlayers', SeatedDoNotWait',
         \A id \in Id :
           \/ playerRooms'[id] \in {playerRooms[id], None}
           \/ /\ playerRooms'[id] = r /\ r \in Rooms' \ Rooms
              /\ id \in {player'[room'[r].host].id, player'[r].id}
  PROVE  Placed'
<1>1. \A q \in Rooms : /\ q \in Made /\ room[q].host \in Made
                       /\ q \in Made' /\ room'[q].host \in Made'
  BY SeatsMade
<1>2. RoomsOfPlayers'
  BY <1>1 DEF RoomsOfPlayers
<1>3. \A q \in Rooms : {room'[q].host, q} = Seats(q)
  BY DEF Seats
<1>4. SeatsApart'
  <2> SUFFICES ASSUME NEW q \in Rooms', NEW s \in Rooms', q # s
               PROVE  {room'[q].host, q} \cap {room'[s].host, s} = {}
    BY DEF SeatsApart, Seats
  <2>1. CASE q \in Rooms /\ s \in Rooms
    BY <1>3, <2>1 DEF HubInv, Placed, SeatsApart
  <2>2. CASE q \notin Rooms
    <3>1. q = r /\ s \in Rooms
      BY <2>2
    <3> QED BY <1>3, <2>2, <3>1
  <2>3. CASE s \notin Rooms
    <3>1. s = r /\ q \in Rooms
      BY <2>3
    <3> QED BY <1>3, <2>3, <3>1
  <2> QED BY <2>1, <2>2, <2>3
<1>5. NoSelfPlay'
  <2> SUFFICES ASSUME NEW q \in Rooms'
               PROVE  ~ SameAccount(player'[room'[q].host].id, player'[q].id)
    BY DEF NoSelfPlay, SameAccount
  <2>1. CASE q \in Rooms
    BY <1>1, <2>1 DEF HubInv, Placed, NoSelfPlay, SameAccount
  <2> QED BY <2>1
<1>6. EntriesSeat'
  <2> SUFFICES ASSUME NEW id \in Id, NEW q \in Socket, playerRooms'[id] = q
               PROVE  /\ q \in Rooms' /\ room'[q].status # "archived"
                      /\ \E p \in {room'[q].host, q} : player'[p].id = id
    BY DEF EntriesSeat, Seats
  <2>1. CASE playerRooms[id] = q
    <3>1. q \in Rooms /\ room[q].status # "archived" /\ \E p \in Seats(q) : player[p].id = id
      BY <2>1 DEF HubInv, Placed, EntriesSeat
    <3>2. PICK p \in Seats(q) : player[p].id = id
      BY <3>1
    <3>3. player'[p].id = id
      BY <1>1, <3>1, <3>2 DEF Seats
    <3> QED BY <1>3, <3>1, <3>2, <3>3
  <2>2. CASE q = r /\ r \in Rooms' \ Rooms /\ id \in {player'[room'[r].host].id, player'[r].id}
    BY <2>2
  <2> QED BY <2>1, <2>2, Numbers
<1>7. ArchivedIsEmpty'
  <2> SUFFICES ASSUME NEW q \in Rooms', room'[q].status = "archived"
               PROVE  ~ player'[room'[q].host].connected /\ ~ player'[q].connected
    BY DEF ArchivedIsEmpty
  <2>1. q \in Rooms /\ room[q].status = "archived"
    OBVIOUS
  <2> QED BY <1>1, <2>1 DEF HubInv, Placed, ArchivedIsEmpty
<1> QED BY <1>2, <1>4, <1>5, <1>6, <1>7 DEF Placed

\* What reconnectLocked does to an old seat makes nobody and opens nothing.
LEMMA Released ==
  ASSUME HubInv, NEW id \in Id, NEW k \in Key
  PROVE  /\ ReleasedPlayers(id, k) \in [Socket -> PlayerType]
         /\ ReleasedRooms(id, k) \in [Socket -> RoomType]
         /\ \A p \in Socket :
              LET q == ReleasedPlayers(id, k)[p]
              IN  /\ q.id = player[p].id /\ q.key = player[p].key
                  /\ q.generation # 0 <=> player[p].generation # 0
                  /\ q.connected => player[p].connected
         /\ \A r \in Socket : /\ ReleasedRooms(id, k)[r].host = room[r].host
                              /\ ReleasedRooms(id, k)[r].status = room[r].status
<1>1. CASE MovedOn(id, k)
  <2> DEFINE r == playerRooms[id]
             p == SeatOf(r, id)
  <2>1. r \in Socket /\ p \in Socket
    BY <1>1, EntrySeat DEF MovedOn
  <2>2. /\ ReleasedPlayers(id, k) = [player EXCEPT ![p].connected = FALSE]
        /\ ReleasedRooms(id, k) = [room EXCEPT ![r].check = TRUE]
    BY <1>1 DEF ReleasedPlayers, ReleasedRooms
  <2> HIDE DEF r, p
  <2>3. player \in [Socket -> PlayerType] /\ room \in [Socket -> RoomType]
    BY DEF HubInv, Types
  <2> DEFINE pls == ReleasedPlayers(id, k)
             rms == ReleasedRooms(id, k)
  <2> HIDE DEF pls, rms
  <2>4. pls = [player EXCEPT ![p].connected = FALSE] /\ rms = [room EXCEPT ![r].check = TRUE]
    BY <2>2 DEF pls, rms
  <2>5. /\ pls \in [Socket -> PlayerType]
        /\ \A o \in Socket :
             /\ pls[o].id = player[o].id /\ pls[o].key = player[o].key
             /\ pls[o].generation # 0 <=> player[o].generation # 0
             /\ pls[o].connected => player[o].connected
    BY <2>1, <2>3, <2>4 DEF PlayerType
  <2>6. /\ rms \in [Socket -> RoomType]
        /\ \A q \in Socket : rms[q].host = room[q].host /\ rms[q].status = room[q].status
    BY <2>1, <2>3, <2>4 DEF RoomType
  <2> QED BY <2>5, <2>6 DEF pls, rms
<1>2. CASE ~ MovedOn(id, k)
  BY <1>2 DEF ReleasedPlayers, ReleasedRooms, HubInv, Types
<1> QED BY <1>1, <1>2

\* A socket that has not joined has no player, no seat and no room.
LEMMA Fresh ==
  ASSUME HubInv, NEW n \in Socket, sock[n].pc = "none"
  PROVE  /\ n \notin Made /\ n \notin Rooms
         /\ \A q \in Rooms : n \notin Seats(q)
         /\ \A k \in Key : waiting[k] # n
<1>1. n \notin Made
  BY DEF HubInv, Placed, PlayersOfSockets
<1> QED BY <1>1, SeatsMade, Numbers DEF HubInv, Placed, QueuesOfPlayers

\* The joining socket's player, made in its number.
LEMMA MadeNow ==
  ASSUME NEW n \in Socket, NEW id \in Id, NEW k \in Key
  PROVE  /\ NewPlayer(id, k) \in PlayerType
         /\ NewPlayer(id, k).id = id /\ NewPlayer(id, k).key = k
         /\ NewPlayer(id, k).generation # 0
BY DEF NewPlayer, PlayerType

LEMMA EnqueueKeeps ==
  ASSUME HubInv, NEW n \in Socket, NEW id \in Id, NEW k \in Key, Enqueue(n, id, k)
  PROVE  HubInv'
<1> DEFINE released == ReleasedPlayers(id, k)
           new == NewPlayer(id, k)
           s == Joined(n, None)
<1>1. /\ sock[n].pc = "none" /\ room' = ReleasedRooms(id, k)
      /\ waiting' = [waiting EXCEPT ![k] = n]
      /\ playerRooms' = [playerRooms EXCEPT ![id] = None]
      /\ sock' = [sock EXCEPT ![n] = s] /\ grace' = grace
  BY DEF Enqueue, NextSocket
<1>2. PICK gone \in SUBSET Socket :
        player' = [p \in Socket |-> CASE p = n -> new
                                      [] p # n /\ p \in gone ->
                                           [released[p] EXCEPT !.connected = FALSE]
                                      [] OTHER -> released[p]]
  <2> DEFINE replaced == waiting[k] # None /\ SameAccount(player[waiting[k]].id, id)
  <2>1. player' = [p \in Socket |-> CASE p = n -> new
                                      [] p # n /\ p \in {q \in Socket : replaced /\ q = waiting[k]} ->
                                           [released[p] EXCEPT !.connected = FALSE]
                                      [] OTHER -> released[p]]
    BY DEF Enqueue
  <2> QED BY <2>1
<1>3. /\ new \in PlayerType /\ new.id = id /\ new.key = k /\ new.generation # 0
      /\ s \in SocketType /\ s.pc = "joined" /\ s.player = n /\ s.room = None
  BY MadeNow, Numbers DEF Joined, SocketType
<1>4. /\ released \in [Socket -> PlayerType]
      /\ \A p \in Socket : /\ released[p].id = player[p].id /\ released[p].key = player[p].key
                           /\ released[p].generation # 0 <=> player[p].generation # 0
                           /\ released[p].connected => player[p].connected
  BY Released
<1>5. /\ room' \in [Socket -> RoomType]
      /\ \A r \in Socket : room'[r].host = room[r].host /\ room'[r].status = room[r].status
  BY <1>1, Released
<1>6. /\ n \notin Made /\ \A q \in Rooms : n \notin Seats(q)
      /\ \A l \in Key : waiting[l] # n
  BY <1>1, Fresh
<1> HIDE DEF released, new, s
<1>7. player'[n] = new
  BY <1>2
<1>8. ASSUME NEW p \in Socket, p # n
      PROVE  /\ player'[p] \in PlayerType
             /\ player'[p].id = player[p].id /\ player'[p].key = player[p].key
             /\ player'[p].generation # 0 <=> player[p].generation # 0
             /\ player'[p].connected => player[p].connected
  <2>1. CASE p \in gone
    <3>1. player'[p] = [released[p] EXCEPT !.connected = FALSE]
      BY <1>2, <1>8, <2>1
    <3>2. released[p] \in PlayerType
      BY <1>4
    <3> QED BY <1>4, <3>1, <3>2 DEF PlayerType
  <2>2. CASE p \notin gone
    <3>1. player'[p] = released[p]
      BY <1>2, <1>8, <2>2
    <3> QED BY <1>4, <3>1
  <2> QED BY <2>1, <2>2
<1>9. player' \in [Socket -> PlayerType]
  <2>1. \A p \in Socket : player'[p] \in PlayerType
    BY <1>3, <1>7, <1>8
  <2>2. player' = [p \in Socket |-> player'[p]]
    BY <1>2
  <2> QED BY <2>1, <2>2
<1>10. Rooms' = Rooms
  BY <1>5 DEF Rooms
<1>11. Made' = Made \cup {n} /\ Made \subseteq Socket
  BY <1>3, <1>7, <1>8 DEF Made
<1>12. \A p \in Made : p \in Socket /\ p # n /\ p \in Made'
  BY <1>6, <1>11
<1>13. PlayersOfSockets'
  <2>1. sock \in [Socket -> SocketType]
    BY DEF HubInv, Types
  <2>2. \A p \in Made : player'[p].id \in Id /\ player'[p].key \in Key /\ sock'[p].pc # "none"
    BY <1>1, <1>8, <1>12, <2>1 DEF HubInv, Placed, PlayersOfSockets
  <2>3. player'[n].id \in Id /\ player'[n].key \in Key /\ sock'[n].pc # "none"
    BY <1>1, <1>3, <1>7, <2>1
  <2> QED BY <1>11, <2>2, <2>3 DEF PlayersOfSockets
<1>14. /\ waiting \in [Key -> Number] /\ playerRooms \in [Id -> Number]
       /\ n \in Number /\ None \in Number
  BY Numbers DEF HubInv, Types
<1>15. QueuesOfPlayers'
  <2> SUFFICES ASSUME NEW l \in Key, waiting'[l] # None
               PROVE  waiting'[l] \in Made' /\ player'[waiting'[l]].key = l
    BY DEF QueuesOfPlayers
  <2>1. CASE l = k
    BY <1>1, <1>3, <1>7, <1>11, <1>14, <2>1
  <2>2. CASE l # k
    <3>1. waiting'[l] = waiting[l] /\ waiting[l] \in Made /\ player[waiting[l]].key = l
      BY <1>1, <1>14, <2>2 DEF HubInv, Placed, QueuesOfPlayers
    <3> QED BY <1>8, <1>12, <3>1
  <2> QED BY <2>1, <2>2
<1>16. SeatedDoNotWait'
  <2>1. \A q \in Rooms : {room'[q].host, q} = Seats(q)
    BY <1>5 DEF Seats, Rooms
  <2>2. \A q \in Rooms, l \in Key : waiting'[l] \notin Seats(q)
    BY <1>1, <1>6, <1>14 DEF HubInv, Placed, SeatedDoNotWait
  <2> QED BY <1>10, <2>1, <2>2 DEF SeatedDoNotWait, Seats
<1>17. \A i \in Id : playerRooms'[i] \in {playerRooms[i], None}
  BY <1>1, <1>14
<1>18. \A q \in Rooms : room'[q].host = room[q].host /\ room'[q].status = room[q].status
  BY <1>5 DEF Rooms
<1>19. \A p \in Made : /\ p \in Made'
                       /\ player'[p].id = player[p].id /\ player'[p].key = player[p].key
                       /\ player'[p].connected => player[p].connected
  BY <1>8, <1>12
<1>20. Placed'
  BY <1>10, <1>13, <1>15, <1>16, <1>17, <1>18, <1>19, Grown
<1>21. waiting' \in [Key -> Number] /\ playerRooms' \in [Id -> Number]
  BY <1>1, <1>14
<1>22. sock' \in [Socket -> SocketType] /\ \A m \in Socket : SocketServed(m)'
  BY <1>1, <1>3, <1>10, <1>11, OneSocket
<1>23. \A g \in grace' : g.player \in Socket /\ g.room \in Rooms' /\ g.generation \in Nat
  BY <1>1, <1>10, TimersStay
<1> QED BY <1>5, <1>9, <1>20, <1>21, <1>22, <1>23 DEF HubInv, Types, Served

\* The room that is opened.
LEMMA OpenedRoom ==
  ASSUME NEW h \in Number
  PROVE  Opened(h) \in RoomType /\ Opened(h).host = h /\ Opened(h).status = "playing"
BY DEF Opened, NoRoom, RoomType

LEMMA PairKeeps ==
  ASSUME HubInv, NEW n \in Socket, NEW id \in Id, NEW k \in Key, Pair(n, id, k)
  PROVE  HubInv'
<1> DEFINE released == ReleasedPlayers(id, k)
           rooms == ReleasedRooms(id, k)
           new == NewPlayer(id, k)
           h == waiting[k]
           rm == Opened(h)
           s == Joined(n, n)
           entries == Registered(playerRooms, player[h].id, id, n)
<1>1. /\ sock[n].pc = "none" /\ h # None /\ ~ SameAccount(player[h].id, id)
      /\ player' = [released EXCEPT ![n] = new] /\ room' = [rooms EXCEPT ![n] = rm]
      /\ waiting' = [waiting EXCEPT ![k] = None] /\ playerRooms' = entries
      /\ sock' = [sock EXCEPT ![n] = s] /\ grace' = grace
  BY DEF Pair, NextSocket, Opponent
<1>2. /\ new \in PlayerType /\ new.id = id /\ new.key = k /\ new.generation # 0
      /\ s \in SocketType /\ s.pc = "joined" /\ s.player = n /\ s.room = n
  BY MadeNow, Numbers DEF Joined, SocketType
<1>3. /\ released \in [Socket -> PlayerType]
      /\ \A p \in Socket : /\ released[p].id = player[p].id /\ released[p].key = player[p].key
                           /\ released[p].generation # 0 <=> player[p].generation # 0
                           /\ released[p].connected => player[p].connected
  BY Released
<1>4. /\ rooms \in [Socket -> RoomType]
      /\ \A r \in Socket : rooms[r].host = room[r].host /\ rooms[r].status = room[r].status
  BY Released
<1>5. /\ n \notin Made /\ n \notin Rooms /\ \A q \in Rooms : n \notin Seats(q)
      /\ \A l \in Key : waiting[l] # n
  BY <1>1, Fresh
<1>6. /\ h \in Made /\ h \in Socket /\ player[h].key = k /\ player[h].id \in Id /\ h # n
      /\ \A q \in Rooms : h \notin Seats(q)
  BY <1>1, <1>5 DEF HubInv, Placed, QueuesOfPlayers, PlayersOfSockets, SeatedDoNotWait, Made
<1>7. /\ waiting \in [Key -> Number] /\ playerRooms \in [Id -> Number]
      /\ n \in Number /\ h \in Number /\ None \in Number
  BY <1>6, Numbers DEF HubInv, Types
<1>8. rm \in RoomType /\ rm.host = h /\ rm.status = "playing"
  BY <1>7, OpenedRoom
<1>9. /\ entries \in [Id -> Number]
      /\ \A i \in Id : entries[i] = playerRooms[i] \/ (entries[i] = n /\ i \in {player[h].id, id})
  <2> HIDE DEF h
  <2> QED BY <1>2, <1>6, <1>7 DEF Registered
<1> HIDE DEF released, rooms, new, h, rm, s, entries
<1>10. /\ player' \in [Socket -> PlayerType] /\ player'[n] = new
       /\ \A p \in Socket : p # n =>
            /\ player'[p].id = player[p].id /\ player'[p].key = player[p].key
            /\ player'[p].generation # 0 <=> player[p].generation # 0
            /\ player'[p].connected => player[p].connected
  BY <1>1, <1>2, <1>3
<1>11. /\ room' \in [Socket -> RoomType] /\ room'[n].host = h /\ room'[n].status = "playing"
       /\ \A r \in Socket : r # n =>
            room'[r].host = room[r].host /\ room'[r].status = room[r].status
  BY <1>1, <1>4, <1>8
<1>12. Rooms' = Rooms \cup {n} /\ Rooms \subseteq Socket
  BY <1>11 DEF Rooms
<1>13. Made' = Made \cup {n} /\ Made \subseteq Socket
  BY <1>2, <1>10 DEF Made
<1>14. \A p \in Made : p \in Socket /\ p # n /\ p \in Made'
  BY <1>5, <1>13
<1>15. PlayersOfSockets'
  <2>1. sock \in [Socket -> SocketType]
    BY DEF HubInv, Types
  <2>2. \A p \in Made : player'[p].id \in Id /\ player'[p].key \in Key /\ sock'[p].pc # "none"
    BY <1>1, <1>10, <1>14, <2>1 DEF HubInv, Placed, PlayersOfSockets
  <2>3. player'[n].id \in Id /\ player'[n].key \in Key /\ sock'[n].pc # "none"
    BY <1>1, <1>2, <1>10, <2>1
  <2> QED BY <1>13, <2>2, <2>3 DEF PlayersOfSockets
<1>16. ASSUME NEW l \in Key, waiting'[l] # None
       PROVE  /\ l # k /\ waiting'[l] = waiting[l] /\ waiting[l] \in Made
              /\ player[waiting[l]].key = l /\ waiting[l] # h /\ waiting[l] # n
  <2>1. l # k /\ waiting'[l] = waiting[l]
    BY <1>1, <1>7, <1>16
  <2>2. waiting[l] \in Made /\ player[waiting[l]].key = l
    BY <1>16, <2>1 DEF HubInv, Placed, QueuesOfPlayers
  <2> QED BY <1>5, <1>6, <2>1, <2>2
<1>17. QueuesOfPlayers'
  <2> SUFFICES ASSUME NEW l \in Key, waiting'[l] # None
               PROVE  waiting'[l] \in Made' /\ player'[waiting'[l]].key = l
    BY DEF QueuesOfPlayers
  <2>1. waiting'[l] = waiting[l] /\ waiting[l] \in Made /\ player[waiting[l]].key = l
    BY <1>16
  <2> QED BY <1>10, <1>14, <2>1
<1>18. \A q \in Rooms : q \in Socket /\ q # n /\ {room'[q].host, q} = Seats(q)
  BY <1>5, <1>11, <1>12 DEF Seats
<1>19. SeatedDoNotWait'
  <2> SUFFICES ASSUME NEW q \in Rooms', NEW l \in Key, waiting'[l] \in {room'[q].host, q}
               PROVE  FALSE
    BY DEF SeatedDoNotWait, Seats
  <2>1. waiting'[l] # None
    BY <1>6, <1>11, <1>12, <1>18, SeatsMade, Numbers DEF Seats
  <2>2. waiting'[l] = waiting[l] /\ waiting[l] # h /\ waiting[l] # n
    BY <1>16, <2>1
  <2>3. CASE q \in Rooms
    BY <1>18, <2>2, <2>3 DEF HubInv, Placed, SeatedDoNotWait
  <2>4. CASE q = n
    BY <1>11, <2>2, <2>4
  <2> QED BY <1>12, <2>3, <2>4
<1>20. \A i \in Id :
         \/ playerRooms'[i] \in {playerRooms[i], None}
         \/ /\ playerRooms'[i] = n /\ n \in Rooms' \ Rooms
            /\ i \in {player'[room'[n].host].id, player'[n].id}
  BY <1>1, <1>2, <1>5, <1>6, <1>9, <1>10, <1>11, <1>12
<1>21. \A q \in Rooms : room'[q].host = room[q].host /\ room'[q].status = room[q].status
  BY <1>11, <1>18
<1>22. \A p \in Made : /\ p \in Made'
                       /\ player'[p].id = player[p].id /\ player'[p].key = player[p].key
                       /\ player'[p].connected => player[p].connected
  BY <1>10, <1>14
<1>23. /\ n \in Made' /\ room'[n].host \in Made' /\ room'[n].status = "playing"
       /\ ~ SameAccount(player'[room'[n].host].id, player'[n].id)
       /\ \A q \in Rooms : n \notin Seats(q) /\ room'[n].host \notin Seats(q)
  BY <1>1, <1>2, <1>5, <1>6, <1>10, <1>11, <1>13 DEF SameAccount
<1>24. Placed'
  BY <1>12, <1>15, <1>17, <1>19, <1>20, <1>21, <1>22, <1>23, Grown
<1>25. waiting' \in [Key -> Number] /\ playerRooms' \in [Id -> Number]
  BY <1>1, <1>7, <1>9
<1>26. sock' \in [Socket -> SocketType] /\ \A m \in Socket : SocketServed(m)'
  BY <1>1, <1>2, <1>12, <1>13, OneSocket
<1>27. \A g \in grace' : g.player \in Socket /\ g.room \in Rooms' /\ g.generation \in Nat
  BY <1>1, <1>12, TimersStay
<1> QED BY <1>10, <1>11, <1>24, <1>25, <1>26, <1>27 DEF HubInv, Types, Served

LEMMA FallbackKeeps ==
  ASSUME HubInv, NEW n \in Socket, Fallback(n)
  PROVE  HubInv'
<1> DEFINE p == sock[n].player
<1>1. PICK o \in Socket : /\ InQueue(o) /\ FallsBackTo(p, o) /\ waiting' = Unqueued(p, o)
                          /\ LET h == IF p < o THEN p ELSE o
                                 g == IF p < o THEN o ELSE p
                             IN  /\ room' = [room EXCEPT ![g] = Opened(h)]
                                 /\ playerRooms' =
                                      Registered(playerRooms, player[h].id, player[g].id, g)
  BY DEF Fallback
<1> DEFINE h == IF p < o THEN p ELSE o
           g == IF p < o THEN o ELSE p
           rm == Opened(h)
           entries == Registered(playerRooms, player[h].id, player[g].id, g)
<1>2. /\ waiting' = Unqueued(p, o) /\ room' = [room EXCEPT ![g] = rm]
      /\ playerRooms' = entries /\ UNCHANGED <<sock, player, grace>>
  BY <1>1 DEF Fallback
<1>3. p \in Made /\ p \in Socket /\ player[p].id \in Id
  BY Serving DEF Fallback, Polling
<1>4. /\ player[p].key \in Key /\ waiting[player[p].key] = p
      /\ p # o /\ waiting[player[o].key] = o
      /\ ~ SameAccount(player[o].id, player[p].id)
  BY <1>1, <1>3 DEF FallsBackTo, HubInv, Placed, PlayersOfSockets
<1>5. o \in Made /\ player[o].id \in Id /\ player[o].key \in Key
  <2>1. PICK l \in Key : waiting[l] = o
    BY <1>1 DEF InQueue
  <2>2. o \in Made
    BY <2>1, Numbers DEF HubInv, Placed, QueuesOfPlayers
  <2> QED BY <2>2 DEF HubInv, Placed, PlayersOfSockets
<1>6. \A q \in Rooms : p \notin Seats(q) /\ o \notin Seats(q)
  BY <1>4, <1>5 DEF HubInv, Placed, SeatedDoNotWait
<1> HIDE DEF p
<1>7. /\ {h, g} = {p, o} /\ h \in Made /\ g \in Made /\ h \in Socket /\ g \in Socket
      /\ player[h].id \in Id /\ player[g].id \in Id
      /\ ~ SameAccount(player[h].id, player[g].id)
      /\ \A q \in Rooms : g \notin Seats(q) /\ h \notin Seats(q)
  BY <1>3, <1>4, <1>5, <1>6 DEF SameAccount
<1> HIDE DEF h, g
<1>8. g \notin Rooms
  BY <1>7 DEF Seats
<1>9. /\ waiting \in [Key -> Number] /\ playerRooms \in [Id -> Number]
      /\ g \in Number /\ h \in Number /\ None \in Number
  BY <1>7, Numbers DEF HubInv, Types
<1>10. rm \in RoomType /\ rm.host = h /\ rm.status = "playing"
  BY <1>9, OpenedRoom
<1>11. /\ entries \in [Id -> Number]
       /\ \A i \in Id : \/ entries[i] = playerRooms[i]
                        \/ entries[i] = g /\ i \in {player[h].id, player[g].id}
  <2> HIDE DEF entries, rm
  <2>1. entries = Registered(playerRooms, player[h].id, player[g].id, g)
    BY DEF entries
  <2> QED BY <1>7, <1>9, <2>1 DEF Registered
<1> HIDE DEF rm, entries
<1>12. /\ room' \in [Socket -> RoomType] /\ room'[g].host = h /\ room'[g].status = "playing"
       /\ \A r \in Socket : r # g => room'[r] = room[r]
  BY <1>2, <1>7, <1>10 DEF HubInv, Types
<1>13. Rooms' = Rooms \cup {g} /\ Rooms \subseteq Socket
  BY <1>7, <1>12 DEF Rooms
<1>14. Made' = Made /\ Made \subseteq Socket
  BY <1>2 DEF Made
<1>15. PlayersOfSockets'
  BY <1>2, <1>14 DEF HubInv, Placed, PlayersOfSockets
<1>16. /\ waiting' \in [Key -> Number]
       /\ \A l \in Key : waiting'[l] \in {waiting[l], None}
       /\ waiting'[player[p].key] = None /\ waiting'[player[o].key] = None
  BY <1>2, <1>4, <1>5, <1>9 DEF Unqueued
<1>17. ASSUME NEW l \in Key, waiting'[l] # None
       PROVE  /\ waiting'[l] = waiting[l] /\ waiting[l] \in Made /\ player[waiting[l]].key = l
              /\ waiting[l] \notin {h, g}
  <2>1. waiting'[l] = waiting[l] /\ l # player[p].key /\ l # player[o].key
    BY <1>16, <1>17
  <2>2. waiting[l] \in Made /\ player[waiting[l]].key = l
    BY <1>17, <2>1 DEF HubInv, Placed, QueuesOfPlayers
  <2> QED BY <1>7, <2>1, <2>2
<1>18. QueuesOfPlayers'
  BY <1>2, <1>14, <1>17 DEF QueuesOfPlayers
<1>19. \A q \in Rooms : q \in Socket /\ q # g /\ {room'[q].host, q} = Seats(q)
  BY <1>8, <1>12, <1>13 DEF Seats
<1>20. SeatedDoNotWait'
  <2> SUFFICES ASSUME NEW q \in Rooms', NEW l \in Key, waiting'[l] \in {room'[q].host, q}
               PROVE  FALSE
    BY DEF SeatedDoNotWait, Seats
  <2>1. waiting'[l] # None
    BY <1>7, <1>12, <1>13, <1>19, SeatsMade, Numbers DEF Seats
  <2>2. waiting'[l] = waiting[l] /\ waiting[l] \notin {h, g}
    BY <1>17, <2>1
  <2>3. CASE q \in Rooms
    BY <1>19, <2>2, <2>3 DEF HubInv, Placed, SeatedDoNotWait
  <2>4. CASE q = g
    BY <1>12, <2>2, <2>4
  <2> QED BY <1>13, <2>3, <2>4
<1>21. \A i \in Id :
         \/ playerRooms'[i] \in {playerRooms[i], None}
         \/ /\ playerRooms'[i] = g /\ g \in Rooms' \ Rooms
            /\ i \in {player'[room'[g].host].id, player'[g].id}
  BY <1>2, <1>8, <1>11, <1>12, <1>13
<1>22. \A q \in Rooms : room'[q].host = room[q].host /\ room'[q].status = room[q].status
  BY <1>12, <1>19
<1>23. \A m \in Made : /\ m \in Made'
                       /\ player'[m].id = player[m].id /\ player'[m].key = player[m].key
                       /\ player'[m].connected => player[m].connected
  BY <1>2, <1>14
<1>24. /\ g \in Made' /\ room'[g].host \in Made' /\ room'[g].status = "playing"
       /\ ~ SameAccount(player'[room'[g].host].id, player'[g].id)
       /\ \A q \in Rooms : g \notin Seats(q) /\ room'[g].host \notin Seats(q)
  BY <1>2, <1>7, <1>12, <1>14 DEF SameAccount
<1>25. Placed'
  BY <1>7, <1>13, <1>15, <1>18, <1>20, <1>21, <1>22, <1>23, <1>24, Grown
<1>26. sock' \in [Socket -> SocketType] /\ \A m \in Socket : SocketServed(m)'
  BY <1>2, <1>13, <1>14, SocketsStay
<1>27. \A t \in grace' : t.player \in Socket /\ t.room \in Rooms' /\ t.generation \in Nat
  BY <1>2, <1>13, TimersStay
<1>28. player' \in [Socket -> PlayerType] /\ playerRooms' \in [Id -> Number]
  BY <1>2, <1>11 DEF HubInv, Types
<1> QED BY <1>12, <1>16, <1>25, <1>26, <1>27, <1>28 DEF HubInv, Types, Served

-----------------------------------------------------------------------------
(* The theorems. *)

LEMMA InitHub == Init => HubInv
<1> SUFFICES ASSUME Init PROVE HubInv
  OBVIOUS
<1>1. NoSocket \in SocketType /\ NoPlayer \in PlayerType /\ NoRoom \in RoomType /\ None \in Number
  BY Numbers DEF NoSocket, NoPlayer, NoRoom, SocketType, PlayerType, RoomType
<1>2. Types
  BY <1>1 DEF Init, Types
<1>3. Made = {} /\ Rooms = {}
  BY DEF Init, Made, Rooms, NoPlayer, NoRoom
<1>4. \A id \in Id : playerRooms[id] = None
  BY DEF Init
<1>5. \A k \in Key : waiting[k] = None
  BY DEF Init
<1>6. Placed
  BY <1>3, <1>4, <1>5, Numbers
     DEF Placed, PlayersOfSockets, RoomsOfPlayers, QueuesOfPlayers, SeatedDoNotWait,
         SeatsApart, NoSelfPlay, EntriesSeat, ArchivedIsEmpty
<1>7. Served
  BY DEF Init, Served, SocketServed, NoSocket
<1> QED BY <1>2, <1>6, <1>7 DEF HubInv

LEMMA NextKeeps ==
  ASSUME HubInv, [Next]_vars
  PROVE  HubInv'
<1>1. ASSUME NEW n \in Socket, NEW id \in Id, NEW k \in Key,
             Resume(n, id, k) \/ Enqueue(n, id, k) \/ Pair(n, id, k)
      PROVE  HubInv'
  BY <1>1, ResumeKeeps, EnqueueKeeps, PairKeeps
<1>2. ASSUME NEW n \in Socket, Loop(n) PROVE HubInv'
  BY <1>2, MatchedKeeps, FallbackKeeps, DropKeeps, LeaveKeeps, AcceptDrawKeeps,
     ReadyRematchKeeps DEF Loop
<1>3. ASSUME NEW n \in Socket, Return(n) PROVE HubInv'
  BY <1>3, ReadGenerationKeeps, LeaveHubKeeps, LeaveWaitingKeeps, DisconnectKeeps DEF Return
<1>4. ASSUME NEW r \in Rooms, AbandonCheck(r) \/ Cleanup(r) \/ EndRound(r) PROVE HubInv'
  BY <1>4, AbandonCheckKeeps, CleanupKeeps, EndRoundKeeps
<1>5. ASSUME NEW g \in grace, Expire(g) PROVE HubInv'
  BY <1>5, ExpireKeeps
<1>6. ASSUME UNCHANGED vars PROVE HubInv'
  BY <1>6 DEF vars, HubInv, Types, Placed, Served, SocketServed, Made, Rooms, Seats,
     PlayersOfSockets, RoomsOfPlayers, QueuesOfPlayers, SeatedDoNotWait, SeatsApart,
     NoSelfPlay, SameAccount, EntriesSeat, ArchivedIsEmpty
<1> QED BY <1>1, <1>2, <1>3, <1>4, <1>5, <1>6 DEF Next, JoinMatch

\* The invariant: numbers refer to players and rooms that were made, nobody is
\* in two places, and entries and timers lead to rooms.
THEOREM HubInvariant == Spec => []HubInv
<1>1. Init => HubInv
  BY InitHub
<1>2. HubInv /\ [Next]_vars => HubInv'
  BY NextKeeps
<1> QED BY <1>1, <1>2, PTL DEF Spec

\* The hub's state has its types.
THEOREM TypeCorrect == Spec => []TypeOK
<1>1. HubInv => TypeOK
  <2> SUFFICES ASSUME HubInv PROVE TypeOK
    OBVIOUS
  <2>1. ASSUME NEW p \in Socket, player[p].generation # 0
        PROVE  player[p] \in [id : Id, key : Key, connected : BOOLEAN, generation : Nat]
    <3>1. player[p] \in PlayerType
      BY DEF HubInv, Types
    <3>2. player[p].id \in Id /\ player[p].key \in Key
      BY <2>1 DEF HubInv, Placed, PlayersOfSockets, Made
    <3> QED BY <3>1, <3>2 DEF PlayerType
  <2> QED BY <2>1 DEF HubInv, Types, Served, TypeOK, SocketType, RoomType, Rooms
<1> QED BY <1>1, HubInvariant, PTL

\* A player waits in one queue or sits in one room, whatever joins, fallbacks,
\* reconnections and timers come in which order.
THEOREM OnePlaceOnly == Spec => []OnePlace
<1>1. HubInv => OnePlace
  <2> SUFFICES ASSUME HubInv PROVE OnePlace
    OBVIOUS
  <2>1. \A k, l \in Key : waiting[k] # None /\ waiting[k] = waiting[l] => k = l
    BY DEF HubInv, Placed, QueuesOfPlayers
  <2> QED BY <2>1 DEF HubInv, Placed, SeatedDoNotWait, SeatsApart, OnePlace
<1> QED BY <1>1, HubInvariant, PTL

\* No room seats two tabs of one account, by JoinMatch or by fallbackLocked.
THEOREM NobodyPlaysThemselves == Spec => []NoSelfPlay
<1>1. HubInv => NoSelfPlay
  BY DEF HubInv, Placed
<1> QED BY <1>1, HubInvariant, PTL

\* Whoever reloads finds a seat at a table that has not been given up, or none.
THEOREM EntriesLeadToSeats == Spec => []EntriesLead
<1>1. HubInv => EntriesLead
  <2> SUFFICES ASSUME HubInv, NEW id \in Id, playerRooms[id] # None
               PROVE  /\ playerRooms[id] \in Rooms /\ room[playerRooms[id]].status # "archived"
                      /\ InRoom(playerRooms[id], id)
    BY DEF EntriesLead
  <2>1. playerRooms[id] \in Socket
    BY EntrySeat
  <2> QED BY <2>1 DEF HubInv, Placed, EntriesSeat, InRoom
<1> QED BY <1>1, HubInvariant, PTL

\* removeIfAbandoned archives a room behind both players, and reconnectLocked
\* lets nobody back in.
THEOREM ArchivedStaysEmpty == Spec => []ArchivedIsEmpty
<1>1. HubInv => ArchivedIsEmpty
  BY DEF HubInv, Placed
<1> QED BY <1>1, HubInvariant, PTL

-----------------------------------------------------------------------------
(* Generations only grow, so a timer is never newer than its player. *)

LEMMA GenerationKept ==
  ASSUME HubInv, NEW p \in Socket, player' = [player EXCEPT ![p].connected = FALSE]
  PROVE  \A q \in Socket : player'[q].generation = player[q].generation
BY DEF HubInv, Types, PlayerType

LEMMA ReleasedGeneration ==
  ASSUME HubInv, NEW id \in Id, NEW k \in Key
  PROVE  \A q \in Socket : ReleasedPlayers(id, k)[q].generation = player[q].generation
<1>1. CASE MovedOn(id, k)
  <2> DEFINE p == SeatOf(playerRooms[id], id)
             pls == ReleasedPlayers(id, k)
  <2>1. p \in Socket /\ pls = [player EXCEPT ![p].connected = FALSE]
    BY <1>1, EntrySeat DEF MovedOn, ReleasedPlayers
  <2> HIDE DEF p, pls
  <2>2. \A q \in Socket : pls[q].generation = player[q].generation
    BY <2>1 DEF HubInv, Types, PlayerType
  <2> QED BY <2>2 DEF pls
<1>2. CASE ~ MovedOn(id, k)
  BY <1>2 DEF ReleasedPlayers
<1> QED BY <1>1, <1>2

LEMMA GenerationsGrow ==
  ASSUME HubInv, [Next]_vars, NEW p \in Socket
  PROVE  player[p].generation <= player'[p].generation
<1>1. player \in [Socket -> PlayerType] /\ player[p].generation \in Nat
  BY DEF HubInv, Types, PlayerType
<1>2. ASSUME NEW n \in Socket, NEW id \in Id, NEW k \in Key, Resume(n, id, k)
      PROVE  player[p].generation <= player'[p].generation
  <2> DEFINE q == SeatOf(playerRooms[id], id)
  <2>1. /\ q \in Socket
        /\ player' = [player EXCEPT ![q].connected = TRUE, ![q].generation = @ + 1]
    BY <1>2, EntrySeat DEF Resume, Resumes
  <2> HIDE DEF q
  <2>2. CASE p = q
    <3>1. player'[p].generation = player[p].generation + 1
      BY <1>1, <2>1, <2>2 DEF PlayerType
    <3> QED BY <1>1, <3>1
  <2>3. CASE p # q
    <3>1. player'[p] = player[p]
      BY <1>1, <2>1, <2>3
    <3> QED BY <1>1, <3>1
  <2> QED BY <2>2, <2>3
<1>3. ASSUME NEW n \in Socket, NEW id \in Id, NEW k \in Key,
             Enqueue(n, id, k) \/ Pair(n, id, k)
      PROVE  player[p].generation <= player'[p].generation
  <2>1. ReleasedPlayers(id, k) \in [Socket -> PlayerType]
    BY Released
  <2>2. ReleasedPlayers(id, k)[p].generation = player[p].generation
    BY ReleasedGeneration
  <2> DEFINE pl == ReleasedPlayers(id, k)[p]
  <2>3. pl \in PlayerType /\ pl.generation = player[p].generation
    BY <2>1, <2>2
  <2>4. CASE p = n
    <3>1. player[p].generation = 0
      BY <1>3, <2>4, Fresh DEF Enqueue, Pair, NextSocket, Made
    <3>2. player'[p] = NewPlayer(id, k)
      BY <1>3, <2>1, <2>4 DEF Enqueue, Pair
    <3> QED BY <3>1, <3>2 DEF NewPlayer
  <2>5. CASE p # n
    <3>1. player'[p] \in {pl, [pl EXCEPT !.connected = FALSE]}
      BY <1>3, <2>1, <2>5 DEF Enqueue, Pair
    <3> HIDE DEF pl
    <3>2. player'[p].generation = player[p].generation
      BY <2>3, <3>1 DEF PlayerType
    <3> QED BY <1>1, <3>2
  <2> QED BY <2>4, <2>5
<1>4. ASSUME NEW n \in Socket, Leave(n) \/ LeaveWaiting(n) \/ Disconnect(n)
      PROVE  player[p].generation <= player'[p].generation
  <2>1. sock[n].player \in Socket
    BY <1>4, Serving DEF Leave, Seated, LeaveWaiting, Disconnect
  <2>2. player' = player \/ player' = [player EXCEPT ![sock[n].player].connected = FALSE]
    BY <1>4 DEF Leave, LeaveWaiting, Disconnect
  <2>3. player'[p].generation = player[p].generation
    BY <2>1, <2>2, GenerationKept
  <2> QED BY <1>1, <2>3
<1>5. ASSUME player' = player PROVE player[p].generation <= player'[p].generation
  BY <1>1, <1>5
<1> QED BY <1>2, <1>3, <1>4, <1>5
        DEF Next, JoinMatch, Loop, Return, Matched, Fallback, Drop, AcceptDraw, ReadyRematch,
            ReadGeneration, LeaveHub, AbandonCheck, Cleanup, EndRound, Expire, vars

\* Only Disconnect sets a grace timer, and only its expiry takes it away.
LEMMA GraceSteps ==
  ASSUME [Next]_vars
  PROVE  \/ grace' = grace
         \/ \E n \in Socket : Disconnect(n)
         \/ \E g \in grace : Expire(g)
<1>1. ASSUME NEW n \in Socket, JoinMatch(n) PROVE grace' = grace
  BY <1>1 DEF JoinMatch, Resume, Enqueue, Pair
<1>2. ASSUME NEW n \in Socket, Loop(n) PROVE grace' = grace
  BY <1>2 DEF Loop, Matched, Fallback, Drop, Leave, AcceptDraw, ReadyRematch
<1>3. ASSUME NEW n \in Socket, Return(n) PROVE grace' = grace \/ Disconnect(n)
  BY <1>3 DEF Return, ReadGeneration, LeaveHub, LeaveWaiting
<1>4. ASSUME NEW r \in Rooms, AbandonCheck(r) \/ Cleanup(r) \/ EndRound(r) PROVE grace' = grace
  BY <1>4 DEF AbandonCheck, Cleanup, EndRound
<1>5. ASSUME UNCHANGED vars PROVE grace' = grace
  BY <1>5 DEF vars
<1> QED BY <1>1, <1>2, <1>3, <1>4, <1>5 DEF Next

TimersOld == \A g \in grace : g.generation <= player[g.player].generation

LEMMA TimersStayOld ==
  ASSUME HubInv, TimersOld, [Next]_vars
  PROVE  TimersOld'
<1>1. SUFFICES ASSUME NEW g \in grace'
               PROVE  g.generation <= player'[g.player].generation
  BY DEF TimersOld
<1>2. HubInv'
  BY NextKeeps
<1>3. CASE g \in grace
  <2>1. g.player \in Socket /\ g.generation \in Nat
    BY <1>3 DEF HubInv, Served
  <2>2. player[g.player].generation \in Nat /\ player'[g.player].generation \in Nat
    BY <1>2, <2>1 DEF HubInv, Types, PlayerType
  <2>3. g.generation <= player[g.player].generation
    BY <1>3 DEF TimersOld
  <2> QED BY <2>1, <2>2, <2>3, GenerationsGrow
<1>4. CASE g \notin grace
  <2>1. PICK n \in Socket : Disconnect(n)
    BY <1>1, <1>4, GraceSteps DEF Expire
  <2>2. /\ g.player = sock[n].player /\ g.generation = player[g.player].generation
    BY <1>1, <1>4, <2>1 DEF Disconnect, Latest
  <2>3. g.player \in Socket /\ player[g.player].generation \in Nat
        /\ player'[g.player].generation \in Nat
    BY <1>1, <1>2, <2>1 DEF HubInv, Types, Served, PlayerType
  <2> QED BY <2>2, <2>3, GenerationsGrow
<1> QED BY <1>3, <1>4

\* A grace timer ends a round only if it is the player's latest: whoever comes
\* back and is lost again has the whole period once more.
THEOREM GraceIsWhole == Spec => WholeGrace
<1>1. Init => TimersOld
  BY DEF Init, TimersOld
<1>2. HubInv /\ TimersOld /\ [Next]_vars => TimersOld'
  BY TimersStayOld
<1> DEFINE Whole ==
      \A g \in grace \ grace' :
        room[g.room].status = "playing" /\ room'[g.room].status # "playing" =>
          \A h \in grace : h.player = g.player => h.generation <= g.generation
<1>3. HubInv /\ TimersOld /\ [Next]_vars => [Whole]_vars
  <2> SUFFICES ASSUME HubInv, TimersOld, [Next]_vars, NEW g \in grace \ grace',
                      room[g.room].status = "playing", room'[g.room].status # "playing",
                      NEW h \in grace, h.player = g.player
               PROVE  h.generation <= g.generation
    OBVIOUS
  <2>1. Expire(g)
    <3>1. PICK e \in grace : Expire(e)
      BY GraceSteps DEF Disconnect
    <3> QED BY <3>1 DEF Expire
  <2>2. Absent(g)
    BY <2>1 DEF Expire
  <2> QED BY <2>2 DEF Absent, TimersOld
<1> QED BY <1>1, <1>2, <1>3, HubInvariant, PTL DEF Spec, WholeGrace

=============================================================================
