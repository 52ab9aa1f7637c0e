---------------------------- MODULE PokerHubProofs ----------------------------
(***************************************************************************)
(* Whoever waits keeps the place in the queue, and whoever is seated finds *)
(* the table: for any number of sockets, players and requests.             *)
(***************************************************************************)
EXTENDS PokerHub, TLAPS

Number == Socket \cup {None}
Modes  == {q.mode : q \in Request} \cup {None}
Tables == [mode : Modes, invite : {q.invite : q \in Request}] \cup {None}

SocketType == [pc : {"none", "joined", "serving", "dropping", "leaving", "disconnecting",
                     "marking", "unmapping", "closed"},
               player : Number, room : Number, generation : Nat]
PlayerType == [id : Id \cup {None}, mode : Modes, seated : BOOLEAN, connected : BOOLEAN,
               generation : Nat]
RoomType   == [host : Number, table : Tables, listed : BOOLEAN, spectators : SUBSET Socket,
               cleanups : Nat]

Types ==
  /\ sock \in [Socket -> SocketType] /\ player \in [Socket -> PlayerType]
  /\ room \in [Socket -> RoomType] /\ waiting \in [Key -> Number]
  /\ playerRooms \in [Id -> Number]

\* The players that were made, each by the join of the socket of its number.
Made == {p \in Socket : player[p].generation # 0}

Joins(n) == sock[n].pc # "none"

\* What the numbers refer to.
Numbered ==
  /\ \A p \in Made : player[p].id \in Id /\ Joins(p) /\ sock[p].player = p
  /\ \A n \in Socket : Joins(n) => sock[n].player \in Made
  /\ \A n \in Socket : sock[n].pc \notin {"none", "joined", "serving", "dropping", "closed"} =>
       sock[n].room # None
  /\ \A n \in Socket : sock[n].room # None => sock[n].room \in Rooms
  /\ \A r \in Rooms : r \in Made /\ room[r].host \in Made /\ room[r].spectators \subseteq Made
  /\ \A k \in Key : waiting[k] # None => waiting[k] \in Made
  /\ \A id \in Id : playerRooms[id] # None => playerRooms[id] \in Rooms

\* The ID a socket was opened with.
IdOf(n) == player[sock[n].player].id

\* No other connection of the account was ever made.
Alone(n) == \A m \in Socket \ {n} : Joins(m) => ~ SameAccount(IdOf(m), IdOf(n))

Active(n) == sock[n].pc \in {"joined", "serving"}

\* A connection that is alone is connected, and waits in a queue or has an entry.
Present == \A n \in Socket : Active(n) /\ Alone(n) => player[n].connected

Queued ==
  \A n \in Socket :
    Active(n) /\ Alone(n) /\ sock[n].room = None /\ MappedRoom(n) = None =>
      \E k \in Key : waiting[k] = n

HubInv == Types /\ Numbered /\ Present /\ Queued /\ EntriesLead

-----------------------------------------------------------------------------
(* Numbers and sockets. *)

LEMMA Numbers == None \notin Socket /\ Socket \subseteq Nat /\ Number = Socket \cup {None}
BY HubAssumption DEF None, Socket, Number

\* A connection that is alone made its player.
LEMMA OwnPlayer ==
  ASSUME HubInv, NEW n \in Socket, Joins(n), Alone(n)
  PROVE  sock[n].player = n
<1> DEFINE p == sock[n].player
<1>1. p \in Made /\ p \in Socket
  BY DEF HubInv, Numbered, Made
<1>2. Joins(p) /\ sock[p].player = p
  BY <1>1 DEF HubInv, Numbered
<1> HIDE DEF p
<1> SUFFICES ASSUME p # n PROVE FALSE
  BY DEF p
<1>3. ~ SameAccount(IdOf(p), IdOf(n))
  BY <1>1, <1>2 DEF Alone
<1> QED BY <1>2, <1>3 DEF IdOf, SameAccount, p

\* A socket that has not joined has no player, no seat and no room.
LEMMA Fresh ==
  ASSUME HubInv, NEW n \in Socket, ~ Joins(n)
  PROVE  /\ n \notin Made /\ n \notin Rooms
         /\ \A q \in Rooms : n \notin Seats(q)
BY DEF HubInv, Numbered, Seats

\* Players stay who they are and sockets theirs, so nobody gets to be alone.
LEMMA AloneBefore ==
  ASSUME HubInv, NEW m \in Socket, Joins(m), Alone(m)',
         \A p \in Made : player'[p].id = player[p].id,
         \A l \in Socket : Joins(l) => Joins(l)' /\ sock'[l].player = sock[l].player
  PROVE  Alone(m)
<1> SUFFICES ASSUME NEW l \in Socket \ {m}, Joins(l), SameAccount(IdOf(l), IdOf(m))
             PROVE  FALSE
  BY DEF Alone
<1>1. sock[l].player \in Made /\ sock[m].player \in Made
  BY DEF HubInv, Numbered
<1>2. IdOf(l)' = IdOf(l) /\ IdOf(m)' = IdOf(m) /\ Joins(l)'
  BY <1>1 DEF IdOf
<1> QED BY <1>2 DEF Alone, SameAccount

\* What socket n does, or its join, costs only players of its own account a place.
LEMMA OwnAccountOnly ==
  ASSUME HubInv, NEW n \in Socket,
         \A p \in Made : player'[p].id = player[p].id,
         \A m \in Socket : Joins(m) => Joins(m)' /\ sock'[m].player = sock[m].player,
         \A m \in Socket : m # n => sock'[m] = sock[m],
         Joins(n)',
         \A p \in Made :
           ~ player'[p].connected => ~ player[p].connected \/ SameAccount(player[p].id, IdOf(n)'),
         \A k \in Key : waiting[k] # None /\ waiting'[k] # waiting[k] =>
           \/ SameAccount(player[waiting[k]].id, IdOf(n)')
           \/ playerRooms'[player[waiting[k]].id] # None
           \/ ~ player[waiting[k]].connected,
         \A id \in Id :
           playerRooms[id] # None /\ playerRooms'[id] = None => SameAccount(id, IdOf(n)'),
         Active(n)' /\ Alone(n)' =>
           /\ player'[n].connected
           /\ sock'[n].room = None /\ MappedRoom(n)' = None => \E k \in Key : waiting'[k] = n
  PROVE  Present' /\ Queued'
<1>1. ASSUME NEW m \in Socket, m # n, Active(m)', Alone(m)'
      PROVE  /\ m \in Made /\ Active(m) /\ Alone(m) /\ sock[m].player = m /\ IdOf(m) = player[m].id
             /\ player'[m].id = player[m].id /\ player[m].id \in Id
             /\ ~ SameAccount(player[m].id, IdOf(n)')
             /\ player[m].connected
  <2>1. sock'[m] = sock[m] /\ Active(m) /\ Joins(m)
    BY <1>1 DEF Active, Joins
  <2>2. Alone(m)
    BY <1>1, <2>1, AloneBefore
  <2>3. sock[m].player = m /\ m \in Made /\ player[m].id \in Id
    BY <2>1, <2>2, OwnPlayer DEF HubInv, Numbered
  <2>4. IdOf(m)' = player[m].id /\ IdOf(m) = player[m].id
    BY <2>1, <2>3 DEF IdOf
  <2>5. ~ SameAccount(IdOf(n)', IdOf(m)')
    BY <1>1 DEF Alone, SameAccount
  <2>6. player[m].connected
    BY <2>1, <2>2 DEF HubInv, Present
  <2> QED BY <2>1, <2>2, <2>3, <2>4, <2>5, <2>6 DEF SameAccount
<1>2. Present'
  <2> SUFFICES ASSUME NEW m \in Socket, Active(m)', Alone(m)' PROVE player'[m].connected
    BY DEF Present
  <2>1. CASE m = n
    BY <2>1
  <2>2. CASE m # n
    BY <1>1, <2>2
  <2> QED BY <2>1, <2>2
<1>3. Queued'
  <2> SUFFICES ASSUME NEW m \in Socket, Active(m)', Alone(m)', sock'[m].room = None,
                      MappedRoom(m)' = None
               PROVE  \E k \in Key : waiting'[k] = m
    BY DEF Queued
  <2>1. CASE m = n
    BY <2>1
  <2>2. CASE m # n
    <3>1. playerRooms'[player[m].id] = None /\ sock[m].room = None
      BY <1>1, <2>2 DEF MappedRoom
    <3>2. playerRooms[player[m].id] = None
      BY <1>1, <2>2, <3>1
    <3>3. MappedRoom(m) = None
      BY <1>1, <2>2, <3>2 DEF MappedRoom
    <3>4. PICK k \in Key : waiting[k] = m
      BY <1>1, <2>2, <3>1, <3>3 DEF HubInv, Queued
    <3>5. m # None
      BY Numbers
    <3> QED BY <1>1, <2>2, <3>1, <3>4, <3>5
  <2> QED BY <2>1, <2>2
<1> QED BY <1>2, <1>3

\* A step that takes no room from the hub.
LEMMA EntriesLeadOn ==
  ASSUME HubInv,
         \A p \in Made : player'[p].id = player[p].id,
         \A r \in Rooms : room'[r].host = room[r].host /\ room'[r].listed = room[r].listed,
         \A id \in Id : \/ playerRooms'[id] \in {playerRooms[id], None}
                        \/ room'[playerRooms'[id]].listed
  PROVE  EntriesLead'
<1> SUFFICES ASSUME NEW id \in Id, NEW q, q = playerRooms'[id], q # None,
                    NEW p \in {room'[q].host, q}, player'[p].id = id
             PROVE  room'[q].listed
  BY DEF EntriesLead, Named, Seats
<1>1. CASE q = playerRooms[id]
  <2>1. q \in Rooms /\ q \in Made /\ room[q].host \in Made
    BY <1>1 DEF HubInv, Numbered
  <2>2. p \in Seats(q) /\ player[p].id = id
    BY <2>1 DEF Seats
  <2>3. room[q].listed
    BY <1>1, <2>2 DEF HubInv, EntriesLead, Named
  <2> QED BY <2>1, <2>3
<1> QED BY <1>1

-----------------------------------------------------------------------------
(* What is left to show of the steps of a socket that has joined ...         *)

LEMMA GoesKeeps ==
  ASSUME HubInv, NEW n \in Socket, Joins(n), NEW s \in SocketType,
         sock' = [sock EXCEPT ![n] = s],
         s.pc # "none", s.player = sock[n].player, s.room # None => s.room \in Rooms,
         s.pc \notin {"joined", "serving", "dropping", "closed"} => s.room # None,
         s.pc \in {"joined", "serving"} =>
           /\ Active(n) /\ UNCHANGED <<player, waiting, playerRooms>>
           /\ s.room = None => sock[n].room = None,
         player' \in [Socket -> PlayerType], room' \in [Socket -> RoomType],
         waiting' \in [Key -> Number], playerRooms' \in [Id -> Number],
         \A p \in Socket : /\ player'[p].id = player[p].id
                           /\ player'[p].generation # 0 <=> player[p].generation # 0
                           /\ p # sock[n].player => player'[p].connected = player[p].connected,
         \A r \in Socket : /\ room'[r].host = room[r].host /\ room'[r].listed = room[r].listed
                           /\ room'[r].spectators \subseteq room[r].spectators,
         \A k \in Key : \/ waiting'[k] = waiting[k]
                        \/ waiting'[k] = None /\ waiting[k] = sock[n].player,
         \A id \in Id : \/ playerRooms'[id] = playerRooms[id]
                        \/ playerRooms'[id] = None /\ id = IdOf(n)
  PROVE  HubInv'
<1>1. Made' = Made /\ Rooms' = Rooms /\ Made \subseteq Socket /\ Rooms \subseteq Socket
  BY DEF Made, Rooms
<1>2. /\ sock' \in [Socket -> SocketType] /\ sock'[n] = s
      /\ \A m \in Socket : m # n => sock'[m] = sock[m]
  BY DEF HubInv, Types
<1>3. \A m \in Socket : Joins(m) => Joins(m)' /\ sock'[m].player = sock[m].player
  BY <1>2 DEF Joins
<1>4. sock[n].player \in Made /\ sock[n].player \in Socket /\ Joins(n)'
  BY <1>1, <1>3 DEF HubInv, Numbered
<1>5. IdOf(n)' = IdOf(n)
  BY <1>3, <1>4 DEF IdOf
<1>6. Numbered'
  <2>1. \A p \in Made : player'[p].id \in Id /\ Joins(p)' /\ sock'[p].player = p
    BY <1>1, <1>3 DEF HubInv, Numbered
  <2>2. ASSUME NEW m \in Socket
        PROVE  /\ Joins(m)' => sock'[m].player \in Made
               /\ sock'[m].pc \notin {"none", "joined", "serving", "dropping", "closed"} =>
                    sock'[m].room # None
               /\ sock'[m].room # None => sock'[m].room \in Rooms
    <3>1. CASE m = n
      BY <1>2, <1>4, <3>1
    <3>2. CASE m # n
      BY <1>2, <3>2 DEF HubInv, Numbered, Joins
    <3> QED BY <3>1, <3>2
  <2>3. \A r \in Rooms : r \in Made /\ room'[r].host \in Made /\ room'[r].spectators \subseteq Made
    BY <1>1 DEF HubInv, Numbered
  <2>4. \A k \in Key : waiting'[k] # None => waiting'[k] \in Made
    BY DEF HubInv, Numbered
  <2>5. \A id \in Id : playerRooms'[id] # None => playerRooms'[id] \in Rooms
    BY DEF HubInv, Numbered
  <2> QED BY <1>1, <2>1, <2>2, <2>3, <2>4, <2>5 DEF Numbered
<1>7. \A p \in Made : player'[p].id = player[p].id
  BY <1>1
<1>8. Present' /\ Queued'
  <2>1. \A p \in Made :
          ~ player'[p].connected => ~ player[p].connected \/ SameAccount(player[p].id, IdOf(n)')
    BY <1>1, <1>5 DEF IdOf, SameAccount
  <2>2. \A k \in Key : waiting[k] # None /\ waiting'[k] # waiting[k] =>
          SameAccount(player[waiting[k]].id, IdOf(n)')
    BY <1>5 DEF IdOf, SameAccount
  <2>3. \A id \in Id :
          playerRooms[id] # None /\ playerRooms'[id] = None => SameAccount(id, IdOf(n)')
    BY <1>5 DEF SameAccount
  <2>4. ASSUME Active(n)', Alone(n)'
        PROVE  /\ player'[n].connected
               /\ sock'[n].room = None /\ MappedRoom(n)' = None => \E k \in Key : waiting'[k] = n
    <3>1. Alone(n)
      BY <1>3, <1>7, <2>4, AloneBefore
    <3>2. /\ Active(n) /\ UNCHANGED <<player, waiting, playerRooms>>
          /\ s.room = None => sock[n].room = None
      BY <1>2, <2>4 DEF Active
    <3>3. player[n].connected
      BY <3>1, <3>2 DEF HubInv, Present
    <3>4. MappedRoom(n)' = MappedRoom(n)
      BY <1>2, <3>2 DEF MappedRoom
    <3>5. sock[n].room = None /\ MappedRoom(n) = None => \E k \in Key : waiting[k] = n
      BY <3>1, <3>2 DEF HubInv, Queued
    <3> QED BY <1>2, <3>2, <3>3, <3>4, <3>5
  <2> QED BY <1>2, <1>3, <1>4, <1>7, <2>1, <2>2, <2>3, <2>4, OwnAccountOnly
<1>9. EntriesLead'
  <2>1. \A r \in Rooms : room'[r].host = room[r].host /\ room'[r].listed = room[r].listed
    BY <1>1
  <2>2. \A id \in Id : playerRooms'[id] \in {playerRooms[id], None}
    OBVIOUS
  <2> QED BY <1>7, <2>1, <2>2, EntriesLeadOn
<1> QED BY <1>2, <1>6, <1>8, <1>9 DEF HubInv, Types

(* ... and of its join.                                                      *)

LEMMA JoinKeeps ==
  ASSUME HubInv, NEW n \in Socket, ~ Joins(n), NEW id \in Id, NEW s \in SocketType,
         sock' = [sock EXCEPT ![n] = s], s.pc = "joined",
         s.player \in Made', player'[s.player].id = id, s.room # None => s.room \in Rooms',
         player' \in [Socket -> PlayerType], room' \in [Socket -> RoomType],
         waiting' \in [Key -> Number], playerRooms' \in [Id -> Number],
         \A p \in Made : /\ p \in Made' /\ player'[p].id = player[p].id
                         /\ ~ player'[p].connected =>
                              ~ player[p].connected \/ SameAccount(player[p].id, id),
         \A p \in Made' : p \in Made \/ (p = n /\ s.player = n),
         \A r \in Rooms : /\ r \in Rooms' /\ room'[r].host = room[r].host
                          /\ room'[r].listed = room[r].listed,
         \A r \in Rooms' : /\ r \in Made' /\ room'[r].host \in Made'
                           /\ room'[r].spectators \subseteq Made',
         \A k \in Key : waiting'[k] # None => waiting'[k] \in Made',
         \A k \in Key : waiting[k] # None /\ waiting'[k] # waiting[k] =>
           \/ SameAccount(player[waiting[k]].id, id)
           \/ playerRooms'[player[waiting[k]].id] # None
           \/ ~ player[waiting[k]].connected,
         \A i \in Id : playerRooms'[i] # None =>
           /\ playerRooms'[i] \in Rooms'
           /\ playerRooms'[i] = playerRooms[i] \/ room'[playerRooms'[i]].listed,
         \A i \in Id :
           playerRooms[i] # None /\ playerRooms'[i] = None => SameAccount(i, id),
         s.player = n =>
           player'[n].connected /\ (s.room = None => \E k \in Key : waiting'[k] = n)
  PROVE  HubInv'
<1>1. /\ sock' \in [Socket -> SocketType] /\ sock'[n] = s
      /\ \A m \in Socket : m # n => sock'[m] = sock[m]
  BY DEF HubInv, Types
<1>2. Joins(n)' /\ \A m \in Socket : Joins(m) => Joins(m)' /\ sock'[m] = sock[m]
  BY <1>1 DEF Joins
<1>3. IdOf(n)' = id
  BY <1>1 DEF IdOf
<1>4. Numbered'
  <2>1. ASSUME NEW p \in Made'
        PROVE  player'[p].id \in Id /\ Joins(p)' /\ sock'[p].player = p
    <3>1. CASE p \in Made
      <4>1. player[p].id \in Id /\ Joins(p) /\ sock[p].player = p /\ p \in Socket
        BY <3>1 DEF HubInv, Numbered, Made
      <4> QED BY <1>2, <3>1, <4>1
    <3>2. CASE p = n /\ s.player = n
      BY <1>1, <1>2, <3>2
    <3> QED BY <2>1, <3>1, <3>2
  <2>2. ASSUME NEW m \in Socket
        PROVE  /\ Joins(m)' => sock'[m].player \in Made'
               /\ sock'[m].pc \notin {"none", "joined", "serving", "dropping", "closed"} =>
                    sock'[m].room # None
               /\ sock'[m].room # None => sock'[m].room \in Rooms'
    <3>1. CASE m = n
      BY <1>1, <3>1
    <3>2. CASE m # n
      BY <1>1, <3>2 DEF HubInv, Numbered, Joins
    <3> QED BY <3>1, <3>2
  <2> QED BY <2>1, <2>2 DEF Numbered
<1>5. Present' /\ Queued'
  <2>1. ASSUME Active(n)', Alone(n)'
        PROVE  /\ player'[n].connected
               /\ sock'[n].room = None /\ MappedRoom(n)' = None => \E k \in Key : waiting'[k] = n
    <3>1. CASE s.player = n
      BY <1>1, <3>1
    <3>2. CASE s.player # n
      <4> DEFINE p == s.player
      <4>1. p \in Made
        BY <3>2
      <4>2. p \in Socket /\ Joins(p) /\ sock[p].player = p
        BY <4>1 DEF HubInv, Numbered, Made
      <4> HIDE DEF p
      <4>3. p \in Socket \ {n} /\ Joins(p)' /\ IdOf(p)' = player'[p].id
        BY <1>2, <3>2, <4>2 DEF IdOf, p
      <4>4. ~ SameAccount(IdOf(p)', IdOf(n)')
        BY <2>1, <4>3 DEF Alone, SameAccount
      <4> QED BY <1>3, <4>3, <4>4 DEF SameAccount, p
    <3> QED BY <3>1, <3>2
  <2>2. \A p \in Made : player'[p].id = player[p].id
    OBVIOUS
  <2>3. \A m \in Socket : Joins(m) => Joins(m)' /\ sock'[m].player = sock[m].player
    BY <1>2
  <2> QED BY <1>1, <1>2, <1>3, <2>1, <2>2, <2>3, OwnAccountOnly
<1>6. EntriesLead'
  <2>1. \A i \in Id : \/ playerRooms'[i] \in {playerRooms[i], None}
                      \/ room'[playerRooms'[i]].listed
    OBVIOUS
  <2> QED BY <2>1, EntriesLeadOn
<1> QED BY <1>1, <1>4, <1>5, <1>6 DEF HubInv, Types

-----------------------------------------------------------------------------
(* The steps of the loop. *)

LEMMA JoinedSocket ==
  ASSUME HubInv, NEW n \in Socket, Joins(n)
  PROVE  /\ sock[n] \in SocketType /\ sock[n].player \in Made /\ sock[n].player \in Socket
         /\ player[sock[n].player] \in PlayerType /\ IdOf(n) \in Id
         /\ MappedRoom(n) # None => MappedRoom(n) \in Rooms
         /\ MappedRoom(n) \in Number
         /\ sock[n].room # None => sock[n].room \in Rooms
<1>1. sock[n] \in SocketType /\ sock[n].player \in Made /\ sock[n].player \in Socket
  BY DEF HubInv, Types, Numbered, Made
<1>2. player[sock[n].player] \in PlayerType /\ IdOf(n) \in Id
  BY <1>1 DEF HubInv, Types, Numbered, IdOf
<1>3. MappedRoom(n) = playerRooms[IdOf(n)]
  BY DEF MappedRoom, IdOf
<1>4. /\ MappedRoom(n) # None => MappedRoom(n) \in Rooms
      /\ MappedRoom(n) \in Number
  BY <1>2, <1>3 DEF HubInv, Numbered, Types
<1> QED BY <1>1, <1>2, <1>4 DEF HubInv, Numbered

LEMMA LoopStep ==
  ASSUME HubInv, NEW n \in Socket, Joins(n), NEW s \in SocketType,
         sock' = [sock EXCEPT ![n] = s], UNCHANGED <<player, room, waiting, playerRooms>>,
         s.pc # "none", s.player = sock[n].player, s.room # None => s.room \in Rooms,
         s.pc \notin {"joined", "serving", "dropping", "closed"} => s.room # None,
         s.pc \in {"joined", "serving"} =>
           Active(n) /\ (s.room = None => sock[n].room = None)
  PROVE  HubInv'
<1>1. /\ player' \in [Socket -> PlayerType] /\ room' \in [Socket -> RoomType]
      /\ waiting' \in [Key -> Number] /\ playerRooms' \in [Id -> Number]
  BY DEF HubInv, Types
<1> QED BY <1>1, GoesKeeps

LEMMA ReadGenerationKeeps ==
  ASSUME HubInv, NEW n \in Socket, ReadGeneration(n)
  PROVE  HubInv'
<1> DEFINE g == player[sock[n].player].generation
           s == [sock[n] EXCEPT !.pc = "serving", !.generation = g]
<1>1. sock[n].pc = "joined" /\ Joins(n) /\ Active(n)
  BY DEF ReadGeneration, Joins, Active
<1>2. sock[n] \in SocketType /\ g \in Nat /\ (sock[n].room # None => sock[n].room \in Rooms)
  BY <1>1, JoinedSocket DEF PlayerType
<1>3. sock' = [sock EXCEPT ![n] = s] /\ UNCHANGED <<player, room, waiting, playerRooms>>
  BY DEF ReadGeneration, HubInv, Types
<1> HIDE DEF g
<1>4. s \in SocketType /\ s.pc = "serving" /\ s.player = sock[n].player /\ s.room = sock[n].room
  BY <1>2 DEF SocketType
<1> HIDE DEF s
<1> QED BY <1>1, <1>2, <1>3, <1>4, LoopStep

LEMMA MatchedKeeps ==
  ASSUME HubInv, NEW n \in Socket, Matched(n)
  PROVE  HubInv'
<1> DEFINE r == MappedRoom(n)
           s == [sock[n] EXCEPT !.room = r]
<1>1. sock[n].pc = "serving" /\ Joins(n) /\ Active(n) /\ r # None
  BY DEF Matched, Joins, Active
<1>2. sock[n] \in SocketType /\ r \in Rooms /\ r \in Number
  BY <1>1, JoinedSocket
<1>3. sock' = [sock EXCEPT ![n] = s] /\ UNCHANGED <<player, room, waiting, playerRooms>>
  BY DEF Matched, HubInv, Types
<1> HIDE DEF r
<1>4. s \in SocketType /\ s.pc = "serving" /\ s.player = sock[n].player /\ s.room = r
  BY <1>1, <1>2 DEF SocketType
<1> HIDE DEF s
<1> QED BY <1>1, <1>2, <1>3, <1>4, LoopStep

LEMMA DropKeeps ==
  ASSUME HubInv, NEW n \in Socket, Drop(n)
  PROVE  HubInv'
<1> DEFINE r == FoundRoom(n)
           c == IF r = None THEN "dropping" ELSE "disconnecting"
           s == [sock[n] EXCEPT !.room = r, !.pc = c]
<1>1. sock[n].pc = "serving" /\ Joins(n)
  BY DEF Drop, Joins
<1>2. sock[n] \in SocketType /\ r \in Number /\ (r # None => r \in Rooms)
  BY <1>1, JoinedSocket DEF FoundRoom, SocketType
<1>3. sock' = [sock EXCEPT ![n] = s] /\ UNCHANGED <<player, room, waiting, playerRooms>>
  BY DEF Drop, HubInv, Types
<1> HIDE DEF r
<1>4. c \in {"dropping", "disconnecting"} /\ (c = "disconnecting" => r # None)
  OBVIOUS
<1> HIDE DEF c
<1>5. s \in SocketType /\ s.pc = c /\ s.player = sock[n].player /\ s.room = r
  BY <1>2, <1>4 DEF SocketType
<1> HIDE DEF s
<1> QED BY <1>1, <1>2, <1>3, <1>4, <1>5, LoopStep

LEMMA CheckLatestKeeps ==
  ASSUME HubInv, NEW n \in Socket, CheckLatest(n)
  PROVE  HubInv'
<1>1. sock[n].pc = "disconnecting" /\ Joins(n) /\ sock[n].room # None
  BY DEF CheckLatest, Joins, HubInv, Numbered
<1>2. PICK c \in {"marking", "closed"}, g \in Nat :
        sock' = [sock EXCEPT ![n] = [sock[n] EXCEPT !.pc = c, !.generation = g]]
  <2>1. sock[n] \in SocketType /\ sock \in [Socket -> SocketType]
    BY <1>1, JoinedSocket DEF HubInv, Types
  <2>2. CASE sock' = [sock EXCEPT ![n].pc = "marking"]
    <3>1. sock' = [sock EXCEPT ![n] = [sock[n] EXCEPT !.pc = "marking",
                                                      !.generation = sock[n].generation]]
      BY <2>1, <2>2 DEF SocketType
    <3> QED BY <2>1, <3>1 DEF SocketType
  <2>3. CASE sock' = Closed(n)
    <3>1. sock' = [sock EXCEPT ![n] = [sock[n] EXCEPT !.pc = "closed", !.generation = 0]]
      BY <2>1, <2>3 DEF Closed
    <3> QED BY <3>1
  <2> QED BY <2>2, <2>3 DEF CheckLatest
<1> DEFINE s == [sock[n] EXCEPT !.pc = c, !.generation = g]
<1>3. /\ s \in SocketType /\ s.pc = c /\ s.player = sock[n].player /\ s.room = sock[n].room
      /\ s.room # None => s.room \in Rooms
  <2>1. sock[n] \in SocketType /\ (sock[n].room # None => sock[n].room \in Rooms)
    BY <1>1, JoinedSocket
  <2> QED BY <2>1 DEF SocketType
<1>4. sock' = [sock EXCEPT ![n] = s] /\ UNCHANGED <<player, room, waiting, playerRooms>>
  BY <1>2 DEF CheckLatest
<1> HIDE DEF s
<1> QED BY <1>1, <1>3, <1>4, LoopStep

-----------------------------------------------------------------------------
(* Changes of one record, and the steps that make them. *)

\* The loop of a socket goes on to its place c, or is over.
LEMMA GoesOn ==
  ASSUME HubInv, NEW n \in Socket, Joins(n),
         NEW c \in {"leaving", "disconnecting", "unmapping", "closed"},
         \/ sock' = [sock EXCEPT ![n].pc = c]
         \/ c = "closed" /\ sock' = Closed(n)
  PROVE  \E s \in SocketType :
           /\ sock' = [sock EXCEPT ![n] = s] /\ s.pc = c
           /\ s.player = sock[n].player /\ s.room = sock[n].room
<1>1. sock[n] \in SocketType /\ sock \in [Socket -> SocketType]
  BY JoinedSocket DEF HubInv, Types
<1>2. CASE sock' = [sock EXCEPT ![n].pc = c]
  <2> DEFINE s == [sock[n] EXCEPT !.pc = c]
  <2>1. sock' = [sock EXCEPT ![n] = s]
    BY <1>1, <1>2
  <2>2. s \in SocketType /\ s.pc = c /\ s.player = sock[n].player /\ s.room = sock[n].room
    BY <1>1 DEF SocketType
  <2> HIDE DEF s
  <2> QED BY <2>1, <2>2
<1>3. CASE c = "closed" /\ sock' = Closed(n)
  <2> DEFINE s == [sock[n] EXCEPT !.pc = "closed", !.generation = 0]
  <2>1. sock' = [sock EXCEPT ![n] = s]
    BY <1>1, <1>3 DEF Closed
  <2>2. s \in SocketType /\ s.pc = c /\ s.player = sock[n].player /\ s.room = sock[n].room
    BY <1>1, <1>3 DEF SocketType
  <2> HIDE DEF s
  <2> QED BY <2>1, <2>2
<1> QED BY <1>2, <1>3

LEMMA RoomChanges ==
  ASSUME NEW rm \in RoomType, NEW p
  PROVE  /\ \A f \in {Scheduled(rm), LeftBy(rm, p), WhenSeated(rm, p),
                      WhenSeated(LeftBy(rm, p), p)} :
              /\ f \in RoomType /\ f.host = rm.host /\ f.listed = rm.listed
              /\ f.spectators \subseteq rm.spectators
<1> DEFINE left == LeftBy(rm, p)
<1>1. left \in RoomType /\ left.host = rm.host /\ left.listed = rm.listed
      /\ left.spectators \subseteq rm.spectators
  BY DEF LeftBy, Unwatched, RoomType
<1> HIDE DEF left
<1>2. ASSUME NEW x \in RoomType
      PROVE  LET f == Scheduled(x)
             IN  /\ f \in RoomType /\ f.host = x.host /\ f.listed = x.listed
                 /\ f.spectators = x.spectators
  BY DEF Scheduled, RoomType
<1>3. WhenSeated(rm, p) \in {rm, Scheduled(rm)} /\ WhenSeated(left, p) \in {left, Scheduled(left)}
  BY DEF WhenSeated
<1> QED BY <1>1, <1>2, <1>3 DEF left

\* The hub forgets where the player of socket n is.
LEMMA UnmappedEntries ==
  ASSUME HubInv, NEW n \in Socket, Joins(n)
  PROVE  /\ Unmapped(n) \in [Id -> Number]
         /\ \A id \in Id : \/ Unmapped(n)[id] = playerRooms[id]
                           \/ Unmapped(n)[id] = None /\ id = IdOf(n)
<1>1. IdOf(n) \in Id /\ playerRooms \in [Id -> Number] /\ None \in Number
  BY JoinedSocket, Numbers DEF HubInv, Types
<1> QED BY <1>1 DEF Unmapped, IdOf

LEMMA UnwatchKeeps ==
  ASSUME HubInv, NEW n \in Socket, Unwatch(n)
  PROVE  HubInv'
<1>1. Joins(n) /\ sock' = Closed(n) /\ playerRooms' = Unmapped(n) /\ UNCHANGED <<player, room, waiting>>
  BY DEF Unwatch, Joins
<1>2. PICK s \in SocketType : /\ sock' = [sock EXCEPT ![n] = s] /\ s.pc = "closed"
                              /\ s.player = sock[n].player /\ s.room = sock[n].room
  BY <1>1, GoesOn
<1>3. s.room # None => s.room \in Rooms
  BY <1>1, <1>2, JoinedSocket
<1>4. player' \in [Socket -> PlayerType] /\ room' \in [Socket -> RoomType] /\ waiting' \in [Key -> Number]
  BY <1>1 DEF HubInv, Types
<1>5. /\ playerRooms' \in [Id -> Number]
      /\ \A id \in Id : \/ playerRooms'[id] = playerRooms[id]
                        \/ playerRooms'[id] = None /\ id = IdOf(n)
  BY <1>1, UnmappedEntries
<1> QED BY <1>1, <1>2, <1>3, <1>4, <1>5, GoesKeeps

LEMMA LeaveWaitingKeeps ==
  ASSUME HubInv, NEW n \in Socket, LeaveWaiting(n)
  PROVE  HubInv'
<1> DEFINE p == sock[n].player
<1>1. /\ Joins(n) /\ sock' = Closed(n) /\ player' = [player EXCEPT ![p].connected = FALSE]
      /\ waiting' = [k \in Key |-> IF waiting[k] = p THEN None ELSE waiting[k]]
      /\ UNCHANGED <<room, playerRooms>>
  BY DEF LeaveWaiting, Joins
<1>2. PICK s \in SocketType : /\ sock' = [sock EXCEPT ![n] = s] /\ s.pc = "closed"
                              /\ s.player = sock[n].player /\ s.room = sock[n].room
  BY <1>1, GoesOn
<1>3. (s.room # None => s.room \in Rooms) /\ p \in Socket
  BY <1>1, <1>2, JoinedSocket
<1>4. /\ player' \in [Socket -> PlayerType]
      /\ \A q \in Socket : /\ player'[q].id = player[q].id
                           /\ player'[q].generation = player[q].generation
                           /\ q # p => player'[q].connected = player[q].connected
  <2> HIDE DEF p
  <2> QED BY <1>1, <1>3 DEF HubInv, Types, PlayerType
<1>5. /\ waiting' \in [Key -> Number]
      /\ \A k \in Key : waiting'[k] = waiting[k] \/ (waiting'[k] = None /\ waiting[k] = p)
  BY <1>1, Numbers DEF HubInv, Types
<1>6. room' \in [Socket -> RoomType] /\ playerRooms' \in [Id -> Number]
  BY <1>1 DEF HubInv, Types
<1> QED BY <1>1, <1>2, <1>3, <1>4, <1>5, <1>6, GoesKeeps

LEMMA LeaveKeeps ==
  ASSUME HubInv, NEW n \in Socket, Leave(n)
  PROVE  HubInv'
<1> DEFINE p == sock[n].player
           r == sock[n].room
           f == LeftBy(room[r], p)
<1>1. /\ Joins(n) /\ r # None /\ sock' = [sock EXCEPT ![n].pc = "leaving"]
      /\ player' = [player EXCEPT ![p].connected = FALSE]
      /\ UNCHANGED <<waiting, playerRooms>>
  BY DEF Leave, Joins
<1>2. PICK s \in SocketType : /\ sock' = [sock EXCEPT ![n] = s] /\ s.pc = "leaving"
                              /\ s.player = sock[n].player /\ s.room = sock[n].room
  BY <1>1, GoesOn
<1>3. r \in Rooms /\ r \in Socket /\ p \in Socket /\ room[r] \in RoomType
  BY <1>1, JoinedSocket DEF Rooms, HubInv, Types
<1>4. room' = [room EXCEPT ![r] = f]
  BY DEF Leave
<1>5. /\ f \in RoomType /\ f.host = room[r].host /\ f.listed = room[r].listed
      /\ f.spectators \subseteq room[r].spectators
  BY <1>3, RoomChanges
<1> HIDE DEF f
<1>6. /\ room' \in [Socket -> RoomType]
      /\ \A q \in Socket : /\ room'[q].host = room[q].host /\ room'[q].listed = room[q].listed
                           /\ room'[q].spectators \subseteq room[q].spectators
  <2> HIDE DEF r
  <2> QED BY <1>3, <1>4, <1>5 DEF HubInv, Types
<1>7. /\ player' \in [Socket -> PlayerType]
      /\ \A q \in Socket : /\ player'[q].id = player[q].id
                           /\ player'[q].generation = player[q].generation
                           /\ q # p => player'[q].connected = player[q].connected
  <2> HIDE DEF p
  <2> QED BY <1>1, <1>3 DEF HubInv, Types, PlayerType
<1>8. waiting' \in [Key -> Number] /\ playerRooms' \in [Id -> Number]
  BY <1>1 DEF HubInv, Types
<1> QED BY <1>1, <1>2, <1>3, <1>6, <1>7, <1>8, GoesKeeps

LEMMA LeaveHubKeeps ==
  ASSUME HubInv, NEW n \in Socket, LeaveHub(n)
  PROVE  HubInv'
<1> DEFINE p == sock[n].player
           r == sock[n].room
           f == WhenSeated(room[r], p)
<1>1. /\ Joins(n) /\ r # None /\ sock' = [sock EXCEPT ![n].pc = "disconnecting"]
      /\ playerRooms' = Unmapped(n) /\ UNCHANGED <<player, waiting>>
  BY DEF LeaveHub, Joins, HubInv, Numbered
<1>2. PICK s \in SocketType : /\ sock' = [sock EXCEPT ![n] = s] /\ s.pc = "disconnecting"
                              /\ s.player = sock[n].player /\ s.room = sock[n].room
  BY <1>1, GoesOn
<1>3. r \in Rooms /\ r \in Socket /\ p \in Socket /\ room[r] \in RoomType
  BY <1>1, JoinedSocket DEF Rooms, HubInv, Types
<1>4. room' = [room EXCEPT ![r] = f]
  BY DEF LeaveHub
<1>5. /\ f \in RoomType /\ f.host = room[r].host /\ f.listed = room[r].listed
      /\ f.spectators \subseteq room[r].spectators
  BY <1>3, RoomChanges
<1> HIDE DEF f
<1>6. /\ room' \in [Socket -> RoomType]
      /\ \A q \in Socket : /\ room'[q].host = room[q].host /\ room'[q].listed = room[q].listed
                           /\ room'[q].spectators \subseteq room[q].spectators
  <2> HIDE DEF r
  <2> QED BY <1>3, <1>4, <1>5 DEF HubInv, Types
<1>7. player' \in [Socket -> PlayerType] /\ waiting' \in [Key -> Number]
  BY <1>1 DEF HubInv, Types
<1>8. /\ playerRooms' \in [Id -> Number]
      /\ \A id \in Id : \/ playerRooms'[id] = playerRooms[id]
                        \/ playerRooms'[id] = None /\ id = IdOf(n)
  BY <1>1, UnmappedEntries
<1> QED BY <1>1, <1>2, <1>3, <1>6, <1>7, <1>8, GoesKeeps

LEMMA DisconnectKeeps ==
  ASSUME HubInv, NEW n \in Socket, Disconnect(n)
  PROVE  HubInv'
<1> DEFINE p == sock[n].player
           r == sock[n].room
           f == WhenSeated(LeftBy(room[r], p), p)
<1>1. /\ Joins(n) /\ r # None /\ player' = [player EXCEPT ![p].connected = FALSE]
      /\ UNCHANGED <<waiting, playerRooms>>
  BY DEF Disconnect, Joins, HubInv, Numbered
<1>2. PICK s \in SocketType : /\ sock' = [sock EXCEPT ![n] = s] /\ s.pc \in {"closed", "unmapping"}
                              /\ s.player = sock[n].player /\ s.room = sock[n].room
  BY <1>1, GoesOn DEF Disconnect
<1>3. r \in Rooms /\ r \in Socket /\ p \in Socket /\ room[r] \in RoomType
  BY <1>1, JoinedSocket DEF Rooms, HubInv, Types
<1>4. room' = [room EXCEPT ![r] = f]
  BY DEF Disconnect
<1>5. /\ f \in RoomType /\ f.host = room[r].host /\ f.listed = room[r].listed
      /\ f.spectators \subseteq room[r].spectators
  BY <1>3, RoomChanges
<1> HIDE DEF f
<1>6. /\ room' \in [Socket -> RoomType]
      /\ \A q \in Socket : /\ room'[q].host = room[q].host /\ room'[q].listed = room[q].listed
                           /\ room'[q].spectators \subseteq room[q].spectators
  <2> HIDE DEF r
  <2> QED BY <1>3, <1>4, <1>5 DEF HubInv, Types
<1>7. /\ player' \in [Socket -> PlayerType]
      /\ \A q \in Socket : /\ player'[q].id = player[q].id
                           /\ player'[q].generation = player[q].generation
                           /\ q # p => player'[q].connected = player[q].connected
  <2> HIDE DEF p
  <2> QED BY <1>1, <1>3 DEF HubInv, Types, PlayerType
<1>8. waiting' \in [Key -> Number] /\ playerRooms' \in [Id -> Number]
  BY <1>1 DEF HubInv, Types
<1> QED BY <1>1, <1>2, <1>3, <1>6, <1>7, <1>8, GoesKeeps

-----------------------------------------------------------------------------
(* Joins. *)

LEMMA TakesPartAs ==
  ASSUME HubInv, NEW id \in Id, TakesPart(id)
  PROVE  /\ playerRooms[id] \in Rooms /\ playerRooms[id] \in Socket
         /\ Participant(playerRooms[id], id) \in Made
         /\ Participant(playerRooms[id], id) \in Socket
         /\ player[Participant(playerRooms[id], id)].id = id
<1> DEFINE r == playerRooms[id]
<1>1. r \in Rooms /\ Participants(r, id) # {}
  BY DEF TakesPart, HubInv, Numbered
<1> HIDE DEF r
<1>2. Participant(r, id) \in Participants(r, id)
  BY <1>1 DEF Participant
<1>3. Seats(r) \subseteq Made /\ room[r].spectators \subseteq Made /\ Made \subseteq Socket
  BY <1>1 DEF HubInv, Numbered, Seats, Made
<1>4. Participant(r, id) \in Made /\ player[Participant(r, id)].id = id
  BY <1>2, <1>3 DEF Participants, Named
<1> QED BY <1>1, <1>3, <1>4 DEF r, Rooms

\* Leaving another table costs nobody but the player of that ID.
LEMMA Released ==
  ASSUME HubInv, NEW id \in Id
  PROVE  /\ ReleasedPlayers(id) \in [Socket -> PlayerType]
         /\ ReleasedRooms(id) \in [Socket -> RoomType]
         /\ \A p \in Socket :
              /\ ReleasedPlayers(id)[p].id = player[p].id
              /\ ReleasedPlayers(id)[p].generation = player[p].generation
              /\ ~ ReleasedPlayers(id)[p].connected =>
                   ~ player[p].connected \/ player[p].id = id
         /\ \A r \in Socket :
              /\ ReleasedRooms(id)[r].host = room[r].host
              /\ ReleasedRooms(id)[r].listed = room[r].listed
              /\ ReleasedRooms(id)[r].spectators \subseteq room[r].spectators
<1>1. CASE TakesPart(id)
  <2> DEFINE r == playerRooms[id]
             p == Participant(r, id)
             pls == ReleasedPlayers(id)
             rms == ReleasedRooms(id)
  <2>1. r \in Socket /\ p \in Socket /\ player[p].id = id
    BY <1>1, TakesPartAs
  <2>2. pls = [player EXCEPT ![p].connected = FALSE]
    BY <1>1 DEF ReleasedPlayers
  <2>3. PICK f \in {Scheduled(room[r]), LeftBy(room[r], p)} : rms = [room EXCEPT ![r] = f]
    BY <1>1 DEF ReleasedRooms
  <2>4. player \in [Socket -> PlayerType] /\ room \in [Socket -> RoomType]
    BY DEF HubInv, Types
  <2> HIDE DEF r, p, pls, rms
  <2>5. /\ f \in RoomType /\ f.host = room[r].host /\ f.listed = room[r].listed
        /\ f.spectators \subseteq room[r].spectators
    BY <2>1, <2>3, <2>4, RoomChanges
  <2>6. /\ pls \in [Socket -> PlayerType]
        /\ \A q \in Socket :
             /\ pls[q].id = player[q].id /\ pls[q].generation = player[q].generation
             /\ ~ pls[q].connected => ~ player[q].connected \/ player[q].id = id
    BY <2>1, <2>2, <2>4 DEF PlayerType
  <2>7. /\ rms \in [Socket -> RoomType]
        /\ \A q \in Socket :
             /\ rms[q].host = room[q].host /\ rms[q].listed = room[q].listed
             /\ rms[q].spectators \subseteq room[q].spectators
    BY <2>1, <2>3, <2>4, <2>5
  <2> QED BY <2>6, <2>7 DEF pls, rms
<1>2. CASE ~ TakesPart(id)
  <2>1. ReleasedPlayers(id) = player /\ ReleasedRooms(id) = room
    BY <1>2 DEF ReleasedPlayers, ReleasedRooms
  <2> QED BY <2>1 DEF HubInv, Types
<1> QED BY <1>1, <1>2

LEMMA NewRecords ==
  /\ \A id \in Id, q \in Request :
       LET new == NewPlayer(id, q.mode)
       IN  /\ new \in PlayerType /\ new.id = id /\ new.connected /\ new.generation = 1
  /\ \A id \in Id :
       LET new == Watcher(id)
       IN  /\ new \in PlayerType /\ new.id = id /\ new.connected /\ new.generation = 1
  /\ \A p, r \in Number :
       LET s == [pc |-> "joined", player |-> p, room |-> r, generation |-> 0]
       IN  s \in SocketType
<1>1. None \in Modes /\ \A q \in Request : q.mode \in Modes
  BY DEF Modes
<1> QED BY <1>1 DEF NewPlayer, Watcher, PlayerType, SocketType

LEMMA BackAgain ==
  ASSUME NEW x \in PlayerType, NEW g \in Nat
  PROVE  LET y == [x EXCEPT !.connected = TRUE, !.generation = g]
         IN  y \in PlayerType /\ y.id = x.id /\ y.connected = TRUE /\ y.generation = g
BY DEF PlayerType

LEMMA ResumeKeeps ==
  ASSUME HubInv, NEW n \in Socket, NEW id \in Id, NEW q \in Request, Resume(n, id, q)
  PROVE  HubInv'
<1> DEFINE r == playerRooms[id]
           p == Participant(r, id)
           g == player[p].generation + 1
           back == [player[p] EXCEPT !.connected = TRUE, !.generation = g]
           s == [pc |-> "joined", player |-> p, room |-> r, generation |-> 0]
<1>1. /\ ~ Joins(n) /\ TakesPart(id) /\ sock' = [sock EXCEPT ![n] = s]
      /\ player' = [player EXCEPT ![p] = back] /\ UNCHANGED <<room, waiting, playerRooms>>
  BY DEF Resume, Resumes, NextSocket, Joins, Serving
<1>2. r \in Rooms /\ r \in Socket /\ p \in Made /\ p \in Socket /\ player[p].id = id
  BY <1>1, TakesPartAs
<1>3. player \in [Socket -> PlayerType] /\ player[p] \in PlayerType /\ player[p].generation # 0
      /\ player[p].generation \in Nat
  BY <1>2 DEF HubInv, Types, Made, PlayerType
<1>4. g \in Nat /\ g # 0
  BY <1>3
<1> HIDE DEF g
<1>5. back \in PlayerType /\ back.id = id /\ back.connected = TRUE /\ back.generation # 0
  BY <1>2, <1>3, <1>4, BackAgain
<1>6. s \in SocketType /\ s.pc = "joined" /\ s.player = p /\ s.room = r
  BY <1>2, Numbers, NewRecords
<1>7. n \notin Made
  BY <1>1, Fresh
<1> HIDE DEF r, p, back, s
<1>8. /\ player' \in [Socket -> PlayerType] /\ player'[p] = back
      /\ \A o \in Socket : o # p => player'[o] = player[o]
  BY <1>1, <1>2, <1>3, <1>5
<1>9. Made' = Made /\ Rooms' = Rooms
  BY <1>1, <1>2, <1>5, <1>8 DEF Made, Rooms
<1>10. \A o \in Made : /\ player'[o].id = player[o].id
                       /\ ~ player'[o].connected => ~ player[o].connected
  BY <1>2, <1>5, <1>8 DEF Made
<1>11. /\ room' \in [Socket -> RoomType] /\ waiting' \in [Key -> Number]
       /\ playerRooms' \in [Id -> Number]
  BY <1>1 DEF HubInv, Types
<1>12. /\ \A o \in Rooms : o \in Made /\ room[o].host \in Made /\ room[o].spectators \subseteq Made
       /\ \A k \in Key : waiting[k] # None => waiting[k] \in Made
       /\ \A i \in Id : playerRooms[i] # None => playerRooms[i] \in Rooms
  BY DEF HubInv, Numbered
<1>13. /\ s.player \in Made' /\ player'[s.player].id = id /\ s.room \in Rooms' /\ s.player # n
  BY <1>2, <1>5, <1>6, <1>7, <1>8, <1>9
<1>14. \A o \in Made : /\ o \in Made' /\ player'[o].id = player[o].id
                       /\ ~ player'[o].connected =>
                            ~ player[o].connected \/ SameAccount(player[o].id, id)
  BY <1>9, <1>10
<1>15. \A o \in Rooms : /\ o \in Rooms' /\ room'[o].host = room[o].host
                        /\ room'[o].listed = room[o].listed
  BY <1>1, <1>9
<1>16. \A o \in Rooms' : /\ o \in Made' /\ room'[o].host \in Made'
                         /\ room'[o].spectators \subseteq Made'
  BY <1>1, <1>9, <1>12
<1>17. /\ \A k \in Key : waiting'[k] # None => waiting'[k] \in Made'
       /\ \A i \in Id : playerRooms'[i] # None =>
            playerRooms'[i] \in Rooms' /\ playerRooms'[i] = playerRooms[i]
  BY <1>1, <1>9, <1>12
<1> QED BY <1>1, <1>6, <1>8, <1>9, <1>11, <1>13, <1>14, <1>15, <1>16, <1>17, JoinKeeps

\* The joins that make a player.
LEMMA Newcomer ==
  ASSUME HubInv, NEW n \in Socket, n \notin Made, NEW id \in Id,
         NEW pls \in [Socket -> PlayerType],
         \A p \in Socket :
           /\ pls[p].id = player[p].id /\ pls[p].generation = player[p].generation
           /\ ~ pls[p].connected => ~ player[p].connected \/ player[p].id = id,
         NEW new \in PlayerType, new.id = id, new.generation # 0,
         player' \in [Socket -> PlayerType], player'[n] = new,
         \A p \in Socket : p # n => player'[p] = pls[p]
  PROVE  /\ Made' = Made \cup {n}
         /\ \A p \in Made : /\ p \in Made' /\ player'[p].id = player[p].id
                            /\ ~ player'[p].connected =>
                                 ~ player[p].connected \/ SameAccount(player[p].id, id)
<1>1. Made' = Made \cup {n} /\ Made \subseteq Socket
  BY DEF Made
<1> QED BY <1>1 DEF SameAccount

LEMMA SpectateKeeps ==
  ASSUME HubInv, NEW n \in Socket, NEW id \in Id, NEW r \in Rooms, Spectate(n, id, r)
  PROVE  HubInv'
<1> DEFINE new == Watcher(id)
           s == [pc |-> "joined", player |-> n, room |-> r, generation |-> 0]
           watching == (room[r].spectators \ Named(room[r].spectators, id)) \cup {n}
           f == [room[r] EXCEPT !.spectators = watching]
<1>1. /\ ~ Joins(n) /\ room[r].listed /\ sock' = [sock EXCEPT ![n] = s]
      /\ player' = [player EXCEPT ![n] = new]
      /\ playerRooms' = [playerRooms EXCEPT ![id] = r] /\ waiting' = waiting
  BY DEF Spectate, NextSocket, Joins, Serving
<1>2. r \in Socket /\ r \in Number /\ n \in Number /\ r # None
  BY Numbers DEF Rooms
<1>3. /\ player \in [Socket -> PlayerType] /\ room \in [Socket -> RoomType]
      /\ waiting \in [Key -> Number] /\ playerRooms \in [Id -> Number]
  BY DEF HubInv, Types
<1>4. room' = [room EXCEPT ![r] = f]
  BY <1>2, <1>3 DEF Spectate
<1>5. /\ new \in PlayerType /\ new.id = id /\ new.connected /\ new.generation # 0
      /\ s \in SocketType /\ s.pc = "joined" /\ s.player = n /\ s.room = r
  BY <1>2, NewRecords
<1>6. /\ watching \subseteq room[r].spectators \cup {n} /\ room[r] \in RoomType
      /\ watching \in SUBSET Socket
  BY <1>2, <1>3 DEF RoomType
<1> HIDE DEF watching
<1>7. f \in RoomType /\ f.host = room[r].host /\ f.listed = room[r].listed /\ f.spectators = watching
  BY <1>6 DEF RoomType
<1>8. n \notin Made
  BY <1>1, Fresh
<1> HIDE DEF new, s, f
<1>9. /\ player' \in [Socket -> PlayerType] /\ player'[n] = new
      /\ Made' = Made \cup {n}
      /\ \A p \in Made : /\ p \in Made' /\ player'[p].id = player[p].id
                         /\ ~ player'[p].connected =>
                              ~ player[p].connected \/ SameAccount(player[p].id, id)
  <2>1. /\ player' \in [Socket -> PlayerType] /\ player'[n] = new
        /\ \A p \in Socket : p # n => player'[p] = player[p]
    BY <1>1, <1>3, <1>5, <1>8
  <2> QED BY <1>1, <1>3, <1>5, <1>8, <2>1, Newcomer
<1>10. /\ room' \in [Socket -> RoomType]
       /\ \A q \in Socket :
            /\ room'[q].host = room[q].host /\ room'[q].listed = room[q].listed
            /\ room'[q].spectators \subseteq room[q].spectators \cup {n}
  BY <1>2, <1>3, <1>4, <1>6, <1>7
<1>11. Rooms' = Rooms /\ Rooms \subseteq Socket
  BY <1>10 DEF Rooms
<1>12. /\ \A o \in Rooms : o \in Made /\ room[o].host \in Made /\ room[o].spectators \subseteq Made
       /\ \A k \in Key : waiting[k] # None => waiting[k] \in Made
       /\ \A i \in Id : playerRooms[i] # None => playerRooms[i] \in Rooms
  BY DEF HubInv, Numbered
<1>13. \A o \in Rooms : /\ o \in Rooms' /\ room'[o].host = room[o].host
                        /\ room'[o].listed = room[o].listed
  BY <1>10, <1>11
<1>14. \A o \in Rooms' : /\ o \in Made' /\ room'[o].host \in Made'
                         /\ room'[o].spectators \subseteq Made'
  BY <1>9, <1>10, <1>11, <1>12
<1>15. /\ playerRooms' \in [Id -> Number] /\ waiting' \in [Key -> Number]
       /\ \A i \in Id : playerRooms'[i] = IF i = id THEN r ELSE playerRooms[i]
  BY <1>1, <1>2, <1>3
<1>16. \A k \in Key : waiting'[k] # None => waiting'[k] \in Made'
  BY <1>1, <1>9, <1>12
<1>17. /\ \A i \in Id : playerRooms'[i] # None =>
            /\ playerRooms'[i] \in Rooms'
            /\ playerRooms'[i] = playerRooms[i] \/ room'[playerRooms'[i]].listed
       /\ \A i \in Id : playerRooms[i] # None => playerRooms'[i] # None
  BY <1>1, <1>2, <1>10, <1>11, <1>12, <1>15
<1>18. /\ s.player \in Made' /\ player'[s.player].id = id /\ s.room \in Rooms' /\ s.room # None
       /\ player'[n].connected
  BY <1>2, <1>5, <1>9, <1>11
<1> QED BY <1>1, <1>5, <1>9, <1>10, <1>13, <1>14, <1>15, <1>16, <1>17, <1>18, JoinKeeps

LEMMA EnqueueKeeps ==
  ASSUME HubInv, NEW n \in Socket, NEW id \in Id, NEW q \in Request, Enqueue(n, id, q)
  PROVE  HubInv'
<1> DEFINE new == NewPlayer(id, q.mode)
           pls == ReleasedPlayers(id)
           s == [pc |-> "joined", player |-> n, room |-> None, generation |-> 0]
           k == KeyFor(q)
<1>1. /\ ~ Joins(n) /\ ~ Opponent(id, q) /\ sock' = [sock EXCEPT ![n] = s]
      /\ player' = [pls EXCEPT ![n] = new] /\ room' = ReleasedRooms(id)
      /\ waiting' = [waiting EXCEPT ![k] = n]
      /\ playerRooms' = [playerRooms EXCEPT ![id] = None]
  BY DEF Enqueue, NextSocket, Joins, Serving
<1>2. n \in Number /\ None \in Number /\ k \in Key /\ n # None
  BY Numbers DEF Key
<1>3. waiting \in [Key -> Number] /\ playerRooms \in [Id -> Number]
  BY DEF HubInv, Types
<1>4. /\ pls \in [Socket -> PlayerType]
      /\ \A p \in Socket :
           /\ pls[p].id = player[p].id /\ pls[p].generation = player[p].generation
           /\ ~ pls[p].connected => ~ player[p].connected \/ player[p].id = id
  BY Released
<1>5. /\ new \in PlayerType /\ new.id = id /\ new.connected /\ new.generation # 0
      /\ s \in SocketType /\ s.pc = "joined" /\ s.player = n /\ s.room = None
  BY <1>2, NewRecords
<1>6. n \notin Made
  BY <1>1, Fresh
<1>7. waiting[k] # None =>
        SameAccount(player[waiting[k]].id, id) \/ ~ player[waiting[k]].connected
  BY <1>1 DEF Opponent
<1> HIDE DEF new, pls, s, k
<1>8. /\ player' \in [Socket -> PlayerType] /\ player'[n] = new
      /\ Made' = Made \cup {n}
      /\ \A p \in Made : /\ p \in Made' /\ player'[p].id = player[p].id
                         /\ ~ player'[p].connected =>
                              ~ player[p].connected \/ SameAccount(player[p].id, id)
  <2>1. /\ player' \in [Socket -> PlayerType] /\ player'[n] = new
        /\ \A p \in Socket : p # n => player'[p] = pls[p]
    BY <1>1, <1>4, <1>5, <1>6
  <2> QED BY <1>1, <1>4, <1>5, <1>6, <2>1, Newcomer
<1>9. /\ room' \in [Socket -> RoomType]
      /\ \A o \in Socket : /\ room'[o].host = room[o].host /\ room'[o].listed = room[o].listed
                           /\ room'[o].spectators \subseteq room[o].spectators
  BY <1>1, Released
<1>10. Rooms' = Rooms /\ Rooms \subseteq Socket
  BY <1>9 DEF Rooms
<1>11. /\ \A o \in Rooms : o \in Made /\ room[o].host \in Made /\ room[o].spectators \subseteq Made
       /\ \A l \in Key : waiting[l] # None => waiting[l] \in Made
       /\ \A i \in Id : playerRooms[i] # None => playerRooms[i] \in Rooms
  BY DEF HubInv, Numbered
<1>12. \A o \in Rooms : /\ o \in Rooms' /\ room'[o].host = room[o].host
                        /\ room'[o].listed = room[o].listed
  BY <1>9, <1>10
<1>13. \A o \in Rooms' : /\ o \in Made' /\ room'[o].host \in Made'
                         /\ room'[o].spectators \subseteq Made'
  BY <1>8, <1>9, <1>10, <1>11
<1>14. /\ playerRooms' \in [Id -> Number] /\ waiting' \in [Key -> Number] /\ waiting'[k] = n
       /\ \A i \in Id : playerRooms'[i] = IF i = id THEN None ELSE playerRooms[i]
       /\ \A l \in Key : l # k => waiting'[l] = waiting[l]
  BY <1>1, <1>2, <1>3
<1>15. \A l \in Key : waiting'[l] # None => waiting'[l] \in Made'
  BY <1>8, <1>11, <1>14
<1>16. \A l \in Key : waiting[l] # None /\ waiting'[l] # waiting[l] =>
         \/ SameAccount(player[waiting[l]].id, id)
         \/ playerRooms'[player[waiting[l]].id] # None
         \/ ~ player[waiting[l]].connected
  BY <1>7, <1>14
<1>17. /\ \A i \in Id : playerRooms'[i] # None =>
            playerRooms'[i] \in Rooms' /\ playerRooms'[i] = playerRooms[i]
       /\ \A i \in Id : playerRooms[i] # None /\ playerRooms'[i] = None => SameAccount(i, id)
  BY <1>10, <1>11, <1>14 DEF SameAccount
<1>18. /\ s.player \in Made' /\ player'[s.player].id = id
       /\ player'[n].connected /\ \E l \in Key : waiting'[l] = n
  BY <1>2, <1>5, <1>8, <1>14
<1> QED BY <1>1, <1>5, <1>8, <1>9, <1>12, <1>13, <1>14, <1>15, <1>16, <1>17, <1>18, JoinKeeps

LEMMA PairKeeps ==
  ASSUME HubInv, NEW n \in Socket, NEW id \in Id, NEW q \in Request, Pair(n, id, q)
  PROVE  HubInv'
<1> DEFINE new == NewPlayer(id, q.mode)
           pls == ReleasedPlayers(id)
           rms == ReleasedRooms(id)
           s == [pc |-> "joined", player |-> n, room |-> n, generation |-> 0]
           k == KeyFor(q)
           h == waiting[k]
           rm == [NoRoom EXCEPT !.host = h, !.listed = TRUE,
                                !.table = [mode |-> player[h].mode, invite |-> q.invite]]
<1>1. /\ ~ Joins(n) /\ h # None /\ sock' = [sock EXCEPT ![n] = s]
      /\ player' = [pls EXCEPT ![n] = new] /\ room' = [rms EXCEPT ![n] = rm]
      /\ waiting' = [waiting EXCEPT ![k] = None]
      /\ playerRooms' = Registered(player[h].id, id, n)
  BY DEF Pair, NextSocket, Joins, Serving, Opponent
<1>2. n \in Number /\ None \in Number /\ k \in Key /\ n # None
  BY Numbers DEF Key
<1>3. waiting \in [Key -> Number] /\ playerRooms \in [Id -> Number]
  BY DEF HubInv, Types
<1>4. /\ pls \in [Socket -> PlayerType]
      /\ \A p \in Socket :
           /\ pls[p].id = player[p].id /\ pls[p].generation = player[p].generation
           /\ ~ pls[p].connected => ~ player[p].connected \/ player[p].id = id
  BY Released
<1>5. /\ rms \in [Socket -> RoomType]
      /\ \A o \in Socket : /\ rms[o].host = room[o].host /\ rms[o].listed = room[o].listed
                           /\ rms[o].spectators \subseteq room[o].spectators
  BY Released
<1>6. /\ new \in PlayerType /\ new.id = id /\ new.connected /\ new.generation # 0
      /\ s \in SocketType /\ s.pc = "joined" /\ s.player = n /\ s.room = n
  BY <1>2, NewRecords
<1>7. n \notin Made /\ n \notin Rooms
  BY <1>1, Fresh
<1>8. h \in Made /\ h \in Socket /\ h \in Number /\ player[h] \in PlayerType /\ player[h].id \in Id
  BY <1>1, <1>2, Numbers DEF HubInv, Types, Numbered, Made
<1> HIDE DEF h
<1>9. rm \in RoomType /\ rm.host = h /\ rm.listed = TRUE /\ rm.spectators = {}
  <2> DEFINE t == [mode |-> player[h].mode, invite |-> q.invite]
  <2>1. t \in Tables
    BY <1>8 DEF Tables, PlayerType
  <2>2. NoRoom \in RoomType /\ NoRoom.spectators = {}
    BY Numbers DEF NoRoom, RoomType, Tables
  <2> HIDE DEF t
  <2>3. rm = [NoRoom EXCEPT !.host = h, !.listed = TRUE, !.table = t]
    BY DEF t
  <2> HIDE DEF rm
  <2> QED BY <1>8, <2>1, <2>2, <2>3 DEF RoomType
<1> HIDE DEF new, pls, rms, s, k, rm
<1>10. /\ player' \in [Socket -> PlayerType] /\ player'[n] = new
       /\ Made' = Made \cup {n}
       /\ \A p \in Made : /\ p \in Made' /\ player'[p].id = player[p].id
                          /\ ~ player'[p].connected =>
                               ~ player[p].connected \/ SameAccount(player[p].id, id)
  <2>1. /\ player' \in [Socket -> PlayerType] /\ player'[n] = new
        /\ \A p \in Socket : p # n => player'[p] = pls[p]
    BY <1>1, <1>4, <1>6, <1>7
  <2> QED BY <1>1, <1>4, <1>6, <1>7, <2>1, Newcomer
<1>11. /\ room' \in [Socket -> RoomType] /\ room'[n] = rm
       /\ \A o \in Socket : o # n =>
            /\ room'[o].host = room[o].host /\ room'[o].listed = room[o].listed
            /\ room'[o].spectators \subseteq room[o].spectators
  BY <1>1, <1>5, <1>9
<1>12. Rooms' = Rooms \cup {n} /\ Rooms \subseteq Socket
  BY <1>1, <1>9, <1>11 DEF Rooms
<1>13. /\ \A o \in Rooms : o \in Made /\ room[o].host \in Made /\ room[o].spectators \subseteq Made
       /\ \A l \in Key : waiting[l] # None => waiting[l] \in Made
       /\ \A i \in Id : playerRooms[i] # None => playerRooms[i] \in Rooms
  BY DEF HubInv, Numbered
<1>14. \A o \in Rooms : /\ o \in Rooms' /\ room'[o].host = room[o].host
                        /\ room'[o].listed = room[o].listed
                        /\ room'[o].spectators \subseteq room[o].spectators
  BY <1>7, <1>11, <1>12
<1>15. \A o \in Rooms' : /\ o \in Made' /\ room'[o].host \in Made'
                         /\ room'[o].spectators \subseteq Made'
  <2>1. room'[n].host \in Made' /\ room'[n].spectators \subseteq Made' /\ n \in Made'
    BY <1>8, <1>9, <1>10, <1>11
  <2>2. \A o \in Rooms : /\ o \in Made' /\ room'[o].host \in Made'
                         /\ room'[o].spectators \subseteq Made'
    BY <1>10, <1>13, <1>14
  <2> QED BY <1>12, <2>1, <2>2
<1>16. /\ playerRooms' \in [Id -> Number] /\ waiting' \in [Key -> Number]
       /\ \A i \in Id : playerRooms'[i] = playerRooms[i] \/ playerRooms'[i] = n
       /\ playerRooms'[player[h].id] = n
       /\ waiting'[k] = None /\ \A l \in Key : l # k => waiting'[l] = waiting[l]
  BY <1>1, <1>2, <1>3, <1>8 DEF Registered
<1>17. \A l \in Key : waiting'[l] # None => waiting'[l] \in Made'
  BY <1>10, <1>13, <1>16
<1>18. \A l \in Key : waiting[l] # None /\ waiting'[l] # waiting[l] =>
         \/ SameAccount(player[waiting[l]].id, id)
         \/ playerRooms'[player[waiting[l]].id] # None
         \/ ~ player[waiting[l]].connected
  BY <1>2, <1>16 DEF h
<1>19. /\ \A i \in Id : playerRooms'[i] # None =>
            /\ playerRooms'[i] \in Rooms'
            /\ playerRooms'[i] = playerRooms[i] \/ room'[playerRooms'[i]].listed
       /\ \A i \in Id : playerRooms[i] # None => playerRooms'[i] # None
  BY <1>2, <1>9, <1>11, <1>12, <1>13, <1>16
<1>20. /\ s.player \in Made' /\ player'[s.player].id = id /\ s.room \in Rooms' /\ s.room # None
       /\ player'[n].connected
  BY <1>2, <1>6, <1>10, <1>12
<1>21. \A o \in Rooms : /\ o \in Rooms' /\ room'[o].host = room[o].host
                        /\ room'[o].listed = room[o].listed
  BY <1>14
<1>22. \A p \in Made' : p \in Made \/ (p = n /\ s.player = n)
  BY <1>6, <1>10
<1>23. /\ ~ Joins(n) /\ sock' = [sock EXCEPT ![n] = s] /\ s \in SocketType /\ s.pc = "joined"
       /\ room' \in [Socket -> RoomType] /\ player' \in [Socket -> PlayerType]
       /\ waiting' \in [Key -> Number] /\ playerRooms' \in [Id -> Number]
       /\ \A p \in Made : /\ p \in Made' /\ player'[p].id = player[p].id
                          /\ ~ player'[p].connected =>
                               ~ player[p].connected \/ SameAccount(player[p].id, id)
  BY <1>1, <1>6, <1>10, <1>11, <1>16
<1>24. \A i \in Id : playerRooms'[i] # None =>
           /\ playerRooms'[i] \in Rooms'
           /\ playerRooms'[i] = playerRooms[i] \/ room'[playerRooms'[i]].listed
  BY <1>19
<1>25. \A i \in Id :
           playerRooms[i] # None /\ playerRooms'[i] = None => SameAccount(i, id)
  BY <1>19
<1>26. s.player = n =>
           player'[n].connected /\ (s.room = None => \E l \in Key : waiting'[l] = n)
  BY <1>20
<1> QED BY <1>15, <1>17, <1>18, <1>21, <1>20, <1>22, <1>23, <1>24, <1>25, <1>26, JoinKeeps

-----------------------------------------------------------------------------
(* Cleanup, and the theorems. *)

\* A room goes behind both players, and whoever is alone is connected: so it is
\* nobody's who is still there.
LEMMA CleanupKeeps ==
  ASSUME HubInv, NEW r \in Rooms, Cleanup(r)
  PROVE  HubInv'
<1> DEFINE f == [room[r] EXCEPT !.cleanups = @ - 1, !.listed = @ /\ ~ Abandoned(r)]
<1>1. /\ r \in Socket /\ room[r] \in RoomType /\ room \in [Socket -> RoomType]
      /\ playerRooms \in [Id -> Number] /\ None \in Number
  BY Numbers DEF Rooms, HubInv, Types
<1>2. UNCHANGED <<sock, player, waiting>> /\ room[r].cleanups > 0
  BY DEF Cleanup
<1>3. room' = [room EXCEPT ![r] = f]
  BY <1>1 DEF Cleanup
<1>4. /\ f \in RoomType /\ f.host = room[r].host /\ f.spectators = room[r].spectators
      /\ f.listed = (room[r].listed /\ ~ Abandoned(r))
  <2> DEFINE c == room[r].cleanups - 1
             l == room[r].listed /\ ~ Abandoned(r)
  <2>1. c \in Nat /\ l \in BOOLEAN
    <3>1. room[r].cleanups \in Nat
      BY <1>1 DEF RoomType
    <3>2. c \in Nat
      BY <1>2, <3>1
    <3>3. l \in BOOLEAN
      BY <1>1 DEF RoomType
    <3> QED BY <3>2, <3>3
  <2>2. f = [room[r] EXCEPT !.cleanups = c, !.listed = l]
    BY <1>1 DEF RoomType
  <2>3. l = (room[r].listed /\ ~ Abandoned(r))
    OBVIOUS
  <2> HIDE DEF f, c, l
  <2>4. f \in RoomType /\ f.host = room[r].host /\ f.spectators = room[r].spectators /\ f.listed = l
    BY <1>1, <2>1, <2>2 DEF RoomType
  <2> QED BY <2>3, <2>4
<1> HIDE DEF f
<1>5. /\ room' \in [Socket -> RoomType]
      /\ \A q \in Socket :
           /\ room'[q].host = room[q].host /\ room'[q].spectators = room[q].spectators
           /\ q # r \/ ~ Abandoned(r) => room'[q].listed = room[q].listed
  <2>1. /\ room' \in [Socket -> RoomType] /\ room'[r] = f
        /\ \A q \in Socket : q # r => room'[q] = room[q]
    BY <1>1, <1>3, <1>4
  <2>2. ~ Abandoned(r) => f.listed = room[r].listed
    BY <1>1, <1>4 DEF RoomType
  <2> QED BY <1>4, <2>1, <2>2
<1>6. Rooms' = Rooms /\ Made' = Made /\ Rooms \subseteq Socket
  BY <1>2, <1>5 DEF Rooms, Made
<1>7. /\ playerRooms' \in [Id -> Number]
      /\ \A id \in Id :
           \/ playerRooms'[id] = playerRooms[id]
           \/ /\ playerRooms'[id] = None /\ Abandoned(r)
              /\ playerRooms[id] = r /\ Named(Seats(r), id) # {}
      /\ Abandoned(r) =>
           \A id \in Id : playerRooms'[id] = r => Named(Seats(r), id) = {}
  <2>1. CASE Abandoned(r)
    <3>1. playerRooms' = UnmappedAll(r) /\ r # None
      BY <1>1, <2>1, Numbers DEF Cleanup
    <3> QED BY <1>1, <2>1, <3>1 DEF UnmappedAll
  <2>2. CASE ~ Abandoned(r)
    BY <1>1, <2>2 DEF Cleanup
  <2> QED BY <2>1, <2>2
<1>8. Numbered'
  <2>1. \A q \in Rooms : room'[q].host = room[q].host /\ room'[q].spectators = room[q].spectators
    BY <1>5, <1>6
  <2>2. \A id \in Id : playerRooms'[id] # None => playerRooms'[id] \in Rooms
    BY <1>7 DEF HubInv, Numbered
  <2> QED BY <1>2, <1>6, <2>1, <2>2 DEF HubInv, Numbered, Joins
<1>9. \A m \in Socket : (Active(m)' <=> Active(m)) /\ (Alone(m)' <=> Alone(m))
  BY <1>2 DEF Active, Alone, Joins, IdOf, SameAccount
<1>10. Present'
  BY <1>2, <1>9 DEF HubInv, Present
<1>11. Queued'
  <2> SUFFICES ASSUME NEW m \in Socket, Active(m), Alone(m), sock[m].room = None,
                      MappedRoom(m)' = None
               PROVE  \E k \in Key : waiting[k] = m
    BY <1>2, <1>9 DEF Queued
  <2>1. Joins(m) /\ player[m].connected
    BY DEF Active, Joins, HubInv, Present
  <2>2. sock[m].player = m /\ IdOf(m) = player[m].id /\ player[m].id \in Id
    BY <2>1, OwnPlayer, JoinedSocket DEF IdOf
  <2>3. MappedRoom(m) = None
    <3> SUFFICES ASSUME MappedRoom(m) # None PROVE FALSE
      OBVIOUS
    <3>1. Abandoned(r) /\ Named(Seats(r), player[m].id) # {}
      BY <1>2, <1>7, <2>2 DEF MappedRoom
    <3>2. PICK p \in Seats(r) : player[p].id = player[m].id
      BY <3>1 DEF Named
    <3>3. ~ player[p].connected
      BY <3>1 DEF Abandoned
    <3>4. p \in Made /\ p \in Socket
      BY <1>6 DEF HubInv, Numbered, Seats, Made
    <3>5. Joins(p) /\ sock[p].player = p
      BY <3>4 DEF HubInv, Numbered
    <3>6. p # m
      BY <2>1, <3>3
    <3>7. ~ SameAccount(IdOf(p), IdOf(m))
      BY <3>4, <3>5, <3>6 DEF Alone
    <3> QED BY <2>2, <3>2, <3>5, <3>7 DEF IdOf, SameAccount
  <2> QED BY <2>3 DEF HubInv, Queued
<1>12. EntriesLead'
  <2> SUFFICES ASSUME NEW id \in Id, NEW q, q = playerRooms'[id], q # None,
                      NEW p \in {room'[q].host, q}, player'[p].id = id
               PROVE  room'[q].listed
    BY DEF EntriesLead, Named, Seats
  <2>1. q = playerRooms[id] /\ q \in Rooms /\ q \in Socket
    BY <1>6, <1>7 DEF HubInv, Numbered
  <2>2. p \in Seats(q) /\ player[p].id = id
    BY <1>2, <1>5, <2>1 DEF Seats
  <2>3. Named(Seats(q), id) # {}
    BY <2>2 DEF Named
  <2>4. room[q].listed
    BY <2>1, <2>3 DEF HubInv, EntriesLead
  <2>5. q # r \/ ~ Abandoned(r)
    BY <1>7, <2>3
  <2> QED BY <1>5, <2>1, <2>4, <2>5
<1> QED BY <1>2, <1>5, <1>7, <1>8, <1>10, <1>11, <1>12 DEF HubInv, Types

LEMMA InitHub == Init => HubInv
<1> SUFFICES ASSUME Init PROVE HubInv
  OBVIOUS
<1>1. NoSocket \in SocketType /\ NoPlayer \in PlayerType /\ NoRoom \in RoomType /\ None \in Number
  BY Numbers
     DEF NoSocket, NoPlayer, NoRoom, SocketType, PlayerType, RoomType, Modes, Tables
<1>2. Types
  BY <1>1 DEF Init, Types
<1>3. /\ Made = {} /\ Rooms = {}
      /\ \A n \in Socket : sock[n].pc = "none" /\ sock[n].room = None
      /\ \A k \in Key : waiting[k] = None
      /\ \A id \in Id : playerRooms[id] = None
  BY DEF Init, Made, Rooms, NoPlayer, NoRoom, NoSocket
<1>4. Numbered
  BY <1>3 DEF Numbered, Joins
<1>5. Present /\ Queued /\ EntriesLead
  BY <1>3 DEF Present, Queued, EntriesLead, Active
<1> QED BY <1>2, <1>4, <1>5 DEF HubInv

LEMMA NextKeeps ==
  ASSUME HubInv, [Next]_vars
  PROVE  HubInv'
<1>1. ASSUME NEW n \in Socket, Join(n) PROVE HubInv'
  BY <1>1, ResumeKeeps, EnqueueKeeps, PairKeeps, SpectateKeeps DEF Join
<1>2. ASSUME NEW n \in Socket, Matched(n) \/ Drop(n) \/ Leave(n) PROVE HubInv'
  BY <1>2, MatchedKeeps, DropKeeps, LeaveKeeps
<1>3. ASSUME NEW n \in Socket, Return(n) PROVE HubInv'
  BY <1>3, ReadGenerationKeeps, LeaveWaitingKeeps, LeaveHubKeeps, CheckLatestKeeps,
     DisconnectKeeps, UnwatchKeeps DEF Return
<1>4. ASSUME NEW r \in Rooms, Cleanup(r) PROVE HubInv'
  BY <1>4, CleanupKeeps
<1>5. ASSUME UNCHANGED vars PROVE HubInv'
  BY <1>5 DEF vars, HubInv, Types, Numbered, Present, Queued, EntriesLead, Made, Rooms, Joins,
     Active, Alone, IdOf, SameAccount, MappedRoom, Named, Seats
<1> QED BY <1>1, <1>2, <1>3, <1>4, <1>5 DEF Next

\* The invariant: numbers refer to players and rooms that were made, and a
\* connection that is its account's only one is connected and waits or has a room.
THEOREM HubInvariant == Spec => []HubInv
<1>1. Init => HubInv
  BY InitHub
<1>2. HubInv /\ [Next]_vars => HubInv'
  BY NextKeeps
<1> QED BY <1>1, <1>2, PTL DEF Spec

\* Whoever waits keeps the place in the queue until paired, unless another
\* connection of the account takes it, and the entry of a player with a seat leads
\* to a table that the hub still has (Join, MatchWaiting and cleanupRoomIfEmpty).
THEOREM NobodyLosesThePlace == Spec => []PlacesAreKept
<1>1. HubInv => PlacesAreKept
  <2> SUFFICES ASSUME HubInv PROVE PlacesAreKept
    OBVIOUS
  <2>1. ASSUME NEW n \in Socket, sock[n].pc = "serving", sock[n].room = None, MappedRoom(n) = None
        PROVE  \/ \E k \in Key : waiting[k] = sock[n].player
               \/ \E m \in Socket \ {n} :
                    /\ sock[m].pc # "none"
                    /\ SameAccount(player[sock[m].player].id, player[sock[n].player].id)
    <3>1. Joins(n) /\ Active(n)
      BY <2>1 DEF Joins, Active
    <3>2. CASE Alone(n)
      BY <2>1, <3>1, <3>2, OwnPlayer DEF HubInv, Queued
    <3>3. CASE ~ Alone(n)
      BY <3>3 DEF Alone, Joins, IdOf
    <3> QED BY <3>2, <3>3
  <2> QED BY <2>1 DEF PlacesAreKept, WaitersKeepTheirPlace, HubInv
<1> QED BY <1>1, HubInvariant, PTL

=============================================================================
