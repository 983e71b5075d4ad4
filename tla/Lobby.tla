-------------------------------- MODULE Lobby --------------------------------
(***************************************************************************)
(* The lobby and what surrounds it: the handshake that brings a connection *)
(* into a room (RoomHosting), the dictionary of rooms with its ids, the    *)
(* count of connections per address, the timer that lists the rooms        *)
(* (LobbyListing), and the server's stop.                                  *)
(*                                                                         *)
(* All of it runs on the threads of one io_context, without a strand.  A   *)
(* step is what a thread does under one of the lobby's locks, or between   *)
(* two of them; a handler that takes two locks is two steps.  A room is    *)
(* what Room.tla shows to the outside: it waits, plays, and is over.  It   *)
(* lives as long as somebody holds a shared pointer to it.                 *)
(***************************************************************************)
EXTENDS Integers, FiniteSets

CONSTANTS
    Conns,       \* the connections there may be at a time
    AddrOf,      \* the address of each
    Rooms,       \* the room instances there may be at a time
    NoRoom,      \* no room
    MaxId,       \* bound: the dictionary has at most this many slots
    Limit        \* lobbyMaxConnections, negative: no limit

ASSUME LobbyAssumption ==
    /\ NoRoom \notin Rooms
    /\ IsFiniteSet(Conns) /\ DOMAIN AddrOf = Conns
    /\ MaxId \in Nat \ {0}
    /\ Limit \in Int

VARIABLES
    stage,      \* where the handshake of each connection is
    hold,       \* the room each connection or client has a shared pointer to
    slots,      \* Lobby::rooms: the room of each id, dead or alive
    idOf,       \* the id a room was made with, 0 before that
    phase,      \* the state of each room, as RoomPromise tells it
    started,    \* the rooms whose isStarted is set
    count,      \* Lobby::connections
    server,     \* "up", "deaf" (acceptors closed), "closed" (Lobby::closed)
    closeSent,  \* rooms with a posted Event::Close
    timer,      \* LobbyListing's timer: "armed", "fired", "collected", "off"
    fresh,      \* what CollectRooms has just found
    listing     \* LobbyListing::serialized, the list clients are given

roomVars == <<idOf, phase, started, closeSent>>
listVars == <<timer, fresh, listing>>
vars == <<stage, hold, slots, idOf, phase, started, count, server, closeSent,
          timer, fresh, listing>>

Ids == 1..MaxId
Addrs == {AddrOf[c] : c \in Conns}
Nowhere == [i \in Ids |-> NoRoom]

-----------------------------------------------------------------------------
\* weak_ptr::lock succeeds while a connection, the client made of it, or a
\* posted Close has a shared pointer.
Alive(r) == r \in closeSent \/ \E c \in Conns : hold[c] = r

\* Somebody is in the room to make it do something.
Peopled(r) == \E c \in Conns : stage[c] = "client" /\ hold[c] = r

\* GetRoomById.
RoomById(i) ==
    IF i \in Ids /\ slots[i] # NoRoom /\ Alive(slots[i]) THEN slots[i] ELSE NoRoom

\* An address without connections is not in the map: a limit of 0 admits one.
HasMaxConnections(a) == Limit >= 0 /\ count[a] > 0 /\ count[a] >= Limit

\* Increment- and DecrementConnectionCount.
Counting(a, n) ==
    count' = IF Limit < 0 THEN count ELSE [count EXCEPT ![a] = @ + n]

\* Another connection may come in the place of one that is gone.
Accept(c) ==
    /\ stage[c] \in {"idle", "gone"} /\ server = "up"
    /\ stage' = [stage EXCEPT ![c] = "accepted"]
    /\ UNCHANGED <<hold, slots, count, server, roomVars, listVars>>

\* PLAYER_INFO may be sent again, the last one counts.
PlayerInfo(c) ==
    /\ stage[c] \in {"accepted", "named"}
    /\ stage' = [stage EXCEPT ![c] = IF HasMaxConnections(AddrOf[c]) THEN "gone"
                                                                   ELSE "named"]
    /\ UNCHANGED <<hold, slots, count, server, roomVars, listVars>>

\* A room that is gone and that no list shows any more may be taken for a new one.
Unused(r) ==
    /\ ~ Alive(r)
    /\ \A i \in Ids : r \notin {slots[i], fresh[i], listing[i]}

\* The ids of slots that are not taken; a dead room takes its slot until
\* CollectRooms frees it.
FreeIds == {i \in Ids : slots[i] = NoRoom}
Lowest(i, S) == i \in S /\ \A j \in S : i <= j

\* Mutation: the slot of a dead room is taken before CollectRooms freed it.
CreateGameAnywhere(c, r) ==
    /\ stage[c] = "named" /\ Unused(r)
    /\ \E i \in Ids :
         /\ Lowest(i, {j \in Ids : RoomById(j) = NoRoom})
         /\ idOf' = [idOf EXCEPT ![r] = i]
         /\ slots' = IF server = "closed" THEN slots ELSE [slots EXCEPT ![i] = r]
    /\ stage' = [stage EXCEPT ![c] = "making"]
    /\ hold' = [hold EXCEPT ![c] = r]
    /\ phase' = [phase EXCEPT ![r] = "waiting"]
    /\ started' = started \ {r}
    /\ UNCHANGED <<count, server, closeSent, listVars>>

\* CREATE_GAME: MakeRoom gives the lowest free id.  A closed lobby makes the
\* room, with the id an empty dictionary gives, but does not list it.
CreateGame(c, r) ==
    /\ stage[c] = "named" /\ Unused(r)
    /\ \E i \in FreeIds :
         /\ Lowest(i, FreeIds)
         /\ idOf' = [idOf EXCEPT ![r] = i]
         /\ slots' = IF server = "closed" THEN slots ELSE [slots EXCEPT ![i] = r]
    /\ stage' = [stage EXCEPT ![c] = "making"]
    /\ hold' = [hold EXCEPT ![c] = r]
    /\ phase' = [phase EXCEPT ![r] = "waiting"]
    /\ started' = started \ {r}
    /\ UNCHANGED <<count, server, closeSent, listVars>>

\* JOIN_GAME finds the room; the checks and the making of the client follow.
JoinGame(c, i) ==
    /\ stage[c] = "named" /\ RoomById(i) # NoRoom
    /\ stage' = [stage EXCEPT ![c] = "joining"]
    /\ hold' = [hold EXCEPT ![c] = RoomById(i)]
    /\ UNCHANGED <<slots, count, server, roomVars, listVars>>

\* Client's constructor counts the connection.
BecomeClient(c) ==
    /\ stage[c] \in {"making", "joining"}
    /\ stage' = [stage EXCEPT ![c] = "client"]
    /\ Counting(AddrOf[c], 1)
    /\ UNCHANGED <<hold, slots, server, roomVars, listVars>>

\* The handshake fails (no such room, wrong password or version, kicked) or
\* the peer leaves before it is over; a pointer to a room is given back.
Refuse(c) ==
    /\ stage[c] \in {"accepted", "named", "joining"}
    /\ stage' = [stage EXCEPT ![c] = "gone"]
    /\ hold' = [hold EXCEPT ![c] = NoRoom]
    /\ UNCHANGED <<slots, count, server, roomVars, listVars>>

\* Mutation: the destructor forgets to give the connection back.
LeaveUncounted(c) ==
    /\ stage[c] = "client"
    /\ stage' = [stage EXCEPT ![c] = "gone"]
    /\ hold' = [hold EXCEPT ![c] = NoRoom]
    /\ UNCHANGED <<slots, count, server, roomVars, listVars>>

\* Client's destructor.
Leave(c) ==
    /\ stage[c] = "client"
    /\ stage' = [stage EXCEPT ![c] = "gone"]
    /\ hold' = [hold EXCEPT ![c] = NoRoom]
    /\ Counting(AddrOf[c], -1)
    /\ UNCHANGED <<slots, server, roomVars, listVars>>

-----------------------------------------------------------------------------
(***************************************************************************)
(* Rooms, as far as the lobby sees them.                                   *)
(***************************************************************************)
StartRoom(r) ==
    /\ Peopled(r) /\ phase[r] = "waiting"
    /\ phase' = [phase EXCEPT ![r] = "playing"]
    /\ started' = started \cup {r}
    /\ UNCHANGED <<stage, hold, slots, idOf, count, server, closeSent, listVars>>

EndRoom(r) ==
    /\ Peopled(r) /\ phase[r] \in {"waiting", "playing"}
    /\ phase' = [phase EXCEPT ![r] = "over"]
    /\ UNCHANGED <<stage, hold, slots, idOf, started, count, server, closeSent,
                   listVars>>

\* The Close that TryClose posted holds the room until it is dispatched.
DispatchClose(r) ==
    /\ r \in closeSent
    /\ closeSent' = closeSent \ {r}
    /\ phase' = [phase EXCEPT ![r] = IF @ = "waiting" THEN "over" ELSE @]
    /\ UNCHANGED <<stage, hold, slots, idOf, started, count, server, listVars>>

-----------------------------------------------------------------------------
(***************************************************************************)
(* LobbyListing's timer.  Its handler collects the rooms, stores the list  *)
(* and arms the timer again.                                               *)
(***************************************************************************)
Fire ==
    /\ timer = "armed"
    /\ timer' = "fired"
    /\ UNCHANGED <<stage, hold, slots, count, server, roomVars, fresh, listing>>

\* The list of a collection: live rooms that have duelists; which rooms have
\* none is open here.  What else the list tells of a room is left out.
Shown(occupied) == [i \in Ids |-> IF i \in occupied THEN RoomById(i) ELSE NoRoom]

\* Mutation: a ghost room, alive but not shown, is dropped like a dead one.
CollectGhosts ==
    /\ timer = "fired"
    /\ timer' = "collected"
    /\ \E shown \in SUBSET Ids : fresh' = Shown(shown)
    /\ slots' = fresh'
    /\ UNCHANGED <<stage, hold, count, server, roomVars, listing>>

\* Mutation: dead rooms stay in the dictionary.
CollectNothing ==
    /\ timer = "fired"
    /\ timer' = "collected"
    /\ \E shown \in SUBSET Ids : fresh' = Shown(shown)
    /\ UNCHANGED <<stage, hold, slots, count, server, roomVars, listing>>

CollectRooms ==
    /\ timer = "fired"
    /\ timer' = "collected"
    /\ slots' = [i \in Ids |-> RoomById(i)]
    /\ \E shown \in SUBSET Ids : fresh' = Shown(shown)
    /\ UNCHANGED <<stage, hold, count, server, roomVars, listing>>

StoreListing ==
    /\ timer = "collected"
    /\ timer' = "armed"
    /\ listing' = fresh /\ fresh' = Nowhere
    /\ UNCHANGED <<stage, hold, slots, count, server, roomVars>>

-----------------------------------------------------------------------------
(***************************************************************************)
(* SIGTERM.  Stop closes the acceptors and cancels the timer, which a      *)
(* handler that is queued or running does not notice; then the lobby is    *)
(* closed.                                                                 *)
(***************************************************************************)
StopListening ==
    /\ server = "up"
    /\ server' = "deaf"
    /\ timer' = IF timer = "armed" THEN "off" ELSE timer
    /\ UNCHANGED <<stage, hold, slots, count, roomVars, fresh, listing>>

\* Mutation: the dictionary is cleared before its rooms are told.
CloseCleared ==
    /\ server = "deaf"
    /\ server' = "closed"
    /\ slots' = Nowhere
    /\ closeSent' = {r \in Rooms \ started : \E i \in Ids : slots'[i] = r}
    /\ UNCHANGED <<stage, hold, idOf, phase, started, count, listVars>>

CloseLobby ==
    /\ server = "deaf"
    /\ server' = "closed"
    /\ closeSent' = {r \in Rooms \ started : \E i \in Ids : RoomById(i) = r}
    /\ slots' = Nowhere
    /\ UNCHANGED <<stage, hold, idOf, phase, started, count, listVars>>

-----------------------------------------------------------------------------
Init ==
    /\ stage = [c \in Conns |-> "idle"]
    /\ hold = [c \in Conns |-> NoRoom]
    /\ slots = Nowhere
    /\ idOf = [r \in Rooms |-> 0]
    /\ phase = [r \in Rooms |-> "unmade"]
    /\ started = {}
    /\ count = [a \in Addrs |-> 0]
    /\ server = "up"
    /\ closeSent = {}
    /\ timer = "armed"
    /\ fresh = Nowhere /\ listing = Nowhere

ConnStep(c) ==
    \/ Accept(c)
    \/ PlayerInfo(c)
    \/ \E r \in Rooms : CreateGame(c, r)
    \/ \E i \in Ids : JoinGame(c, i)
    \/ BecomeClient(c)
    \/ Refuse(c)
    \/ Leave(c)

RoomStep(r) ==
    \/ StartRoom(r)
    \/ EndRoom(r)
    \/ DispatchClose(r)

ServerStep ==
    \/ Fire
    \/ CollectRooms
    \/ StoreListing
    \/ StopListening
    \/ CloseLobby

Next ==
    \/ \E c \in Conns : ConnStep(c)
    \/ \E r \in Rooms : RoomStep(r)
    \/ ServerStep

Spec == Init /\ [][Next]_vars

\* Work that is queued on the io_context runs, timers fire, and Stop does not
\* hang between its steps.  Nobody has to connect, to play or to leave.
Fairness ==
    /\ WF_vars(Fire) /\ WF_vars(CollectRooms) /\ WF_vars(StoreListing)
    /\ WF_vars(CloseLobby)
    /\ \A r \in Rooms : WF_vars(DispatchClose(r))

FairSpec == Spec /\ Fairness

-----------------------------------------------------------------------------
(***************************************************************************)
(* Properties.                                                             *)
(***************************************************************************)
RoomOrNone == Rooms \cup {NoRoom}

\* Every variable has its type.
TypeOK ==
    /\ stage \in [Conns -> {"idle", "accepted", "named", "making", "joining",
                         "client", "gone"}]
    /\ hold \in [Conns -> RoomOrNone]
    /\ slots \in [Ids -> RoomOrNone]
    /\ idOf \in [Rooms -> Ids \cup {0}]
    /\ phase \in [Rooms -> {"unmade", "waiting", "playing", "over"}]
    /\ started \subseteq Rooms
    /\ count \in [Addrs -> Int]
    /\ server \in {"up", "deaf", "closed"}
    /\ closeSent \subseteq Rooms
    /\ timer \in {"armed", "fired", "collected", "off"}
    /\ fresh \in [Ids -> RoomOrNone]
    /\ listing \in [Ids -> RoomOrNone]

\* Until the lobby closes, a room that anybody is in, or is about to enter, is
\* found under the id it was made with, so no two of them share an id, whatever
\* rooms died and were collected in between (MakeRoom, CollectRooms).
UniqueIds ==
    server # "closed" =>
        \A r \in Rooms : Alive(r) => idOf[r] \in Ids /\ slots[idOf[r]] = r

\* The clients an address has.
ClientsOf(a) == {c \in Conns : stage[c] = "client" /\ AddrOf[c] = a}

\* The connections counted for an address are the clients it has: none is
\* counted twice, and none is left over when rooms, handshakes and the server
\* end in any order (Client's constructor and destructor).
CountsExact ==
    Limit >= 0 => \A a \in Addrs : count[a] = Cardinality(ClientsOf(a))

\* Who joins an id from the current list enters the room that was listed or
\* none at all: an id is not given to another room before the list that still
\* shows it is replaced.  Between CollectRooms and the store of the list it
\* may be (LobbyListing.cpp:148).
ListingHonest ==
    timer # "collected" =>
        \A i \in Ids :
            listing[i] # NoRoom => RoomById(i) \in {listing[i], NoRoom}

\* The id of a room that died is free again some time later, unless the server
\* stops (CollectRooms, run by the timer).
SlotsComeBack ==
    \A i \in Ids :
        slots[i] # NoRoom /\ ~ Alive(slots[i])
            ~> slots[i] = NoRoom \/ server # "up"

\* A room that is in the dictionary when the server begins to stop does not wait
\* for ever with its clients (Lobby::Close).
WaitingRoomsClose ==
    \A r \in Rooms :
        server = "deaf" /\ (\E i \in Ids : RoomById(i) = r)
            ~> ~ (Peopled(r) /\ phase[r] = "waiting")

(***************************************************************************)
(* What the documentation says and the code does not do.                   *)
(***************************************************************************)
\* README.md:62: lobbyMaxConnections is the "Maximum number of connections a
\* single IP can have to the lobby."  The check and the count are far apart.
LimitHolds == Limit >= 0 => \A a \in Addrs : count[a] <= Limit

\* Instance.cpp:124: Stop "Allows hosting threads to finish execution".  Once
\* the lobby is closed and every connection is gone, its timer must not keep
\* the io_context busy.
ServerExits ==
    server = "closed" /\ (\A c \in Conns : stage[c] \in {"idle", "gone"})
        ~> timer = "off"
=============================================================================
