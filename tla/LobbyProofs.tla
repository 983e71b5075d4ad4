----------------------------- MODULE LobbyProofs -----------------------------
(***************************************************************************)
(* Theorems about Lobby, for any connections, addresses, rooms, limit and  *)
(* size of the dictionary.                                                 *)
(***************************************************************************)
EXTENDS Lobby, FiniteSetTheorems, TLAPS

\* What a list shows is still in its slot, dead or alive: the list in use until
\* the rooms are collected again, the list being built from then on.
StillListed ==
    \A i \in Ids :
        /\ timer # "collected" /\ listing[i] # NoRoom => slots[i] = listing[i]
        /\ timer = "collected" /\ fresh[i] # NoRoom => slots[i] = fresh[i]

\* A closed lobby lists nothing, and only a closed lobby has told rooms to close.
ClosedInv ==
    IF server = "closed" THEN slots = Nowhere ELSE StillListed /\ closeSent = {}

Inv == TypeOK /\ UniqueIds /\ ClosedInv

-----------------------------------------------------------------------------
LEMMA InitInv == ASSUME Init PROVE Inv
<1> USE LobbyAssumption
<1>1. TypeOK
  BY DEF Init, TypeOK, RoomOrNone, Nowhere, Ids
<1>2. UniqueIds
  BY DEF Init, UniqueIds, Alive
<1>3. ClosedInv
  BY DEF Init, ClosedInv, StillListed, Nowhere
<1> QED BY <1>1, <1>2, <1>3 DEF Inv

\* A step that takes nobody into a room and leaves the dictionary and the list
\* alone keeps the invariant.
LEMMA QuietStep ==
    ASSUME Inv, TypeOK',
           UNCHANGED <<slots, idOf, server>>,
           UNCHANGED <<timer, fresh, listing>>,
           closeSent' \subseteq closeSent,
           \A c \in Conns : hold'[c] # hold[c] => hold'[c] = NoRoom \/ Alive(hold'[c])
    PROVE  Inv'
<1>1. UniqueIds'
  <2> SUFFICES ASSUME server # "closed", NEW r \in Rooms, Alive(r)'
               PROVE  idOf[r] \in Ids /\ slots[idOf[r]] = r
    BY DEF UniqueIds
  <2>1. r \notin closeSent'
    BY DEF Inv, ClosedInv
  <2>2. PICK c \in Conns : hold'[c] = r
    BY <2>1 DEF Alive
  <2>3. Alive(r)
    BY <2>2, LobbyAssumption DEF Alive
  <2> QED BY <2>3 DEF Inv, UniqueIds
<1>2. ClosedInv'
  BY DEF Inv, ClosedInv, StillListed, Nowhere
<1> QED BY <1>1, <1>2 DEF Inv

LEMMA ConnStepInv ==
    ASSUME Inv, NEW c \in Conns, ConnStep(c) PROVE Inv'
<1> USE LobbyAssumption
<1>0. TypeOK /\ UniqueIds /\ ClosedInv
  BY DEF Inv
<1>1. CASE Accept(c)
  <2>1. TypeOK' BY <1>0, <1>1 DEF Accept, TypeOK, roomVars, listVars
  <2> QED BY <1>1, <2>1, QuietStep DEF Accept, roomVars, listVars
<1>2. CASE PlayerInfo(c)
  <2>1. TypeOK' BY <1>0, <1>2 DEF PlayerInfo, TypeOK, roomVars, listVars
  <2> QED BY <1>2, <2>1, QuietStep DEF PlayerInfo, roomVars, listVars
<1>3. ASSUME NEW r \in Rooms, CreateGame(c, r) PROVE Inv'
  <2>1. PICK i \in FreeIds :
           /\ idOf' = [idOf EXCEPT ![r] = i]
           /\ slots' = IF server = "closed" THEN slots ELSE [slots EXCEPT ![i] = r]
    BY <1>3 DEF CreateGame
  <2>2. i \in Ids /\ slots[i] = NoRoom
    BY DEF FreeIds
  <2>3. hold' = [hold EXCEPT ![c] = r] /\ started' = started \ {r}
        /\ UNCHANGED <<count, server, closeSent, timer, fresh, listing>>
    BY <1>3 DEF CreateGame, listVars
  <2>4. TypeOK'
    <3>1. stage' \in [Conns -> {"idle", "accepted", "named", "making", "joining",
                                "client", "gone"}]
          /\ phase' \in [Rooms -> {"unmade", "waiting", "playing", "over"}]
      BY <1>0, <1>3 DEF CreateGame, TypeOK
    <3>2. hold' \in [Conns -> RoomOrNone] /\ slots' \in [Ids -> RoomOrNone]
          /\ idOf' \in [Rooms -> Ids \cup {0}]
      BY <1>0, <2>1, <2>2, <2>3 DEF TypeOK, RoomOrNone
    <3> QED BY <1>0, <2>3, <3>1, <3>2 DEF TypeOK
  <2>5. UniqueIds'
    <3> SUFFICES ASSUME server # "closed", NEW q \in Rooms, Alive(q)'
                 PROVE  idOf'[q] \in Ids /\ slots'[idOf'[q]] = q
      BY <2>3 DEF UniqueIds
    <3>1. CASE q = r
      BY <1>0, <2>1, <2>2, <3>1 DEF TypeOK
    <3>2. CASE q # r
      <4>1. Alive(q)
        BY <1>0, <2>3, <3>2 DEF Alive, TypeOK
      <4>2. idOf[q] \in Ids /\ slots[idOf[q]] = q
        BY <1>0, <4>1 DEF UniqueIds
      <4>3. idOf[q] # i
        BY <2>2, <4>2
      <4> QED BY <1>0, <2>1, <3>2, <4>2, <4>3 DEF TypeOK
    <3> QED BY <3>1, <3>2
  <2>6. ClosedInv'
    <3>1. CASE server = "closed"
      BY <1>0, <2>1, <2>3, <3>1 DEF ClosedInv, Nowhere
    <3>2. CASE server # "closed"
      BY <1>0, <2>1, <2>2, <2>3, <3>2 DEF ClosedInv, StillListed, TypeOK
    <3> QED BY <3>1, <3>2
  <2> QED BY <2>4, <2>5, <2>6 DEF Inv
<1>4. ASSUME NEW i \in Ids, JoinGame(c, i) PROVE Inv'
  <2>1. RoomById(i) \in Rooms /\ Alive(RoomById(i))
    BY <1>0, <1>4 DEF JoinGame, RoomById, TypeOK, RoomOrNone
  <2>2. TypeOK' BY <1>0, <1>4, <2>1 DEF JoinGame, TypeOK, RoomOrNone, roomVars, listVars
  <2>3. \A d \in Conns : hold'[d] # hold[d] => hold'[d] = NoRoom \/ Alive(hold'[d])
    BY <1>0, <1>4, <2>1 DEF JoinGame, TypeOK
  <2> QED BY <1>4, <2>2, <2>3, QuietStep DEF JoinGame, roomVars, listVars
<1>5. CASE BecomeClient(c)
  <2>1. TypeOK' BY <1>0, <1>5 DEF BecomeClient, Counting, TypeOK, Addrs, roomVars, listVars
  <2> QED BY <1>5, <2>1, QuietStep DEF BecomeClient, roomVars, listVars
<1>6. CASE Refuse(c)
  <2>1. TypeOK' BY <1>0, <1>6 DEF Refuse, TypeOK, RoomOrNone, roomVars, listVars
  <2>2. \A d \in Conns : hold'[d] # hold[d] => hold'[d] = NoRoom
    BY <1>0, <1>6 DEF Refuse, TypeOK
  <2> QED BY <1>6, <2>1, <2>2, QuietStep DEF Refuse, roomVars, listVars
<1>7. CASE Leave(c)
  <2>1. TypeOK' BY <1>0, <1>7 DEF Leave, Counting, TypeOK, RoomOrNone, Addrs, roomVars, listVars
  <2>2. \A d \in Conns : hold'[d] # hold[d] => hold'[d] = NoRoom
    BY <1>0, <1>7 DEF Leave, TypeOK
  <2> QED BY <1>7, <2>1, <2>2, QuietStep DEF Leave, roomVars, listVars
<1> QED BY <1>1, <1>2, <1>3, <1>4, <1>5, <1>6, <1>7 DEF ConnStep

LEMMA RoomStepInv ==
    ASSUME Inv, NEW r \in Rooms, RoomStep(r) PROVE Inv'
<1>0. TypeOK /\ UniqueIds /\ ClosedInv
  BY DEF Inv
<1>1. CASE StartRoom(r)
  <2>1. TypeOK' BY <1>0, <1>1 DEF StartRoom, TypeOK, listVars
  <2> QED BY <1>1, <2>1, QuietStep DEF StartRoom, listVars
<1>2. CASE EndRoom(r)
  <2>1. TypeOK' BY <1>0, <1>2 DEF EndRoom, TypeOK, listVars
  <2> QED BY <1>2, <2>1, QuietStep DEF EndRoom, listVars
<1>3. CASE DispatchClose(r)
  <2>1. TypeOK' BY <1>0, <1>3 DEF DispatchClose, TypeOK, listVars
  <2> QED BY <1>3, <2>1, QuietStep DEF DispatchClose, listVars
<1> QED BY <1>1, <1>2, <1>3 DEF RoomStep

LEMMA ServerStepInv ==
    ASSUME Inv, ServerStep PROVE Inv'
<1> USE LobbyAssumption
<1>0. TypeOK /\ UniqueIds /\ ClosedInv
  BY DEF Inv
<1>1. CASE Fire
  <2>1. TypeOK' BY <1>0, <1>1 DEF Fire, TypeOK, roomVars
  <2>2. UniqueIds' BY <1>0, <1>1 DEF Fire, UniqueIds, Alive, roomVars
  <2>3. ClosedInv' BY <1>0, <1>1 DEF Fire, ClosedInv, StillListed, Nowhere, roomVars
  <2> QED BY <2>1, <2>2, <2>3 DEF Inv
<1>2. CASE CollectRooms
  <2>1. PICK shown \in SUBSET Ids :
           fresh' = [i \in Ids |-> IF i \in shown THEN RoomById(i) ELSE NoRoom]
    BY <1>2 DEF CollectRooms, Shown
  <2>2. slots' = [i \in Ids |-> RoomById(i)] /\ timer' = "collected"
    BY <1>2 DEF CollectRooms
  <2>3. UNCHANGED <<stage, hold, count, server, idOf, phase, started, closeSent, listing>>
    BY <1>2 DEF CollectRooms, roomVars
  <2>4. \A i \in Ids : RoomById(i) \in {slots[i], NoRoom}
    BY DEF RoomById
  <2>5. TypeOK'
    <3>1. slots' \in [Ids -> RoomOrNone] /\ fresh' \in [Ids -> RoomOrNone]
      BY <1>0, <2>1, <2>2, <2>4 DEF TypeOK, RoomOrNone
    <3> QED BY <1>0, <2>2, <2>3, <3>1 DEF TypeOK
  <2>6. UniqueIds'
    <3> SUFFICES ASSUME server # "closed", NEW r \in Rooms, Alive(r)
                 PROVE  idOf[r] \in Ids /\ slots'[idOf[r]] = r
      BY <2>3 DEF UniqueIds, Alive
    <3>1. idOf[r] \in Ids /\ slots[idOf[r]] = r
      BY <1>0 DEF UniqueIds
    <3>2. RoomById(idOf[r]) = r
      BY <3>1 DEF RoomById
    <3> QED BY <2>2, <3>1, <3>2
  <2>7. ClosedInv'
    <3>1. CASE server = "closed"
      BY <1>0, <2>2, <2>3, <3>1 DEF ClosedInv, Nowhere, RoomById
    <3>2. CASE server # "closed"
      BY <1>0, <2>1, <2>2, <2>3, <3>2 DEF ClosedInv, StillListed
    <3> QED BY <3>1, <3>2
  <2> QED BY <2>5, <2>6, <2>7 DEF Inv
<1>3. CASE StoreListing
  <2>1. TypeOK' BY <1>0, <1>3 DEF StoreListing, TypeOK, RoomOrNone, Nowhere, roomVars
  <2>2. UniqueIds' BY <1>0, <1>3 DEF StoreListing, UniqueIds, Alive, roomVars
  <2>3. ClosedInv'
    BY <1>0, <1>3 DEF StoreListing, ClosedInv, StillListed, Nowhere, roomVars
  <2> QED BY <2>1, <2>2, <2>3 DEF Inv
<1>4. CASE StopListening
  <2>1. TypeOK' BY <1>0, <1>4 DEF StopListening, TypeOK, roomVars
  <2>2. UniqueIds' BY <1>0, <1>4 DEF StopListening, UniqueIds, Alive, roomVars
  <2>3. ClosedInv' BY <1>0, <1>4 DEF StopListening, ClosedInv, StillListed, roomVars
  <2> QED BY <2>1, <2>2, <2>3 DEF Inv
<1>5. CASE CloseLobby
  <2>1. TypeOK'
    BY <1>0, <1>5 DEF CloseLobby, TypeOK, RoomOrNone, Nowhere, listVars
  <2>2. UniqueIds' BY <1>5 DEF CloseLobby, UniqueIds
  <2>3. ClosedInv' BY <1>5 DEF CloseLobby, ClosedInv, Nowhere
  <2> QED BY <2>1, <2>2, <2>3 DEF Inv
<1> QED BY <1>1, <1>2, <1>3, <1>4, <1>5 DEF ServerStep

LEMMA InvStep == Inv /\ [Next]_vars => Inv'
<1> SUFFICES ASSUME Inv, [Next]_vars PROVE Inv'
  OBVIOUS
<1>1. CASE UNCHANGED vars
  BY <1>1 DEF vars, Inv, TypeOK, UniqueIds, ClosedInv, StillListed, Alive, Nowhere
<1>2. CASE Next
  BY <1>2, ConnStepInv, RoomStepInv, ServerStepInv DEF Next
<1> QED BY <1>1, <1>2

THEOREM InvHolds == Spec => []Inv
<1>1. Init => Inv
  BY InitInv
<1> QED BY <1>1, InvStep, PTL DEF Spec

-----------------------------------------------------------------------------
\* Every variable has its type, whatever the number of slots.
THEOREM LobbyTypes == Spec => []TypeOK
<1>1. Inv => TypeOK
  BY DEF Inv
<1> QED BY <1>1, InvHolds, PTL

\* Until the lobby closes a live room is found under its id, and only there.
THEOREM IdsAreUnique == Spec => []UniqueIds
<1>1. Inv => UniqueIds
  BY DEF Inv
<1> QED BY <1>1, InvHolds, PTL

\* An id of the current list leads to the listed room or to none.
THEOREM ListsAreHonest == Spec => []ListingHonest
<1>1. Inv => ListingHonest
  <2> SUFFICES ASSUME Inv, timer # "collected", NEW i \in Ids, listing[i] # NoRoom
               PROVE  RoomById(i) \in {listing[i], NoRoom}
    BY DEF ListingHonest
  <2>1. CASE server = "closed"
    BY <2>1 DEF Inv, ClosedInv, Nowhere, RoomById
  <2>2. CASE server # "closed"
    BY <2>2 DEF Inv, ClosedInv, StillListed, RoomById
  <2> QED BY <2>1, <2>2
<1> QED BY <1>1, InvHolds, PTL

-----------------------------------------------------------------------------
(***************************************************************************)
(* Counting: a step moves at most one connection into or out of its        *)
(* address's clients.                                                      *)
(***************************************************************************)
LEMMA ClientsFinite == \A a : IsFiniteSet(ClientsOf(a))
  BY LobbyAssumption, FS_Subset DEF ClientsOf

LEMMA CountingStep ==
    ASSUME TypeOK, CountsExact, NEW c \in Conns, ConnStep(c) PROVE CountsExact'
<1> USE LobbyAssumption
<1> SUFFICES ASSUME Limit >= 0, NEW a \in Addrs
             PROVE  count'[a] = Cardinality(ClientsOf(a)')
  BY DEF CountsExact
<1>1. count[a] = Cardinality(ClientsOf(a)) /\ AddrOf[c] \in Addrs
  BY DEF CountsExact, Addrs
<1>2. IsFiniteSet(ClientsOf(a)) /\ Cardinality(ClientsOf(a)) \in Nat
  BY ClientsFinite, FS_CardinalityType
<1>3. ASSUME stage[c] # "client", stage' = [stage EXCEPT ![c] = "client"],
             count' = [count EXCEPT ![AddrOf[c]] = @ + 1]
      PROVE  count'[a] = Cardinality(ClientsOf(a)')
  <2>1. CASE AddrOf[c] = a
    <3>1. ClientsOf(a)' = ClientsOf(a) \cup {c} /\ c \notin ClientsOf(a)
      BY <1>3, <2>1 DEF ClientsOf, TypeOK
    <3>2. Cardinality(ClientsOf(a)') = Cardinality(ClientsOf(a)) + 1
      BY <1>2, <3>1, FS_AddElement
    <3> QED BY <1>1, <1>2, <1>3, <2>1, <3>2 DEF TypeOK
  <2>2. CASE AddrOf[c] # a
    <3>1. ClientsOf(a)' = ClientsOf(a)
      BY <1>3, <2>2 DEF ClientsOf, TypeOK
    <3> QED BY <1>1, <1>3, <2>2, <3>1 DEF TypeOK
  <2> QED BY <2>1, <2>2
<1>4. ASSUME stage[c] = "client", stage' = [stage EXCEPT ![c] = "gone"],
             count' = [count EXCEPT ![AddrOf[c]] = @ + (-1)]
      PROVE  count'[a] = Cardinality(ClientsOf(a)')
  <2>1. CASE AddrOf[c] = a
    <3>1. ClientsOf(a)' = ClientsOf(a) \ {c} /\ c \in ClientsOf(a)
      BY <1>4, <2>1 DEF ClientsOf, TypeOK
    <3>2. Cardinality(ClientsOf(a)') = Cardinality(ClientsOf(a)) - 1
      BY <1>2, <3>1, FS_RemoveElement
    <3> QED BY <1>1, <1>2, <1>4, <2>1, <3>2 DEF TypeOK
  <2>2. CASE AddrOf[c] # a
    <3>1. ClientsOf(a)' = ClientsOf(a)
      BY <1>4, <2>2 DEF ClientsOf, TypeOK
    <3> QED BY <1>1, <1>4, <2>2, <3>1 DEF TypeOK
  <2> QED BY <2>1, <2>2
<1>5. ASSUME stage[c] # "client", NEW s, s # "client",
             stage' = [stage EXCEPT ![c] = s], count' = count
      PROVE  count'[a] = Cardinality(ClientsOf(a)')
  <2>1. ClientsOf(a)' = ClientsOf(a)
    BY <1>5 DEF ClientsOf, TypeOK
  <2> QED BY <1>1, <1>5, <2>1
<1>6. CASE BecomeClient(c)
  BY <1>3, <1>6 DEF BecomeClient, Counting
<1>7. CASE Leave(c)
  BY <1>4, <1>7 DEF Leave, Counting
<1>8. CASE Accept(c)
  BY <1>5, <1>8 DEF Accept
<1>9. CASE PlayerInfo(c)
  <2>1. CASE HasMaxConnections(AddrOf[c])
    BY <1>5, <1>9, <2>1 DEF PlayerInfo
  <2>2. CASE ~ HasMaxConnections(AddrOf[c])
    BY <1>5, <1>9, <2>2 DEF PlayerInfo
  <2> QED BY <2>1, <2>2
<1>10. CASE \E r \in Rooms : CreateGame(c, r)
  BY <1>5, <1>10 DEF CreateGame
<1>11. CASE \E i \in Ids : JoinGame(c, i)
  BY <1>5, <1>11 DEF JoinGame
<1>12. CASE Refuse(c)
  BY <1>5, <1>12 DEF Refuse
<1> QED BY <1>6, <1>7, <1>8, <1>9, <1>10, <1>11, <1>12 DEF ConnStep

\* With a limit the count of an address is the number of its clients, so it
\* returns to zero, and the address leaves the map, when the last one is gone.
THEOREM CountsAreExact == Spec => []CountsExact
<1>1. Init => CountsExact
  <2> SUFFICES ASSUME Init, NEW a \in Addrs PROVE count[a] = Cardinality(ClientsOf(a))
    BY DEF CountsExact
  <2>1. ClientsOf(a) = {}
    BY DEF Init, ClientsOf
  <2> QED BY <2>1, FS_EmptySet DEF Init
<1>2. TypeOK /\ CountsExact /\ [Next]_vars => CountsExact'
  <2> SUFFICES ASSUME TypeOK, CountsExact, [Next]_vars PROVE CountsExact'
    OBVIOUS
  <2>1. ASSUME UNCHANGED <<stage, count>> PROVE CountsExact'
    BY <2>1 DEF CountsExact, ClientsOf
  <2>2. CASE \E c \in Conns : ConnStep(c)
    BY <2>2, CountingStep
  <2>3. CASE \E r \in Rooms : RoomStep(r)
    BY <2>1, <2>3 DEF RoomStep, StartRoom, EndRoom, DispatchClose
  <2>4. CASE ServerStep
    BY <2>1, <2>4 DEF ServerStep, Fire, CollectRooms, StoreListing, StopListening, CloseLobby
  <2>5. CASE UNCHANGED vars
    BY <2>1, <2>5 DEF vars
  <2> QED BY <2>2, <2>3, <2>4, <2>5 DEF Next
<1> QED BY <1>1, <1>2, LobbyTypes, PTL DEF Spec
=============================================================================
