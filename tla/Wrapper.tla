------------------------------- MODULE Wrapper -------------------------------
(***************************************************************************)
(* The core in the server's own process: DLWrapper opens a copy of the     *)
(* core's library, makes and destroys its duels, and keeps for each duel   *)
(* what the core's script callback is given.  CoreProvider hands one       *)
(* wrapper to all rooms, or loads one for every room (loadPerCall), and    *)
(* replaces it on updates while rooms, each on a thread of its own, are in *)
(* the middle of their duels.                                              *)
(*                                                                         *)
(* The core is not the repository's code: its duels are objects at an      *)
(* address, and the allocator may use an address again, for any library,   *)
(* once the duel there was destroyed.                                      *)
(***************************************************************************)
EXTENDS Naturals, FiniteSets, Functions

CONSTANTS Rooms,      \* whose strands run on different threads
          Cores,      \* copies of the core's library
          Functions,  \* what ocgapi_funcs.inl lists
          Exports,    \* the functions that a library has, for each of Cores
          Wrappers,   \* where DLWrapper objects may be
          Addresses,  \* where the core's duels may be
          MaxSsd,     \* bound: entries in one wrapper's list
          None

\* A DLWrapper with its lists, and what the core keeps of a duel.
Entries == 1..MaxSsd + 1
Object == [file : Cores, ssdList : SUBSET Entries,
           ssdMap : UNION {[as -> Entries] : as \in SUBSET Addresses},
           ssdMutex : Rooms \cup {None}]
CoreDuel == [file : Cores, wrapper : Wrappers, entry : Entries]

ASSUME WrapperAssumption ==
    /\ Exports \in [Cores -> SUBSET Functions]
    /\ MaxSsd \in Nat /\ None \notin Rooms \cup Cores \cup Wrappers \cup Addresses
    /\ None \notin Object /\ None \notin CoreDuel

VARIABLES loadPerCall, coreLoc, core,  \* CoreProvider
          opened,   \* how often the system has each library open
          wrappers, \* the DLWrapper objects
          duels,    \* the core's duels by their address
          room      \* how far each room is, its core, its duel and its entry
dlVars == <<loadPerCall, coreLoc, core, opened, wrappers, duels, room>>

\* Between duels a room has no core.
NoDuel == [at |-> "between", core |-> None, duel |-> None, entry |-> 0]

DLInit ==
    /\ loadPerCall \in BOOLEAN
    /\ coreLoc = None /\ core = None
    /\ opened = [c \in Cores |-> 0]
    /\ wrappers = [w \in Wrappers |-> None]
    /\ duels = [a \in Addresses |-> None]
    /\ room = [r \in Rooms |-> NoDuel]

-----------------------------------------------------------------------------
(* Making and dropping wrappers *)

\* DLOpen: every function has to be there, or the library is closed again.
Loads(c) == Functions \subseteq Exports[c]

\* Mutation: a room has no part in the ownership.
NoUsers(w) == {}

\* The rooms that have a shared_ptr to the wrapper.
Users(w) == {r \in Rooms : room[r].core = w}

\* The wrappers gone are destroyed, which closes their libraries; `new' is made of c.
Replace(gone, new, c) ==
    /\ wrappers' = [w \in Wrappers |->
           CASE w \in new  -> [file |-> c, ssdList |-> {}, ssdMap |-> <<>>, ssdMutex |-> None]
             [] w \in gone -> None
             [] OTHER      -> wrappers[w]]
    /\ opened' = [d \in Cores |->
           (opened[d] + (IF d = c THEN Cardinality(new) ELSE 0))
               - Cardinality({w \in gone : wrappers[w].file = d})]

\* An update brings a core, copied under a name that nobody has open. With loadPerCall
\* it is only where rooms load from. The wrapper made for the test is gone before the
\* one that stays is made. A library that lacks functions throws before core is
\* assigned, but after coreLoc is.
OnGitUpdate(c) ==
    /\ opened[c] = 0 /\ coreLoc # c
    /\ coreLoc' = c
    /\ IF loadPerCall \/ ~Loads(c) THEN UNCHANGED <<core, wrappers, opened>>
       ELSE \E w \in Wrappers :
              /\ wrappers[w] = None
              /\ core' = w
              /\ Replace({x \in {core} \ {None} : Users(x) = {}}, {w}, c)
    /\ UNCHANGED <<loadPerCall, duels, room>>

\* A room is about to duel. (A server whose first core fails does not start, and a
\* library that does not load ends it here; neither leaves anything to look at.)
GetCore(r) ==
    /\ room[r].at = "between"
    /\ \E w \in Wrappers :
         /\ IF loadPerCall
            THEN /\ coreLoc # None /\ Loads(coreLoc) /\ wrappers[w] = None
                 /\ Replace({}, {w}, coreLoc)
            ELSE core = w /\ UNCHANGED <<wrappers, opened>>
         /\ room' = [room EXCEPT ![r] = [NoDuel EXCEPT !.at = "ready", !.core = w]]
    /\ UNCHANGED <<loadPerCall, coreLoc, core, duels>>

-----------------------------------------------------------------------------
(* Duels *)

\* CreateDuel under the wrapper's mutex: an entry for the script callback, the core's
\* duel, which is given the entry's address, and the record of both.
InsertEntry(r) ==
    LET w == room[r].core
        n == CHOOSE i \in Entries : i \notin wrappers[w].ssdList
    IN  /\ room[r].at = "ready"
        /\ wrappers[w].ssdMutex = None
        /\ Cardinality(wrappers[w].ssdList) < MaxSsd
        /\ wrappers' = [wrappers EXCEPT ![w].ssdMutex = r, ![w].ssdList = @ \cup {n}]
        /\ room' = [room EXCEPT ![r].at = "inserted", ![r].entry = n]
        /\ UNCHANGED <<loadPerCall, coreLoc, core, opened, duels>>

CoreCreates(r) ==
    /\ room[r].at = "inserted"
    /\ \E a \in Addresses :
         /\ duels[a] = None
         /\ duels' = [duels EXCEPT ![a] = [file |-> wrappers[room[r].core].file,
                                           wrapper |-> room[r].core,
                                           entry |-> room[r].entry]]
         /\ room' = [room EXCEPT ![r].at = "created", ![r].duel = a]
    /\ UNCHANGED <<loadPerCall, coreLoc, core, opened, wrappers>>

\* The core may refuse. The entry is taken back and the room's duel is a draw.
CreationFails(r) ==
    LET w == room[r].core
    IN  /\ room[r].at = "inserted"
        /\ wrappers' = [wrappers EXCEPT ![w].ssdMutex = None, ![w].ssdList = @ \ {room[r].entry}]
        /\ room' = [room EXCEPT ![r].at = "over", ![r].entry = 0]
        /\ UNCHANGED <<loadPerCall, coreLoc, core, opened, duels>>

\* insert leaves a record that is there already.
Inserted(map, a, n) ==
    [x \in DOMAIN map \cup {a} |-> IF x \in DOMAIN map THEN map[x] ELSE n]

Record(r) ==
    LET w == room[r].core
    IN  /\ room[r].at = "created"
        /\ wrappers' = [wrappers EXCEPT
                         ![w].ssdMutex = None,
                         ![w].ssdMap = Inserted(@, room[r].duel, room[r].entry)]
        /\ room' = [room EXCEPT ![r].at = "dueling"]
        /\ UNCHANGED <<loadPerCall, coreLoc, core, opened, duels>>

\* DestroyDuel's two steps; the first is under the mutex. The entry in ssdList stays.
EraseRecord(r, from, to) ==
    LET w == room[r].core
    IN  /\ room[r].at = from
        /\ wrappers[w].ssdMutex = None
        /\ wrappers' = [wrappers EXCEPT
                         ![w].ssdMap = Restrict(@, DOMAIN @ \ {room[r].duel})]
        /\ room' = [room EXCEPT ![r].at = to]
        /\ UNCHANGED <<loadPerCall, coreLoc, core, opened, duels>>

CoreDestroys(r, from, to) ==
    /\ room[r].at = from
    /\ duels' = [duels EXCEPT ![room[r].duel] = None]
    /\ room' = [room EXCEPT ![r].at = to]
    /\ UNCHANGED <<loadPerCall, coreLoc, core, opened, wrappers>>

\* Mutation: the record is erased after the duel was destroyed.
ErasedLast(r) ==
    \/ CoreDestroys(r, "dueling", "destroyed")
    \/ EraseRecord(r, "destroyed", "over")

DestroyDuel(r) ==
    \/ EraseRecord(r, "dueling", "erased")
    \/ CoreDestroys(r, "erased", "over")

\* The room leaves State::Dueling, which holds its core.
LeaveDueling(r) ==
    /\ room[r].at = "over"
    /\ LET w == room[r].core
       IN  Replace(IF core # w /\ Users(w) = {r} THEN {w} ELSE {}, {}, None)
    /\ room' = [room EXCEPT ![r] = NoDuel]
    /\ UNCHANGED <<loadPerCall, coreLoc, core, duels>>

\* No room is in a duel and nothing is updated.
Idle == (\A r \in Rooms : room[r].at \in {"between", "ready"}) /\ UNCHANGED dlVars

DLNext ==
    \/ \E c \in Cores : OnGitUpdate(c)
    \/ \E r \in Rooms :
         \/ GetCore(r)
         \/ InsertEntry(r)
         \/ CoreCreates(r)
         \/ CreationFails(r)
         \/ Record(r)
         \/ DestroyDuel(r)
         \/ LeaveDueling(r)
    \/ Idle

DLSpec == DLInit /\ [][DLNext]_dlVars

-----------------------------------------------------------------------------
\* Whatever the updates and the other rooms do, a room's wrapper exists, a core that
\* runs a duel finds what its callback was given, and its library is open: a wrapper
\* that was replaced lives on with its entries and its library until the last room
\* that uses it is done
\* (DLWrapper, CoreProvider::GetCore, State::Dueling).
CallbacksReach ==
  /\ \A r \in Rooms : room[r].core # None => wrappers[room[r].core] # None
  /\ \A a \in Addresses : duels[a] # None =>
        LET d == duels[a]
        IN  /\ opened[d.file] > 0
            /\ wrappers[d.wrapper] # None
            /\ wrappers[d.wrapper].file = d.file
            /\ d.entry \in wrappers[d.wrapper].ssdList

\* The record of a duel is its own from its making to its end, and the wrappers have no
\* record of another: an address that a core uses again, perhaps on another thread
\* at that very moment, never meets the record of the duel that was there (CreateDuel
\* inserts without looking, DestroyDuel erases by the address).
RecordsKept ==
    \A w \in Wrappers : wrappers[w] # None =>
        /\ DOMAIN wrappers[w].ssdMap =
               {room[r].duel : r \in {q \in Rooms : room[q].core = w /\ room[q].at = "dueling"}}
        /\ \A a \in DOMAIN wrappers[w].ssdMap :
               duels[a] # None /\ duels[a].wrapper = w
                   /\ duels[a].entry = wrappers[w].ssdMap[a]
=============================================================================
