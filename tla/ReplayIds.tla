------------------------------ MODULE ReplayIds ------------------------------
(***************************************************************************)
(* The numbers of replays.  Every duel is given one, and its replay is     *)
(* saved in the file of that number; the last number is kept in the file   *)
(* lastId, which all processes of the server share: area-zero.sh launches  *)
(* the next one while the rooms of the last one are still playing, and     *)
(* launches one again that has crashed.                                    *)
(*                                                                         *)
(* Threads of a process exclude each other by mLastId, processes by a lock *)
(* on another file, which the system takes back from a process that dies   *)
(* and which does not tell the threads of one process apart.               *)
(*                                                                         *)
(* A file may fail to be opened, read or written at any time.  Openings    *)
(* are looked at; what fails after them is not noticed.                    *)
(***************************************************************************)
EXTENDS Naturals

CONSTANTS
    Processes,      \* places for processes; a place is used again
    Rooms,          \* rooms of a process, with a thread each
    MaxId           \* bound: numbers that are given

Nobody == "nobody"

ASSUME ReplayIdsAssumption ==
    /\ MaxId \in Nat /\ Processes # {}
    /\ Nobody \notin Processes /\ Nobody \notin Rooms

VARIABLES
    multirole_pid,  \* the process area-zero.sh has launched last
    signaled,       \* ... and signalled: it launches the next one in a moment
    phase,          \* how far each process has come
    file,           \* there is no lastId, or it is empty or broken off, or whole
    lastId,         \* the number written last, whether it got there or not
    holder,         \* the process that has the file lock
    mLastId,        \* the room whose thread has the mutex, in each process
    newId,          \* how far each room is with its number
    id,             \* the number a room has read, or was given
    saved,          \* numbers under which a replay is saved
    overwritten,    \* ... and those under which one was lost that way
    torn,           \* lastId was truncated and then not written
    unopened,       \* how often NewId could not open it: never, once, or more often
    misread         \* a number was not read from it

supervisor == <<multirole_pid, signaled>>
counter == <<file, lastId>>
locks == <<holder, mLastId>>
numbers == <<newId, id>>
replays == <<saved, overwritten>>
faults == <<torn, unopened, misread>>
vars == <<supervisor, phase, counter, locks, numbers, replays, faults>>

Running(p) == phase[p] # "off"
Becomes(p, next) == phase' = [phase EXCEPT ![p] = next]

\* A process dies; the system gives its locks back.
Die(p) ==
    /\ Becomes(p, "off")
    /\ newId' = [newId EXCEPT ![p] = [r \in Rooms |-> "none"]]
    /\ mLastId' = [mLastId EXCEPT ![p] = Nobody]
    /\ holder' = IF holder = p THEN Nobody ELSE holder
    /\ torn' = (torn \/ phase[p] = "truncated" \/ \E r \in Rooms : newId[p][r] = "truncated")
    /\ UNCHANGED <<unopened, misread>>

-----------------------------------------------------------------------------
(***************************************************************************)
(* area-zero.sh                                                            *)
(***************************************************************************)
Launch(p) ==
    /\ ~ Running(p) /\ multirole_pid' = p
    /\ Becomes(p, "checks")
    /\ UNCHANGED <<counter, locks, numbers, replays, faults>>

\* The last one has ended by itself.
launch_multirole_if_not_running(p) ==
    /\ ~ signaled /\ ~ Running(multirole_pid)
    /\ Launch(p) /\ UNCHANGED signaled

\* SIGTERM ends a process that runs, when its rooms are done; one that is still
\* being constructed dies of it.
Term ==
    /\ ~ signaled /\ signaled' = TRUE
    /\ IF phase[multirole_pid] \in {"checks", "creates", "truncated", "locks"}
       THEN Die(multirole_pid)
       ELSE /\ phase' = [phase EXCEPT ![multirole_pid] = IF @ = "up" THEN "ends" ELSE @]
            /\ UNCHANGED <<locks, newId, faults>>
    /\ UNCHANGED <<multirole_pid, counter, id, replays>>

\* Three seconds later.
term_and_launch_multirole(p) ==
    signaled /\ signaled' = FALSE /\ Launch(p)

\* A process that was signalled has no room left.
Exit(p) ==
    /\ phase[p] = "ends" /\ \A r \in Rooms : newId[p][r] = "none"
    /\ Becomes(p, "off")
    /\ UNCHANGED <<supervisor, counter, locks, numbers, replays, faults>>

\* ... or its constructor throws, when it cannot create lastId or the lock.
Crash(p) ==
    /\ Running(p) /\ Die(p)
    /\ UNCHANGED <<supervisor, counter, id, replays>>

-----------------------------------------------------------------------------
(***************************************************************************)
(* ReplayManager's constructor.                                            *)
(***************************************************************************)
FindLastId(p) ==
    /\ phase[p] = "checks"
    /\ Becomes(p, IF file = "absent" THEN "creates" ELSE "locks")
    /\ UNCHANGED <<supervisor, counter, locks, numbers, replays, faults>>

CreateLastId(p) ==
    /\ phase[p] = "creates" /\ Becomes(p, "truncated")
    /\ file' = "empty" /\ UNCHANGED lastId
    /\ UNCHANGED <<supervisor, locks, numbers, replays, faults>>

\* A write may fail, and nobody notices: not all of the number is in the file.
Write(n) ==
    /\ file' \in {"whole", "empty"} /\ lastId' = n
    /\ torn' = (torn \/ file' = "empty")
    /\ UNCHANGED <<unopened, misread>>

WriteFirstId(p) ==
    /\ phase[p] = "truncated" /\ Becomes(p, "locks")
    /\ Write(1)
    /\ UNCHANGED <<supervisor, locks, numbers, replays>>

\* It takes the file lock to read the number, for the log; it may fail to.
ReadForLog(p) ==
    /\ phase[p] = "locks" /\ Becomes(p, "up")
    /\ holder = Nobody
    /\ UNCHANGED <<supervisor, counter, locks, numbers, replays, faults>>

-----------------------------------------------------------------------------
(***************************************************************************)
(* NewId and Save, in the thread of a room.                                *)
(***************************************************************************)
\* A duel begins; so it may in a process that was signalled.
At(p, r, from, to) ==
    /\ phase[p] \in {"up", "ends"} /\ newId[p][r] = from
    /\ newId' = [newId EXCEPT ![p][r] = to]

NewId(p, r) ==
    /\ At(p, r, "none", "asked")
    /\ UNCHANGED <<supervisor, phase, counter, locks, id, replays, faults>>

\* Mutation: the file lock alone has to exclude the other threads.
NoMutex(p, r) ==
    /\ At(p, r, "asked", "mutex")
    /\ UNCHANGED <<supervisor, phase, counter, holder, mLastId, id, replays, faults>>

LockMutex(p, r) ==
    /\ At(p, r, "asked", "mutex") /\ mLastId[p] = Nobody
    /\ mLastId' = [mLastId EXCEPT ![p] = r]
    /\ UNCHANGED <<supervisor, phase, counter, holder, id, replays, faults>>

LockFile(p, r) ==
    /\ At(p, r, "mutex", "locked") /\ holder \in {Nobody, p}
    /\ holder' = p
    /\ UNCHANGED <<supervisor, phase, counter, mLastId, id, replays, faults>>

Unlock(p) == holder' = Nobody /\ mLastId' = [mLastId EXCEPT ![p] = Nobody]

\* A number that was not read is 0.
ReadId(p, r) ==
    /\ file = "whole" /\ lastId < MaxId
    /\ At(p, r, "locked", "read")
    /\ \/ id' = [id EXCEPT ![p][r] = lastId] /\ UNCHANGED misread
       \/ id' = [id EXCEPT ![p][r] = 0] /\ misread' = TRUE
    /\ UNCHANGED <<supervisor, phase, counter, locks, replays, torn, unopened>>

NoId(p, r, from) ==
    /\ At(p, r, from, "given") /\ id' = [id EXCEPT ![p][r] = 0]
    /\ Unlock(p)
    /\ UNCHANGED <<supervisor, phase, counter, replays, torn, misread>>

\* The file has another size than a number has.
NoIdToRead(p, r) ==
    file # "whole" /\ NoId(p, r, "locked") /\ UNCHANGED unopened

\* The file cannot be opened to read, or not to write: it is left as it is.
CannotOpen(p, r) ==
    /\ \E from \in {"locked", "read"} : NoId(p, r, from)
    /\ unopened' = IF unopened = 0 THEN 1 ELSE 2

\* Opening the file to write truncates it.
TruncateLastId(p, r) ==
    /\ At(p, r, "read", "truncated")
    /\ file' = "empty" /\ UNCHANGED lastId
    /\ UNCHANGED <<supervisor, phase, locks, id, replays, faults>>

\* The file is written when it is closed, before the locks are given back.
WriteId(p, r) ==
    /\ At(p, r, "truncated", "given")
    /\ Write(id[p][r] + 1)
    /\ Unlock(p)
    /\ UNCHANGED <<supervisor, phase, id, replays>>

\* The duel ends.  The file cannot be opened, or is written over.
Save(p, r) ==
    /\ At(p, r, "given", "none")
    /\ \/ UNCHANGED replays
       \/ /\ saved' = saved \cup {id[p][r]}
          /\ overwritten' = overwritten \cup ({id[p][r]} \cap saved)
    /\ UNCHANGED <<supervisor, phase, counter, locks, id, faults>>

-----------------------------------------------------------------------------
Init ==
    /\ \E p \in Processes :
        /\ multirole_pid = p
        /\ phase = [q \in Processes |-> IF q = p THEN "checks" ELSE "off"]
    /\ signaled = FALSE
    /\ file = "absent" /\ lastId = 0
    /\ holder = Nobody /\ mLastId = [p \in Processes |-> Nobody]
    /\ newId = [p \in Processes |-> [r \in Rooms |-> "none"]]
    /\ id = [p \in Processes |-> [r \in Rooms |-> 0]]
    /\ saved = {} /\ overwritten = {}
    /\ torn = FALSE /\ unopened = 0 /\ misread = FALSE

Supervise == \E p \in Processes : launch_multirole_if_not_running(p)
Deploy == Term \/ \E p \in Processes : term_and_launch_multirole(p)
Construct(p) == FindLastId(p) \/ CreateLastId(p) \/ WriteFirstId(p) \/ ReadForLog(p)
Take(p, r) ==
    \/ LockMutex(p, r) \/ LockFile(p, r) \/ ReadId(p, r) \/ NoIdToRead(p, r)
    \/ CannotOpen(p, r) \/ TruncateLastId(p, r) \/ WriteId(p, r)

Next ==
    \/ Supervise \/ Deploy
    \/ \E p \in Processes :
        \/ Exit(p) \/ Crash(p) \/ Construct(p)
        \/ \E r \in Rooms : NewId(p, r) \/ Take(p, r) \/ Save(p, r)

Spec == Init /\ [][Next]_vars

-----------------------------------------------------------------------------
\* Every variable has its type.
TypeOK ==
    /\ multirole_pid \in Processes /\ signaled \in BOOLEAN
    /\ phase \in [Processes -> {"off", "checks", "creates", "truncated", "locks", "up", "ends"}]
    /\ file \in {"absent", "empty", "whole"} /\ lastId \in Nat
    /\ holder \in Processes \cup {Nobody}
    /\ mLastId \in [Processes -> Rooms \cup {Nobody}]
    /\ newId \in [Processes -> [Rooms -> {"none", "asked", "mutex", "locked", "read",
                                       "truncated", "given"}]]
    /\ id \in [Processes -> [Rooms -> Nat]]
    /\ saved \subseteq Nat /\ overwritten \subseteq Nat
    /\ torn \in BOOLEAN /\ unopened \in 0..2 /\ misread \in BOOLEAN

\* No replay is written over one of another duel, whatever processes and rooms
\* play, are replaced and crash, and whatever fails: except those under 0, which
\* every duel is given once lastId was truncated and not written, and those that
\* find it cannot be opened, of which the first does no harm.  Once a number was
\* not read, numbers start again and nothing is promised.
ReplaysKept == ~ misread =>
    overwritten \subseteq (IF torn \/ unopened > 1 THEN {0} ELSE {})

\* Until then the number in lastId never goes back, and is never started again from
\* 1, although the first one is written without the file lock.
IdsGrow == [][~ misread' => lastId' >= lastId]_vars

=============================================================================
