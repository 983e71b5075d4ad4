----------------------------- MODULE CoreProofs -----------------------------
(***************************************************************************)
(* Theorems about both ways in which the server runs the core: Hornet, the *)
(* process of its own, for any number of calls and any loop limit, and     *)
(* Wrapper, the library in the server, for any rooms, cores and addresses. *)
(***************************************************************************)
EXTENDS Hornet, Wrapper, FiniteSetTheorems, TLAPS

-----------------------------------------------------------------------------
(* Hornet *)


\* The process works on the current call; the bytes say how far it is.
Working ==
    \/ hor \in {"ready", "taken"} /\ act = "CALL" /\ bytes = Holding("args", call)
    \/ hor = "asked" /\ act = "CB_DONE" /\ bytes = Holding("data", call) /\ job = call
    \/ hor = "computing" /\ job = call
    \/ hor = "asking" /\ bytes = Holding("request", call) /\ job = call
    \/ hor = "publish" /\ bytes = Holding("answer", call)
    \/ hor = "dead"

\* It is blocked in a callback of the current call.
Asking == act = "CB" /\ hor = "asked" /\ job = call

\* It has done all there was to do.
Resting == act = "NO_WORK" /\ hor = "ready"

\* Whose turn it is, for every place the wrapper may be in, until a call fails.
TurnOfCall ==
    /\ srv = "notify" /\ sent = "CALL" => Resting /\ bytes = Holding("args", call)
    /\ srv = "notify" /\ sent = "CB_DONE" => Asking /\ bytes = Holding("data", call)
    /\ srv = "waiting" /\ sent \in {"CALL", "CB_DONE"} =>
         \/ act = sent /\ Working
         \/ Asking /\ bytes = Holding("request", call)
         \/ Resting /\ bytes = Holding("answer", call)
    /\ srv = "serving" => Asking /\ bytes = Holding("request", call)
    /\ srv = "returned" => Resting /\ bytes = Holding("answer", call)
    /\ srv = "idle" => Resting

TurnOfLaunch ==
    /\ srv = "off" => act = "NO_WORK" /\ hor = "none"
    /\ srv # "cleanup" /\ (srv = "failed" => hor = "dead")
    /\ srv \in {"notify", "waiting"} => sent # "NO_WORK"
    /\ srv = "notify" /\ sent = "HEARTBEAT" =>
         act = "NO_WORK" /\ hor \in {"booting", "mapping", "publish", "ready", "dead"}
    /\ srv = "waiting" /\ sent = "HEARTBEAT" =>
         \/ act = "HEARTBEAT" /\ hor \in {"booting", "mapping", "publish", "ready", "taken", "dead"}
         \/ Resting

\* The call whose arguments wait is the next one; the core has had all others.
JobOfCall ==
    /\ call \in Nat /\ job \in Nat
    /\ IF \/ srv = "notify" /\ sent = "CALL"
          \/ hor \in {"ready", "taken"} /\ act = "CALL"
       THEN job + 1 = call
       ELSE job = call

\* A room has dropped its wrapper: what it has left behind is its last call's.
Dropped ==
    /\ srv \in {"idle", "cleanup", "failed", "exitwait", "reap", "gone"}
    /\ hor \in {"ready", "taken"} /\ act = "CALL" =>
           bytes = Holding("args", call) /\ job + 1 = call
    /\ hor = "asked" /\ act = "CB_DONE" => bytes = Holding("data", call) /\ job = call

\* Once the destructor has said EXIT, nothing asks the process to go on.
Leaving ==
    srv \in {"exitwait", "reap", "gone"} => act \notin {"CALL", "CB_DONE"}

\* What failed is the current call or one before it.
FailedBefore == failed \subseteq 0..call

Inv ==
    /\ TypeOK
    /\ Leaving /\ FailedBefore
    /\ failed = {} => TurnOfCall /\ TurnOfLaunch /\ JobOfCall
    /\ failed # {} /\ NoCallAfterFailure => Dropped

-----------------------------------------------------------------------------
LEMMA InitInv == Init => Inv
<1> SUFFICES ASSUME Init PROVE Inv
  OBVIOUS
<1>1. TypeOK
  <2>1. 0 \in 0..MaxCalls /\ 0 \in 0..MaxLoop
    BY HornetAssumption
  <2>2. bytes \in [kind : {"none", "args", "request", "data", "answer"}, of : 0..MaxCalls]
    BY <2>1 DEF Init, Holding
  <2> QED BY <2>1, <2>2 DEF Init, TypeOK
<1>2. TurnOfCall /\ TurnOfLaunch /\ JobOfCall /\ Leaving /\ FailedBefore
  BY DEF Init, TurnOfCall, TurnOfLaunch, JobOfCall, Leaving, FailedBefore
<1>3. failed = {}
  BY DEF Init
<1> QED BY <1>1, <1>2, <1>3 DEF Inv

LEMMA TypeStep == TypeOK /\ [Next]_vars => TypeOK'
<1> USE HornetAssumption DEF TypeOK, segment, wrapper, process, Holding
<1> SUFFICES ASSUME TypeOK, [Next]_vars PROVE TypeOK'
  OBVIOUS
<1>1. CASE Launch BY <1>1 DEF Launch
<1>2. CASE StartCall BY <1>2 DEF StartCall
<1>3. CASE Notify BY <1>3 DEF Notify
<1>4. CASE TooManyLoops BY <1>4 DEF TooManyLoops, Throw
<1>5. CASE Crashed BY <1>5 DEF Crashed, Throw
<1>6. CASE Unresponsive BY <1>6 DEF Unresponsive, Throw
<1>7. CASE Wake BY <1>7 DEF Wake
<1>8. CASE Serve BY <1>8 DEF Serve
<1>9. CASE ReadResult BY <1>9 DEF ReadResult
<1>10. CASE CleanUp BY <1>10 DEF CleanUp
<1>11. CASE Destroy BY <1>11 DEF Destroy
<1>12. CASE ExitWake BY <1>12 DEF ExitWake
<1>13. CASE ExitTimeout BY <1>13 DEF ExitTimeout
<1>14. CASE Reap BY <1>14 DEF Reap
<1>15. CASE Dispatch BY <1>15 DEF Dispatch
<1>16. CASE Request BY <1>16 DEF Request
<1>17. CASE Finish BY <1>17 DEF Finish
<1>18. CASE LoadSO BY <1>18 DEF LoadSO
<1>19. CASE Boot BY <1>19 DEF Boot
<1>20. CASE Publish BY <1>20 DEF Publish
<1>21. CASE Take BY <1>21 DEF Take
<1>22. CASE Ask BY <1>22 DEF Ask
<1>23. CASE Answered BY <1>23 DEF Answered
<1>24. CASE Crash BY <1>24 DEF Crash
<1>25. CASE Confirm BY <1>25 DEF Confirm
<1>26. CASE Leave BY <1>26 DEF Leave
<1>27. CASE UNCHANGED vars BY <1>27 DEF vars
<1> QED BY <1>1, <1>2, <1>3, <1>4, <1>5, <1>6, <1>7, <1>8, <1>9, <1>10, <1>11, <1>12, <1>13, <1>14,
           <1>15, <1>16, <1>17, <1>18, <1>19, <1>20, <1>21, <1>22, <1>23, <1>24, <1>25, <1>26, <1>27
        DEF Next, WrapperStep, HornetStep

LEMMA InvStep == Inv /\ [Next]_vars => Inv'
<1> SUFFICES ASSUME Inv, [Next]_vars PROVE Inv'
  OBVIOUS
<1>1. TypeOK'
  BY TypeStep DEF Inv
<1>2. Leaving'
  BY DEF Inv, Leaving, Next, WrapperStep, HornetStep, segment, wrapper,
     process, vars, Launch, StartCall, Notify, TooManyLoops, Crashed, Unresponsive,
     Throw, Wake, Serve, ReadResult, CleanUp, Destroy, ExitWake, ExitTimeout, Reap,
     LoadSO, Boot, Publish, Take, Dispatch, Request, Ask, Answered, Finish, Crash, Confirm, Leave
<1>2a. /\ FailedBefore'
       /\ \/ failed' = failed /\ call' = call
          \/ failed' = failed /\ StartCall
          \/ failed' = failed \cup {call} /\ call' = call
  <2>1. TypeOK /\ FailedBefore
    BY DEF Inv
  <2>2. \/ failed' = failed /\ call' = call
        \/ failed' = failed /\ StartCall
        \/ failed' = failed \cup {call} /\ call' = call
    BY DEF Next, WrapperStep, HornetStep, segment, wrapper, process, vars,
       Launch, StartCall, Notify, TooManyLoops, Crashed, Unresponsive, Throw, Wake,
       Serve, ReadResult, CleanUp, Destroy, ExitWake, ExitTimeout, Reap, LoadSO, Boot, Publish,
       Take, Dispatch, Request, Ask, Answered, Finish, Crash, Confirm, Leave
  <2>3. call \in Nat /\ (StartCall => call' = call + 1)
    BY <2>1, HornetAssumption DEF TypeOK, StartCall
  <2>4. CASE failed' = failed /\ call' \in {call, call + 1}
    <3>1. 0..call \subseteq 0..call'
      BY <2>3, <2>4
    <3>2. failed' \subseteq 0..call
      BY <2>1, <2>4 DEF FailedBefore
    <3> QED BY <2>2, <3>1, <3>2 DEF FailedBefore
  <2>5. CASE failed' = failed \cup {call} /\ call' = call
    <3>1. call \in 0..call
      BY <2>3
    <3> QED BY <2>1, <2>2, <2>5, <3>1 DEF FailedBefore
  <2> QED BY <2>2, <2>3, <2>4, <2>5
<1>3. ASSUME failed' = {} PROVE (TurnOfCall /\ TurnOfLaunch /\ JobOfCall)'
  <2>1. failed = {}
    BY <1>2a, <1>3
  <2>2. TypeOK /\ TurnOfCall /\ TurnOfLaunch /\ Leaving
    BY <2>1 DEF Inv
  <2>a. (TurnOfCall /\ TurnOfLaunch)'
    <3> USE <2>2 DEF TypeOK, TurnOfCall, TurnOfLaunch, Leaving, Working, Asking, Resting,
                     Holding, segment, wrapper, process
    <3>3. CASE Launch BY <3>3 DEF Launch
    <3>4. CASE StartCall BY <3>4 DEF StartCall
    <3>5. CASE Notify BY <3>5 DEF Notify
    <3>6. CASE TooManyLoops \/ Crashed \/ Unresponsive
      BY <1>3, <3>6 DEF TooManyLoops, Crashed, Unresponsive, Throw
    <3>7. CASE Wake BY <3>7 DEF Wake
    <3>8. CASE Serve BY <3>8 DEF Serve
    <3>9. CASE ReadResult \/ CleanUp BY <3>9 DEF ReadResult, CleanUp
    <3>10. CASE Destroy BY <3>10 DEF Destroy
    <3>11. CASE ExitWake BY <3>11 DEF ExitWake
    <3>12. CASE ExitTimeout \/ Reap BY <3>12 DEF ExitTimeout, Reap
    <3>13. CASE LoadSO \/ Boot BY <3>13 DEF LoadSO, Boot
    <3>14. CASE Publish BY <3>14 DEF Publish
    <3>15. CASE Take BY <3>15 DEF Take
    <3>16. CASE Dispatch BY <3>16 DEF Dispatch
    <3>17. CASE Request BY <3>17 DEF Request
    <3>18. CASE Ask BY <3>18 DEF Ask
    <3>19. CASE Answered BY <3>19 DEF Answered
    <3>20. CASE Finish BY <3>20 DEF Finish
    <3>21. CASE Crash BY <3>21 DEF Crash
    <3>22. CASE Confirm \/ Leave BY <3>22 DEF Confirm, Leave
    <3>23. CASE UNCHANGED vars BY <3>23 DEF vars
    <3> QED BY <3>3, <3>4, <3>5, <3>6, <3>7, <3>8, <3>9, <3>10, <3>11, <3>12, <3>13, <3>14,
               <3>15, <3>16, <3>17, <3>18, <3>19, <3>20, <3>21, <3>22, <3>23
            DEF Next, WrapperStep, HornetStep
  <2>b. JobOfCall'
    <3>1. JobOfCall /\ call \in Nat
      BY <2>1 DEF Inv, JobOfCall
    <3> USE <2>2, <3>1 DEF TypeOK, JobOfCall, TurnOfCall, TurnOfLaunch, Leaving, Working, Asking,
                     Resting, Holding, segment, wrapper, process
    <3>3. CASE Launch BY <3>3 DEF Launch
    <3>4. CASE StartCall BY <3>4 DEF StartCall
    <3>5. CASE Notify BY <3>5 DEF Notify
    <3>6. CASE TooManyLoops \/ Crashed \/ Unresponsive
      BY <1>3, <3>6 DEF TooManyLoops, Crashed, Unresponsive, Throw
    <3>7. CASE Wake \/ Serve \/ ReadResult \/ CleanUp
      BY <3>7 DEF Wake, Serve, ReadResult, CleanUp
    <3>8. CASE Destroy \/ ExitWake \/ ExitTimeout \/ Reap
      BY <3>8 DEF Destroy, ExitWake, ExitTimeout, Reap
    <3>9a. CASE LoadSO \/ Boot BY <3>9a DEF LoadSO, Boot
    <3>9b. CASE Publish BY <3>9b DEF Publish
    <3>9c. CASE Take BY <3>9c DEF Take
    <3>10. CASE Dispatch BY <3>10 DEF Dispatch
    <3>11. CASE Request \/ Ask \/ Answered \/ Finish
      BY <3>11 DEF Request, Ask, Answered, Finish
    <3>12. CASE Crash \/ Confirm \/ Leave BY <3>12 DEF Crash, Confirm, Leave
    <3>13. CASE UNCHANGED vars BY <3>13 DEF vars
    <3> QED BY <3>3, <3>4, <3>5, <3>6, <3>7, <3>8, <3>9a, <3>9b, <3>9c, <3>10,
               <3>11, <3>12, <3>13
            DEF Next, WrapperStep, HornetStep
  <2> QED BY <2>a, <2>b
<1>4. ASSUME failed' # {}, NoCallAfterFailure' PROVE Dropped'
  <2>1. CASE failed # {}
    <3>0. ~ StartCall /\ NoCallAfterFailure
      <4>1. call \in Nat /\ FailedBefore /\ (StartCall => call' = call + 1)
        BY HornetAssumption DEF Inv, TypeOK, StartCall
      <4>2. call + 1 \notin 0..call
        BY <4>1
      <4>3. failed \subseteq failed' /\ failed' \subseteq {call'}
        BY <1>2a, <1>4 DEF NoCallAfterFailure
      <4>4. ~ StartCall
        <5>1. SUFFICES ASSUME StartCall PROVE FALSE
          OBVIOUS
        <5>2. failed \subseteq {call + 1}
          BY <4>1, <4>3, <5>1
        <5> QED BY <2>1, <4>1, <4>2, <5>2 DEF FailedBefore
      <4>5. call' = call
        BY <1>2a, <4>4
      <4> QED BY <4>3, <4>4, <4>5 DEF NoCallAfterFailure
    <3>1. Dropped /\ TypeOK
      BY <3>0, <2>1 DEF Inv
    <3> USE <2>1, <3>1 DEF Dropped, TypeOK, Holding, segment, wrapper, process
    <3>2. CASE Launch \/ Notify \/ TooManyLoops \/ Crashed \/ Unresponsive
      BY <3>2 DEF Launch, Notify, TooManyLoops, Crashed, Unresponsive
    <3>3. CASE Wake \/ Serve \/ ReadResult \/ CleanUp
      BY <3>3 DEF Wake, Serve, ReadResult, CleanUp
    <3>4. CASE Destroy \/ ExitWake \/ ExitTimeout \/ Reap
      BY <3>4 DEF Destroy, ExitWake, ExitTimeout, Reap
    <3>5. CASE LoadSO \/ Boot \/ Publish \/ Take
      BY <3>5 DEF LoadSO, Boot, Publish, Take
    <3>6. CASE Dispatch BY <3>6 DEF Dispatch
    <3>7. CASE Request \/ Ask \/ Answered \/ Finish
      BY <3>7 DEF Request, Ask, Answered, Finish
    <3>8. CASE Crash \/ Confirm \/ Leave BY <3>8 DEF Crash, Confirm, Leave
    <3>9. CASE UNCHANGED vars BY <3>9 DEF vars
    <3> QED BY <3>0, <3>2, <3>3, <3>4, <3>5, <3>6, <3>7, <3>8, <3>9
            DEF Next, WrapperStep, HornetStep
  <2>2. CASE failed = {}
    <3>1. TooManyLoops \/ Crashed \/ Unresponsive
      BY <1>4, <2>2 DEF Next, WrapperStep, HornetStep, segment, wrapper, process,
         vars, Launch, StartCall, Notify, Wake, Serve, ReadResult, CleanUp, Destroy, ExitWake,
         ExitTimeout, Reap, LoadSO, Boot, Publish, Take, Dispatch, Request, Ask, Answered,
         Finish, Crash, Confirm, Leave
    <3>2. TypeOK /\ TurnOfCall /\ TurnOfLaunch /\ JobOfCall
      BY <2>2 DEF Inv
    <3>3. TypeOK'
      BY <1>1
    <3> QED BY <3>1, <3>2 DEF TypeOK, Dropped, TurnOfCall, TurnOfLaunch, JobOfCall, Working,
                 Asking, Resting, Holding, TooManyLoops, Crashed, Unresponsive, Throw,
                 segment, process
  <2> QED BY <2>1, <2>2
<1> QED BY <1>1, <1>2, <1>2a, <1>3, <1>4 DEF Inv

THEOREM InvHolds == Spec => []Inv
  BY InitInv, InvStep, PTL DEF Spec

-----------------------------------------------------------------------------
\* The segment's variables keep their types, whatever the limits.
THEOREM HornetTypes == Spec => []TypeOK
<1>1. Inv => TypeOK
  BY DEF Inv
<1> QED BY <1>1, InvHolds, PTL

\* Until a call fails, server and process use the bytes in turn.
THEOREM TurnsDoAlternate == Spec => []TurnsAlternate
<1>1. Inv => TurnsAlternate
  BY DEF Inv, TurnsAlternate, TurnOfCall, Asking, Resting
<1> QED BY <1>1, InvHolds, PTL

\* Every result, request and answer reaches its own reader, until a call is made after
\* one that failed.
THEOREM AnswersAreOwn == Spec => []OwnAnswer
<1>1. Inv => OwnAnswer
  <2> SUFFICES ASSUME Inv, NoCallAfterFailure PROVE OwnAnswer
    BY DEF OwnAnswer
  <2>1. CASE failed = {}
    <3>1. TypeOK /\ TurnOfCall /\ TurnOfLaunch /\ Leaving
      BY <2>1 DEF Inv
    <3> QED BY <3>1 DEF OwnAnswer, TypeOK, TurnOfCall, TurnOfLaunch, Leaving, Working, Asking,
                         Resting, Holding
  <2>2. CASE failed # {}
    <3>1. Dropped
      BY <2>2 DEF Inv, NoCallAfterFailure
    <3> QED BY <3>1 DEF OwnAnswer, Dropped
  <2> QED BY <2>1, <2>2
<1> QED BY <1>1, InvHolds, PTL

\* The core is given every call once and with its own arguments, goes on only with the
\* data it asked for, and is given nothing once the destructor has begun.
THEOREM EveryCallOnce == Spec => CoreGivenOnce
<1> DEFINE Once ==
      hor # "computing" /\ hor' = "computing" =>
        /\ srv \notin {"exitwait", "reap", "gone"}
        /\ NoCallAfterFailure =>
            \/ hor = "taken" /\ job + 1 = call /\ bytes = Holding("args", call)
            \/ hor = "asked" /\ job = call /\ bytes = Holding("data", call)
<1>1. Inv /\ [Next]_vars => [Once]_vars
  <2> SUFFICES ASSUME Inv, Next, hor # "computing", hor' = "computing"
               PROVE  Once
    BY DEF vars, process
  <2>1. \/ hor = "taken" /\ act = "CALL"
        \/ hor = "asked" /\ act = "CB_DONE"
    BY DEF Inv, TypeOK, Next, WrapperStep, HornetStep, segment, wrapper, process,
       Launch, StartCall, Notify, TooManyLoops, Crashed, Unresponsive, Throw, Wake,
       Serve, ReadResult, CleanUp, Destroy, ExitWake, ExitTimeout, Reap, LoadSO, Boot, Publish,
       Take, Dispatch, Request, Ask, Answered, Finish, Crash, Confirm, Leave
  <2>2. srv \notin {"exitwait", "reap", "gone"}
    BY <2>1 DEF Inv, Leaving
  <2>3. ASSUME failed # {}, NoCallAfterFailure
        PROVE  \/ hor = "taken" /\ job + 1 = call /\ bytes = Holding("args", call)
               \/ hor = "asked" /\ job = call /\ bytes = Holding("data", call)
    BY <2>1, <2>3 DEF Inv, Dropped
  <2>4. ASSUME failed = {}
        PROVE  \/ hor = "taken" /\ job + 1 = call /\ bytes = Holding("args", call)
               \/ hor = "asked" /\ job = call /\ bytes = Holding("data", call)
    <3>1. TypeOK /\ TurnOfCall /\ TurnOfLaunch /\ JobOfCall
      BY <2>4 DEF Inv
    <3> QED BY <2>1, <2>2, <3>1 DEF TypeOK, TurnOfCall, TurnOfLaunch, JobOfCall, Working,
                 Asking, Resting, Holding
  <2> QED BY <2>2, <2>3, <2>4
<1>2. Spec => [][Once]_vars
  BY <1>1, InvHolds, PTL DEF Spec
<1> QED BY <1>2 DEF CoreGivenOnce

-----------------------------------------------------------------------------
(* Wrapper *)


Stages == {"between", "ready", "inserted", "created", "dueling", "erased", "over"}

\* A room has an entry in its wrapper's list, and a duel in its core.
HasEntry(r) == room[r].at \in {"inserted", "created", "dueling", "erased"}
HasDuel(r) == room[r].at \in {"created", "dueling", "erased"}

\* The wrappers that have a library open.
OpenedBy(c) == {w \in Wrappers : wrappers[w] # None /\ wrappers[w].file = c}

Duelling == [at : Stages, core : Wrappers \cup {None},
             duel : Addresses \cup {None}, entry : Entries \cup {0}]

DLTypes ==
    /\ loadPerCall \in BOOLEAN
    /\ coreLoc \in Cores \cup {None} /\ core \in Wrappers \cup {None}
    /\ opened \in [Cores -> Nat]
    /\ wrappers \in [Wrappers -> Object \cup {None}]
    /\ duels \in [Addresses -> CoreDuel \cup {None}]
    /\ room \in [Rooms -> Duelling]

\* The system counts exactly the wrappers there are.
Counted ==
    \A c \in Cores : IsFiniteSet(OpenedBy(c)) /\ opened[c] = Cardinality(OpenedBy(c))

\* Who has a pointer to a wrapper has one to a wrapper that exists.
Owned ==
    /\ core # None => wrappers[core] # None
    /\ \A r \in Rooms :
         /\ room[r].core # None => wrappers[room[r].core] # None
         /\ room[r].at # "between" => room[r].core # None

\* Rooms have entries and duels of their own,
Apart ==
    \A r, q \in Rooms : r # q =>
        /\ HasEntry(r) /\ HasEntry(q) /\ room[r].core = room[q].core =>
               room[r].entry # room[q].entry
        /\ HasDuel(r) /\ HasDuel(q) => room[r].duel # room[q].duel

\* ... the entries are in the wrapper's list, the core's duel has what it was given,
Given ==
    \A r \in Rooms :
        /\ HasEntry(r) => room[r].entry \in wrappers[room[r].core].ssdList
        /\ HasDuel(r) =>
             /\ room[r].duel \in Addresses
             /\ duels[room[r].duel] = [file |-> wrappers[room[r].core].file,
                                       wrapper |-> room[r].core,
                                       entry |-> room[r].entry]

\* ... and there is no duel but those of the rooms.
NoOtherDuel ==
    \A a \in Addresses : duels[a] # None => \E r \in Rooms : HasDuel(r) /\ room[r].duel = a

\* RecordsKept needs all of it: a record is erased by the address of a duel, so duels
\* must be apart (Apart), and be what the rooms think they are (Given, NoOtherDuel); a
\* wrapper must not go while a room has it (Owned), and its library with it (Counted).
DLInv == DLTypes /\ Counted /\ Owned /\ Apart /\ Given /\ NoOtherDuel /\ RecordsKept

-----------------------------------------------------------------------------
LEMMA NoneIsNothing ==
    /\ None \notin Object /\ None \notin CoreDuel
    /\ None \notin Wrappers /\ None \notin Addresses /\ None \notin Cores
    /\ None \notin Rooms
BY WrapperAssumption

LEMMA EntriesTyped == Entries \subseteq Nat /\ 0 \notin Entries
BY WrapperAssumption DEF Entries

LEMMA EmptyObject ==
    ASSUME NEW c \in Cores
    PROVE [file |-> c, ssdList |-> {}, ssdMap |-> <<>>, ssdMutex |-> None] \in Object
<1>1. <<>> \in [{} -> Entries]
  OBVIOUS
<1>2. <<>> \in UNION {[as -> Entries] : as \in SUBSET Addresses}
  BY <1>1
<1> QED BY <1>2 DEF Object

LEMMA DLInitInv == DLInit => DLInv
<1> SUFFICES ASSUME DLInit PROVE DLInv
  OBVIOUS
<1> USE NoneIsNothing DEF DLInit, NoDuel
<1>1. DLTypes
  BY DEF DLTypes, Stages, Duelling
<1>2. Counted
  <2>1. \A c \in Cores : OpenedBy(c) = {}
    BY DEF OpenedBy
  <2> QED BY <2>1, FS_EmptySet DEF Counted
<1>3. Owned /\ Apart /\ Given /\ NoOtherDuel /\ RecordsKept
  BY DEF Owned, Apart, Given, NoOtherDuel, RecordsKept, HasEntry, HasDuel
<1> QED BY <1>1, <1>2, <1>3 DEF DLInv

LEMMA CountedSteps ==
    ASSUME NEW S, IsFiniteSet(S), NEW lost, lost = {} \/ \E w \in S : lost = {w},
           NEW made, made = {} \/ \E w : made = {w} /\ w \notin S
    PROVE  /\ IsFiniteSet((S \ lost) \cup made)
           /\ Cardinality((S \ lost) \cup made) =
                (Cardinality(S) + Cardinality(made)) - Cardinality(lost)
           /\ Cardinality((S \ lost) \cup made) \in Nat
<1>1. Cardinality(S) \in Nat /\ Cardinality({}) = 0
  BY FS_CardinalityType, FS_EmptySet
<1> DEFINE left == S \ lost
<1>2. IsFiniteSet(left) /\ Cardinality(left) = Cardinality(S) - Cardinality(lost)
      /\ Cardinality(lost) \in Nat
  <2>1. CASE lost = {}
    <3>1. left = S
      BY <2>1
    <3> QED BY <1>1, <2>1, <3>1
  <2>2. CASE lost # {}
    <3>1. PICK w \in S : lost = {w}
      BY <2>2
    <3>2. IsFiniteSet(S \ {w}) /\ Cardinality(S \ {w}) = Cardinality(S) - 1
      BY FS_RemoveElement
    <3>3. Cardinality({w}) = 1
      BY FS_Singleton
    <3> QED BY <3>1, <3>2, <3>3
  <2> QED BY <2>1, <2>2
<1>3. Cardinality(left) \in Nat
  BY <1>2, FS_CardinalityType
<1>4. \A w \in made : w \notin left
  OBVIOUS
<1> HIDE DEF left
<1>5. /\ IsFiniteSet(left \cup made) /\ Cardinality(made) \in Nat
      /\ Cardinality(left \cup made) = Cardinality(left) + Cardinality(made)
  <2>1. CASE made = {}
    <3>1. left \cup made = left
      BY <2>1
    <3> QED BY <1>1, <1>2, <1>3, <2>1, <3>1
  <2>2. CASE made # {}
    <3>1. PICK w : made = {w}
      BY <2>2
    <3>2. w \notin left
      BY <1>4, <3>1
    <3>3. IsFiniteSet(left \cup {w}) /\ Cardinality(left \cup {w}) = Cardinality(left) + 1
      BY <1>2, <3>2, FS_AddElement
    <3>4. Cardinality({w}) = 1
      BY FS_Singleton
    <3> QED BY <3>1, <3>3, <3>4
  <2> QED BY <2>1, <2>2
<1>6. Cardinality(left \cup made) = (Cardinality(S) + Cardinality(made)) - Cardinality(lost)
  BY <1>1, <1>2, <1>5
<1>7. Cardinality(left \cup made) \in Nat
  BY <1>3, <1>5
<1> QED BY <1>5, <1>6, <1>7 DEF left

\* Wrappers are made and destroyed: the libraries stay counted.
LEMMA Replaced ==
    ASSUME DLTypes, Counted, NEW gone, NEW new, NEW c, Replace(gone, new, c),
           gone = {} \/ \E w \in Wrappers : gone = {w} /\ wrappers[w] # None,
           new = {} \/ \E w \in Wrappers : new = {w} /\ wrappers[w] = None /\ c \in Cores
    PROVE  /\ wrappers' \in [Wrappers -> Object \cup {None}]
           /\ opened' \in [Cores -> Nat] /\ Counted'
           /\ \A w \in Wrappers \ (gone \cup new) : wrappers'[w] = wrappers[w]
           /\ \A w \in gone : wrappers'[w] = None
           /\ \A w \in new : wrappers'[w] =
                [file |-> c, ssdList |-> {}, ssdMap |-> <<>>, ssdMutex |-> None]
<1> USE NoneIsNothing
<1>0. gone \cap new = {}
  OBVIOUS
<1>1. wrappers' \in [Wrappers -> Object \cup {None}]
  BY EmptyObject DEF DLTypes, Replace
<1>2. /\ \A w \in Wrappers \ (gone \cup new) : wrappers'[w] = wrappers[w]
      /\ \A w \in gone : wrappers'[w] = None
      /\ \A w \in new : wrappers'[w] =
            [file |-> c, ssdList |-> {}, ssdMap |-> <<>>, ssdMutex |-> None]
  BY <1>0 DEF DLTypes, Replace
<1>3. ASSUME NEW d \in Cores
      PROVE  /\ IsFiniteSet(OpenedBy(d)') /\ opened'[d] = Cardinality(OpenedBy(d)')
             /\ opened'[d] \in Nat
  <2> DEFINE lost == {w \in gone : wrappers[w].file = d}
             left == OpenedBy(d) \ lost
             made == IF d = c THEN new ELSE {}
  <2>1. lost \subseteq OpenedBy(d)
    BY DEF OpenedBy
  <2>2. OpenedBy(d)' = left \cup made
    <3>1. OpenedBy(d)' = {w \in Wrappers : wrappers'[w] # None /\ wrappers'[w].file = d}
      BY DEF OpenedBy
    <3>2. ASSUME NEW w \in Wrappers
          PROVE wrappers'[w] # None /\ wrappers'[w].file = d <=> w \in left \cup made
      <4>1. CASE w \in gone
        BY <1>0, <1>2, <4>1 DEF OpenedBy
      <4>2. CASE w \in new
        <5>1. [file |-> c, ssdList |-> {}, ssdMap |-> <<>>, ssdMutex |-> None] \in Object
          BY <4>2, EmptyObject
        <5> QED BY <1>0, <1>2, <4>2, <5>1 DEF OpenedBy
      <4>3. CASE w \notin gone \cup new
        BY <1>2, <4>3 DEF OpenedBy
      <4> QED BY <4>1, <4>2, <4>3
    <3>3. left \cup made \subseteq Wrappers
      BY DEF OpenedBy
    <3> QED BY <3>1, <3>2, <3>3
  <2>3. IsFiniteSet(OpenedBy(d)) /\ opened[d] = Cardinality(OpenedBy(d))
    BY DEF Counted
  <2>4. /\ lost = {} \/ \E w \in OpenedBy(d) : lost = {w}
        /\ made = {} \/ \E w : made = {w} /\ w \notin OpenedBy(d)
    BY <2>1 DEF OpenedBy
  <2>6. opened'[d] = (opened[d] + Cardinality(made)) - Cardinality(lost)
    <3>1. opened'[d] = (opened[d] + (IF d = c THEN Cardinality(new) ELSE 0)) - Cardinality(lost)
      BY DEF Replace
    <3>2. Cardinality(made) = IF d = c THEN Cardinality(new) ELSE 0
      BY FS_EmptySet
    <3> QED BY <3>1, <3>2
  <2>7. left \cup made = (OpenedBy(d) \ lost) \cup made
    OBVIOUS
  <2> HIDE DEF lost, left, made
  <2> QED BY <2>2, <2>3, <2>4, <2>6, <2>7, CountedSteps
<1>4. opened' \in [Cores -> Nat]
  <2>1. opened' = [d \in Cores |-> opened'[d]]
    BY DEF Replace
  <2> QED BY <1>3, <2>1
<1> QED BY <1>1, <1>2, <1>3, <1>4 DEF Counted

\* What becomes of the rooms when wrappers come and go: a wrapper that is destroyed is
\* nobody's, a new one is empty, and a room that takes or drops one has no duel.
LEMMA OwnersKept ==
    ASSUME DLInv, duels' = duels, NEW gone, NEW new \in SUBSET Wrappers,
           room' \in [Rooms -> Duelling],
           core' \in Wrappers \cup {None},
           \A w \in Wrappers \ (gone \cup new) : wrappers'[w] = wrappers[w],
           \A w \in gone : wrappers'[w] = None,
           \A w \in new : wrappers[w] = None /\ \E c \in Cores : wrappers'[w] =
                [file |-> c, ssdList |-> {}, ssdMap |-> <<>>, ssdMutex |-> None],
           core' # None => core' \in new \/ (wrappers[core'] # None /\ core' \notin gone),
           \A q \in Rooms :
             /\ room'[q] = room[q] \/ (~ HasEntry(q) /\ ~ HasEntry(q)')
             /\ room'[q].core # None =>
                  \/ room'[q].core \in new
                  \/ wrappers[room'[q].core] # None /\ room'[q].core \notin gone
             /\ room'[q].at # "between" => room'[q].core # None
    PROVE  Owned' /\ Apart' /\ Given' /\ NoOtherDuel' /\ RecordsKept'
<1> USE NoneIsNothing
<1>1. ASSUME NEW w \in new PROVE wrappers'[w] # None /\ wrappers'[w].ssdMap = <<>>
  <2>1. PICK c \in Cores : wrappers'[w] =
          [file |-> c, ssdList |-> {}, ssdMap |-> <<>>, ssdMutex |-> None]
    OBVIOUS
  <2>2. wrappers'[w] \in Object
    BY <2>1, EmptyObject
  <2>3. wrappers'[w] # None
    BY <2>2
  <2>4. wrappers'[w].ssdMap = <<>>
    BY ONLY <2>1
  <2> QED BY <2>3, <2>4
<1>2. Owned'
  BY <1>1 DEF Owned, DLInv, DLTypes, Duelling
<1>3. \A q \in Rooms : HasEntry(q)' =>
        /\ room'[q] = room[q] /\ HasEntry(q) /\ (HasDuel(q)' <=> HasDuel(q))
        /\ room[q].core \in Wrappers /\ wrappers'[room[q].core] = wrappers[room[q].core]
  <2> SUFFICES ASSUME NEW q \in Rooms, HasEntry(q)'
               PROVE /\ room'[q] = room[q] /\ HasEntry(q) /\ (HasDuel(q)' <=> HasDuel(q))
                     /\ room[q].core \in Wrappers
                     /\ wrappers'[room[q].core] = wrappers[room[q].core]
    OBVIOUS
  <2>1. room'[q] = room[q] /\ HasEntry(q) /\ (HasDuel(q)' <=> HasDuel(q))
    BY DEF HasEntry, HasDuel
  <2>2. room[q].core # None /\ wrappers[room[q].core] # None
    BY <2>1 DEF HasEntry, DLInv, Owned
  <2>3. room[q].core \in Wrappers
    BY <2>2 DEF DLInv, DLTypes, Duelling
  <2>4. room[q].core \notin gone \cup new
    BY <2>1, <2>2
  <2> QED BY <2>1, <2>3, <2>4
<1>4. \A q \in Rooms : HasDuel(q)' => HasEntry(q)'
  BY DEF HasDuel, HasEntry
<1>5. Apart'
  BY <1>3, <1>4 DEF Apart, DLInv
<1>6. Given'
  BY <1>3, <1>4 DEF Given, DLInv
<1>7. \A q \in Rooms : HasDuel(q) => HasDuel(q)' /\ room'[q] = room[q]
  BY DEF HasEntry, HasDuel
<1>8. NoOtherDuel'
  BY <1>7 DEF NoOtherDuel, DLInv
<1>9. RecordsKept'
  <2> SUFFICES ASSUME NEW w \in Wrappers, wrappers'[w] # None
               PROVE  /\ DOMAIN wrappers'[w].ssdMap = {room'[r].duel :
                           r \in {q \in Rooms : room'[q].core = w /\ room'[q].at = "dueling"}}
                      /\ \A a \in DOMAIN wrappers'[w].ssdMap :
                            /\ duels[a] # None /\ duels[a].wrapper = w
                            /\ duels[a].entry = wrappers'[w].ssdMap[a]
    BY DEF RecordsKept
  <2>1. \A q \in Rooms : room'[q].at = "dueling" <=> room[q].at = "dueling"
    BY DEF HasEntry
  <2>2. \A q \in Rooms : room'[q].at = "dueling" => room'[q] = room[q]
    BY DEF HasEntry
  <2>3. CASE w \in new
    <3>1. \A q \in Rooms : room'[q].core = w => room'[q].at # "dueling"
      BY <2>2, <2>3 DEF DLInv, Owned
    <3>2. DOMAIN wrappers'[w].ssdMap = {}
      BY <1>1, <2>3
    <3> QED BY <3>1, <3>2
  <2>4. CASE w \notin new
    <3>1. wrappers'[w] = wrappers[w]
      BY <2>4
    <3>2. {q \in Rooms : room'[q].core = w /\ room'[q].at = "dueling"}
            = {q \in Rooms : room[q].core = w /\ room[q].at = "dueling"}
      BY <2>1, <2>2
    <3>3. {room'[r].duel : r \in {q \in Rooms : room'[q].core = w /\ room'[q].at = "dueling"}}
            = {room[r].duel : r \in {q \in Rooms : room[q].core = w /\ room[q].at = "dueling"}}
      BY <2>2, <3>2
    <3>4. wrappers[w] # None
      BY <3>1
    <3>5. /\ DOMAIN wrappers[w].ssdMap =
               {room[r].duel : r \in {q \in Rooms : room[q].core = w /\ room[q].at = "dueling"}}
          /\ \A a \in DOMAIN wrappers[w].ssdMap :
                /\ duels[a] # None /\ duels[a].wrapper = w
                /\ duels[a].entry = wrappers[w].ssdMap[a]
      BY <3>4, Zenon DEF DLInv, RecordsKept
    <3> QED BY <3>1, <3>3, <3>5, Zenon
  <2> QED BY <2>3, <2>4
<1> QED BY <1>2, <1>5, <1>6, <1>8, <1>9

LEMMA OnGitUpdateInv == ASSUME DLInv, NEW c \in Cores, OnGitUpdate(c) PROVE DLInv'
<1> USE NoneIsNothing DEF OnGitUpdate
<1>1. CASE loadPerCall \/ ~ Loads(c)
  <2>1. UNCHANGED <<loadPerCall, core, wrappers, opened, duels, room>> /\ coreLoc' \in Cores
    BY <1>1
  <2>2. DLTypes /\ Counted /\ Owned /\ Apart /\ Given /\ NoOtherDuel /\ RecordsKept
    BY DEF DLInv
  <2>3. DLTypes' /\ Counted' /\ Owned'
    BY <2>1, <2>2 DEF DLTypes, Counted, OpenedBy, Owned
  <2>4. \A r \in Rooms : (HasEntry(r)' <=> HasEntry(r)) /\ (HasDuel(r)' <=> HasDuel(r))
    BY <2>1 DEF HasEntry, HasDuel
  <2>5. Apart' /\ Given' /\ NoOtherDuel'
    BY <2>1, <2>2, <2>4 DEF Apart, Given, NoOtherDuel
  <2>6. RecordsKept'
    BY <2>1, <2>2 DEF RecordsKept
  <2> QED BY <2>3, <2>5, <2>6 DEF DLInv
<1>2. CASE ~ (loadPerCall \/ ~ Loads(c))
  <2> DEFINE gone == {x \in {core} \ {None} : Users(x) = {}}
  <2>1. PICK w \in Wrappers : wrappers[w] = None /\ core' = w /\ Replace(gone, {w}, c)
    BY <1>2
  <2>2. UNCHANGED <<loadPerCall, duels, room>> /\ coreLoc' \in Cores /\ core' = w
    BY <2>1
  <2>3. gone = {} \/ \E x \in Wrappers : gone = {x} /\ wrappers[x] # None
    BY DEF DLInv, DLTypes, Owned
  <2>4. \A q \in Rooms : room[q].core \notin gone
    BY DEF Users
  <2>5. DLTypes /\ Counted
    BY DEF DLInv
  <2> HIDE DEF gone
  <2>6. /\ wrappers' \in [Wrappers -> Object \cup {None}]
        /\ opened' \in [Cores -> Nat] /\ Counted'
        /\ \A x \in Wrappers \ (gone \cup {w}) : wrappers'[x] = wrappers[x]
        /\ \A x \in gone : wrappers'[x] = None
        /\ \A x \in {w} : wrappers'[x] =
             [file |-> c, ssdList |-> {}, ssdMap |-> <<>>, ssdMutex |-> None]
    BY <2>1, <2>3, <2>5, Replaced
  <2>7. DLTypes'
    BY <2>2, <2>5, <2>6 DEF DLTypes
  <2>8. \A q \in Rooms :
          /\ room'[q] = room[q]
          /\ room'[q].core # None => wrappers[room'[q].core] # None /\ room'[q].core \notin gone
          /\ room'[q].at # "between" => room'[q].core # None
    BY <2>2, <2>4 DEF DLInv, Owned
  <2>9. \A x \in {w} : wrappers[x] = None /\ \E d \in Cores : wrappers'[x] =
             [file |-> d, ssdList |-> {}, ssdMap |-> <<>>, ssdMutex |-> None]
    BY <2>1, <2>6
  <2>10. Owned' /\ Apart' /\ Given' /\ NoOtherDuel' /\ RecordsKept'
    <3>1. room' \in [Rooms -> Duelling] /\ core' \in Wrappers \cup {None}
      BY <2>7 DEF DLTypes
    <3>2. /\ duels' = duels /\ {w} \in SUBSET Wrappers
          /\ core' # None => core' \in {w} \/ (wrappers[core'] # None /\ core' \notin gone)
      BY <2>2
    <3>3. \A q \in Rooms :
            /\ room'[q] = room[q] \/ (~ HasEntry(q) /\ ~ HasEntry(q)')
            /\ room'[q].core # None =>
                 \/ room'[q].core \in {w}
                 \/ wrappers[room'[q].core] # None /\ room'[q].core \notin gone
            /\ room'[q].at # "between" => room'[q].core # None
      BY <2>8
    <3>4. \A x \in Wrappers \ (gone \cup {w}) : wrappers'[x] = wrappers[x]
      BY <2>6
    <3>5. \A x \in gone : wrappers'[x] = None
      BY <2>6
    <3> QED BY <2>9, <3>1, <3>2, <3>3, <3>4, <3>5, OwnersKept, Zenon
  <2> QED BY <2>6, <2>7, <2>10 DEF DLInv
<1> QED BY <1>1, <1>2

LEMMA GetCoreInv == ASSUME DLInv, NEW r \in Rooms, GetCore(r) PROVE DLInv'
<1> USE NoneIsNothing
<1>1. PICK w \in Wrappers :
        /\ IF loadPerCall
           THEN /\ coreLoc # None /\ Loads(coreLoc) /\ wrappers[w] = None
                /\ Replace({}, {w}, coreLoc)
           ELSE core = w /\ UNCHANGED <<wrappers, opened>>
        /\ room' = [room EXCEPT ![r] = [NoDuel EXCEPT !.at = "ready", !.core = w]]
  BY DEF GetCore
<1>2. DLTypes /\ Counted /\ Owned
  BY DEF DLInv
<1>3. UNCHANGED <<loadPerCall, coreLoc, core, duels>> /\ room[r].at = "between"
  BY DEF GetCore
<1>4. /\ room'[r] = [at |-> "ready", core |-> w, duel |-> None, entry |-> 0]
      /\ \A q \in Rooms : q # r => room'[q] = room[q]
  BY <1>1, <1>2 DEF DLTypes, NoDuel
<1>5. room' \in [Rooms -> Duelling]
  BY <1>1, <1>2 DEF DLTypes, NoDuel, Stages, Duelling
<1> DEFINE new == IF loadPerCall THEN {w} ELSE {}
           gone == {}
<1>6. /\ wrappers' \in [Wrappers -> Object \cup {None}]
      /\ opened' \in [Cores -> Nat] /\ Counted'
      /\ \A x \in Wrappers \ (gone \cup new) : wrappers'[x] = wrappers[x]
      /\ \A x \in new : wrappers[x] = None /\ \E c \in Cores : wrappers'[x] =
           [file |-> c, ssdList |-> {}, ssdMap |-> <<>>, ssdMutex |-> None]
  <2>1. CASE loadPerCall
    <3>1. coreLoc \in Cores /\ wrappers[w] = None /\ Replace({}, {w}, coreLoc) /\ new = {w}
      BY <1>1, <1>2, <2>1 DEF DLTypes
    <3> HIDE DEF new
    <3>2. /\ wrappers' \in [Wrappers -> Object \cup {None}]
          /\ opened' \in [Cores -> Nat] /\ Counted'
          /\ \A x \in Wrappers \ ({} \cup {w}) : wrappers'[x] = wrappers[x]
          /\ \A x \in {w} : wrappers'[x] =
               [file |-> coreLoc, ssdList |-> {}, ssdMap |-> <<>>, ssdMutex |-> None]
      BY <1>2, <3>1, Replaced
    <3> QED BY <3>1, <3>2
  <2>2. CASE ~ loadPerCall
    BY <1>1, <1>2, <2>2 DEF DLTypes, Counted, OpenedBy
  <2> QED BY <2>1, <2>2
<1>7. w \in new \/ (w \notin new /\ wrappers[w] # None)
  BY <1>1, <1>2 DEF Owned
<1>13. w \notin gone
  OBVIOUS
<1>8. core' # None => core' \in new \/ (wrappers[core'] # None /\ core' \notin gone)
  BY <1>2, <1>3 DEF Owned
<1> HIDE DEF new, gone
<1>9. \A q \in Rooms :
        /\ room'[q] = room[q] \/ (~ HasEntry(q) /\ ~ HasEntry(q)')
        /\ room'[q].core # None =>
             \/ room'[q].core \in new
             \/ wrappers[room'[q].core] # None /\ room'[q].core \notin gone
        /\ room'[q].at # "between" => room'[q].core # None
  BY <1>2, <1>3, <1>4, <1>7, <1>13 DEF Owned, HasEntry, gone
<1>10. new \in SUBSET Wrappers
  BY DEF new
<1>11. DLTypes'
  BY <1>2, <1>3, <1>5, <1>6 DEF DLTypes, Duelling
<1>12. Owned' /\ Apart' /\ Given' /\ NoOtherDuel' /\ RecordsKept'
  <2>1. duels' = duels /\ core' \in Wrappers \cup {None}
    BY <1>2, <1>3 DEF DLTypes
  <2>2. \A x \in gone : wrappers'[x] = None
    BY DEF gone
  <2> QED BY <1>5, <1>6, <1>8, <1>9, <1>10, <2>1, <2>2, OwnersKept, Zenon
<1> QED BY <1>6, <1>11, <1>12 DEF DLInv

LEMMA LeaveDuelingInv == ASSUME DLInv, NEW r \in Rooms, LeaveDueling(r) PROVE DLInv'
<1> USE NoneIsNothing
<1> DEFINE w == room[r].core
           gone == IF core # w /\ Users(w) = {r} THEN {w} ELSE {}
<1>1. DLTypes /\ Counted /\ Owned
  BY DEF DLInv
<1>2. /\ UNCHANGED <<loadPerCall, coreLoc, core, duels>> /\ room[r].at = "over"
      /\ Replace(gone, {}, None) /\ room' = [room EXCEPT ![r] = NoDuel]
  BY DEF LeaveDueling
<1>3. w \in Wrappers /\ wrappers[w] # None
  BY <1>1, <1>2 DEF DLTypes, Owned, Duelling
<1>4. gone = {} \/ \E x \in Wrappers : gone = {x} /\ wrappers[x] # None
  BY <1>3
<1>5. core \notin gone /\ \A q \in Rooms : q # r => room[q].core \notin gone
  BY DEF Users
<1> HIDE DEF gone, w
<1>6. /\ wrappers' \in [Wrappers -> Object \cup {None}]
      /\ opened' \in [Cores -> Nat] /\ Counted'
      /\ \A x \in Wrappers \ (gone \cup {}) : wrappers'[x] = wrappers[x]
      /\ \A x \in gone : wrappers'[x] = None
  BY <1>1, <1>2, <1>4, Replaced
<1>7. room' \in [Rooms -> Duelling]
  BY <1>1, <1>2 DEF DLTypes, NoDuel, Stages, Duelling
<1>8. room'[r] = NoDuel /\ \A q \in Rooms : q # r => room'[q] = room[q]
  BY <1>1, <1>2 DEF DLTypes
<1>9. \A q \in Rooms :
        /\ room'[q] = room[q] \/ (~ HasEntry(q) /\ ~ HasEntry(q)')
        /\ room'[q].core # None =>
             \/ room'[q].core \in {}
             \/ wrappers[room'[q].core] # None /\ room'[q].core \notin gone
        /\ room'[q].at # "between" => room'[q].core # None
  BY <1>1, <1>2, <1>5, <1>8 DEF Owned, HasEntry, NoDuel
<1>10. core' # None => core' \in {} \/ (wrappers[core'] # None /\ core' \notin gone)
  BY <1>1, <1>2, <1>5 DEF Owned
<1>11. DLTypes'
  BY <1>1, <1>2, <1>6, <1>7 DEF DLTypes, Duelling
<1>12. Owned' /\ Apart' /\ Given' /\ NoOtherDuel' /\ RecordsKept'
  <2>1. duels' = duels /\ core' \in Wrappers \cup {None} /\ {} \in SUBSET Wrappers
    BY <1>1, <1>2 DEF DLTypes
  <2>2. \A x \in {} : wrappers[x] = None /\ \E c \in Cores : wrappers'[x] =
             [file |-> c, ssdList |-> {}, ssdMap |-> <<>>, ssdMutex |-> None]
    OBVIOUS
  <2> QED BY <1>6, <1>7, <1>9, <1>10, <2>1, <2>2, OwnersKept, Zenon
<1> QED BY <1>6, <1>11, <1>12 DEF DLInv

\* A step of one room in its wrapper: every wrapper stays, with its library.
LEMMA FilesKept ==
    ASSUME Counted, opened' = opened,
           \A w \in Wrappers : /\ wrappers'[w] = None <=> wrappers[w] = None
                               /\ wrappers[w] # None => wrappers'[w].file = wrappers[w].file
    PROVE  Counted'
<1>1. \A c \in Cores : OpenedBy(c)' = OpenedBy(c)
  BY DEF OpenedBy
<1> QED BY <1>1 DEF Counted

LEMMA ListChanged ==
    ASSUME wrappers \in [Wrappers -> Object \cup {None}], NEW w \in Wrappers,
           wrappers[w] # None, NEW m \in Rooms \cup {None}, NEW list \in SUBSET Entries,
           wrappers' = [wrappers EXCEPT ![w].ssdMutex = m, ![w].ssdList = list]
    PROVE  /\ wrappers' \in [Wrappers -> Object \cup {None}] /\ wrappers'[w] # None
           /\ wrappers'[w].file = wrappers[w].file /\ wrappers'[w].ssdMap = wrappers[w].ssdMap
           /\ wrappers'[w].ssdList = list
           /\ \A x \in Wrappers \ {w} : wrappers'[x] = wrappers[x]
<1> DEFINE new == [wrappers[w] EXCEPT !.ssdMutex = m, !.ssdList = list]
<1>1. wrappers[w] \in Object
  OBVIOUS
<1>2. /\ new \in Object /\ new.file = wrappers[w].file
      /\ new.ssdMap = wrappers[w].ssdMap /\ new.ssdList = list
  BY <1>1 DEF Object
<1>3. wrappers'[w] = new /\ \A x \in Wrappers \ {w} : wrappers'[x] = wrappers[x]
  OBVIOUS
<1>4. DOMAIN wrappers' = Wrappers /\ wrappers' = [x \in Wrappers |-> wrappers'[x]]
  OBVIOUS
<1> HIDE DEF new
<1>5. wrappers' \in [Wrappers -> Object \cup {None}]
  BY <1>2, <1>3, <1>4
<1> QED BY <1>2, <1>3, <1>5, NoneIsNothing

LEMMA MapChanged ==
    ASSUME wrappers \in [Wrappers -> Object \cup {None}], NEW w \in Wrappers,
           wrappers[w] # None, NEW m \in Rooms \cup {None},
           NEW as \in SUBSET Addresses, NEW map \in [as -> Entries],
           wrappers' = [wrappers EXCEPT ![w].ssdMutex = m, ![w].ssdMap = map]
    PROVE  /\ wrappers' \in [Wrappers -> Object \cup {None}] /\ wrappers'[w] # None
           /\ wrappers'[w].file = wrappers[w].file /\ wrappers'[w].ssdList = wrappers[w].ssdList
           /\ wrappers'[w].ssdMap = map
           /\ \A x \in Wrappers \ {w} : wrappers'[x] = wrappers[x]
<1> DEFINE new == [wrappers[w] EXCEPT !.ssdMutex = m, !.ssdMap = map]
<1>1. wrappers[w] \in Object
  OBVIOUS
<1>2. map \in UNION {[xs -> Entries] : xs \in SUBSET Addresses}
  OBVIOUS
<1>3. /\ new \in Object /\ new.file = wrappers[w].file
      /\ new.ssdList = wrappers[w].ssdList /\ new.ssdMap = map
  BY <1>1, <1>2 DEF Object
<1>4. wrappers'[w] = new /\ \A x \in Wrappers \ {w} : wrappers'[x] = wrappers[x]
  OBVIOUS
<1>5. DOMAIN wrappers' = Wrappers /\ wrappers' = [x \in Wrappers |-> wrappers'[x]]
  OBVIOUS
<1> HIDE DEF new
<1>6. wrappers' \in [Wrappers -> Object \cup {None}]
  BY <1>3, <1>4, <1>5
<1> QED BY <1>3, <1>4, <1>6, NoneIsNothing

\* There is room for one more entry.
LEMMA FreeEntry ==
    ASSUME NEW list \in SUBSET Entries, Cardinality(list) < MaxSsd
    PROVE  \E i \in Entries : i \notin list
<1>1. CASE list = Entries
  <2>1. Cardinality(1..MaxSsd + 1) = MaxSsd + 1
    BY WrapperAssumption, FS_Interval
  <2> QED BY <1>1, <2>1, WrapperAssumption DEF Entries
<1> QED BY <1>1

\* What a room in a duel has.
LEMMA RoomFacts ==
    ASSUME DLInv, NEW r \in Rooms, room[r].at # "between"
    PROVE  /\ room[r].core \in Wrappers /\ wrappers[room[r].core] # None
           /\ wrappers[room[r].core] \in Object
BY NoneIsNothing DEF DLInv, DLTypes, Owned, Duelling

\* The records of a step that begins and ends no duel.
LEMMA RecordsSame ==
    ASSUME RecordsKept,
           \A w \in Wrappers : /\ wrappers'[w] # None <=> wrappers[w] # None
                               /\ wrappers[w] # None => wrappers'[w].ssdMap = wrappers[w].ssdMap,
           \A q \in Rooms : /\ room'[q].at = "dueling" <=> room[q].at = "dueling"
                            /\ room[q].at = "dueling" =>
                                 room'[q] = room[q] /\ duels'[room[q].duel] = duels[room[q].duel]
    PROVE  RecordsKept'
<1> SUFFICES ASSUME NEW w \in Wrappers, wrappers'[w] # None
             PROVE  /\ DOMAIN wrappers'[w].ssdMap = {room'[r].duel :
                         r \in {q \in Rooms : room'[q].core = w /\ room'[q].at = "dueling"}}
                    /\ \A a \in DOMAIN wrappers'[w].ssdMap :
                          /\ duels'[a] # None /\ duels'[a].wrapper = w
                          /\ duels'[a].entry = wrappers'[w].ssdMap[a]
  BY DEF RecordsKept
<1> DEFINE mine == {q \in Rooms : room[q].core = w /\ room[q].at = "dueling"}
<1>1. wrappers[w] # None /\ wrappers'[w].ssdMap = wrappers[w].ssdMap
  OBVIOUS
<1>2. {q \in Rooms : room'[q].core = w /\ room'[q].at = "dueling"} = mine
  OBVIOUS
<1>3. {room'[r].duel : r \in mine} = {room[r].duel : r \in mine}
  OBVIOUS
<1>4. /\ DOMAIN wrappers[w].ssdMap = {room[r].duel : r \in mine}
      /\ \A a \in DOMAIN wrappers[w].ssdMap :
            duels[a] # None /\ duels[a].wrapper = w /\ duels[a].entry = wrappers[w].ssdMap[a]
  BY <1>1, Zenon DEF RecordsKept
<1>5. \A a \in DOMAIN wrappers[w].ssdMap : duels'[a] = duels[a]
  BY <1>4
<1> HIDE DEF mine
<1>6. \A a \in DOMAIN wrappers'[w].ssdMap :
        duels'[a] # None /\ duels'[a].wrapper = w /\ duels'[a].entry = wrappers'[w].ssdMap[a]
  BY <1>1, <1>4, <1>5, Zenon
<1> QED BY <1>1, <1>2, <1>3, <1>4, <1>6, Zenon

\* One room goes on with its duel, and takes nothing from the others.
LEMMA RoomGoesOn ==
    ASSUME DLInv, UNCHANGED <<loadPerCall, coreLoc, core, opened>>,
           NEW r \in Rooms, room[r].at # "between", NEW w, w = room[r].core,
           wrappers' \in [Wrappers -> Object \cup {None}],
           duels' \in [Addresses -> CoreDuel \cup {None}],
           room' \in [Rooms -> Duelling],
           \A q \in Rooms : q # r => room'[q] = room[q],
           room'[r].core = w, room'[r].at # "between",
           \A x \in Wrappers \ {w} : wrappers'[x] = wrappers[x],
           wrappers'[w] # None /\ wrappers'[w].file = wrappers[w].file,
           HasEntry(r)' => room'[r].entry \in wrappers'[w].ssdList,
           \A q \in Rooms : q # r /\ HasEntry(q) /\ room[q].core = w =>
                /\ room[q].entry \in wrappers'[w].ssdList
                /\ HasEntry(r)' => room[q].entry # room'[r].entry,
           HasDuel(r)' => /\ room'[r].duel \in Addresses
                          /\ duels'[room'[r].duel] =
                               [file |-> wrappers[w].file, wrapper |-> w, entry |-> room'[r].entry],
           \A q \in Rooms : q # r /\ HasDuel(q) =>
                /\ duels'[room[q].duel] = duels[room[q].duel]
                /\ HasDuel(r)' => room[q].duel # room'[r].duel,
           \A a \in Addresses : duels'[a] # None =>
                (duels[a] # None /\ ~ (HasDuel(r) /\ room[r].duel = a))
                  \/ (HasDuel(r)' /\ room'[r].duel = a)
    PROVE  DLTypes' /\ Counted' /\ Owned' /\ Apart' /\ Given' /\ NoOtherDuel'
<1>1. w \in Wrappers /\ wrappers[w] # None /\ DLTypes
  BY RoomFacts DEF DLInv
<1>2. DLTypes'
  BY <1>1 DEF DLTypes
<1>3. Counted'
  BY <1>1, FilesKept DEF DLInv
<1>4. Owned'
  BY <1>1, NoneIsNothing DEF DLInv, Owned, DLTypes, Duelling
<1>5. \A q \in Rooms : q # r => /\ HasDuel(q)' <=> HasDuel(q)
                                /\ HasEntry(q)' <=> HasEntry(q)
  BY DEF HasDuel, HasEntry
<1>6. \A q \in Rooms : HasDuel(q) => HasEntry(q)
  BY DEF HasDuel, HasEntry
<1>7. Apart'
  <2> SUFFICES ASSUME NEW p \in Rooms, NEW q \in Rooms, p # q
               PROVE /\ HasEntry(p)' /\ HasEntry(q)' /\ room'[p].core = room'[q].core =>
                            room'[p].entry # room'[q].entry
                     /\ HasDuel(p)' /\ HasDuel(q)' => room'[p].duel # room'[q].duel
    BY DEF Apart
  <2>1. CASE p = r BY <1>5, <2>1
  <2>2. CASE q = r BY <1>5, <2>2
  <2>3. CASE p # r /\ q # r
    BY <1>5, <2>3 DEF Apart, DLInv
  <2> QED BY <2>1, <2>2, <2>3
<1>8. Given'
  <2> SUFFICES ASSUME NEW q \in Rooms
               PROVE /\ HasEntry(q)' => room'[q].entry \in wrappers'[room'[q].core].ssdList
                     /\ HasDuel(q)' => /\ room'[q].duel \in Addresses
                                       /\ duels'[room'[q].duel] =
                                            [file |-> wrappers'[room'[q].core].file,
                                             wrapper |-> room'[q].core, entry |-> room'[q].entry]
    BY DEF Given
  <2>1. CASE q = r
    BY <2>1
  <2>2. CASE q # r /\ HasEntry(q)
    <3>1. room[q].core \in Wrappers /\ wrappers[room[q].core] # None
      BY <2>2, RoomFacts DEF HasEntry
    <3>2. wrappers'[room[q].core].file = wrappers[room[q].core].file
      BY <3>1
    <3>3. room[q].entry \in wrappers'[room[q].core].ssdList
      BY <2>2, <3>1 DEF DLInv, Given
    <3>4. HasDuel(q) => /\ room[q].duel \in Addresses
                       /\ duels[room[q].duel] = [file |-> wrappers[room[q].core].file,
                                                 wrapper |-> room[q].core,
                                                 entry |-> room[q].entry]
      BY DEF DLInv, Given
    <3> QED BY <1>5, <2>2, <3>2, <3>3, <3>4
  <2>3. CASE q # r /\ ~ HasEntry(q)
    BY <1>5, <1>6, <2>3
  <2> QED BY <2>1, <2>2, <2>3
<1>9. NoOtherDuel'
  <2> SUFFICES ASSUME NEW a \in Addresses, duels'[a] # None
               PROVE \E q \in Rooms : HasDuel(q)' /\ room'[q].duel = a
    BY DEF NoOtherDuel
  <2>1. CASE HasDuel(r)' /\ room'[r].duel = a
    BY <2>1
  <2>2. CASE duels[a] # None /\ ~ (HasDuel(r) /\ room[r].duel = a)
    BY <1>5, <2>2 DEF DLInv, NoOtherDuel
  <2> QED BY <2>1, <2>2
<1> QED BY <1>2, <1>3, <1>4, <1>7, <1>8, <1>9

LEMMA InsertEntryInv == ASSUME DLInv, NEW r \in Rooms, InsertEntry(r) PROVE DLInv'
<1> USE NoneIsNothing, EntriesTyped
<1> DEFINE w == room[r].core
           n == CHOOSE i \in Entries : i \notin wrappers[w].ssdList
<1>1. /\ room[r].at = "ready" /\ Cardinality(wrappers[w].ssdList) < MaxSsd
      /\ wrappers' = [wrappers EXCEPT ![w].ssdMutex = r, ![w].ssdList = @ \cup {n}]
      /\ room' = [room EXCEPT ![r].at = "inserted", ![r].entry = n]
      /\ UNCHANGED <<loadPerCall, coreLoc, core, opened, duels>>
  BY DEF InsertEntry
<1>2. w \in Wrappers /\ wrappers[w] # None /\ wrappers[w].ssdList \in SUBSET Entries
  BY <1>1, RoomFacts DEF Object
<1>3. n \in Entries /\ n \notin wrappers[w].ssdList
  BY <1>1, <1>2, FreeEntry
<1> HIDE DEF n
<1>4. DLTypes
  BY DEF DLInv
<1>5. /\ wrappers' \in [Wrappers -> Object \cup {None}] /\ wrappers'[w] # None
      /\ wrappers'[w].file = wrappers[w].file /\ wrappers'[w].ssdMap = wrappers[w].ssdMap
      /\ wrappers'[w].ssdList = wrappers[w].ssdList \cup {n}
      /\ \A x \in Wrappers \ {w} : wrappers'[x] = wrappers[x]
  <2> DEFINE list == wrappers[w].ssdList \cup {n}
  <2>1. list \in SUBSET Entries
    BY <1>2, <1>3
  <2>2. wrappers' = [wrappers EXCEPT ![w].ssdMutex = r, ![w].ssdList = list]
    BY <1>1
  <2> HIDE DEF list, w
  <2>3. /\ wrappers' \in [Wrappers -> Object \cup {None}] /\ wrappers'[w] # None
        /\ wrappers'[w].file = wrappers[w].file /\ wrappers'[w].ssdMap = wrappers[w].ssdMap
        /\ wrappers'[w].ssdList = list
        /\ \A x \in Wrappers \ {w} : wrappers'[x] = wrappers[x]
    BY <1>2, <1>4, <2>1, <2>2, ListChanged DEF DLTypes
  <2> QED BY <2>3 DEF list
<1>6. /\ room' \in [Rooms -> Duelling] /\ room'[r].core = w /\ room'[r].duel = room[r].duel
      /\ room'[r].at = "inserted" /\ room'[r].entry = n
      /\ \A q \in Rooms : q # r => room'[q] = room[q]
  BY <1>1, <1>3, <1>4 DEF DLTypes, Duelling, Stages
<1> HIDE DEF w
<1>7. duels' \in [Addresses -> CoreDuel \cup {None}]
  BY <1>1, <1>4 DEF DLTypes
<1>8. ~ HasDuel(r) /\ ~ HasDuel(r)'
  BY <1>1, <1>6 DEF HasDuel
<1>9. \A q \in Rooms : HasEntry(q) /\ room[q].core = w =>
        /\ room[q].entry \in wrappers[w].ssdList /\ room[q].entry # n
  BY <1>3 DEF DLInv, Given
<1>10. DLTypes' /\ Counted' /\ Owned' /\ Apart' /\ Given' /\ NoOtherDuel'
  <2>1. room[r].at # "between" /\ room'[r].at # "between" /\ w = room[r].core
    BY <1>1, <1>6 DEF w
  <2>2. UNCHANGED <<loadPerCall, coreLoc, core, opened>> /\ duels' = duels
    BY <1>1
  <2>3. \A a \in Addresses : duels'[a] # None =>
          (duels[a] # None /\ ~ (HasDuel(r) /\ room[r].duel = a))
            \/ (HasDuel(r)' /\ room'[r].duel = a)
    BY <1>8, <2>2
  <2>4. room'[r].entry \in wrappers'[w].ssdList
    BY <1>5, <1>6
  <2>5. \A q \in Rooms : q # r /\ HasEntry(q) /\ room[q].core = w =>
          /\ room[q].entry \in wrappers'[w].ssdList
          /\ HasEntry(r)' => room[q].entry # room'[r].entry
    BY <1>5, <1>6, <1>9
  <2>6. \A q \in Rooms : q # r /\ HasDuel(q) =>
          /\ duels'[room[q].duel] = duels[room[q].duel]
          /\ HasDuel(r)' => room[q].duel # room'[r].duel
    BY <1>8, <2>2
  <2> QED BY <1>5, <1>6, <1>7, <1>8, <2>1, <2>2, <2>3, <2>4, <2>5, <2>6, RoomGoesOn, Zenon
<1>11. \A x \in Wrappers : /\ wrappers'[x] # None <=> wrappers[x] # None
                           /\ wrappers[x] # None => wrappers'[x].ssdMap = wrappers[x].ssdMap
  BY <1>2, <1>5
<1>12. \A q \in Rooms : /\ room'[q].at = "dueling" <=> room[q].at = "dueling"
                        /\ room[q].at = "dueling" =>
                             room'[q] = room[q] /\ duels'[room[q].duel] = duels[room[q].duel]
  BY <1>1, <1>6
<1>13. RecordsKept'
  BY <1>11, <1>12, RecordsSame DEF DLInv
<1> QED BY <1>10, <1>13 DEF DLInv

\* The duel of a room is one of the core's.
LEMMA DuelsThere ==
    ASSUME DLInv, NEW q \in Rooms, HasDuel(q)
    PROVE  /\ room[q].duel \in Addresses /\ duels[room[q].duel] # None
           /\ duels[room[q].duel].wrapper = room[q].core
           /\ duels[room[q].duel].entry = room[q].entry
           /\ room[q].core \in Wrappers /\ room[q].entry \in Entries
<1>1. /\ wrappers[room[q].core] \in Object /\ room[q].core \in Wrappers
      /\ room[q].entry \in wrappers[room[q].core].ssdList
  BY RoomFacts DEF HasDuel, HasEntry, DLInv, Given
<1>2. room[q].duel \in Addresses /\
      duels[room[q].duel] = [file |-> wrappers[room[q].core].file, wrapper |-> room[q].core,
                             entry |-> room[q].entry]
  BY DEF DLInv, Given
<1>3. wrappers[room[q].core].file \in Cores /\ room[q].entry \in Entries
  BY <1>1 DEF Object
<1>4. duels[room[q].duel] \in CoreDuel
  BY <1>1, <1>2, <1>3 DEF CoreDuel
<1> QED BY <1>1, <1>2, <1>3, <1>4, NoneIsNothing

LEMMA CoreCreatesInv == ASSUME DLInv, NEW r \in Rooms, CoreCreates(r) PROVE DLInv'
<1> USE NoneIsNothing
<1> DEFINE w == room[r].core
<1>1. PICK a \in Addresses :
        /\ duels[a] = None
        /\ duels' = [duels EXCEPT ![a] = [file |-> wrappers[w].file, wrapper |-> w,
                                          entry |-> room[r].entry]]
        /\ room' = [room EXCEPT ![r].at = "created", ![r].duel = a]
  BY DEF CoreCreates
<1>2. /\ UNCHANGED <<loadPerCall, coreLoc, core, opened, wrappers>>
      /\ room[r].at = "inserted" /\ HasEntry(r) /\ ~ HasDuel(r)
  BY DEF CoreCreates, HasEntry, HasDuel
<1>3. w \in Wrappers /\ wrappers[w] # None /\ wrappers[w].file \in Cores
  BY <1>2, RoomFacts DEF Object
<1>4. DLTypes
  BY DEF DLInv
<1>5. /\ room' \in [Rooms -> Duelling] /\ room'[r].core = w /\ room'[r].duel = a
      /\ room'[r].at = "created" /\ room'[r].entry = room[r].entry
      /\ \A q \in Rooms : q # r => room'[q] = room[q]
  <2>1. room \in [Rooms -> Duelling]
    BY <1>4 DEF DLTypes
  <2>2. room' = [room EXCEPT ![r].at = "created", ![r].duel = a]
    BY <1>1
  <2> QED BY ONLY r \in Rooms, a \in Addresses, <2>1, <2>2 DEF Duelling, Stages
<1>6. room[r].entry \in wrappers[w].ssdList /\ room[r].entry \in Entries
  <2>1. wrappers[w].ssdList \in SUBSET Entries
    BY <1>2, RoomFacts DEF Object
  <2> QED BY <1>2, <2>1 DEF DLInv, Given
<1>7. duels' \in [Addresses -> CoreDuel \cup {None}]
  BY <1>1, <1>3, <1>4, <1>6 DEF DLTypes, CoreDuel
<1>8. \A q \in Rooms : q # r /\ HasEntry(q) /\ room[q].core = w =>
        room[q].entry \in wrappers[w].ssdList /\ room[q].entry # room[r].entry
  BY <1>2 DEF DLInv, Given, Apart
<1>9. \A q \in Rooms : HasDuel(q) => room[q].duel \in Addresses /\ duels[room[q].duel] # None
  BY DuelsThere
<1>10. \A q \in Rooms : q # r /\ HasDuel(q) =>
         duels'[room[q].duel] = duels[room[q].duel] /\ room[q].duel # a
  BY <1>1, <1>4, <1>9 DEF DLTypes
<1>11. /\ duels'[a] = [file |-> wrappers[w].file, wrapper |-> w, entry |-> room'[r].entry]
       /\ \A b \in Addresses : b # a => duels'[b] = duels[b]
  BY <1>1, <1>4, <1>5 DEF DLTypes
<1>12. HasDuel(r)'
  BY <1>5 DEF HasDuel
<1>13. DLTypes' /\ Counted' /\ Owned' /\ Apart' /\ Given' /\ NoOtherDuel'
  <2>1. room[r].at # "between" /\ room'[r].at # "between"
    BY <1>2, <1>5
  <2>2. /\ UNCHANGED <<loadPerCall, coreLoc, core, opened>>
        /\ wrappers' \in [Wrappers -> Object \cup {None}]
        /\ wrappers'[w] # None /\ wrappers'[w].file = wrappers[w].file
        /\ \A x \in Wrappers \ {w} : wrappers'[x] = wrappers[x]
        /\ wrappers'[w].ssdList = wrappers[w].ssdList
    BY <1>2, <1>3, <1>4 DEF DLTypes
  <2>3. w = room[r].core
    OBVIOUS
  <2> HIDE DEF w
  <2> QED BY <1>2, <1>5, <1>6, <1>7, <1>8, <1>10, <1>11, <1>12, <2>1, <2>2, <2>3, RoomGoesOn
<1>14. RecordsKept'
  <2>1. \A q \in Rooms : /\ room'[q].at = "dueling" <=> room[q].at = "dueling"
                         /\ room[q].at = "dueling" =>
                              room'[q] = room[q] /\ duels'[room[q].duel] = duels[room[q].duel]
    BY <1>2, <1>5, <1>10 DEF HasDuel
  <2> QED BY <1>2, <2>1, RecordsSame DEF DLInv
<1> QED BY <1>13, <1>14 DEF DLInv

LEMMA CreationFailsInv == ASSUME DLInv, NEW r \in Rooms, CreationFails(r) PROVE DLInv'
<1> USE NoneIsNothing
<1> DEFINE w == room[r].core
           list == wrappers[w].ssdList \ {room[r].entry}
<1>1. /\ wrappers' = [wrappers EXCEPT ![w].ssdMutex = None, ![w].ssdList = list]
      /\ room' = [room EXCEPT ![r].at = "over", ![r].entry = 0]
      /\ UNCHANGED <<loadPerCall, coreLoc, core, opened, duels>>
  BY DEF CreationFails
<1>2. room[r].at = "inserted" /\ HasEntry(r) /\ ~ HasDuel(r)
  BY DEF CreationFails, HasEntry, HasDuel
<1>3. w \in Wrappers /\ wrappers[w] # None /\ list \in SUBSET Entries
  BY <1>2, RoomFacts DEF Object
<1>4. DLTypes
  BY DEF DLInv
<1>5. \A q \in Rooms : q # r /\ HasEntry(q) /\ room[q].core = w => room[q].entry \in list
  BY <1>2 DEF DLInv, Given, Apart
<1>6. w = room[r].core
  OBVIOUS
<1> HIDE DEF w, list
<1>7. /\ wrappers' \in [Wrappers -> Object \cup {None}] /\ wrappers'[w] # None
      /\ wrappers'[w].file = wrappers[w].file /\ wrappers'[w].ssdMap = wrappers[w].ssdMap
      /\ wrappers'[w].ssdList = list
      /\ \A x \in Wrappers \ {w} : wrappers'[x] = wrappers[x]
  BY <1>1, <1>3, <1>4, ListChanged DEF DLTypes
<1>8. /\ room' \in [Rooms -> Duelling] /\ room'[r].core = w /\ room'[r].at = "over"
      /\ \A q \in Rooms : q # r => room'[q] = room[q]
  <2>1. room \in [Rooms -> Duelling]
    BY <1>4 DEF DLTypes
  <2> QED BY ONLY r \in Rooms, <1>1, <1>6, <2>1 DEF Duelling, Stages
<1>9. ~ HasEntry(r)' /\ ~ HasDuel(r)'
  BY <1>8 DEF HasEntry, HasDuel
<1>10. DLTypes' /\ Counted' /\ Owned' /\ Apart' /\ Given' /\ NoOtherDuel'
  <2>1. room[r].at # "between" /\ room'[r].at # "between"
    BY <1>2, <1>8
  <2>2. /\ UNCHANGED <<loadPerCall, coreLoc, core, opened>> /\ duels' = duels
        /\ duels' \in [Addresses -> CoreDuel \cup {None}]
    BY <1>1, <1>4 DEF DLTypes
  <2> QED BY <1>2, <1>5, <1>6, <1>7, <1>8, <1>9, <2>1, <2>2, RoomGoesOn
<1>11. RecordsKept'
  <2>1. \A x \in Wrappers : /\ wrappers'[x] # None <=> wrappers[x] # None
                            /\ wrappers[x] # None => wrappers'[x].ssdMap = wrappers[x].ssdMap
    BY <1>3, <1>7
  <2>2. \A q \in Rooms : /\ room'[q].at = "dueling" <=> room[q].at = "dueling"
                         /\ room[q].at = "dueling" =>
                              room'[q] = room[q] /\ duels'[room[q].duel] = duels[room[q].duel]
    BY <1>1, <1>2, <1>8
  <2> QED BY <2>1, <2>2, RecordsSame DEF DLInv
<1> QED BY <1>10, <1>11 DEF DLInv

LEMMA CoreDestroysInv ==
    ASSUME DLInv, NEW r \in Rooms, CoreDestroys(r, "erased", "over") PROVE DLInv'
<1> USE NoneIsNothing
<1> DEFINE w == room[r].core
           a == room[r].duel
<1>1. /\ duels' = [duels EXCEPT ![a] = None] /\ room' = [room EXCEPT ![r].at = "over"]
      /\ UNCHANGED <<loadPerCall, coreLoc, core, opened, wrappers>>
  BY DEF CoreDestroys
<1>2. room[r].at = "erased" /\ HasEntry(r) /\ HasDuel(r)
  BY DEF CoreDestroys, HasEntry, HasDuel
<1>3. w \in Wrappers /\ wrappers[w] # None /\ a \in Addresses
  BY <1>2, RoomFacts, DuelsThere
<1>4. DLTypes
  BY DEF DLInv
<1>5. \A q \in Rooms : q # r /\ HasDuel(q) => room[q].duel # a
  BY <1>2 DEF DLInv, Apart
<1>6. w = room[r].core /\ a = room[r].duel
  OBVIOUS
<1> HIDE DEF w, a
<1>7. /\ duels' \in [Addresses -> CoreDuel \cup {None}] /\ duels'[a] = None
      /\ \A b \in Addresses : b # a => duels'[b] = duels[b]
  BY <1>1, <1>3, <1>4 DEF DLTypes
<1>8. /\ room' \in [Rooms -> Duelling] /\ room'[r].core = w /\ room'[r].at = "over"
      /\ \A q \in Rooms : q # r => room'[q] = room[q]
  <2>1. room \in [Rooms -> Duelling]
    BY <1>4 DEF DLTypes
  <2> QED BY ONLY r \in Rooms, <1>1, <1>6, <2>1 DEF Duelling, Stages
<1>9. ~ HasEntry(r)' /\ ~ HasDuel(r)'
  BY <1>8 DEF HasEntry, HasDuel
<1>10. \A q \in Rooms : q # r /\ HasDuel(q) => duels'[room[q].duel] = duels[room[q].duel]
  BY <1>5, <1>7, DuelsThere
<1>11. DLTypes' /\ Counted' /\ Owned' /\ Apart' /\ Given' /\ NoOtherDuel'
  <2>1. room[r].at # "between" /\ room'[r].at # "between"
    BY <1>2, <1>8
  <2>2. /\ UNCHANGED <<loadPerCall, coreLoc, core, opened>> /\ wrappers' = wrappers
        /\ wrappers' \in [Wrappers -> Object \cup {None}]
    BY <1>1, <1>4 DEF DLTypes
  <2>3. \A b \in Addresses : duels'[b] # None => b # a /\ duels[b] # None
    BY <1>7
  <2>4. \A q \in Rooms : q # r /\ HasEntry(q) /\ room[q].core = w =>
          room[q].entry \in wrappers[w].ssdList
    BY DEF DLInv, Given
  <2>5. /\ wrappers'[w] # None /\ wrappers'[w].file = wrappers[w].file
        /\ \A x \in Wrappers \ {w} : wrappers'[x] = wrappers[x]
    BY <1>3, <2>2
  <2>6. \A q \in Rooms : q # r /\ HasEntry(q) /\ room[q].core = w =>
            /\ room[q].entry \in wrappers'[w].ssdList
            /\ HasEntry(r)' => room[q].entry # room'[r].entry
    BY <1>9, <2>2, <2>4
  <2>7. \A q \in Rooms : q # r /\ HasDuel(q) =>
            /\ duels'[room[q].duel] = duels[room[q].duel]
            /\ HasDuel(r)' => room[q].duel # room'[r].duel
    BY <1>9, <1>10
  <2>8. \A b \in Addresses : duels'[b] # None =>
            \/ duels[b] # None /\ ~ (HasDuel(r) /\ room[r].duel = b)
            \/ HasDuel(r)' /\ room'[r].duel = b
    BY <1>6, <2>3
  <2> QED BY <1>6, <1>7, <1>8, <1>9, <2>1, <2>2, <2>5, <2>6, <2>7, <2>8, RoomGoesOn
<1>12. RecordsKept'
  <2>1. \A q \in Rooms : /\ room'[q].at = "dueling" <=> room[q].at = "dueling"
                         /\ room[q].at = "dueling" =>
                              room'[q] = room[q] /\ duels'[room[q].duel] = duels[room[q].duel]
    BY <1>2, <1>8, <1>10 DEF HasDuel
  <2> QED BY <1>1, <2>1, RecordsSame DEF DLInv
<1> QED BY <1>11, <1>12 DEF DLInv

\* The duels that a wrapper should have a record of.
RecordsOf(w) ==
    {room[r].duel : r \in {q \in Rooms : room[q].core = w /\ room[q].at = "dueling"}}

\* The steps that write or erase the record of a room's duel.
LEMMA RecordChanged ==
    ASSUME DLInv, NEW r \in Rooms, HasDuel(r), HasDuel(r)', NEW w, w = room[r].core,
           UNCHANGED <<loadPerCall, coreLoc, core, opened, duels>>,
           wrappers' \in [Wrappers -> Object \cup {None}], wrappers'[w] # None,
           wrappers'[w].file = wrappers[w].file, wrappers'[w].ssdList = wrappers[w].ssdList,
           \A x \in Wrappers \ {w} : wrappers'[x] = wrappers[x],
           room' \in [Rooms -> Duelling], room'[r].core = w,
           room'[r].duel = room[r].duel, room'[r].entry = room[r].entry,
           \A q \in Rooms : q # r => room'[q] = room[q],
           DOMAIN wrappers'[w].ssdMap = RecordsOf(w)',
           \A a \in DOMAIN wrappers'[w].ssdMap : wrappers'[w].ssdMap[a] = duels[a].entry
    PROVE  DLInv'
<1> USE NoneIsNothing
<1>1. /\ w \in Wrappers /\ wrappers[w] # None /\ room[r].at # "between" /\ HasEntry(r)
      /\ room[r].entry \in wrappers[w].ssdList
  <2>1. room[r].at # "between" /\ HasEntry(r)
    BY DEF HasDuel, HasEntry
  <2>2. w \in Wrappers /\ wrappers[w] # None
    BY <2>1, RoomFacts
  <2> QED BY <2>1, <2>2 DEF DLInv, Given
<1>2. DLTypes
  BY DEF DLInv
<1>3. /\ room' \in [Rooms -> Duelling] /\ room'[r].core = w /\ room'[r].at # "between"
      /\ room'[r].duel = room[r].duel /\ room'[r].entry = room[r].entry
      /\ \A q \in Rooms : q # r => room'[q] = room[q]
  BY DEF HasDuel
<1>4. HasEntry(r)' /\ HasDuel(r)'
  BY DEF HasEntry, HasDuel
<1>5. \A q \in Rooms : q # r /\ HasEntry(q) /\ room[q].core = w =>
        room[q].entry \in wrappers[w].ssdList /\ room[q].entry # room[r].entry
  <2>1. Given /\ Apart /\ w = room[r].core
    BY DEF DLInv
  <2> QED BY ONLY r \in Rooms, <1>1, <2>1 DEF Given, Apart
<1>6. \A q \in Rooms : q # r /\ HasDuel(q) => room[q].duel # room[r].duel
  BY DEF DLInv, Apart
<1>7. duels' = duels
  OBVIOUS
<1>8. DLTypes' /\ Counted' /\ Owned' /\ Apart' /\ Given' /\ NoOtherDuel'
  <2>1. room'[r].at # "between"
    BY <1>3
  <2>2. duels' \in [Addresses -> CoreDuel \cup {None}]
    BY <1>2, <1>7 DEF DLTypes
  <2>3. /\ room'[r].duel \in Addresses
        /\ duels'[room'[r].duel] =
             [file |-> wrappers[w].file, wrapper |-> w, entry |-> room'[r].entry]
    BY <1>3, <1>7 DEF DLInv, Given
  <2>4. \A a \in Addresses : duels'[a] # None =>
          (duels[a] # None /\ ~ (HasDuel(r) /\ room[r].duel = a))
            \/ (HasDuel(r)' /\ room'[r].duel = a)
    BY <1>3, <1>4, <1>7
  <2>6. \A q \in Rooms : q # r /\ HasEntry(q) /\ room[q].core = w =>
          /\ room[q].entry \in wrappers'[w].ssdList
          /\ HasEntry(r)' => room[q].entry # room'[r].entry
    BY <1>3, <1>5
  <2>7. \A q \in Rooms : q # r /\ HasDuel(q) =>
          /\ duels'[room[q].duel] = duels[room[q].duel]
          /\ HasDuel(r)' => room[q].duel # room'[r].duel
    BY <1>3, <1>6, <1>7
  <2>8. room'[r].entry \in wrappers'[w].ssdList
    BY <1>1, <1>3
  <2>9. /\ UNCHANGED <<loadPerCall, coreLoc, core, opened>> /\ DLInv /\ w = room[r].core
        /\ wrappers' \in [Wrappers -> Object \cup {None}]
        /\ wrappers'[w] # None /\ wrappers'[w].file = wrappers[w].file
        /\ \A x \in Wrappers \ {w} : wrappers'[x] = wrappers[x]
    OBVIOUS
  <2> QED BY ONLY r \in Rooms, <1>1, <1>3, <2>1, <2>2, <2>3, <2>4, <2>6, <2>7, <2>8, <2>9,
                  RoomGoesOn
<1>9. ASSUME NEW x \in Wrappers, wrappers'[x] # None
      PROVE  /\ DOMAIN wrappers'[x].ssdMap = {room'[q].duel :
                  q \in {p \in Rooms : room'[p].core = x /\ room'[p].at = "dueling"}}
             /\ \A a \in DOMAIN wrappers'[x].ssdMap :
                   /\ duels'[a] # None /\ duels'[a].wrapper = x
                   /\ duels'[a].entry = wrappers'[x].ssdMap[a]
  <2>1. CASE x = w
    <3>1. DOMAIN wrappers'[x].ssdMap =
             {room'[q].duel : q \in {p \in Rooms : room'[p].core = x /\ room'[p].at = "dueling"}}
      BY <2>1, Zenon DEF RecordsOf
    <3>2. ASSUME NEW a \in DOMAIN wrappers'[x].ssdMap
          PROVE  duels[a] # None /\ duels[a].wrapper = w
      <4>1. PICK q \in Rooms : /\ room'[q].core = w /\ room'[q].at = "dueling"
                               /\ a = room'[q].duel
        BY <2>1, <3>1
      <4>2. HasDuel(q) /\ room[q].duel = a /\ room[q].core = w
        <5>1. CASE q = r
          BY <1>3, <4>1, <5>1
        <5>2. CASE q # r
          BY <1>3, <4>1, <5>2 DEF HasDuel
        <5> QED BY <5>1, <5>2
      <4> QED BY <4>2, DuelsThere
    <3> QED BY <1>7, <2>1, <3>1, <3>2
  <2>2. CASE x # w
    <3> DEFINE mine == {p \in Rooms : room[p].core = x /\ room[p].at = "dueling"}
    <3>1. wrappers'[x] = wrappers[x] /\ wrappers[x] # None
      BY <1>9, <2>2
    <3>2. {p \in Rooms : room'[p].core = x /\ room'[p].at = "dueling"} = mine
      BY <1>3, <2>2
    <3>3. {room'[q].duel : q \in mine} = {room[q].duel : q \in mine}
      BY <1>3
    <3>4. /\ DOMAIN wrappers[x].ssdMap = {room[q].duel : q \in mine}
          /\ \A a \in DOMAIN wrappers[x].ssdMap :
                /\ duels[a] # None /\ duels[a].wrapper = x
                /\ duels[a].entry = wrappers[x].ssdMap[a]
      BY <3>1, Zenon DEF DLInv, RecordsKept
    <3> HIDE DEF mine
    <3> QED BY <1>7, <3>1, <3>2, <3>3, <3>4, Zenon
  <2> QED BY <2>1, <2>2
<1>10. RecordsKept'
  BY ONLY <1>9 DEF RecordsKept
<1> QED BY <1>8, <1>10 DEF DLInv

LEMMA RecordInv == ASSUME DLInv, NEW r \in Rooms, Record(r) PROVE DLInv'
<1> USE NoneIsNothing
<1>0. PICK w : w = room[r].core
  OBVIOUS
<1> DEFINE old == wrappers[w].ssdMap
           map == Inserted(old, room[r].duel, room[r].entry)
           as == DOMAIN old \cup {room[r].duel}
<1>1. /\ wrappers' = [wrappers EXCEPT ![w].ssdMutex = None, ![w].ssdMap = map]
      /\ room' = [room EXCEPT ![r].at = "dueling"]
      /\ UNCHANGED <<loadPerCall, coreLoc, core, opened, duels>>
      /\ room[r].at = "created"
  BY <1>0 DEF Record
<1>2. HasDuel(r) /\ room[r].at # "dueling"
  BY <1>1 DEF HasDuel
<1>3. /\ w \in Wrappers /\ wrappers[w] # None /\ room[r].entry \in Entries
      /\ room[r].duel \in Addresses /\ duels[room[r].duel].entry = room[r].entry
  BY <1>0, <1>1, <1>2, RoomFacts, DuelsThere
<1>4. /\ \A a : a \in DOMAIN old <=>
            \E q \in Rooms \ {r} : /\ room[q].core = w /\ room[q].at = "dueling"
                                   /\ a = room[q].duel
      /\ \A a \in DOMAIN old : old[a] = duels[a].entry
  <2>1. /\ DOMAIN old =
             {room[q].duel : q \in {p \in Rooms : room[p].core = w /\ room[p].at = "dueling"}}
        /\ \A a \in DOMAIN old : duels[a].entry = old[a]
    BY <1>3, Zenon DEF DLInv, RecordsKept
  <2> QED BY <1>2, <2>1
<1>5. as \in SUBSET Addresses /\ map \in [as -> Entries] /\ \A a \in as : map[a] = duels[a].entry
  <2>1. as \in SUBSET Addresses /\ \A a \in DOMAIN old : duels[a].entry \in Entries
    BY <1>3, <1>4, DuelsThere DEF HasDuel
  <2>2. DOMAIN map = as
    BY DEF Inserted
  <2>3. \A a \in as : map[a] = duels[a].entry
    BY <1>3, <1>4 DEF Inserted
  <2>4. \A a \in as : map[a] \in Entries
    BY <1>3, <2>1, <2>3
  <2>5. map = [a \in as |-> map[a]]
    BY DEF Inserted
  <2> HIDE DEF map, as
  <2> QED BY <2>1, <2>3, <2>4, <2>5
<1>6. \A a : a \in as <=> \/ \E q \in Rooms \ {r} : /\ room[q].core = w
                                                    /\ room[q].at = "dueling"
                                                    /\ a = room[q].duel
                          \/ "dueling" = "dueling" /\ a = room[r].duel
  BY <1>4
<1>7. w = room[r].core /\ wrappers \in [Wrappers -> Object \cup {None}]
  BY <1>0 DEF DLInv, DLTypes
<1> HIDE DEF as, map, old
<1>8. /\ wrappers' \in [Wrappers -> Object \cup {None}] /\ wrappers'[w] # None
      /\ wrappers'[w].file = wrappers[w].file /\ wrappers'[w].ssdList = wrappers[w].ssdList
      /\ wrappers'[w].ssdMap = map
      /\ \A x \in Wrappers \ {w} : wrappers'[x] = wrappers[x]
  BY <1>1, <1>3, <1>5, <1>7, MapChanged
<1>9. DOMAIN map = as
  BY <1>5
<1>10. /\ room' \in [Rooms -> Duelling] /\ room'[r].core = w /\ room'[r].at = "dueling"
       /\ room'[r].duel = room[r].duel /\ room'[r].entry = room[r].entry
       /\ \A q \in Rooms : q # r => room'[q] = room[q]
  <2>1. room \in [Rooms -> Duelling]
    BY DEF DLInv, DLTypes
  <2> QED BY ONLY r \in Rooms, <1>1, <1>7, <2>1 DEF Duelling, Stages
<1>11. HasDuel(r)'
  BY <1>10 DEF HasDuel
<1>12. as = RecordsOf(w)'
  <2>1. RecordsOf(w)' = {room'[q].duel : q \in {p \in Rooms : room'[p].core = w
                                                          /\ room'[p].at = "dueling"}}
    BY Zenon DEF RecordsOf
  <2>2. ASSUME NEW a PROVE a \in as <=> \E q \in Rooms : /\ room'[q].core = w
                                                         /\ room'[q].at = "dueling"
                                                         /\ a = room'[q].duel
    BY <1>1, <1>7, <1>6, <1>10
  <2> QED BY <2>1, <2>2
<1>13. /\ DOMAIN wrappers'[w].ssdMap = RecordsOf(w)'
       /\ \A a \in DOMAIN wrappers'[w].ssdMap : wrappers'[w].ssdMap[a] = duels[a].entry
  BY <1>8, <1>9, <1>5, <1>12
<1>14. UNCHANGED <<loadPerCall, coreLoc, core, opened, duels>> /\ DLInv
  BY <1>1
<1> QED BY ONLY r \in Rooms, <1>2, <1>7, <1>8, <1>10, <1>11, <1>13, <1>14, RecordChanged

LEMMA EraseRecordInv ==
    ASSUME DLInv, NEW r \in Rooms, EraseRecord(r, "dueling", "erased") PROVE DLInv'
<1> USE NoneIsNothing
<1>0. PICK w : w = room[r].core
  OBVIOUS
<1> DEFINE old == wrappers[w].ssdMap
           as == DOMAIN old \ {room[r].duel}
           map == Restrict(old, as)
           m == wrappers[w].ssdMutex
<1>1. /\ wrappers' = [wrappers EXCEPT ![w].ssdMap = map]
      /\ room' = [room EXCEPT ![r].at = "erased"]
      /\ UNCHANGED <<loadPerCall, coreLoc, core, opened, duels>>
      /\ room[r].at = "dueling"
  BY <1>0 DEF EraseRecord
<1>2. HasDuel(r)
  BY <1>1 DEF HasDuel
<1>3. w \in Wrappers /\ wrappers[w] # None /\ wrappers[w] \in Object
  BY <1>0, <1>1, <1>2, RoomFacts
<1>4. /\ \A a : a \in DOMAIN old <=>
            \E q \in Rooms : room[q].core = w /\ room[q].at = "dueling" /\ a = room[q].duel
      /\ \A a \in DOMAIN old : old[a] = duels[a].entry
  <2>1. /\ DOMAIN old =
             {room[q].duel : q \in {p \in Rooms : room[p].core = w /\ room[p].at = "dueling"}}
        /\ \A a \in DOMAIN old : duels[a].entry = old[a]
    BY <1>3, Zenon DEF DLInv, RecordsKept
  <2> QED BY <2>1
<1>5. \A q \in Rooms \ {r} : room[q].at = "dueling" => room[q].duel # room[r].duel
  BY <1>2 DEF DLInv, Apart, HasDuel
<1>6. as \in SUBSET Addresses /\ map \in [as -> Entries] /\ \A a \in as : map[a] = duels[a].entry
  <2>1. as \in SUBSET Addresses /\ \A a \in DOMAIN old : duels[a].entry \in Entries
    BY <1>4, DuelsThere DEF HasDuel
  <2>2. map = [a \in as |-> old[a]]
    BY DEF Restrict
  <2> HIDE DEF map, as
  <2>3. as \subseteq DOMAIN old
    BY DEF as
  <2> QED BY <1>4, <2>1, <2>2, <2>3
<1>7. \A a : a \in as <=> \/ \E q \in Rooms \ {r} : /\ room[q].core = w
                                                    /\ room[q].at = "dueling"
                                                    /\ a = room[q].duel
                          \/ "erased" = "dueling" /\ a = room[r].duel
  BY <1>4, <1>5
<1>8. w = room[r].core /\ wrappers \in [Wrappers -> Object \cup {None}]
  BY <1>0 DEF DLInv, DLTypes
<1>9. m \in Rooms \cup {None}
  BY <1>3 DEF Object
<1> HIDE DEF as, map, old, m
<1>10. wrappers' = [wrappers EXCEPT ![w].ssdMutex = m, ![w].ssdMap = map]
  <2>1. wrappers[w] = [wrappers[w] EXCEPT !.ssdMutex = m]
    BY <1>3 DEF Object, m
  <2> QED BY <1>1, <1>8, <2>1
<1>11. /\ wrappers' \in [Wrappers -> Object \cup {None}] /\ wrappers'[w] # None
       /\ wrappers'[w].file = wrappers[w].file /\ wrappers'[w].ssdList = wrappers[w].ssdList
       /\ wrappers'[w].ssdMap = map
       /\ \A x \in Wrappers \ {w} : wrappers'[x] = wrappers[x]
  BY <1>3, <1>6, <1>8, <1>9, <1>10, MapChanged
<1>12. DOMAIN map = as
  BY <1>6
<1>13. /\ room' \in [Rooms -> Duelling] /\ room'[r].core = w /\ room'[r].at = "erased"
       /\ room'[r].duel = room[r].duel /\ room'[r].entry = room[r].entry
       /\ \A q \in Rooms : q # r => room'[q] = room[q]
  <2>1. room \in [Rooms -> Duelling]
    BY DEF DLInv, DLTypes
  <2> QED BY ONLY r \in Rooms, <1>1, <1>8, <2>1 DEF Duelling, Stages
<1>14. HasDuel(r)'
  BY <1>13 DEF HasDuel
<1>15. as = RecordsOf(w)'
  <2>1. RecordsOf(w)' = {room'[q].duel : q \in {p \in Rooms : room'[p].core = w
                                                          /\ room'[p].at = "dueling"}}
    BY Zenon DEF RecordsOf
  <2>2. ASSUME NEW a PROVE a \in as <=> \E q \in Rooms : /\ room'[q].core = w
                                                         /\ room'[q].at = "dueling"
                                                         /\ a = room'[q].duel
    BY <1>1, <1>8, <1>7, <1>13
  <2> QED BY <2>1, <2>2
<1>16. /\ DOMAIN wrappers'[w].ssdMap = RecordsOf(w)'
       /\ \A a \in DOMAIN wrappers'[w].ssdMap : wrappers'[w].ssdMap[a] = duels[a].entry
  BY <1>11, <1>12, <1>6, <1>15
<1>17. UNCHANGED <<loadPerCall, coreLoc, core, opened, duels>> /\ DLInv
  BY <1>1
<1> QED BY ONLY r \in Rooms, <1>2, <1>8, <1>11, <1>13, <1>14, <1>16, <1>17, RecordChanged

LEMMA DLStep == DLInv /\ [DLNext]_dlVars => DLInv'
<1> SUFFICES ASSUME DLInv, [DLNext]_dlVars PROVE DLInv'
  OBVIOUS
<1>1. ASSUME NEW c \in Cores, OnGitUpdate(c) PROVE DLInv'
  BY <1>1, OnGitUpdateInv
<1>2. ASSUME NEW r \in Rooms, GetCore(r) PROVE DLInv'
  BY <1>2, GetCoreInv
<1>3. ASSUME NEW r \in Rooms, InsertEntry(r) PROVE DLInv'
  BY <1>3, InsertEntryInv
<1>4. ASSUME NEW r \in Rooms, CoreCreates(r) PROVE DLInv'
  BY <1>4, CoreCreatesInv
<1>5. ASSUME NEW r \in Rooms, CreationFails(r) PROVE DLInv'
  BY <1>5, CreationFailsInv
<1>6. ASSUME NEW r \in Rooms, Record(r) PROVE DLInv'
  BY <1>6, RecordInv
<1>7. ASSUME NEW r \in Rooms, DestroyDuel(r) PROVE DLInv'
  BY <1>7, EraseRecordInv, CoreDestroysInv DEF DestroyDuel
<1>8. ASSUME NEW r \in Rooms, LeaveDueling(r) PROVE DLInv'
  BY <1>8, LeaveDuelingInv
<1>9. CASE UNCHANGED dlVars
  <2>1. UNCHANGED <<loadPerCall, coreLoc, core, opened, wrappers, duels, room>>
    BY <1>9 DEF dlVars
  <2>2. DLTypes' /\ Counted' /\ Owned' /\ Apart' /\ Given' /\ NoOtherDuel'
    BY <2>1 DEF DLInv, DLTypes, Counted, OpenedBy, Owned, Apart, Given, NoOtherDuel, HasEntry,
                HasDuel
  <2>3. RecordsKept'
    BY <2>1, RecordsSame DEF DLInv
  <2> QED BY <2>2, <2>3 DEF DLInv
<1> QED BY <1>1, <1>2, <1>3, <1>4, <1>5, <1>6, <1>7, <1>8, <1>9, Zenon DEF DLNext, Idle

\* The rooms' wrappers, entries and duels belong together as DLInv says, in every state.
THEOREM WrapperInvariance == DLSpec => []DLInv
BY DLInitInv, DLStep, PTL DEF DLSpec

\* A room's wrapper exists, and a core that runs a duel finds its library open and what
\* its callback was given in the list of the wrapper (DLWrapper, CoreProvider::GetCore).
THEOREM CallbacksAreReached == DLSpec => []CallbacksReach
<1>1. DLInv => CallbacksReach
  <2> SUFFICES ASSUME DLInv PROVE CallbacksReach
    OBVIOUS
  <2>1. \A r \in Rooms : room[r].core # None => wrappers[room[r].core] # None
    BY DEF DLInv, Owned
  <2>2. ASSUME NEW a \in Addresses, duels[a] # None
        PROVE  /\ opened[duels[a].file] > 0
               /\ wrappers[duels[a].wrapper] # None
               /\ wrappers[duels[a].wrapper].file = duels[a].file
               /\ duels[a].entry \in wrappers[duels[a].wrapper].ssdList
    <3>1. PICK r \in Rooms : HasDuel(r) /\ room[r].duel = a
      BY <2>2 DEF DLInv, NoOtherDuel
    <3> DEFINE w == room[r].core
    <3>2. w \in Wrappers /\ wrappers[w] # None /\ wrappers[w] \in Object
          /\ room[r].entry \in wrappers[w].ssdList
      BY <3>1, RoomFacts DEF HasDuel, HasEntry, DLInv, Given
    <3>3. duels[a] = [file |-> wrappers[w].file, wrapper |-> w, entry |-> room[r].entry]
      BY <3>1 DEF DLInv, Given
    <3>4. wrappers[w].file \in Cores
      BY <3>2 DEF Object
    <3>5. opened[wrappers[w].file] > 0
      <4> DEFINE S == OpenedBy(wrappers[w].file)
      <4>1. IsFiniteSet(S) /\ opened[wrappers[w].file] = Cardinality(S)
        BY <3>4 DEF DLInv, Counted
      <4>2. w \in S
        BY <3>2 DEF OpenedBy
      <4> HIDE DEF S
      <4>3. Cardinality(S) \in Nat /\ Cardinality(S) # 0
        BY <4>1, <4>2, FS_CardinalityType, FS_EmptySet
      <4> QED BY <4>1, <4>3
    <3> QED BY <3>2, <3>3, <3>5
  <2> QED BY <2>1, <2>2 DEF CallbacksReach
<1> QED BY <1>1, WrapperInvariance, PTL

\* The record of a duel is its own from its making to its end, and the wrappers have no
\* record of another (DLWrapper::CreateDuel, DLWrapper::DestroyDuel).
THEOREM RecordsAreKept == DLSpec => []RecordsKept
<1>1. DLInv => RecordsKept
  BY DEF DLInv
<1> QED BY <1>1, WrapperInvariance, PTL
=============================================================================
