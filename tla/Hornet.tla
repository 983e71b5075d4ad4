------------------------------- MODULE Hornet -------------------------------
(***************************************************************************)
(* A core in a process of its own.  HornetWrapper, in the server, and the  *)
(* Hornet process share a segment: a mutex, a condition variable, an       *)
(* action and bytes.  They take turns by the action: each sets it under    *)
(* the mutex and waits until the other has changed it.  The bytes are      *)
(* read and written outside of the mutex.                                  *)
(*                                                                         *)
(* A step is one holding of the mutex, or one use of the bytes or of the   *)
(* action outside of it.  The server's calls are serialised by the         *)
(* wrapper's own mutex, so there is one at a time.  The process dies in    *)
(* the core's code, or by the wrapper; the core may also run for ever.     *)
(***************************************************************************)
EXTENDS Naturals

CONSTANTS
    MaxCalls,     \* bound: calls made on the wrapper
    MaxLoop       \* MULTIROLE_HORNET_MAX_LOOP_COUNT

ASSUME HornetAssumption ==
    MaxCalls \in Nat /\ MaxLoop \in Nat \ {0}

VARIABLES
    act,      \* SharedSegment::act; "CALL" is any OCG_ action, "CB" any CB_ request
    bytes,    \* SharedSegment::bytes: what they hold, and of which call
    srv,      \* where the wrapper is
    sent,     \* NotifyAndWait's act
    call,     \* the number of the latest call
    loops,    \* NotifyAndWait's loopCount
    failed,   \* the calls in which NotifyAndWait has thrown; 0 is the heartbeat
    hor,      \* where the Hornet process is
    job       \* the call the core is working on

segment == <<act, bytes>>
wrapper == <<srv, sent, call, loops, failed>>
process == <<hor, job>>
vars == <<segment, wrapper, process>>

Holding(kind, n) == [kind |-> kind, of |-> n]

-----------------------------------------------------------------------------
(***************************************************************************)
(* The wrapper: constructor, calls, destructor.                            *)
(***************************************************************************)
\* Launch may find that the process has died at once.
Launch ==
    /\ srv = "off"
    /\ \/ srv' = "notify" /\ hor' = "booting" /\ sent' = "HEARTBEAT"
       \/ srv' = "failed" /\ hor' = "dead" /\ UNCHANGED sent
    /\ UNCHANGED <<segment, call, loops, failed, job>>

\* The arguments are written before the mutex is taken.  A wrapper that rooms share
\* is called again after a failure, one that a room has for itself is not.
StartCall ==
    /\ srv = "idle" /\ call < MaxCalls
    /\ call' = call + 1
    /\ bytes' = Holding("args", call')
    /\ srv' = "notify" /\ sent' = "CALL" /\ loops' = 0
    /\ UNCHANGED <<act, failed, process>>

\* Mutation: the number of callbacks is not limited.
NotifyEndlessly ==
    /\ srv = "notify"
    /\ act' = sent
    /\ srv' = "waiting"
    /\ UNCHANGED <<bytes, sent, call, loops, failed, process>>

\* The head of NotifyAndWait's loop.
Notify ==
    /\ srv = "notify" /\ loops < MaxLoop
    /\ act' = sent
    /\ srv' = "waiting" /\ loops' = loops + 1
    /\ UNCHANGED <<bytes, sent, call, failed, process>>

\* The constructor waits for the process, a call leaves the wrapper to its owner.
Throw ==
    /\ failed' = failed \cup {call}
    /\ srv' = IF sent = "HEARTBEAT" THEN "cleanup" ELSE "idle"
    /\ UNCHANGED <<segment, sent, call, loops, process>>

TooManyLoops == srv = "notify" /\ loops = MaxLoop /\ Throw

\* The wait times out; the process has died, or 15 waits of 2 seconds are over.
Crashed == srv = "waiting" /\ act = sent /\ hor = "dead" /\ Throw
Unresponsive == srv = "waiting" /\ act = sent /\ hor # "dead" /\ Throw

\* Hornet has changed the action.
Wake ==
    /\ srv = "waiting" /\ act # sent
    /\ srv' = CASE act = "CB" -> "serving"
                [] act = "NO_WORK" /\ sent = "HEARTBEAT" -> "idle"
                [] act = "NO_WORK" /\ sent # "HEARTBEAT" -> "returned"
                [] OTHER -> "notify"
    /\ UNCHANGED <<segment, sent, call, loops, failed, process>>

\* A callback: the request is read from the bytes, the answer written to them.
Serve ==
    /\ srv = "serving"
    /\ bytes' = Holding("data", bytes.of)
    /\ srv' = "notify" /\ sent' = "CB_DONE"
    /\ UNCHANGED <<act, call, loops, failed, process>>

\* The call's result is read from the bytes.
ReadResult ==
    /\ srv = "returned"
    /\ srv' = "idle"
    /\ UNCHANGED <<segment, sent, call, loops, failed, process>>

\* The constructor's failure path: CleanUp waits until the process has ended.
CleanUp ==
    /\ srv = "cleanup" /\ hor = "dead"
    /\ srv' = "failed"
    /\ UNCHANGED <<segment, sent, call, loops, failed, process>>

Destroy ==
    /\ srv = "idle"
    /\ act' = "EXIT"
    /\ srv' = "exitwait"
    /\ UNCHANGED <<bytes, sent, call, loops, failed, process>>

\* Mutation: whatever Hornet has changed the action to, it is taken to exit.
ExitWakeTrusting ==
    /\ srv = "exitwait" /\ act # "EXIT"
    /\ srv' = "reap"
    /\ UNCHANGED <<segment, sent, call, loops, failed, process>>

\* Hornet confirmed, or it signalled just as the wrapper did and is told again.
ExitWake ==
    /\ srv = "exitwait" /\ act # "EXIT"
    /\ act' = IF act = "EXIT_CONFIRMED" THEN act ELSE "EXIT"
    /\ srv' = "reap"
    /\ UNCHANGED <<bytes, sent, call, loops, failed, process>>

\* Kill, with the mutex held.
ExitTimeout ==
    /\ srv = "exitwait" /\ act = "EXIT"
    /\ hor' = "dead"
    /\ srv' = "reap"
    /\ UNCHANGED <<segment, sent, call, loops, failed, job>>

\* IsRunning is asked until it says no, then the segment is destroyed.
Reap ==
    /\ srv = "reap" /\ hor = "dead"
    /\ srv' = "gone"
    /\ UNCHANGED <<segment, sent, call, loops, failed, process>>

-----------------------------------------------------------------------------
(***************************************************************************)
(* The Hornet process.                                                     *)
(***************************************************************************)
\* The core's library, and every function of it, is loaded or the process ends.
LoadSO ==
    /\ hor = "booting"
    /\ hor' \in {"mapping", "dead"}
    /\ UNCHANGED <<segment, wrapper, job>>

\* The pipes are closed and the segment is mapped, which may fail.
Boot ==
    /\ hor = "mapping"
    /\ hor' \in {"publish", "dead"}
    /\ UNCHANGED <<segment, wrapper, job>>

\* MainLoop: NO_WORK says that the previous action is done.
Publish ==
    /\ hor = "publish"
    /\ act' = "NO_WORK"
    /\ hor' = "ready"
    /\ UNCHANGED <<bytes, wrapper, job>>

Take ==
    /\ hor = "ready" /\ act # "NO_WORK"
    /\ hor' = "taken"
    /\ UNCHANGED <<segment, wrapper, job>>

\* The switch reads the action once more, without the mutex.
Dispatch ==
    /\ hor = "taken"
    /\ hor' = CASE act = "EXIT" -> "exiting"
                [] act = "CALL" -> "computing"
                [] OTHER -> "publish"
    /\ job' = IF act = "CALL" THEN bytes.of ELSE job
    /\ UNCHANGED <<segment, wrapper>>

\* DataReader, ScriptReader, LogHandler, DataReaderDone: the request is
\* written, then the action is set.
Request ==
    /\ hor = "computing"
    /\ bytes' = Holding("request", job)
    /\ hor' = "asking"
    /\ UNCHANGED <<act, wrapper, job>>

Ask ==
    /\ hor = "asking"
    /\ act' = "CB"
    /\ hor' = "asked"
    /\ UNCHANGED <<bytes, wrapper, job>>

\* Mutation: whatever the action has changed to, it is taken for CB_DONE.
AnsweredTrusting ==
    /\ hor = "asked" /\ act # "CB"
    /\ hor' = "computing"
    /\ UNCHANGED <<segment, wrapper, job>>

\* Anything but CB_DONE terminates the process.
Answered ==
    /\ hor = "asked" /\ act # "CB"
    /\ hor' = IF act = "CB_DONE" THEN "computing" ELSE "dead"
    /\ UNCHANGED <<segment, wrapper, job>>

\* Mutation: the action is set before the result is written.
FinishEarly ==
    /\ hor = "computing"
    /\ act' = "NO_WORK"
    /\ hor' = "publish"
    /\ UNCHANGED <<bytes, wrapper, job>>

\* The core is done; its result is written.
Finish ==
    /\ hor = "computing"
    /\ bytes' = Holding("answer", job)
    /\ hor' = "publish"
    /\ UNCHANGED <<act, wrapper, job>>

Crash ==
    /\ hor = "computing"
    /\ hor' = "dead"
    /\ UNCHANGED <<segment, wrapper, job>>

Confirm ==
    /\ hor = "exiting"
    /\ act' = "EXIT_CONFIRMED"
    /\ hor' = "leaving"
    /\ UNCHANGED <<bytes, wrapper, job>>

Leave ==
    /\ hor = "leaving"
    /\ hor' = "dead"
    /\ UNCHANGED <<segment, wrapper, job>>

-----------------------------------------------------------------------------
Init ==
    /\ act = "NO_WORK" /\ bytes = Holding("none", 0)
    /\ srv = "off" /\ sent = "NO_WORK" /\ call = 0 /\ loops = 0 /\ failed = {}
    /\ hor = "none" /\ job = 0

WrapperStep ==
    \/ Launch
    \/ StartCall
    \/ Notify
    \/ TooManyLoops
    \/ Crashed
    \/ Unresponsive
    \/ Wake
    \/ Serve
    \/ ReadResult
    \/ CleanUp
    \/ Destroy
    \/ ExitWake
    \/ ExitTimeout
    \/ Reap

HornetStep ==
    \/ LoadSO
    \/ Boot
    \/ Publish
    \/ Take
    \/ Dispatch
    \/ Request
    \/ Ask
    \/ Answered
    \/ Finish
    \/ Crash
    \/ Confirm
    \/ Leave

Next == WrapperStep \/ HornetStep

Spec == Init /\ [][Next]_vars

\* A thread that is not blocked goes on, and its waits are timed.  The process
\* gets its turn as well, except that nothing is known about the core's code:
\* a computation need not end.
Fairness ==
    /\ WF_vars(Notify \/ TooManyLoops)
    /\ WF_vars(Wake \/ Crashed \/ Unresponsive)
    /\ WF_vars(Serve) /\ WF_vars(ReadResult)
    /\ WF_vars(ExitWake \/ ExitTimeout)
    /\ WF_vars(CleanUp) /\ WF_vars(Reap)
    /\ WF_vars(LoadSO) /\ WF_vars(Boot) /\ WF_vars(Publish) /\ WF_vars(Take)
    /\ WF_vars(Dispatch) /\ WF_vars(Ask) /\ WF_vars(Answered) /\ WF_vars(Confirm) /\ WF_vars(Leave)

FairSpec == Spec /\ Fairness

-----------------------------------------------------------------------------
(***************************************************************************)
(* Properties.                                                             *)
(***************************************************************************)
\* Every variable has its type.
TypeOK ==
    /\ act \in {"NO_WORK", "HEARTBEAT", "EXIT", "EXIT_CONFIRMED", "CALL", "CB", "CB_DONE"}
    /\ bytes \in [kind : {"none", "args", "request", "data", "answer"},
                 of : 0..MaxCalls]
    /\ srv \in {"off", "notify", "waiting", "serving", "returned", "idle", "cleanup",
                "failed", "exitwait", "reap", "gone"}
    /\ sent \in {"NO_WORK", "HEARTBEAT", "CALL", "CB_DONE"}
    /\ call \in 0..MaxCalls
    /\ loops \in 0..MaxLoop
    /\ failed \subseteq 0..MaxCalls
    /\ hor \in {"none", "booting", "mapping", "publish", "ready", "taken", "computing",
                "asking", "asked", "exiting", "leaving", "dead"}
    /\ job \in 0..MaxCalls

\* Until a call fails, the process is blocked on the condition variable whenever
\* the server uses the bytes, so neither reads what the other is writing.
TurnsAlternate ==
    failed = {} /\ srv \in {"idle", "returned", "serving"} => hor \in {"ready", "asked"}

\* No call was made after one that failed.  So it always is with a wrapper of a room's
\* own, whose duel ends with the failure.
NoCallAfterFailure == failed \subseteq {call}

\* What is read from the bytes is what the reader expects: the server finds the
\* result or the request of its own call, the core the data it asked for, also when
\* a call failed and nobody waits any more.  A common wrapper stays in use after a
\* failure, and may return the late answer to another call.
OwnAnswer ==
    NoCallAfterFailure =>
        /\ srv = "returned" => bytes = Holding("answer", call)
        /\ srv = "serving" => bytes = Holding("request", call)
        /\ hor = "asked" /\ act = "CB_DONE" => bytes = Holding("data", job)

\* The core is given every call once, with the arguments of that call, and goes on
\* from a callback with the data it asked for, although the process reads the action
\* without the mutex (MainLoop's switch) and the wrapper may have given up on it.
\* Once the destructor has told it to exit it is given nothing any more, whatever the
\* process, dead, silent or late, has overwritten the action with.
CoreGivenOnce ==
    [][ hor # "computing" /\ hor' = "computing" =>
        /\ srv \notin {"exitwait", "reap", "gone"}
        /\ NoCallAfterFailure =>
            \/ hor = "taken" /\ job + 1 = call /\ bytes = Holding("args", call)
            \/ hor = "asked" /\ job = call /\ bytes = Holding("data", call) ]_vars

\* A call returns or throws, even if the core never comes back, dies, or calls
\* back for ever.
CallsReturn ==
    srv \in {"notify", "waiting", "serving"} /\ sent # "HEARTBEAT"
        ~> srv \in {"returned", "idle"}

\* The destructor ends, whatever the process is doing.
DestructorEnds == srv \in {"exitwait", "reap"} ~> srv = "gone"

(***************************************************************************)
(* What a comment says and the code does not do.                           *)
(***************************************************************************)
\* HornetWrapper.cpp:86, where the constructor handles a failure: "Not check
\* necessary as HEARTBEAT is under our control."  It returns or throws.
ConstructorEnds ==
    srv = "notify" /\ sent = "HEARTBEAT" ~> srv \in {"idle", "failed"}
=============================================================================
