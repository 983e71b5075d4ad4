--------------------------------- MODULE Duel ---------------------------------
(***************************************************************************)
(* The duels of one room from the inside: whom the core asks, what the     *)
(* clocks of the two teams do meanwhile, and what goes into the replay and *)
(* to spectators that come late.  Room.tla has the states around a duel;   *)
(* here the line-up is fixed, and a duelist is a position of a team.       *)
(*                                                                         *)
(* Handlers run on the room's strand.  Process is a loop over the messages *)
(* of the core, and each message is a step; while it runs no other handler *)
(* does, but time passes.  Timers are system_timers: the operation that is *)
(* started by ExpiresAfter completes when its time has come, its handler   *)
(* is then queued, and Cancel is too late for it.                          *)
(*                                                                         *)
(* The core is outside of the source.  Left out: the contents of messages, *)
(* what only duelists are sent, and the match kill flag (it is in Room).   *)
(***************************************************************************)
EXTENDS Integers, Sequences

CONSTANTS
    Count,       \* hostInfo.t0Count and t1Count
    Present,     \* the duelists of each team; a relay may begin with fewer
    Relay,       \* DUEL_RELAY
    Limit,       \* hostInfo.timeLimitInSeconds, 0: no limit
    Grace,       \* GRACE_PERIOD
    TicksPerSec, \* the grain of time
    Late,        \* bound: how far behind its expiry, in ticks, a clock is told apart
    Spectators,  \* the clients that may watch
    MaxDuels, MaxMsgs, MaxAnswers  \* bounds: duels, public messages and answers of one

Teams == {0, 1}

ASSUME DuelAssumption ==
    /\ Count \in [Teams -> 1..3] /\ Present \in [Teams -> 1..3]
    /\ Relay \in BOOLEAN
    /\ \A t \in Teams : Present[t] <= Count[t] /\ (~ Relay => Present[t] = Count[t])
    /\ Limit \in Nat /\ Grace \in Nat /\ TicksPerSec \in Nat \ {0} /\ Late \in Nat
    /\ MaxDuels \in Nat /\ MaxMsgs \in Nat \ {0} /\ MaxAnswers \in Nat

VARIABLES
    phase,      \* "none", "running" (Process runs), "asked", "over"
    duels,      \* duels begun so far
    isTeam1GoingFirst,
    currentPos, \* State::Dueling's fields
    retryCount,
    replier,    \* team and position, NoOne before the first question
    timeRemaining, \* in seconds: a whole number of them is all that is kept
    armed,      \* the timer of each team has an operation under way
    left,       \* its expiry, in ticks from now
    queued,     \* completed operations, whose TimerExpired is not dispatched yet
    responses,  \* Replay::responses; an answer is its number in the duel
    cache,      \* size of the spectatorCache
    seen,       \* public messages each spectator was sent, Away: not in the room
    core        \* the core's side of the duel: the index of each duelist's deck and
                \* the one in play, by the core's teams; answers given and taken

clocks == <<timeRemaining, armed, left, queued>>
table == <<currentPos, retryCount, replier>>
show == <<cache, seen>>
vars == <<phase, duels, isTeam1GoingFirst, table, clocks, responses, show, core>>

NoOne == <<2, 0>>
Away == -1
Limited == Limit # 0

\* GetSwappedTeam: the core's number of a room's team, and the other way round.
SwappedBy(it1gf, team) == (it1gf + team) % 2
Swapped(team) == SwappedBy(isTeam1GoingFirst, team)

-----------------------------------------------------------------------------
(***************************************************************************)
(* Timers and the clock.                                                   *)
(***************************************************************************)
\* Only the expiry of the team that is asked is ever read; while the core is
\* at work it loses the time afterwards, if it is asked again.
Tick ==
    LET t == replier[1] IN
    /\ phase = "asked" /\ left[t] > - Late
    /\ left' = [left EXCEPT ![t] = @ - 1]
    /\ UNCHANGED <<phase, duels, isTeam1GoingFirst, table, timeRemaining, armed,
                   queued, responses, show, core>>

Expire(t) ==
    /\ armed[t] /\ left[t] <= 0
    /\ armed' = [armed EXCEPT ![t] = FALSE]
    /\ queued' = [queued EXCEPT ![t] = @ + 1]
    /\ UNCHANGED <<phase, duels, isTeam1GoingFirst, table, timeRemaining, left,
                   responses, show, core>>

\* ceil<seconds>, of a number of ticks that may be negative.
CeilSeconds(ticks) == - ((- ticks) \div TicksPerSec)

Cancel(t) == armed' = [armed EXCEPT ![t] = FALSE]

-----------------------------------------------------------------------------
(***************************************************************************)
(* A duel begins and ends.                                                 *)
(***************************************************************************)
\* DecidePlayerOrder, as ChooseTurn has just set isTeam1GoingFirst.
PlayerOrder(it1gf, t) ==
    IF Relay \/ t = it1gf THEN 0 ELSE Present[t] - 1

\* Mutation: decks are added in the order of the seats.
SeatOrder(p, t, first) == p

\* The index among its team under which the core has a duelist's deck, given
\* the team's first currentPos.
CoreIndex(p, t, first) == (p + (IF first # 0 THEN 1 ELSE 0)) % Present[t]

\* ChooseTurn makes the state, its entry handler the duel; MSG_START goes to
\* everybody.  A core that fails here is one that fails at its first message.
StartDuel(it1gf) ==
    /\ phase \in {"none", "over"} /\ duels < MaxDuels
    /\ phase' = "running" /\ duels' = duels + 1
    /\ isTeam1GoingFirst' = it1gf
    /\ currentPos' = [t \in Teams |-> PlayerOrder(it1gf, t)]
    /\ retryCount' = [t \in Teams |-> 0] /\ replier' = NoOne
    /\ timeRemaining' = [t \in Teams |-> Limit + Grace]
    /\ responses' = <<>>
    /\ cache' = 1
    /\ seen' = [s \in Spectators |-> IF seen[s] = Away THEN Away ELSE 1]
    /\ core' = [index |-> [k \in Teams |->
                             LET t == SwappedBy(it1gf, k) IN
                             [p \in 0..(Present[t] - 1) |->
                                CoreIndex(p, t, currentPos'[t])]],
                inPlay |-> [k \in Teams |-> 0],
                given |-> 0, judging |-> FALSE, taken |-> <<>>]
    /\ UNCHANGED <<armed, left, queued>>

\* Mutation: the timers are left running.
FinishTicking ==
    /\ phase' = "over"
    /\ UNCHANGED armed

\* Finish cancels both timers.
Finish ==
    /\ phase' = "over"
    /\ armed' = [t \in Teams |-> FALSE]

-----------------------------------------------------------------------------
(***************************************************************************)
(* The clients' events.  Only the replier's answer is looked at.           *)
(***************************************************************************)
\* The rest of the time is kept, and the timer cancelled.
StopClock(t) ==
    IF Limited
    THEN /\ timeRemaining' = [timeRemaining EXCEPT ![t] = CeilSeconds(left[t])]
         /\ Cancel(t)
    ELSE UNCHANGED <<timeRemaining, armed>>

Response ==
    /\ phase = "asked" /\ core.given < MaxAnswers
    /\ StopClock(replier[1])
    /\ responses' = Append(responses, core.given + 1)
    /\ core' = [core EXCEPT !.given = @ + 1, !.judging = TRUE]
    /\ phase' = "running"
    /\ UNCHANGED <<duels, isTeam1GoingFirst, table, left, queued, show>>

\* Surrender or ConnectionLost of a duelist.
GiveUp ==
    /\ phase = "asked"
    /\ Finish
    /\ UNCHANGED <<duels, isTeam1GoingFirst, table, timeRemaining, left, queued,
                   responses, show, core>>

\* TimerExpired: it ends a duel, whoever is asked, and is ignored elsewhere.
TimerExpired(t) ==
    /\ phase # "running" /\ queued[t] > 0
    /\ queued' = [queued EXCEPT ![t] = @ - 1]
    /\ IF phase = "asked" THEN Finish ELSE UNCHANGED <<phase, armed>>
    /\ UNCHANGED <<duels, isTeam1GoingFirst, table, timeRemaining, left,
                   responses, show, core>>

\* Join: in a duel, the spectator is sent all of the cache.
JoinSpectator(s) ==
    /\ phase # "running" /\ seen[s] = Away
    /\ seen' = [seen EXCEPT ![s] = IF phase = "asked" THEN cache ELSE 0]
    /\ UNCHANGED <<phase, duels, isTeam1GoingFirst, table, clocks, responses,
                   cache, core>>

LeaveSpectator(s) ==
    /\ phase # "running" /\ seen[s] # Away
    /\ seen' = [seen EXCEPT ![s] = Away]
    /\ UNCHANGED <<phase, duels, isTeam1GoingFirst, table, clocks, responses,
                   cache, core>>

-----------------------------------------------------------------------------
(***************************************************************************)
(* Process: the core's messages.  The first one after an answer tells      *)
(* whether the core took it.                                               *)
(***************************************************************************)
Running == phase = "running" /\ ~ core.judging

CoreAccepts ==
    /\ phase = "running" /\ core.judging
    /\ core' = [core EXCEPT !.judging = FALSE, !.taken = Append(@, core.given)]
    /\ UNCHANGED <<phase, duels, isTeam1GoingFirst, table, clocks, responses, show>>

\* Mutation: the answer stays in the replay.
RetryRecorded ==
    /\ phase = "running" /\ core.judging
    /\ core' = [core EXCEPT !.judging = FALSE]
    /\ retryCount' = [retryCount EXCEPT ![replier[1]] = @ + 1]
    /\ IF retryCount[replier[1]] < 1
       THEN phase' = "asked" /\ UNCHANGED armed
       ELSE Finish
    /\ UNCHANGED <<duels, isTeam1GoingFirst, currentPos, replier, timeRemaining,
                   left, queued, responses, show>>

\* MSG_RETRY.  Once in a duel each team is asked again, without a timer.
Retry ==
    /\ phase = "running" /\ core.judging
    /\ core' = [core EXCEPT !.judging = FALSE]
    /\ retryCount' = [retryCount EXCEPT ![replier[1]] = @ + 1]
    /\ IF retryCount[replier[1]] < 1
       THEN /\ responses' = SubSeq(responses, 1, Len(responses) - 1)
            /\ phase' = "asked"
            /\ UNCHANGED armed
       ELSE /\ Finish
            /\ UNCHANGED responses
    /\ UNCHANGED <<duels, isTeam1GoingFirst, currentPos, replier, timeRemaining,
                   left, queued, show>>

\* DistributeMsg of a message that spectators see, through the cache.
Show ==
    /\ cache < MaxMsgs
    /\ cache' = cache + 1
    /\ seen' = [s \in Spectators |-> IF seen[s] = Away THEN Away ELSE seen[s] + 1]

PublicMessage ==
    /\ Running /\ Show
    /\ UNCHANGED <<phase, duels, isTeam1GoingFirst, table, clocks, responses, core>>

\* MSG_NEW_TURN: ResetTimers.
NewTurn ==
    /\ Running /\ Show
    /\ timeRemaining' = [t \in Teams |-> Limit + Grace]
    /\ UNCHANGED <<phase, duels, isTeam1GoingFirst, table, armed, left, queued,
                   responses, core>>

\* The core puts the next deck of a team into play; a relay's last is its last.
Decks(k) == Present[(isTeam1GoingFirst + k) % 2]
SwapInCore(k) ==
    /\ Decks(k) > 1
    /\ Relay => core.inPlay[k] + 1 < Decks(k)
    /\ core' = [core EXCEPT !.inPlay[k] = (@ + 1) % Decks(k)]

\* MSG_TAG_SWAP, for a team of the core.
TagSwap(k) ==
    LET t == Swapped(k) IN
    /\ Running /\ Show
    /\ SwapInCore(k)
    /\ currentPos' = [currentPos EXCEPT ![t] = (@ + 1) % Count[t]]
    /\ UNCHANGED <<phase, duels, isTeam1GoingFirst, retryCount, replier, clocks,
                   responses>>

\* Mutation: no timer is started.
AskUntimed(k) ==
    LET t == Swapped(k) IN
    /\ Running
    /\ replier' = <<t, currentPos[t]>>
    /\ phase' = "asked"
    /\ UNCHANGED <<duels, isTeam1GoingFirst, currentPos, retryCount, clocks,
                   responses, show, core>>

\* A message that requires an answer, for a team of the core, ends the loop.
Ask(k) ==
    LET t == Swapped(k) IN
    /\ Running
    /\ replier' = <<t, currentPos[t]>>
    /\ phase' = "asked"
    /\ IF Limited
       THEN /\ left' = [left EXCEPT ![t] = timeRemaining[t] * TicksPerSec]
            /\ armed' = [armed EXCEPT ![t] = TRUE]
       ELSE UNCHANGED <<left, armed>>
    /\ UNCHANGED <<duels, isTeam1GoingFirst, currentPos, retryCount, timeRemaining,
                   queued, responses, show, core>>

\* MSG_WIN, or the core fails: the loop ends with the duel.
EndInCore ==
    /\ phase = "running"
    /\ Finish
    /\ UNCHANGED <<duels, isTeam1GoingFirst, table, timeRemaining, left, queued,
                   responses, show, core>>

-----------------------------------------------------------------------------
Init ==
    /\ phase = "none" /\ duels = 0
    /\ isTeam1GoingFirst = 0
    /\ currentPos = [t \in Teams |-> 0] /\ retryCount = [t \in Teams |-> 0]
    /\ replier = NoOne
    /\ timeRemaining = [t \in Teams |-> 0]
    /\ armed = [t \in Teams |-> FALSE]
    /\ left = [t \in Teams |-> 0] /\ queued = [t \in Teams |-> 0]
    /\ responses = <<>>
    /\ cache = 0 /\ seen = [s \in Spectators |-> Away]
    /\ core = [index |-> [k \in Teams |-> [p \in 0..(Present[k] - 1) |-> p]],
               inPlay |-> [k \in Teams |-> 0],
               given |-> 0, judging |-> FALSE, taken |-> <<>>]

Clock ==
    \/ Tick
    \/ \E t \in Teams : Expire(t)

Handler ==
    \/ \E it1gf \in Teams : StartDuel(it1gf)
    \/ Response
    \/ GiveUp
    \/ \E t \in Teams : TimerExpired(t)
    \/ \E s \in Spectators : JoinSpectator(s) \/ LeaveSpectator(s)

Process ==
    \/ CoreAccepts
    \/ Retry
    \/ PublicMessage
    \/ NewTurn
    \/ \E k \in Teams : TagSwap(k)
    \/ \E k \in Teams : Ask(k)
    \/ EndInCore

Next == Clock \/ Handler \/ Process

Spec == Init /\ [][Next]_vars

\* Time passes, due operations complete, and queued handlers run.  Nobody has
\* to answer.
Fairness ==
    /\ WF_vars(Tick)
    /\ \A t \in Teams : WF_vars(Expire(t)) /\ WF_vars(TimerExpired(t))

FairSpec == Spec /\ Fairness

-----------------------------------------------------------------------------
(***************************************************************************)
(* Properties.                                                             *)
(***************************************************************************)
\* Every variable has its type.
TypeOK ==
    /\ phase \in {"none", "running", "asked", "over"}
    /\ duels \in 0..MaxDuels
    /\ isTeam1GoingFirst \in Teams
    /\ currentPos \in [Teams -> 0..2] /\ \A t \in Teams : currentPos[t] < Count[t]
    /\ retryCount \in [Teams -> 0..2]
    /\ replier \in (Teams \X (0..2)) \cup {NoOne}
    /\ timeRemaining \in [Teams -> Int]
    /\ armed \in [Teams -> BOOLEAN]
    /\ left \in [Teams -> Int] /\ queued \in [Teams -> Nat]
    /\ responses \in Seq(Nat)
    /\ cache \in 0..MaxMsgs /\ seen \in [Spectators -> Int]
    /\ core.given \in 0..MaxAnswers /\ core.judging \in BOOLEAN
    /\ core.taken \in Seq(Nat)

\* The clock that runs is the one of who is asked, in that duel: no answer, end
\* or new duel leaves a timer running behind (Response, Finish).
ClockOfAsked ==
    \A t \in Teams : armed[t] => Limited /\ phase = "asked" /\ replier[1] = t

\* Whoever is current in a team is at the table and plays the deck the core has in
\* play, through swaps of both teams, relays that are not full, and whichever
\* team goes first (DecidePlayerOrder, AddCard, MSG_TAG_SWAP).
DeckInPlay ==
    phase \in {"running", "asked"} =>
        \A t \in Teams :
            /\ currentPos[t] < Present[t]
            /\ core.index[Swapped(t)][currentPos[t]] = core.inPlay[Swapped(t)]

\* When a question is open the replay has the answers the core took, in order,
\* and no others (RecordResponse, PopBackResponse).
ReplayFaithful == phase = "asked" => responses = core.taken

\* Whenever a spectator came, it was sent all that is public (spectatorCache).
CatchUpComplete ==
    phase \in {"running", "asked"} =>
        \A s \in Spectators : seen[s] \in {Away, cache}

\* Within a turn of a duel a clock never gains time, over answers that are late,
\* repeated, or given to another question of the turn (Response).
ClockNeverGains ==
    [][\A t \in Teams :
         timeRemaining'[t] > timeRemaining[t] =>
            timeRemaining'[t] = Limit + Grace /\ (duels' > duels \/ cache' > cache)]_vars

\* With a time limit a question is answered or ends the duel, unless the core
\* had the duelist asked a second time, when no timer runs (PostAnalyzeMsg).
QuestionsEnd ==
    Limited /\ phase = "asked" /\ retryCount[replier[1]] = 0 ~> phase # "asked"

(***************************************************************************)
(* What a comment says and the code does not do.                           *)
(***************************************************************************)
\* TimerAggregator.hpp:20: Cancel "Cancels one timer's asynchronous operations
\* that were set by calling ExpireAfter."  So a duel that is waiting for the one
\* team is not ended by the clock of the other.
CancelCancels ==
    [][\A t \in Teams :
         TimerExpired(t) /\ phase = "asked" => replier[1] = t]_vars
=============================================================================
