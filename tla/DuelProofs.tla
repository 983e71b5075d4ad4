------------------------------ MODULE DuelProofs ------------------------------
(***************************************************************************)
(* Theorems about Duel, for any teams, limit and grain of time.            *)
(***************************************************************************)
EXTENDS Duel, TLAPS

\* The core's side is a record, and somebody was asked before it judges.
CoreShape ==
    /\ core = [index |-> core.index, inPlay |-> core.inPlay, given |-> core.given,
               judging |-> core.judging, taken |-> core.taken]
    /\ core.inPlay \in [Teams -> 0..2]
    /\ phase = "asked" \/ core.judging => replier \in Teams \X (0..2)

\* A duel goes on after one repetition, not after two.
RetriesLeft == phase \in {"running", "asked"} => \A t \in Teams : retryCount[t] <= 1

\* The core has the decks of team t under indices rotated by r.
RotatedBy(r, t) ==
    /\ core.index[Swapped(t)] = [p \in 0..(Present[t] - 1) |-> (p + r) % Present[t]]
    /\ currentPos[t] < Present[t]
    /\ core.inPlay[Swapped(t)] = (currentPos[t] + r) % Present[t]

\* A relay's seats may not all be taken, but its decks are not rotated.
DecksRotated ==
    phase \in {"running", "asked"} =>
        \A t \in Teams : \E r \in {0, 1} : (Relay => r = 0) /\ RotatedBy(r, t)

\* Between an answer and its judgement the replay is one answer ahead.
OneAhead ==
    /\ phase = "asked" => ~ core.judging
    /\ phase \in {"running", "asked"} =>
         responses = IF core.judging THEN Append(core.taken, core.given)
                                     ELSE core.taken

\* No timer was ever started for more than what is left of the turn.
TimeBounded ==
    \A t \in Teams : /\ timeRemaining[t] <= Limit + Grace
                     /\ left[t] <= timeRemaining[t] * TicksPerSec

Typed == TypeOK /\ CoreShape /\ RetriesLeft
Inv == Typed /\ ClockOfAsked /\ DecksRotated /\ OneAhead /\ CatchUpComplete /\ TimeBounded

-----------------------------------------------------------------------------
(***************************************************************************)
(* Arithmetic of seats and of time.                                        *)
(***************************************************************************)
LEMMA SwapsAreInverse ==
  ASSUME NEW g \in Teams, NEW t \in Teams
  PROVE  SwappedBy(g, t) \in Teams /\ SwappedBy(g, SwappedBy(g, t)) = t
BY SMT DEF SwappedBy, Teams

LEMMA SwapsDiffer ==
  ASSUME NEW g \in Teams, NEW t \in Teams, NEW u \in Teams, t # u
  PROVE  SwappedBy(g, t) # SwappedBy(g, u)
BY SMT DEF SwappedBy, Teams

\* The next seat has the next deck.
LEMMA NextSeat ==
  ASSUME NEW n \in 1..3, NEW p \in 0..2, p < n, NEW r \in {0, 1}
  PROVE  (((p + 1) % n) + r) % n = (((p + r) % n) + 1) % n
BY SMT

\* Rounding up gives back at most what the clock had, and no less than is left.
LEMMA RoundedUp ==
  ASSUME NEW x \in Int, NEW y \in Int, x <= y * TicksPerSec
  PROVE  /\ CeilSeconds(x) \in Int
         /\ x <= CeilSeconds(x) * TicksPerSec
         /\ CeilSeconds(x) <= y
<1> DEFINE q == (- x) \div TicksPerSec
<1>1. TicksPerSec \in Nat \ {0}
  BY DuelAssumption
<1>2. q \in Int /\ TicksPerSec * q <= - x /\ - x < TicksPerSec * (q + 1)
  BY <1>1, SMT
<1>3. x <= (- q) * TicksPerSec
  BY <1>1, <1>2, SMT
<1>4. - q <= y
  <2>1. SUFFICES ASSUME y < - q PROVE FALSE
    BY <1>2, SMT
  <2>2. q + 1 <= - y
    BY <1>2, <2>1, SMT
  <2> HIDE DEF q
  <2>3. TicksPerSec * (q + 1) <= TicksPerSec * (- y)
    BY <1>1, <1>2, <2>2, SMT
  <2>4. - x < TicksPerSec * (- y)
    BY <1>1, <1>2, <2>3, SMT
  <2> QED BY <1>1, <2>4, SMT
<1> QED BY <1>1, <1>2, <1>3, <1>4 DEF CeilSeconds

-----------------------------------------------------------------------------
(***************************************************************************)
(* Types.                                                                  *)
(***************************************************************************)
LEMMA FirstSeats ==
  ASSUME NEW g \in Teams, NEW t \in Teams
  PROVE  PlayerOrder(g, t) \in 0..2 /\ PlayerOrder(g, t) < Present[t]
BY DuelAssumption, SMT DEF PlayerOrder, Teams

LEMMA InitInv == Init => Inv
<1> SUFFICES ASSUME Init PROVE Inv
  OBVIOUS
<1> USE DuelAssumption DEF Init
<1>1. TypeOK
  BY SMT DEF TypeOK, Teams, NoOne, Away
<1>2. CoreShape
  BY SMT DEF CoreShape, Teams
<1>3. RetriesLeft /\ DecksRotated /\ OneAhead /\ CatchUpComplete
  BY DEF RetriesLeft, DecksRotated, OneAhead, CatchUpComplete
<1>4. ClockOfAsked
  BY DEF ClockOfAsked
<1>5. TimeBounded
  BY SMT DEF TimeBounded
<1> QED BY <1>1, <1>2, <1>3, <1>4, <1>5 DEF Inv, Typed

\* The variables in the groups that actions change or leave alone.
TableTyped ==
    /\ phase \in {"none", "running", "asked", "over"}
    /\ duels \in 0..MaxDuels /\ isTeam1GoingFirst \in Teams
    /\ currentPos \in [Teams -> 0..2] /\ \A t \in Teams : currentPos[t] < Count[t]
    /\ replier \in (Teams \X (0..2)) \cup {NoOne}
AskedTyped == phase = "asked" \/ core.judging => replier \in Teams \X (0..2)
RetriesTyped == retryCount \in [Teams -> 0..2] /\ RetriesLeft
ClocksTyped ==
    /\ timeRemaining \in [Teams -> Int] /\ armed \in [Teams -> BOOLEAN]
    /\ left \in [Teams -> Int] /\ queued \in [Teams -> Nat]
ShowTyped == cache \in 0..MaxMsgs /\ seen \in [Spectators -> Int]
CoreTyped ==
    /\ core = [index |-> core.index, inPlay |-> core.inPlay, given |-> core.given,
               judging |-> core.judging, taken |-> core.taken]
    /\ core.inPlay \in [Teams -> 0..2]
    /\ core.given \in 0..MaxAnswers /\ core.judging \in BOOLEAN
    /\ core.taken \in Seq(Nat)
AllTyped ==
    /\ TableTyped /\ AskedTyped /\ RetriesTyped /\ ClocksTyped /\ ShowTyped /\ CoreTyped
    /\ responses \in Seq(Nat)

LEMMA AllTypes == (Typed <=> AllTyped) /\ (Typed' <=> AllTyped')
BY Zenon DEF Typed, TypeOK, CoreShape, AllTyped, TableTyped, AskedTyped, RetriesTyped,
             ClocksTyped, ShowTyped, CoreTyped

\* What an action leaves alone keeps its type.
LEMMA SameTypes ==
  /\ TableTyped /\ UNCHANGED <<duels, isTeam1GoingFirst, currentPos, replier>>
       /\ phase' \in {"none", "running", "asked", "over"} => TableTyped'
  /\ AskedTyped /\ UNCHANGED <<phase, replier, core>> => AskedTyped'
  /\ RetriesTyped /\ UNCHANGED retryCount
       /\ (phase' \in {"running", "asked"} => phase \in {"running", "asked"})
     => RetriesTyped'
  /\ ClocksTyped /\ UNCHANGED <<timeRemaining, armed, left, queued>> => ClocksTyped'
  /\ ShowTyped /\ UNCHANGED <<cache, seen>> => ShowTyped'
  /\ CoreTyped /\ UNCHANGED core => CoreTyped'
<1>1. TableTyped /\ UNCHANGED <<duels, isTeam1GoingFirst, currentPos, replier>>
        /\ phase' \in {"none", "running", "asked", "over"} => TableTyped'
  BY Zenon DEF TableTyped
<1>2. AskedTyped /\ UNCHANGED <<phase, replier, core>> => AskedTyped'
  BY Zenon DEF AskedTyped
<1>3. RetriesTyped /\ UNCHANGED retryCount
        /\ (phase' \in {"running", "asked"} => phase \in {"running", "asked"})
      => RetriesTyped'
  BY Zenon DEF RetriesTyped, RetriesLeft
<1>4. ClocksTyped /\ UNCHANGED <<timeRemaining, armed, left, queued>> => ClocksTyped'
  BY Zenon DEF ClocksTyped
<1>5. ShowTyped /\ UNCHANGED <<cache, seen>> => ShowTyped'
  BY Zenon DEF ShowTyped
<1>6. CoreTyped /\ UNCHANGED core => CoreTyped'
  BY Zenon DEF CoreTyped
<1> QED BY <1>1, <1>2, <1>3, <1>4, <1>5, <1>6

\* Taking back the last answer undoes recording it.
LEMMA PopBack ==
  ASSUME NEW s \in Seq(Nat), NEW x \in Nat
  PROVE  LET r == Append(s, x) IN SubSeq(r, 1, Len(r) - 1) = s
BY SMT

LEMMA ShowTypes ==
  ASSUME ShowTyped, Show
  PROVE  ShowTyped'
<1>1. cache' \in 0..MaxMsgs
  BY DuelAssumption, SMT DEF ShowTyped, Show
<1>2. seen' \in [Spectators -> Int]
  <2>1. \A s \in Spectators : (IF seen[s] = Away THEN Away ELSE seen[s] + 1) \in Int
    BY SMT DEF ShowTyped, Away
  <2> QED BY <2>1, Zenon DEF Show
<1> QED BY <1>1, <1>2 DEF ShowTyped

LEMMA FinishTypes ==
  ASSUME AllTyped, Finish, UNCHANGED <<timeRemaining, left, queued>>
  PROVE  ClocksTyped' /\ phase' = "over"
BY Zenon DEF AllTyped, ClocksTyped, Finish

LEMMA TypeStep ==
  ASSUME Inv, [Next]_vars
  PROVE  Typed'
<1> SUFFICES AllTyped'
  BY AllTypes
<1>0. AllTyped
  BY AllTypes DEF Inv
<1> USE <1>0
<1>1. CASE Tick
  <2>1. left' \in [Teams -> Int]
    BY <1>1, SMT DEF Tick, AllTyped, ClocksTyped, AskedTyped, Teams
  <2>2. ClocksTyped'
    BY <1>1, <2>1, Zenon DEF Tick, AllTyped, ClocksTyped
  <2> QED BY <1>1, <2>2, SameTypes, Zenon DEF Tick, table, show, AllTyped, TableTyped
<1>2. ASSUME NEW t \in Teams, Expire(t) PROVE AllTyped'
  <2>1. queued[t] + 1 \in Nat
    BY SMT DEF AllTyped, ClocksTyped
  <2>2. ClocksTyped'
    BY <1>2, <2>1, Zenon DEF Expire, AllTyped, ClocksTyped
  <2> QED BY <1>2, <2>2, SameTypes, Zenon DEF Expire, table, show, AllTyped, TableTyped
<1>3. ASSUME NEW g \in Teams, StartDuel(g) PROVE AllTyped'
  <2>1. \A t \in Teams : PlayerOrder(g, t) \in 0..2 /\ PlayerOrder(g, t) < Count[t]
    <3> SUFFICES ASSUME NEW t \in Teams
                 PROVE  PlayerOrder(g, t) \in 0..2 /\ PlayerOrder(g, t) < Count[t]
      OBVIOUS
    <3>1. PlayerOrder(g, t) \in 0..2 /\ PlayerOrder(g, t) < Present[t]
      BY FirstSeats
    <3>2. Present[t] \in 1..3 /\ Count[t] \in 1..3 /\ Present[t] <= Count[t]
      BY DuelAssumption
    <3> QED BY <3>1, <3>2, SMT
  <2>2. currentPos' \in [Teams -> 0..2] /\ \A t \in Teams : currentPos'[t] < Count[t]
    BY <1>3, <2>1, Zenon DEF StartDuel
  <2>3. duels' \in 0..MaxDuels
    BY <1>3, DuelAssumption, SMT DEF StartDuel, AllTyped, TableTyped
  <2>4. TableTyped'
    BY <1>3, <2>2, <2>3, Zenon DEF StartDuel, TableTyped
  <2>5. RetriesTyped'
    BY <1>3, SMT DEF StartDuel, RetriesTyped, RetriesLeft
  <2>6. ClocksTyped'
    <3>1. timeRemaining' \in [Teams -> Int]
      BY <1>3, DuelAssumption, SMT DEF StartDuel
    <3> QED BY <1>3, <3>1, Zenon DEF StartDuel, AllTyped, ClocksTyped
  <2>7. ShowTyped'
    BY <1>3, DuelAssumption, SMT DEF StartDuel, ShowTyped, Away
  <2>8. CoreTyped'
    BY <1>3, DuelAssumption, SMT DEF StartDuel, CoreTyped, Teams
  <2>9. AskedTyped' /\ responses' \in Seq(Nat)
    BY <1>3, SMT DEF StartDuel, AskedTyped
  <2> QED BY <2>4, <2>5, <2>6, <2>7, <2>8, <2>9 DEF AllTyped
<1>4. CASE Response
  <2>1. replier \in Teams \X (0..2) /\ replier[1] \in Teams
    BY <1>4, SMT DEF Response, AllTyped, AskedTyped
  <2>2. CeilSeconds(left[replier[1]]) \in Int
    <3>1. left[replier[1]] <= timeRemaining[replier[1]] * TicksPerSec
      BY <2>1 DEF Inv, TimeBounded
    <3>2. left[replier[1]] \in Int /\ timeRemaining[replier[1]] \in Int
      BY <2>1 DEF AllTyped, ClocksTyped
    <3> QED BY <3>1, <3>2, RoundedUp
  <2>3. core.given + 1 \in 0..MaxAnswers /\ core.given + 1 \in Nat
    BY <1>4, DuelAssumption, SMT DEF Response, AllTyped, CoreTyped
  <2>4. responses' \in Seq(Nat)
    BY <1>4, <2>3, SMT DEF Response, AllTyped
  <2>5. ClocksTyped'
    BY <1>4, <2>1, <2>2, Zenon DEF Response, StopClock, Cancel, AllTyped, ClocksTyped
  <2>6. CoreTyped'
    BY <1>4, <2>3, Zenon DEF Response, AllTyped, CoreTyped
  <2>7. AskedTyped'
    BY <1>4, <2>1, Zenon DEF Response, table, AskedTyped
  <2> QED BY <1>4, <2>4, <2>5, <2>6, <2>7, SameTypes, Zenon DEF Response, table, show, AllTyped
<1>5. CASE GiveUp \/ EndInCore
  <2>1. ClocksTyped' /\ phase' = "over"
    BY <1>5, FinishTypes DEF GiveUp, EndInCore
  <2>2. AskedTyped'
    BY <1>5, <2>1, Zenon DEF GiveUp, EndInCore, table, AllTyped, AskedTyped
  <2> QED BY <1>5, <2>1, <2>2, SameTypes, Zenon DEF GiveUp, EndInCore, table, show, AllTyped
<1>6. ASSUME NEW t \in Teams, TimerExpired(t) PROVE AllTyped'
  <2>1. queued[t] - 1 \in Nat
    BY <1>6, SMT DEF TimerExpired, AllTyped, ClocksTyped
  <2>2. ClocksTyped'
    BY <1>6, <2>1, Zenon DEF TimerExpired, Finish, AllTyped, ClocksTyped
  <2>3. phase' = phase \/ phase' = "over"
    BY <1>6 DEF TimerExpired, Finish
  <2>4. AskedTyped'
    BY <1>6, <2>3, Zenon DEF TimerExpired, table, AllTyped, AskedTyped
  <2> QED BY <1>6, <2>2, <2>3, <2>4, SameTypes, Zenon
          DEF TimerExpired, table, show, AllTyped, TableTyped
<1>7. ASSUME NEW s \in Spectators, JoinSpectator(s) \/ LeaveSpectator(s) PROVE AllTyped'
  <2>1. cache \in Int /\ 0 \in Int /\ Away \in Int
    BY DuelAssumption, SMT DEF Away, AllTyped, ShowTyped
  <2>2. ShowTyped'
    BY <1>7, <2>1, Zenon DEF JoinSpectator, LeaveSpectator, AllTyped, ShowTyped
  <2> QED BY <1>7, <2>2, SameTypes, Zenon
          DEF JoinSpectator, LeaveSpectator, table, clocks, AllTyped, TableTyped
<1>8. CASE CoreAccepts
  <2>1. Append(core.taken, core.given) \in Seq(Nat)
    BY DuelAssumption, SMT DEF AllTyped, CoreTyped
  <2>2. CoreTyped' /\ core'.judging = FALSE
    BY <1>8, <2>1, Zenon DEF CoreAccepts, AllTyped, CoreTyped
  <2>3. AskedTyped'
    BY <1>8, <2>2, Zenon DEF CoreAccepts, AskedTyped
  <2> QED BY <1>8, <2>2, <2>3, SameTypes, Zenon
          DEF CoreAccepts, table, clocks, show, AllTyped, TableTyped
<1>9. CASE Retry
  <2>1. responses' \in Seq(Nat)
    <3>1. responses = Append(core.taken, core.given)
      BY <1>9, Zenon DEF Inv, OneAhead, Retry
    <3>2. core.taken \in Seq(Nat) /\ core.given \in Nat
      BY DuelAssumption, SMT DEF AllTyped, CoreTyped
    <3>3. SubSeq(responses, 1, Len(responses) - 1) = core.taken
      BY <3>1, <3>2, PopBack
    <3> QED BY <1>9, <3>2, <3>3, Zenon DEF Retry, AllTyped
  <2>2. replier \in Teams \X (0..2) /\ replier[1] \in Teams
    BY <1>9, SMT DEF Retry, AllTyped, AskedTyped
  <2>3. RetriesTyped'
    BY <1>9, <2>2, SMT DEF Retry, Finish, AllTyped, RetriesTyped, RetriesLeft
  <2>4. ClocksTyped' /\ phase' \in {"asked", "over"}
    BY <1>9, Zenon DEF Retry, Finish, AllTyped, ClocksTyped
  <2>5. CoreTyped'
    BY <1>9, Zenon DEF Retry, AllTyped, CoreTyped
  <2>6. AskedTyped'
    BY <1>9, <2>2, Zenon DEF Retry, AskedTyped
  <2> QED BY <1>9, <2>1, <2>3, <2>4, <2>5, <2>6, SameTypes, Zenon DEF Retry, show, AllTyped
<1>10. CASE PublicMessage \/ NewTurn
  <2>1. timeRemaining' \in [Teams -> Int]
    BY <1>10, DuelAssumption, SMT DEF PublicMessage, NewTurn, clocks, AllTyped, ClocksTyped
  <2>2. ShowTyped'
    BY <1>10, ShowTypes DEF PublicMessage, NewTurn, AllTyped
  <2>3. ClocksTyped'
    BY <1>10, <2>1, Zenon DEF PublicMessage, NewTurn, clocks, AllTyped, ClocksTyped
  <2> QED BY <1>10, <2>2, <2>3, SameTypes, Zenon
          DEF PublicMessage, NewTurn, table, AllTyped, TableTyped
<1>11. ASSUME NEW k \in Teams, TagSwap(k) PROVE AllTyped'
  <2> DEFINE t == Swapped(k)
  <2>1. t \in Teams
    BY SwapsAreInverse DEF Swapped, AllTyped, TableTyped
  <2>2. (currentPos[t] + 1) % Count[t] \in 0..2 /\ (currentPos[t] + 1) % Count[t] < Count[t]
    <3>1. Count[t] \in 1..3 /\ currentPos[t] \in 0..2
      BY <2>1, DuelAssumption DEF AllTyped, TableTyped
    <3> QED BY <3>1, SMT
  <2>3. (core.inPlay[k] + 1) % Decks(k) \in 0..2
    <3>1. Decks(k) \in 1..3
      BY <2>1, DuelAssumption DEF Decks, Swapped, SwappedBy
    <3>2. core.inPlay[k] \in 0..2
      BY DEF AllTyped, CoreTyped
    <3> QED BY <3>1, <3>2, SMT
  <2>4. ShowTyped'
    BY <1>11, ShowTypes DEF TagSwap, AllTyped
  <2> HIDE DEF t
  <2>5. currentPos' = [currentPos EXCEPT ![t] = (@ + 1) % Count[t]]
    BY <1>11 DEF TagSwap, t
  <2>6. currentPos' \in [Teams -> 0..2] /\ \A u \in Teams : currentPos'[u] < Count[u]
    BY <2>1, <2>2, <2>5, Zenon DEF AllTyped, TableTyped
  <2>7. TableTyped'
    BY <1>11, <2>6, Zenon DEF TagSwap, AllTyped, TableTyped
  <2>8. CoreTyped' /\ core'.judging = core.judging
    BY <1>11, <2>3, Zenon DEF TagSwap, SwapInCore, AllTyped, CoreTyped
  <2>9. AskedTyped'
    BY <1>11, <2>8, Zenon DEF TagSwap, AllTyped, AskedTyped
  <2> QED BY <1>11, <2>4, <2>7, <2>8, <2>9, SameTypes, Zenon DEF TagSwap, clocks, AllTyped
<1>12. ASSUME NEW k \in Teams, Ask(k) PROVE AllTyped'
  <2>1. Swapped(k) \in Teams
    BY SwapsAreInverse DEF Swapped, AllTyped, TableTyped
  <2>2. timeRemaining[Swapped(k)] * TicksPerSec \in Int
    BY <2>1, DuelAssumption, SMT DEF AllTyped, ClocksTyped
  <2>3. replier' \in Teams \X (0..2)
    BY <1>12, <2>1, SMT DEF Ask, AllTyped, TableTyped
  <2>4. ClocksTyped'
    BY <1>12, <2>1, <2>2, Zenon DEF Ask, AllTyped, ClocksTyped
  <2>5. TableTyped' /\ AskedTyped'
    BY <1>12, <2>3, Zenon DEF Ask, AllTyped, TableTyped, AskedTyped
  <2> QED BY <1>12, <2>4, <2>5, SameTypes, Zenon DEF Ask, Running, show, AllTyped
<1>13. CASE UNCHANGED vars
  BY <1>13, SameTypes, Zenon DEF vars, table, clocks, show, AllTyped, TableTyped
<1>14. AllTyped'
  BY <1>1, <1>2, <1>3, <1>4, <1>5, <1>6, <1>7, <1>8, <1>9, <1>10, <1>11, <1>12, <1>13, Zenon
  DEF Next, Clock, Handler, Process
<1> QED BY <1>14

-----------------------------------------------------------------------------
(***************************************************************************)
(* Each part of the invariant is preserved.                                *)
(***************************************************************************)
LEMMA ClockStep ==
  ASSUME Inv, [Next]_vars
  PROVE  ClockOfAsked'
<1> SUFFICES ASSUME NEW t \in Teams, armed'[t]
             PROVE  Limited /\ phase' = "asked" /\ replier'[1] = t
  BY DEF ClockOfAsked
<1>0. /\ armed[t] => Limited /\ phase = "asked" /\ replier[1] = t
      /\ armed \in [Teams -> BOOLEAN]
  BY DEF Inv, ClockOfAsked, Typed, TypeOK
<1>1. CASE Tick
  BY <1>0, <1>1, Zenon DEF Tick, table
<1>2. ASSUME NEW u \in Teams, Expire(u) PROVE phase' = "asked" /\ replier'[1] = t /\ Limited
  BY <1>0, <1>2, Zenon DEF Expire, table
<1>3. ASSUME NEW g \in Teams, StartDuel(g) PROVE FALSE
  BY <1>0, <1>3, SMT DEF StartDuel
<1>4. CASE Response
  <2>1. Limited
    BY <1>0, <1>4, Zenon DEF Response, StopClock
  <2>2. armed' = [armed EXCEPT ![replier[1]] = FALSE]
    BY <1>4, <2>1 DEF Response, StopClock, Cancel
  <2> QED BY <1>0, <2>2, Zenon
<1>5. CASE GiveUp \/ EndInCore
  BY <1>5, Zenon DEF GiveUp, EndInCore, Finish
<1>6. ASSUME NEW u \in Teams, TimerExpired(u) PROVE FALSE
  BY <1>0, <1>6, Zenon DEF TimerExpired, Finish
<1>7. ASSUME NEW s \in Spectators, JoinSpectator(s) \/ LeaveSpectator(s)
      PROVE  phase' = "asked" /\ replier'[1] = t /\ Limited
  BY <1>0, <1>7, Zenon DEF JoinSpectator, LeaveSpectator, table, clocks
<1>8. CASE CoreAccepts \/ PublicMessage \/ NewTurn
  BY <1>0, <1>8, SMT DEF CoreAccepts, PublicMessage, NewTurn, Running, clocks
<1>9. CASE Retry
  BY <1>0, <1>9, SMT DEF Retry, Finish
<1>10. ASSUME NEW k \in Teams, TagSwap(k) PROVE FALSE
  BY <1>0, <1>10, SMT DEF TagSwap, Running, clocks
<1>11. ASSUME NEW k \in Teams, Ask(k)
       PROVE  phase' = "asked" /\ replier'[1] = t /\ Limited
  <2>1. ~ armed[t]
    BY <1>0, <1>11, SMT DEF Ask, Running
  <2>2. Limited /\ armed' = [armed EXCEPT ![Swapped(k)] = TRUE]
    BY <1>11, <2>1, Zenon DEF Ask
  <2>3. t = Swapped(k)
    BY <1>0, <2>1, <2>2, Zenon
  <2> QED BY <1>11, <2>2, <2>3, SMT DEF Ask
<1>12. CASE UNCHANGED vars
  BY <1>0, <1>12, Zenon DEF vars, table, clocks
<1> QED
  BY <1>1, <1>2, <1>3, <1>4, <1>5, <1>6, <1>7, <1>8, <1>9, <1>10, <1>11, <1>12, Zenon
  DEF Next, Clock, Handler, Process

LEMMA AheadStep ==
  ASSUME Inv, [Next]_vars
  PROVE  OneAhead'
<1> USE DEF OneAhead
<1>0. OneAhead /\ core.judging \in BOOLEAN /\ core.taken \in Seq(Nat) /\ core.given \in Nat
      /\ core = [index |-> core.index, inPlay |-> core.inPlay, given |-> core.given,
                 judging |-> core.judging, taken |-> core.taken]
  <2>1. core.given \in 0..MaxAnswers => core.given \in Nat
    BY DuelAssumption, SMT
  <2> QED BY <2>1, Zenon DEF Inv, Typed, TypeOK, CoreShape
<1>1. CASE Tick \/ (\E t \in Teams : Expire(t)) \/ GiveUp \/ EndInCore
           \/ (\E t \in Teams : TimerExpired(t))
  BY <1>0, <1>1, Zenon DEF Tick, Expire, GiveUp, EndInCore, TimerExpired, Finish
<1>2. ASSUME NEW g \in Teams, StartDuel(g) PROVE OneAhead'
  BY <1>2, Zenon DEF StartDuel
<1>3. CASE Response
  <2>1. ~ core.judging /\ responses = core.taken
    BY <1>0, <1>3 DEF Response
  <2>2. /\ core'.judging = TRUE /\ core'.given = core.given + 1 /\ core'.taken = core.taken
        /\ responses' = Append(responses, core.given + 1) /\ phase' = "running"
    BY <1>0, <1>3, Zenon DEF Response
  <2> QED BY <2>1, <2>2
<1>4. ASSUME NEW s \in Spectators, JoinSpectator(s) \/ LeaveSpectator(s) PROVE OneAhead'
  BY <1>0, <1>4, Zenon DEF JoinSpectator, LeaveSpectator
<1>5. CASE CoreAccepts
  <2>1. core'.judging = FALSE /\ core'.taken = Append(core.taken, core.given)
    BY <1>0, <1>5, Zenon DEF CoreAccepts
  <2> QED BY <1>0, <1>5, <2>1, Zenon DEF CoreAccepts
<1>6. CASE Retry
  <2>1. core.judging /\ responses = Append(core.taken, core.given)
    BY <1>0, <1>6 DEF Retry
  <2>2. SubSeq(responses, 1, Len(responses) - 1) = core.taken
    BY <1>0, <2>1, PopBack
  <2>3. core'.judging = FALSE /\ core'.taken = core.taken
    BY <1>0, <1>6, Zenon DEF Retry
  <2> QED BY <1>6, <2>2, <2>3, Zenon DEF Retry, Finish
<1>7. CASE PublicMessage \/ NewTurn
  BY <1>0, <1>7, Zenon DEF PublicMessage, NewTurn
<1>8. ASSUME NEW k \in Teams, TagSwap(k) PROVE OneAhead'
  <2>1. core'.judging = core.judging /\ core'.taken = core.taken /\ core'.given = core.given
    BY <1>0, <1>8, Zenon DEF TagSwap, SwapInCore
  <2> QED BY <1>0, <1>8, <2>1, Zenon DEF TagSwap
<1>9. ASSUME NEW k \in Teams, Ask(k) PROVE OneAhead'
  BY <1>0, <1>9, Zenon DEF Ask, Running
<1>10. CASE UNCHANGED vars
  BY <1>0, <1>10, Zenon DEF vars
<1> QED
  BY <1>1, <1>2, <1>3, <1>4, <1>5, <1>6, <1>7, <1>8, <1>9, <1>10, Zenon
  DEF Next, Clock, Handler, Process

LEMMA ShowCaughtUp ==
  ASSUME CatchUpComplete, phase = "running", Show, phase' = phase
  PROVE  CatchUpComplete'
BY Zenon DEF CatchUpComplete, Show

LEMMA CatchUpStep ==
  ASSUME Inv, [Next]_vars
  PROVE  CatchUpComplete'
<1>0. CatchUpComplete
  BY DEF Inv
<1>1. CASE Clock
  BY <1>0, <1>1, Zenon DEF Clock, Tick, Expire, show, CatchUpComplete
<1>2. ASSUME NEW g \in Teams, StartDuel(g) PROVE CatchUpComplete'
  BY <1>2, Zenon DEF StartDuel, CatchUpComplete
<1>3. CASE Response
  BY <1>0, <1>3, Zenon DEF Response, show, CatchUpComplete
<1>4. CASE GiveUp \/ EndInCore
  BY <1>4, Zenon DEF GiveUp, EndInCore, Finish, CatchUpComplete
<1>5. ASSUME NEW t \in Teams, TimerExpired(t) PROVE CatchUpComplete'
  BY <1>0, <1>5, Zenon DEF TimerExpired, Finish, show, CatchUpComplete
<1>6. ASSUME NEW s \in Spectators, JoinSpectator(s) \/ LeaveSpectator(s)
      PROVE  CatchUpComplete'
  <2>1. seen \in [Spectators -> Int]
    BY DEF Inv, Typed, TypeOK
  <2> QED BY <1>0, <1>6, <2>1, Zenon DEF JoinSpectator, LeaveSpectator, CatchUpComplete
<1>7. CASE CoreAccepts
  BY <1>0, <1>7, Zenon DEF CoreAccepts, show, CatchUpComplete
<1>8. CASE Retry
  BY <1>0, <1>8, Zenon DEF Retry, Finish, show, CatchUpComplete
<1>9. CASE PublicMessage \/ NewTurn
  BY <1>0, <1>9, ShowCaughtUp DEF PublicMessage, NewTurn, Running
<1>10. ASSUME NEW k \in Teams, TagSwap(k) PROVE CatchUpComplete'
  BY <1>0, <1>10, ShowCaughtUp DEF TagSwap, Running
<1>11. ASSUME NEW k \in Teams, Ask(k) PROVE CatchUpComplete'
  BY <1>0, <1>11, Zenon DEF Ask, Running, show, CatchUpComplete
<1>12. CASE UNCHANGED vars
  BY <1>0, <1>12, Zenon DEF vars, show, CatchUpComplete
<1> QED
  BY <1>1, <1>2, <1>3, <1>4, <1>5, <1>6, <1>7, <1>8, <1>9, <1>10, <1>11, <1>12, Zenon
  DEF Next, Handler, Process

LEMMA Longer ==
  ASSUME NEW x \in Int, NEW a \in Int, NEW b \in Int, a <= b, x <= a * TicksPerSec
  PROVE  x <= b * TicksPerSec
<1>1. TicksPerSec \in Nat
  BY DuelAssumption
<1>2. a * TicksPerSec <= b * TicksPerSec
  BY <1>1, SMT
<1>3. a * TicksPerSec \in Int /\ b * TicksPerSec \in Int
  BY <1>1, SMT
<1> QED BY <1>2, <1>3, SMT

\* What an answer, a question, a turn and a duel do to a clock.
LEMMA ClockChange ==
  ASSUME Inv, [Next]_vars, NEW t \in Teams
  PROVE  /\ timeRemaining'[t] <= Limit + Grace
         /\ left'[t] <= timeRemaining'[t] * TicksPerSec
         /\ timeRemaining'[t] > timeRemaining[t] =>
              timeRemaining'[t] = Limit + Grace /\ (duels' > duels \/ cache' > cache)
<1> DEFINE Goal == /\ timeRemaining'[t] <= Limit + Grace
                   /\ left'[t] <= timeRemaining'[t] * TicksPerSec
                   /\ timeRemaining'[t] > timeRemaining[t] =>
                        timeRemaining'[t] = Limit + Grace /\ (duels' > duels \/ cache' > cache)
<1> SUFFICES Goal
  OBVIOUS
<1>0. /\ timeRemaining[t] \in Int /\ left[t] \in Int
      /\ timeRemaining[t] <= Limit + Grace /\ left[t] <= timeRemaining[t] * TicksPerSec
      /\ Limit + Grace \in Int /\ TicksPerSec \in Nat
      /\ timeRemaining \in [Teams -> Int] /\ left \in [Teams -> Int]
  <2>1. Limit + Grace \in Int /\ TicksPerSec \in Nat
    BY DuelAssumption, SMT
  <2> QED BY <2>1, Zenon DEF Inv, Typed, TypeOK, TimeBounded
<1>1. ASSUME timeRemaining' = timeRemaining, left' = left PROVE Goal
  BY <1>0, <1>1, SMT
<1>2. ASSUME timeRemaining'[t] = Limit + Grace, left' = left, duels' > duels \/ cache' > cache
      PROVE  Goal
  <2>1. left[t] <= (Limit + Grace) * TicksPerSec
    BY <1>0, Longer
  <2> QED BY <1>0, <1>2, <2>1, SMT
<1> HIDE DEF Goal
<1>3. CASE Tick
  <2>1. timeRemaining' = timeRemaining /\ left' = [left EXCEPT ![replier[1]] = @ - 1]
    BY <1>3 DEF Tick
  <2>2. left'[t] = left[t] \/ left'[t] = left[t] - 1
    BY <1>0, <2>1, Zenon
  <2>3. timeRemaining[t] * TicksPerSec \in Int
    BY <1>0, SMT
  <2>4. left'[t] <= timeRemaining[t] * TicksPerSec
    BY <1>0, <2>2, <2>3, SMT
  <2> QED BY <1>0, <2>1, <2>4, SMT DEF Goal
<1>4. ASSUME NEW u \in Teams, Expire(u) \/ TimerExpired(u) PROVE Goal
  BY <1>1, <1>4, Zenon DEF Expire, TimerExpired
<1>5. ASSUME NEW g \in Teams, StartDuel(g) PROVE Goal
  <2>1. duels' > duels
    BY <1>5, SMT DEF StartDuel, Inv, Typed, TypeOK
  <2> QED BY <1>2, <1>5, <2>1, Zenon DEF StartDuel
<1>6. CASE Response
  <2>1. CASE Limited /\ t = replier[1]
    <3>1. timeRemaining'[t] = CeilSeconds(left[t]) /\ left' = left
      BY <1>0, <1>6, <2>1, Zenon DEF Response, StopClock
    <3>2. /\ CeilSeconds(left[t]) \in Int /\ left[t] <= CeilSeconds(left[t]) * TicksPerSec
          /\ CeilSeconds(left[t]) <= timeRemaining[t]
      BY <1>0, RoundedUp
    <3>3. timeRemaining'[t] <= Limit + Grace /\ ~ (timeRemaining'[t] > timeRemaining[t])
      BY <1>0, <3>1, <3>2, SMT
    <3> QED BY <3>1, <3>2, <3>3 DEF Goal
  <2>2. CASE ~ (Limited /\ t = replier[1])
    <3>1. timeRemaining'[t] = timeRemaining[t] /\ left' = left
      BY <1>0, <1>6, <2>2, Zenon DEF Response, StopClock
    <3> QED BY <1>0, <3>1, SMT DEF Goal
  <2> QED BY <2>1, <2>2
<1>7. CASE GiveUp \/ EndInCore \/ CoreAccepts \/ Retry \/ PublicMessage
  BY <1>1, <1>7, Zenon DEF GiveUp, EndInCore, CoreAccepts, Retry, PublicMessage, clocks
<1>8. ASSUME NEW s \in Spectators, JoinSpectator(s) \/ LeaveSpectator(s) PROVE Goal
  BY <1>1, <1>8, Zenon DEF JoinSpectator, LeaveSpectator, clocks
<1>9. CASE NewTurn
  <2>1. cache' > cache
    BY <1>9, SMT DEF NewTurn, Show, Inv, Typed, TypeOK
  <2> QED BY <1>2, <1>9, <2>1, Zenon DEF NewTurn
<1>10. ASSUME NEW k \in Teams, TagSwap(k) PROVE Goal
  BY <1>1, <1>10, Zenon DEF TagSwap, clocks
<1>11. ASSUME NEW k \in Teams, Ask(k) PROVE Goal
  <2>1. timeRemaining' = timeRemaining
    BY <1>11 DEF Ask
  <2>2. left'[t] = left[t] \/ left'[t] = timeRemaining[t] * TicksPerSec
    BY <1>0, <1>11, Zenon DEF Ask
  <2>3. timeRemaining[t] * TicksPerSec \in Int
    BY <1>0, SMT
  <2>4. left'[t] <= timeRemaining[t] * TicksPerSec
    BY <1>0, <2>2, <2>3, SMT
  <2> QED BY <1>0, <2>1, <2>4, SMT DEF Goal
<1>12. CASE UNCHANGED vars
  BY <1>1, <1>12, Zenon DEF vars, clocks
<1>13. Goal
  BY <1>3, <1>4, <1>5, <1>6, <1>7, <1>8, <1>9, <1>10, <1>11, <1>12, Zenon
  DEF Next, Clock, Handler, Process
<1> QED BY <1>13

LEMMA SameDecks ==
  ASSUME DecksRotated, phase' \in {"running", "asked"} => phase \in {"running", "asked"},
         UNCHANGED <<isTeam1GoingFirst, currentPos>>,
         core'.index = core.index, core'.inPlay = core.inPlay
  PROVE  DecksRotated'
BY Zenon DEF DecksRotated, RotatedBy, Swapped, SwappedBy

\* The first duelist of each team has the deck the core begins with.
LEMMA FirstDecks ==
  ASSUME Inv, NEW g \in Teams, StartDuel(g)
  PROVE  DecksRotated'
<1> SUFFICES ASSUME NEW t \in Teams
             PROVE  \E r \in {0, 1} : (Relay => r = 0) /\ RotatedBy(r, t)'
  BY DEF DecksRotated
<1> DEFINE n == Present[t]
           f == PlayerOrder(g, t)
           k == SwappedBy(g, t)
<1>1. n \in 1..3 /\ f \in 0..2 /\ f < n
  BY FirstSeats, DuelAssumption
<1>2. k \in Teams /\ SwappedBy(g, k) = t
  BY SwapsAreInverse
<1>3. (f = 0 \/ f = n - 1) /\ (Relay => f = 0)
  BY DEF PlayerOrder
<1>4. currentPos'[t] = f /\ Swapped(t)' = k
  BY DEF StartDuel, Swapped
<1>5. /\ core'.inPlay[k] = 0
      /\ core'.index[k] = [p \in 0..(n - 1) |-> CoreIndex(p, t, f)]
  <2>1. /\ core'.inPlay = [u \in Teams |-> 0]
        /\ core'.index = [u \in Teams |->
                            LET v == SwappedBy(g, u) IN
                            [p \in 0..(Present[v] - 1) |-> CoreIndex(p, v, currentPos'[v])]]
    BY Zenon DEF StartDuel
  <2>2. core'.index[k] = [p \in 0..(Present[SwappedBy(g, k)] - 1) |->
                            CoreIndex(p, SwappedBy(g, k), currentPos'[SwappedBy(g, k)])]
    <3> HIDE DEF k
    <3> QED BY <1>2, <2>1, Zenon
  <2>3. core'.inPlay[k] = 0
    BY <1>2, <2>1, Zenon
  <2> HIDE DEF k, f
  <2> QED BY <1>2, <1>4, <2>2, <2>3
<1>6. CASE f = 0
  <2>1. core'.index[k] = [p \in 0..(n - 1) |-> (p + 0) % n]
    BY <1>5, <1>6, Zenon DEF CoreIndex
  <2>2. core'.inPlay[k] = (f + 0) % n
    BY <1>1, <1>5, <1>6, SMT
  <2> QED BY <1>1, <1>4, <2>1, <2>2, Zenon DEF RotatedBy
<1>7. CASE f # 0
  <2>1. core'.index[k] = [p \in 0..(n - 1) |-> (p + 1) % n]
    BY <1>5, <1>7, Zenon DEF CoreIndex
  <2>2. core'.inPlay[k] = (f + 1) % n
    BY <1>1, <1>3, <1>5, <1>7, SMT
  <2>3. ~ Relay
    BY <1>3, <1>7
  <2> QED BY <1>1, <1>4, <2>1, <2>2, <2>3, Zenon DEF RotatedBy
<1> QED BY <1>6, <1>7

\* Seat and deck move on together, and the other team's stay.
LEMMA SwappedDecks ==
  ASSUME Inv, NEW k \in Teams, TagSwap(k)
  PROVE  DecksRotated'
<1> DEFINE t == Swapped(k)
           n == Present[t]
<1>1. /\ isTeam1GoingFirst \in Teams /\ phase = "running" /\ DecksRotated
      /\ currentPos \in [Teams -> 0..2] /\ core.inPlay \in [Teams -> 0..2]
  BY DEF Inv, Typed, TypeOK, CoreShape, TagSwap, Running
<1>2. t \in Teams /\ Swapped(t) = k
  BY <1>1, SwapsAreInverse DEF Swapped
<1>3. /\ core'.index = core.index
      /\ core'.inPlay = [core.inPlay EXCEPT ![k] = (@ + 1) % n]
      /\ Relay => core.inPlay[k] + 1 < n
  BY Zenon DEF TagSwap, SwapInCore, Decks, Swapped, SwappedBy, Inv, Typed, CoreShape
<1>4. /\ currentPos' = [currentPos EXCEPT ![t] = (@ + 1) % Count[t]]
      /\ isTeam1GoingFirst' = isTeam1GoingFirst
  BY DEF TagSwap
<1> SUFFICES ASSUME NEW u \in Teams
             PROVE  \E r \in {0, 1} : (Relay => r = 0) /\ RotatedBy(r, u)'
  BY DEF DecksRotated
<1>5. PICK r \in {0, 1} : (Relay => r = 0) /\ RotatedBy(r, u)
  BY <1>1 DEF DecksRotated
<1>6. Swapped(u)' = Swapped(u)
  BY <1>4 DEF Swapped
<1>7. CASE u = t
  <2>1. n \in 1..3 /\ Count[t] \in 1..3 /\ n <= Count[t] /\ (~ Relay => n = Count[t])
    BY <1>2, DuelAssumption
  <2>2. currentPos[t] \in 0..2 /\ currentPos[t] < n /\ core.inPlay[k] = (currentPos[t] + r) % n
    BY <1>1, <1>2, <1>5, <1>7, Zenon DEF RotatedBy
  <2>3. currentPos'[t] = (currentPos[t] + 1) % Count[t]
        /\ core'.inPlay[k] = (core.inPlay[k] + 1) % n
    BY <1>1, <1>2, <1>3, <1>4, Zenon
  <2> HIDE DEF n
  <2>4. (currentPos[t] + 1) % Count[t] = (currentPos[t] + 1) % n
    <3>1. CASE Relay
      <4>1. r = 0
        BY <1>5, <3>1
      <4>2. core.inPlay[k] + 1 < n
        BY <1>3, <3>1 DEF n
      <4>3. core.inPlay[k] = currentPos[t] % n
        BY <2>2, <4>1, SMT
      <4>4. currentPos[t] % n = currentPos[t]
        BY <2>1, <2>2, SMT
      <4>5. currentPos[t] + 1 < n
        BY <4>2, <4>3, <4>4
      <4> QED BY <2>1, <2>2, <4>5, SMT
    <3>2. CASE ~ Relay
      BY <2>1, <3>2
    <3> QED BY <3>1, <3>2
  <2>5. (currentPos[t] + 1) % n < n
    BY <2>1, <2>2, SMT
  <2>6. core'.inPlay[k] = (currentPos'[t] + r) % n
    BY <2>1, <2>2, <2>3, <2>4, NextSeat
  <2>7. core'.index[k] = [p \in 0..(n - 1) |-> (p + r) % n]
    BY <1>2, <1>3, <1>5, <1>7, Zenon DEF RotatedBy, n
  <2>8. RotatedBy(r, u)'
    BY <1>2, <1>6, <1>7, <2>3, <2>4, <2>5, <2>6, <2>7, Zenon DEF RotatedBy, n
  <2> QED BY <1>5, <2>8
<1>8. CASE u # t
  <2>1. Swapped(u) # k /\ Swapped(u) \in Teams
    BY <1>1, <1>2, <1>8, SwapsDiffer, SwapsAreInverse DEF Swapped
  <2>2. currentPos'[u] = currentPos[u] /\ core'.inPlay[Swapped(u)] = core.inPlay[Swapped(u)]
    BY <1>1, <1>3, <1>4, <1>8, <2>1, Zenon
  <2>3. RotatedBy(r, u)'
    BY <1>3, <1>5, <1>6, <2>2, Zenon DEF RotatedBy
  <2> QED BY <1>5, <2>3
<1> QED BY <1>7, <1>8

LEMMA DeckStep ==
  ASSUME Inv, [Next]_vars
  PROVE  DecksRotated'
<1>0. DecksRotated /\ core = [index |-> core.index, inPlay |-> core.inPlay, given |-> core.given,
                              judging |-> core.judging, taken |-> core.taken]
  BY DEF Inv, Typed, CoreShape
<1>1. CASE Clock \/ GiveUp \/ EndInCore \/ (\E t \in Teams : TimerExpired(t))
  BY <1>0, <1>1, SameDecks, Zenon
  DEF Clock, Tick, Expire, GiveUp, EndInCore, TimerExpired, Finish, table
<1>2. CASE Response
  BY <1>0, <1>2, SameDecks, Zenon DEF Response, table
<1>3. CASE CoreAccepts
  BY <1>0, <1>3, SameDecks, Zenon DEF CoreAccepts, table
<1>4. CASE Retry
  BY <1>0, <1>4, SameDecks, Zenon DEF Retry
<1>5. CASE PublicMessage \/ NewTurn
  BY <1>0, <1>5, SameDecks, Zenon DEF PublicMessage, NewTurn, table
<1>6. ASSUME NEW s \in Spectators, JoinSpectator(s) \/ LeaveSpectator(s) PROVE DecksRotated'
  BY <1>0, <1>6, SameDecks, Zenon DEF JoinSpectator, LeaveSpectator, table
<1>7. ASSUME NEW k \in Teams, Ask(k) PROVE DecksRotated'
  BY <1>0, <1>7, SameDecks, Zenon DEF Ask, Running
<1>8. CASE UNCHANGED vars
  BY <1>0, <1>8, SameDecks, Zenon DEF vars, table
<1> QED
  BY <1>1, <1>2, <1>3, <1>4, <1>5, <1>6, <1>7, <1>8, FirstDecks, SwappedDecks, Zenon
  DEF Next, Handler, Process

LEMMA DeckOfCurrent == Inv => DeckInPlay
<1> SUFFICES ASSUME Inv, phase \in {"running", "asked"}, NEW t \in Teams
             PROVE  /\ currentPos[t] < Present[t]
                    /\ core.index[Swapped(t)][currentPos[t]] = core.inPlay[Swapped(t)]
  BY DEF DeckInPlay
<1>1. PICK r \in {0, 1} : RotatedBy(r, t)
  BY DEF Inv, DecksRotated
<1>2. currentPos[t] \in 0..(Present[t] - 1)
  <2>1. currentPos[t] \in 0..2 /\ Present[t] \in 1..3 /\ currentPos[t] < Present[t]
    BY <1>1, DuelAssumption, Zenon DEF RotatedBy, Inv, Typed, TypeOK
  <2> QED BY <2>1, SMT
<1> QED BY <1>1, <1>2, Zenon DEF RotatedBy

-----------------------------------------------------------------------------
LEMMA InvStep == Inv /\ [Next]_vars => Inv'
<1> SUFFICES ASSUME Inv, [Next]_vars PROVE Inv'
  OBVIOUS
<1>1. TimeBounded'
  BY ClockChange DEF TimeBounded
<1> QED BY <1>1, TypeStep, ClockStep, DeckStep, AheadStep, CatchUpStep DEF Inv

THEOREM InvAlways == Spec => []Inv
BY InitInv, InvStep, PTL DEF Spec

\* Types, for every size of the teams and every limit.
THEOREM DuelTypes == Spec => []TypeOK
<1>1. Inv => TypeOK
  BY DEF Inv, Typed
<1> QED BY InvAlways, <1>1, PTL

\* Only the clock of who is asked runs.
THEOREM OneClockRuns == Spec => []ClockOfAsked
<1>1. Inv => ClockOfAsked
  BY DEF Inv
<1> QED BY InvAlways, <1>1, PTL

\* Who is current plays the deck in play.
THEOREM DecksAreInPlay == Spec => []DeckInPlay
BY InvAlways, DeckOfCurrent, PTL

\* The replay has the answers the core took.
THEOREM ReplaysAreFaithful == Spec => []ReplayFaithful
<1>1. Inv => ReplayFaithful
  BY DEF Inv, OneAhead, ReplayFaithful
<1> QED BY InvAlways, <1>1, PTL

\* Spectators have been sent all that is public.
THEOREM SpectatorsCatchUp == Spec => []CatchUpComplete
<1>1. Inv => CatchUpComplete
  BY DEF Inv
<1> QED BY InvAlways, <1>1, PTL

\* No clock gains time within a turn.
THEOREM ClocksNeverGain == Spec => ClockNeverGains
<1> DEFINE Fair == \A t \in Teams :
             timeRemaining'[t] > timeRemaining[t] =>
               timeRemaining'[t] = Limit + Grace /\ (duels' > duels \/ cache' > cache)
<1>1. Inv /\ [Next]_vars => [Fair]_vars
  BY ClockChange DEF Fair
<1> QED BY InvAlways, <1>1, PTL DEF Spec, ClockNeverGains, Fair
=============================================================================
