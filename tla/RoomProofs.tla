----------------------------- MODULE RoomProofs -----------------------------
(***************************************************************************)
(* Theorems about Room and RoomView, for any number of clients and any     *)
(* room options.  The inductive invariant of Room is Inv: the properties   *)
(* of Room.tla together with what a handler relies on without saying so.   *)
(* From it follow the refinement of RoomPromise and, with the refinement   *)
(* and one more invariant, that a duelist who moves has to get ready       *)
(* again.  That of RoomView is Inv /\ ViewInv: the clients' pictures are   *)
(* the room, and whoever it waits for has been asked.                      *)
(***************************************************************************)
EXTENDS RoomView, FiniteSetTheorems, TLAPS

\* A client whose Join has not been dispatched has left no trace.
Unseen ==
    \A c \in Clients : conn[c] \in {"idle", "joining"} =>
        position[c] = SPECTATOR /\ ~shut[c]

\* The waiting room has a connected host from the first Join on.
HostInv ==
    state.tag = "Waiting" =>
        IF state.host = NoClient
          THEN \A c \in Clients : conn[c] \in {"idle", "joining"}
          ELSE conn[state.host] = "open"

\* The match is undecided until the room closes.
ScoreInv == state.tag # "Closing" => \A t \in Teams : wins[t] < neededWins

\* As long as nobody has been kicked only spectators that gave up a running
\* duel have been told to disconnect.
ShutInv ==
    kicked = {} =>
        \A c \in Clients :
            /\ state.tag = "Waiting" => ~shut[c]
            /\ state.tag \in GameTags /\ shut[c] => position[c] = SPECTATOR

\* ... and only duelists have answered.
AnsweredInv ==
    kicked = {} /\ state.tag \in {"Rematching", "Sidedecking"} =>
        state.answered \subseteq Seated

\* A closed room holds nobody.
ClosedInv ==
    state.tag = "Closing" =>
        spectators = {} /\ \A p \in Seats : seat[p] = NoClient

Inv ==
    /\ TypeOK
    /\ RosterSound
    /\ ClosedInv
    /\ Unseen
    /\ HostInv
    /\ LineupComplete
    /\ ScoreInv
    /\ NobodyStranded
    /\ ShutInv
    /\ AnsweredInv

-----------------------------------------------------------------------------
(***************************************************************************)
(* Seats.                                                                  *)
(***************************************************************************)
\* Seats are pairs of a team and a small slot; both teams have a first seat.
LEMMA SeatFacts ==
    /\ SPECTATOR \notin Seats
    /\ \A t \in Teams : <<t, 0>> \in Seats
    /\ \A p \in Seats : p = <<p[1], p[2]>> /\ p[1] \in Teams /\ p[2] \in 0..2
    /\ \A p \in Seats : \A i \in 0..p[2] : <<p[1], i>> \in Seats
BY HostInfoAssumption DEF Seats, SPECTATOR, Teams

\* A set of seats has a first one, and FirstOf finds it.
LEMMA FirstOfIn ==
    ASSUME NEW S \in SUBSET Seats, S # {}
    PROVE  FirstOf(S) \in S
<1>1. \E p \in S : \A q \in S : AtOrAfter(q, p)
  <2>1. \A q \in S : q = <<q[1], q[2]>> /\ q[1] \in {0, 1} /\ q[2] \in {0, 1, 2}
    BY SeatFacts DEF Teams
  <2>2. CASE <<0, 0>> \in S
    BY <2>1, <2>2 DEF AtOrAfter
  <2>3. CASE <<0, 0>> \notin S /\ <<0, 1>> \in S
    BY <2>1, <2>3 DEF AtOrAfter
  <2>4. CASE <<0, 0>> \notin S /\ <<0, 1>> \notin S /\ <<0, 2>> \in S
    BY <2>1, <2>4 DEF AtOrAfter
  <2>5. CASE \A i \in {0, 1, 2} : <<0, i>> \notin S
    <3>1. \A q \in S : q[1] = 1
      BY <2>1, <2>5
    <3>2. CASE <<1, 0>> \in S
      BY <2>1, <3>1, <3>2 DEF AtOrAfter
    <3>3. CASE <<1, 0>> \notin S /\ <<1, 1>> \in S
      BY <2>1, <3>1, <3>3 DEF AtOrAfter
    <3>4. CASE <<1, 0>> \notin S /\ <<1, 1>> \notin S
      BY <2>1, <3>1, <3>4 DEF AtOrAfter
    <3> QED BY <3>2, <3>3, <3>4
  <2> QED BY <2>2, <2>3, <2>4, <2>5
<1> QED BY <1>1 DEF FirstOf

\* TryEmplaceDuelist returns a free seat whenever there is one.
LEMMA FreeSeatFromIn ==
    ASSUME NEW s, FreeSeats(s) # {}, NEW hint
    PROVE  FreeSeatFrom(s, hint) \in Seats /\ s[FreeSeatFrom(s, hint)] = NoClient
<1> DEFINE ahead == {p \in FreeSeats(s) : AtOrAfter(p, hint)}
<1>1. FreeSeats(s) \in SUBSET Seats /\ ahead \in SUBSET Seats
  BY DEF FreeSeats
<1>2. FreeSeatFrom(s, hint) = IF ahead # {} THEN FirstOf(ahead)
                                            ELSE FirstOf(FreeSeats(s))
  BY DEF FreeSeatFrom
<1>3. FreeSeatFrom(s, hint) \in FreeSeats(s)
  <2>1. CASE ahead # {}
    BY <1>1, <1>2, <2>1, FirstOfIn
  <2>2. CASE ahead = {}
    BY <1>1, <1>2, <2>2, FirstOfIn
  <2> QED BY <2>1, <2>2
<1> QED BY <1>3 DEF FreeSeats

\* The number of wins a match needs is at least one.
LEMMA NeededWinsType == neededWins \in Nat \ {0}
<1>1. CASE BestOf = 1
  BY <1>1 DEF neededWins
<1>2. CASE BestOf > 1
  <2>1. BestOf \div 2 \in Nat /\ BestOf \div 2 >= 1 /\ BestOf % 2 \in Nat
    BY <1>2, HostInfoAssumption
  <2> QED BY <2>1 DEF neededWins
<1> QED BY <1>1, <1>2, HostInfoAssumption

-----------------------------------------------------------------------------
(***************************************************************************)
(* The invariant is inductive: one lemma per action.                       *)
(***************************************************************************)
LEMMA InType == \A tag \in Tags : In(tag) \in States /\ In(tag).tag = tag
BY DEF In, States, Tags, Teams

\* The room opens in a state that satisfies the invariant.
LEMMA InitInv == Init => Inv
<1> SUFFICES ASSUME Init PROVE Inv
  OBVIOUS
<1> USE DEF Init
<1>1. TypeOK
  BY InType DEF TypeOK, Tags, Teams
<1>2. RosterSound /\ Unseen
  BY DEF RosterSound, Unseen
<1>3. HostInv
  BY DEF HostInv, In
<1>4. LineupComplete /\ AnsweredInv /\ ClosedInv
  BY DEF LineupComplete, AnsweredInv, ClosedInv, In, GameTags
<1>5. ScoreInv
  BY NeededWinsType DEF ScoreInv, Teams
<1>6. NobodyStranded /\ ShutInv
  BY DEF NobodyStranded, ShutInv
<1> QED BY <1>1, <1>2, <1>3, <1>4, <1>5, <1>6 DEF Inv

\* Whoever causes it, closing the room keeps the invariant.
LEMMA EnterClosingInv ==
    ASSUME Inv, EnterClosing,
           conn' \in [Clients -> {"idle", "joining", "open", "gone"}],
           \A c \in Clients : conn'[c] \in {"idle", "joining"} => conn'[c] = conn[c],
           wins' \in [Teams -> Nat], closing' \in BOOLEAN,
           UNCHANGED <<position, clientData, isStarted, kicked, listed>>
    PROVE  Inv'
<1>1. state'.tag = "Closing" /\ state' \in States
  BY InType DEF EnterClosing, Tags
<1>2. TypeOK'
  BY <1>1 DEF Inv, TypeOK, EnterClosing, clientData
<1>3. RosterSound' /\ ClosedInv'
  BY DEF RosterSound, ClosedInv, EnterClosing
<1>4. Unseen'
  <2> SUFFICES ASSUME NEW c \in Clients, conn'[c] \in {"idle", "joining"}
               PROVE  position'[c] = SPECTATOR /\ ~shut'[c]
    BY DEF Unseen
  <2>1. conn[c] \in {"idle", "joining"} /\ position[c] = SPECTATOR /\ ~shut[c]
    BY DEF Inv, Unseen
  <2>2. c \notin Seated /\ c \notin spectators
    BY <2>1 DEF Inv, RosterSound, Seated
  <2>3. shut'[c] = (shut[c] \/ c \in Seated \/ c \in spectators)
    BY DEF EnterClosing
  <2> QED BY <2>1, <2>2, <2>3
<1>5. HostInv' /\ LineupComplete' /\ ScoreInv' /\ NobodyStranded' /\ AnsweredInv'
  BY <1>1 DEF HostInv, LineupComplete, ScoreInv, NobodyStranded, AnsweredInv,
              GameTags
<1>6. ShutInv'
  BY <1>1 DEF ShutInv, GameTags
<1> QED BY <1>2, <1>3, <1>4, <1>5, <1>6 DEF Inv

LEMMA ConnectInv ==
    ASSUME Inv, NEW c \in Clients, Connect(c) PROVE Inv'
<1> USE DEF Connect, members, clientData, lobbyVars
<1>1. TypeOK'
  BY DEF Inv, TypeOK
<1>2. RosterSound'
  BY DEF Inv, TypeOK, RosterSound
<1>3. Unseen' /\ HostInv'
  BY DEF Inv, TypeOK, Unseen, HostInv, States
<1>4. LineupComplete' /\ ScoreInv' /\ AnsweredInv' /\ ClosedInv'
  BY DEF Inv, LineupComplete, ScoreInv, AnsweredInv, ClosedInv, Taken, Seated
<1>5. NobodyStranded' /\ ShutInv'
  BY DEF Inv, TypeOK, NobodyStranded, ShutInv, Seated
<1> QED BY <1>1, <1>2, <1>3, <1>4, <1>5 DEF Inv

LEMMA JoinInv ==
    ASSUME Inv, NEW c \in Clients, Join(c) PROVE Inv'
<1>0. /\ conn[c] = "joining"
      /\ conn' = [conn EXCEPT ![c] = "open"]
      /\ UNCHANGED <<ready, deckOk, isStarted, wins, kicked, listed, closing>>
  BY DEF Join, clientData, lobbyVars
<1>a. position[c] = SPECTATOR /\ ~shut[c] /\ c \notin spectators
      /\ \A p \in Seats : seat[p] # c
  BY <1>0, SeatFacts, ClientsAssumption DEF Inv, Unseen, RosterSound
<1>b. c # NoClient
  BY ClientsAssumption
<1>1. CASE JoinWaiting(c)
  <2>1. /\ state.tag = "Waiting"
        /\ state' = IF state.host = NoClient THEN [state EXCEPT !.host = c] ELSE state
        /\ UNCHANGED shut
    BY <1>1 DEF JoinWaiting
  <2>2. state' \in States /\ state'.tag = "Waiting"
    BY <2>1 DEF Inv, TypeOK, States
  <2>3. HostInv'
    BY <1>0, <2>1, <1>b DEF Inv, TypeOK, HostInv, States
  <2>4. CASE FreeSeats(seat) # {}
    <3> DEFINE q == FreeSeatFrom(seat, <<0, 0>>)
    <3>1. q \in Seats /\ seat[q] = NoClient
      BY <2>4, FreeSeatFromIn
    <3>2. /\ seat' = [seat EXCEPT ![q] = c] /\ position' = [position EXCEPT ![c] = q]
          /\ UNCHANGED spectators
      BY <1>1, <2>4 DEF JoinWaiting, Sit
    <3> HIDE DEF q
    <3>3. TypeOK'
      BY <1>0, <2>1, <2>2, <3>1, <3>2 DEF Inv, TypeOK
    <3>4. RosterSound'
      BY <1>0, <1>a, <1>b, <3>1, <3>2 DEF Inv, TypeOK, RosterSound
    <3>5. Unseen'
      BY <1>0, <2>1, <3>2 DEF Inv, TypeOK, Unseen
    <3>6. LineupComplete' /\ ScoreInv' /\ AnsweredInv' /\ ClosedInv'
      BY <1>0, <2>1, <2>2 DEF Inv, LineupComplete, ScoreInv, AnsweredInv, ClosedInv,
                              GameTags
    <3>7. NobodyStranded'
      <4>1. \A d \in Seated \cup {c} : d \in Seated'
        BY <1>b, <3>1, <3>2 DEF Inv, TypeOK, Seated
      <4> QED BY <1>0, <2>1, <2>2, <3>2, <4>1 DEF Inv, TypeOK, NobodyStranded
    <3>8. ShutInv'
      BY <1>0, <2>1, <2>2 DEF Inv, ShutInv, GameTags
    <3> QED BY <2>3, <3>3, <3>4, <3>5, <3>6, <3>7, <3>8 DEF Inv
  <2>5. CASE FreeSeats(seat) = {}
    <3>2. /\ spectators' = spectators \cup {c}
          /\ position' = [position EXCEPT ![c] = SPECTATOR]
          /\ UNCHANGED seat
      BY <1>1, <2>5 DEF JoinWaiting
    <3>3. TypeOK'
      BY <1>0, <2>1, <2>2, <3>2 DEF Inv, TypeOK
    <3>4. RosterSound'
      BY <1>0, <1>a, <3>2 DEF Inv, TypeOK, RosterSound
    <3>5. Unseen'
      BY <1>0, <2>1, <3>2 DEF Inv, TypeOK, Unseen
    <3>6. LineupComplete' /\ ScoreInv' /\ AnsweredInv' /\ ClosedInv'
      BY <1>0, <2>1, <2>2 DEF Inv, LineupComplete, ScoreInv, AnsweredInv, ClosedInv,
                              GameTags
    <3>7. NobodyStranded'
      BY <1>0, <2>1, <2>2, <3>2 DEF Inv, TypeOK, NobodyStranded, Seated
    <3>8. ShutInv'
      BY <1>0, <2>1, <2>2 DEF Inv, ShutInv, GameTags
    <3> QED BY <2>3, <3>3, <3>4, <3>5, <3>6, <3>7, <3>8 DEF Inv
  <2> QED BY <2>4, <2>5
<1>2. CASE JoinStarted(c)
  <2>1. /\ state.tag \in GameTags
        /\ spectators' = spectators \cup {c}
        /\ position' = [position EXCEPT ![c] = SPECTATOR]
        /\ UNCHANGED <<state, seat, shut>>
    BY <1>2 DEF JoinStarted
  <2>2. TypeOK'
    BY <1>0, <2>1 DEF Inv, TypeOK
  <2>3. RosterSound'
    BY <1>0, <1>a, <2>1 DEF Inv, TypeOK, RosterSound
  <2>4. Unseen' /\ HostInv'
    BY <1>0, <2>1 DEF Inv, TypeOK, Unseen, HostInv, GameTags
  <2>5. LineupComplete' /\ ScoreInv' /\ AnsweredInv' /\ ClosedInv'
    BY <1>0, <2>1 DEF Inv, LineupComplete, ScoreInv, AnsweredInv, ClosedInv, Taken,
                      Seated, GameTags
  <2>6. NobodyStranded' /\ ShutInv'
    BY <1>0, <2>1 DEF Inv, TypeOK, NobodyStranded, ShutInv, Seated
  <2> QED BY <2>2, <2>3, <2>4, <2>5, <2>6 DEF Inv
<1>3. CASE JoinClosing(c)
  <2>1. /\ state.tag = "Closing"
        /\ shut' = [shut EXCEPT ![c] = TRUE]
        /\ UNCHANGED <<state, seat, spectators, position>>
    BY <1>3 DEF JoinClosing, members
  <2>2. TypeOK'
    BY <1>0, <2>1 DEF Inv, TypeOK
  <2>3. RosterSound'
    BY <1>0, <2>1 DEF Inv, TypeOK, RosterSound
  <2>4. Unseen' /\ HostInv'
    BY <1>0, <2>1 DEF Inv, TypeOK, Unseen, HostInv
  <2>5. LineupComplete' /\ ScoreInv' /\ AnsweredInv' /\ ClosedInv'
    BY <1>0, <2>1 DEF Inv, LineupComplete, ScoreInv, AnsweredInv, ClosedInv, GameTags
  <2>6. NobodyStranded' /\ ShutInv'
    BY <2>1 DEF NobodyStranded, ShutInv, GameTags
  <2> QED BY <2>2, <2>3, <2>4, <2>5, <2>6 DEF Inv
<1> QED BY <1>1, <1>2, <1>3 DEF Join

\* In the waiting room only positions, readiness and decks change.
LEMMA WaitingFrame ==
    ASSUME Inv, state.tag = "Waiting",
           UNCHANGED <<state, isStarted, wins, conn, shut, kicked, lobbyVars>>
    PROVE  /\ HostInv' /\ LineupComplete' /\ ScoreInv' /\ ShutInv' /\ AnsweredInv'
           /\ ClosedInv'
BY DEF Inv, HostInv, LineupComplete, ScoreInv, ShutInv, AnsweredInv, ClosedInv,
       GameTags

\* In the waiting room nobody is stranded: an unkicked client with a position
\* sits there.
LEMMA SitsAtPosition ==
    ASSUME Inv, state.tag = "Waiting", kicked = {},
           NEW c \in Clients, conn[c] = "open", position[c] # SPECTATOR
    PROVE  seat[position[c]] = c
<1>1. ~shut[c] /\ c \notin spectators
  BY DEF Inv, ShutInv, RosterSound
<1>2. c \in Seated
  BY <1>1 DEF Inv, NobodyStranded
<1>3. PICK p \in Seats : seat[p] = c
  BY <1>2 DEF Seated
<1> QED BY <1>3, ClientsAssumption DEF Inv, RosterSound

LEMMA ToDuelistInv ==
    ASSUME Inv, NEW c \in Clients, ToDuelist(c) PROVE Inv'
<1>0. /\ conn[c] = "open" /\ state.tag = "Waiting"
      /\ UNCHANGED <<state, deckOk, isStarted, wins, conn, shut, kicked, listed, closing>>
  BY DEF ToDuelist, InWaiting, lobbyVars
<1>b. c # NoClient /\ position[c] \in Seats \cup {SPECTATOR}
  BY ClientsAssumption DEF Inv, TypeOK
<1>c. /\ HostInv' /\ LineupComplete' /\ ScoreInv' /\ ShutInv' /\ AnsweredInv'
      /\ ClosedInv'
  BY <1>0, WaitingFrame DEF lobbyVars
<1>1. CASE position[c] = SPECTATOR
  <2> DEFINE q == FreeSeatFrom(seat, <<0, 0>>)
  <2>1. /\ FreeSeats(seat) # {}
        /\ seat' = [seat EXCEPT ![q] = c] /\ position' = [position EXCEPT ![c] = q]
        /\ spectators' = spectators \ {c}
        /\ UNCHANGED ready
    BY <1>1 DEF ToDuelist, Sit
  <2>2. q \in Seats /\ seat[q] = NoClient
    BY <2>1, FreeSeatFromIn
  <2> HIDE DEF q
  <2>3. \A p \in Seats : seat[p] # c
    BY <1>1, <1>b, SeatFacts DEF Inv, RosterSound
  <2>4. TypeOK'
    BY <1>0, <2>1, <2>2 DEF Inv, TypeOK
  <2>5. RosterSound'
    BY <1>0, <1>b, <2>1, <2>2, <2>3 DEF Inv, TypeOK, RosterSound
  <2>6. Unseen'
    BY <1>0, <2>1 DEF Inv, TypeOK, Unseen
  <2>7. NobodyStranded'
    <3>1. \A d \in Seated \cup {c} : d \in Seated'
      BY <1>b, <2>1, <2>2 DEF Inv, TypeOK, Seated
    <3> QED BY <1>0, <2>1, <3>1 DEF Inv, TypeOK, NobodyStranded
  <2> QED BY <1>c, <2>4, <2>5, <2>6, <2>7 DEF Inv
<1>2. CASE position[c] # SPECTATOR
  <2> DEFINE p == position[c]
             q == FreeSeatFrom(Vacated(p), <<p[1], p[2] + 1>>)
  <2>1. /\ seat' = [Vacated(p) EXCEPT ![q] = c]
        /\ position' = [position EXCEPT ![c] = q]
        /\ ready' = [ready EXCEPT ![c] = ready[c] /\ q = p]
        /\ UNCHANGED spectators
    BY <1>2 DEF ToDuelist, Sit
  <2>2. p \in Seats /\ p \in FreeSeats(Vacated(p))
    BY <1>2, <1>b DEF Inv, TypeOK, FreeSeats, Vacated
  <2>3. q \in Seats /\ Vacated(p)[q] = NoClient
    BY <2>2, FreeSeatFromIn
  <2> HIDE DEF q
  <2>4. \A r \in Seats : r # p => seat[r] # c
    BY <1>b DEF Inv, RosterSound
  <2>5. seat' = [r \in Seats |-> IF r = q THEN c ELSE IF r = p THEN NoClient ELSE seat[r]]
    BY <2>1, <2>2, <2>3 DEF Vacated, Inv, TypeOK
  <2>6. TypeOK'
    <3>1. seat' \in [Seats -> Clients \cup {NoClient}]
      BY <2>5 DEF Inv, TypeOK
    <3>2. position' \in [Clients -> Seats \cup {SPECTATOR}]
      BY <2>1, <2>3 DEF Inv, TypeOK
    <3>3. ready' \in [Clients -> BOOLEAN]
      BY <2>1 DEF Inv, TypeOK
    <3> QED BY <1>0, <2>1, <3>1, <3>2, <3>3 DEF Inv, TypeOK
  <2>7. RosterSound'
    <3>1. c \notin spectators
      BY <1>2 DEF Inv, RosterSound
    <3>2. \A r \in Seats : seat'[r] # NoClient =>
              conn[seat'[r]] = "open" /\ position'[seat'[r]] = r
      BY <1>0, <2>1, <2>4, <2>5 DEF Inv, TypeOK, RosterSound
    <3> QED BY <1>0, <2>1, <3>1, <3>2 DEF Inv, TypeOK, RosterSound
  <2>8. Unseen'
    BY <1>0, <2>1 DEF Inv, TypeOK, Unseen
  <2>9. NobodyStranded'
    <3> SUFFICES ASSUME kicked = {}, NEW d \in Clients, conn[d] = "open"
                 PROVE  d \in Seated' \/ d \in spectators' \/ shut'[d]
      BY <1>0 DEF NobodyStranded
    <3>1. seat[p] = c
      BY <1>0, <1>2, SitsAtPosition
    <3>2. seat'[q] = c /\ c \in Seated'
      BY <2>3, <2>5, <1>b DEF Seated
    <3>3. CASE d \in Seated /\ d # c
      <4>1. PICK r \in Seats : seat[r] = d
        BY <3>3 DEF Seated
      <4>2. r # p /\ r # q
        BY <2>2, <2>3, <3>1, <3>3, <4>1 DEF Vacated, Inv, TypeOK, Seated
      <4> QED BY <2>5, <3>3, <4>1, <4>2 DEF Seated
    <3> QED BY <1>0, <2>1, <3>2, <3>3 DEF Inv, NobodyStranded
  <2> QED BY <1>c, <2>6, <2>7, <2>8, <2>9 DEF Inv
<1> QED BY <1>1, <1>2

LEMMA ToObserverInv ==
    ASSUME Inv, NEW c \in Clients, ToObserver(c) PROVE Inv'
<1>0. /\ conn[c] = "open" /\ state.tag = "Waiting" /\ position[c] # SPECTATOR
      /\ seat' = Vacated(position[c])
      /\ spectators' = spectators \cup {c}
      /\ position' = [position EXCEPT ![c] = SPECTATOR]
      /\ ready' = [ready EXCEPT ![c] = FALSE]
      /\ UNCHANGED <<state, deckOk, isStarted, wins, conn, shut, kicked, listed, closing>>
  BY DEF ToObserver, InWaiting, lobbyVars
<1>1. /\ HostInv' /\ LineupComplete' /\ ScoreInv' /\ ShutInv' /\ AnsweredInv'
      /\ ClosedInv'
  BY <1>0, WaitingFrame DEF lobbyVars
<1>2. /\ position[c] \in Seats
      /\ seat' = [p \in Seats |-> IF p = position[c] THEN NoClient ELSE seat[p]]
  BY <1>0 DEF Inv, TypeOK, Vacated
<1>3. TypeOK'
  BY <1>0, <1>2 DEF Inv, TypeOK
<1>4. RosterSound'
  BY <1>0, <1>2, ClientsAssumption DEF Inv, TypeOK, RosterSound
<1>5. Unseen'
  BY <1>0 DEF Inv, TypeOK, Unseen
<1>6. NobodyStranded'
  <2> SUFFICES ASSUME kicked = {}, NEW d \in Clients, conn[d] = "open", d # c
               PROVE  d \in Seated' \/ d \in spectators' \/ shut'[d]
    BY <1>0 DEF NobodyStranded
  <2>1. seat[position[c]] = c
    BY <1>0, SitsAtPosition
  <2>2. d \in Seated => d \in Seated'
    BY <1>2, <2>1 DEF Seated
  <2> QED BY <1>0, <2>2 DEF Inv, NobodyStranded
<1> QED BY <1>1, <1>3, <1>4, <1>5, <1>6 DEF Inv

\* Ready and UpdateDeck leave everything but the client's own flags alone.
LEMMA OwnFlagsInv ==
    ASSUME Inv, state.tag = "Waiting",
           ready' \in [Clients -> BOOLEAN], deckOk' \in [Clients -> BOOLEAN],
           UNCHANGED <<state, members, isStarted, wins, conn, shut, kicked, lobbyVars>>
    PROVE  Inv'
<1> USE DEF members, lobbyVars
<1>1. /\ HostInv' /\ LineupComplete' /\ ScoreInv' /\ ShutInv' /\ AnsweredInv'
      /\ ClosedInv'
  BY WaitingFrame
<1>2. TypeOK' /\ RosterSound' /\ Unseen'
  BY DEF Inv, TypeOK, RosterSound, Unseen
<1>3. NobodyStranded'
  BY DEF Inv, NobodyStranded, Seated
<1> QED BY <1>1, <1>2, <1>3 DEF Inv

LEMMA ReadyInv ==
    ASSUME Inv, NEW c \in Clients, NEW v \in BOOLEAN, Ready(c, v) PROVE Inv'
<1>1. ready' = [ready EXCEPT ![c] = v /\ deckOk[c]] /\ deckOk' = deckOk
  BY DEF Ready
<1>2. ready' \in [Clients -> BOOLEAN] /\ deckOk' \in [Clients -> BOOLEAN]
  BY <1>1 DEF Inv, TypeOK
<1> QED BY <1>2, OwnFlagsInv DEF Ready, InWaiting

LEMMA UpdateDeckInv ==
    ASSUME Inv, NEW c \in Clients, NEW v \in BOOLEAN, UpdateDeck(c, v) PROVE Inv'
<1>1. ready' \in [Clients -> BOOLEAN] /\ deckOk' \in [Clients -> BOOLEAN]
  BY DEF UpdateDeck, Inv, TypeOK
<1> QED BY <1>1, OwnFlagsInv DEF UpdateDeck, InWaiting

LEMMA TryKickInv ==
    ASSUME Inv, NEW c \in Clients, NEW pos, TryKick(c, pos) PROVE Inv'
<1> DEFINE p == DecodePosition(pos)
           k == seat[p]
<1>0. /\ conn[c] = "open" /\ state.tag = "Waiting"
      /\ p \in Seats /\ k # NoClient
      /\ kicked' = kicked \cup {IpOf[k]}
      /\ shut' = [shut EXCEPT ![k] = TRUE]
      /\ seat' = Vacated(p)
      /\ UNCHANGED <<state, spectators, position, ready, deckOk, isStarted, wins,
                     conn, listed, closing>>
  BY DEF TryKick, InWaiting, clientData, lobbyVars
<1> HIDE DEF p
<1>1. k \in Clients /\ conn[k] = "open" /\ position[k] = p
  BY <1>0 DEF Inv, TypeOK, RosterSound
<1>2. seat' = [q \in Seats |-> IF q = p THEN NoClient ELSE seat[q]]
  BY <1>0 DEF Inv, TypeOK, Vacated
<1> HIDE DEF k
<1>3. kicked' # {}
  BY <1>0
<1>4. TypeOK'
  BY <1>0, <1>1, <1>2 DEF Inv, TypeOK
<1>5. RosterSound'
  BY <1>0, <1>2 DEF Inv, TypeOK, RosterSound
<1>6. Unseen'
  BY <1>0, <1>1 DEF Inv, TypeOK, Unseen
<1>7. HostInv' /\ LineupComplete' /\ ScoreInv' /\ ClosedInv'
  BY <1>0 DEF Inv, HostInv, LineupComplete, ScoreInv, ClosedInv, GameTags
<1>8. NobodyStranded' /\ ShutInv' /\ AnsweredInv'
  BY <1>3 DEF NobodyStranded, ShutInv, AnsweredInv
<1> QED BY <1>4, <1>5, <1>6, <1>7, <1>8 DEF Inv

-----------------------------------------------------------------------------
(***************************************************************************)
(* Starting the game.  The rank of a seat counts the taken seats before it *)
(* in its team; teams have at most three seats.                            *)
(***************************************************************************)
LEMMA RankValue ==
    ASSUME Inv, NEW p \in Seats
    PROVE  LET taken(i) == seat[<<p[1], i>>] # NoClient
           IN  Rank(p) = IF p[2] = 0 THEN 0
                         ELSE IF p[2] = 1 THEN (IF taken(0) THEN 1 ELSE 0)
                         ELSE (IF taken(0) THEN 1 ELSE 0)
                              + (IF taken(1) THEN 1 ELSE 0)
<1> DEFINE t == p[1]
           before == {q \in Taken(t) : q[2] < p[2]}
           a0 == IF seat[<<t, 0>>] # NoClient THEN {<<t, 0>>} ELSE {}
           a1 == IF seat[<<t, 1>>] # NoClient THEN {<<t, 1>>} ELSE {}
<1>1. Rank(p) = Cardinality(before)
  BY DEF Rank
<1>2. /\ p = <<t, p[2]>> /\ p[2] \in {0, 1, 2}
      /\ \A q \in Taken(t) : /\ q = <<t, q[2]>> /\ q[2] \in 0..2
                             /\ q \in Seats /\ seat[q] # NoClient
      /\ \A i \in 0..p[2] : <<t, i>> \in Seats
      /\ \A i \in 0..p[2] : seat[<<t, i>>] # NoClient => <<t, i>> \in Taken(t)
  <2>1. \A q \in Taken(t) : q \in Seats /\ q[1] = t /\ seat[q] # NoClient
    BY DEF Taken, TeamSeats
  <2>2. \A i \in 0..p[2] : <<t, i>> \in Seats
    BY SeatFacts
  <2>3. \A i \in 0..p[2] : seat[<<t, i>>] # NoClient => <<t, i>> \in Taken(t)
    BY <2>2 DEF Taken, TeamSeats
  <2> QED BY <2>1, <2>2, <2>3, SeatFacts
<1> HIDE DEF t
<1>3. CASE p[2] = 0
  <2>1. before = {}
    BY <1>2, <1>3
  <2> QED BY <1>1, <1>3, <2>1, FS_EmptySet DEF t
<1>4. CASE p[2] = 1
  <2>1. before = a0
    <3>1. \A q \in before : q = <<t, 0>> /\ seat[q] # NoClient
      BY <1>2, <1>4
    <3>2. seat[<<t, 0>>] # NoClient => <<t, 0>> \in before
      BY <1>2, <1>4
    <3> QED BY <3>1, <3>2
  <2>2. Cardinality(a0) = IF seat[<<t, 0>>] # NoClient THEN 1 ELSE 0
    BY FS_EmptySet, FS_Singleton
  <2> QED BY <1>1, <1>4, <2>1, <2>2 DEF t
<1>5. CASE p[2] = 2
  <2>1. before = a0 \cup a1
    <3>1. \A q \in before : /\ q = <<t, 0>> \/ q = <<t, 1>>
                            /\ seat[q] # NoClient
      BY <1>2, <1>5
    <3>2. \A i \in {0, 1} : seat[<<t, i>>] # NoClient => <<t, i>> \in before
      BY <1>2, <1>5
    <3> QED BY <3>1, <3>2
  <2>2. /\ IsFiniteSet(a0)
        /\ Cardinality(a0) = IF seat[<<t, 0>>] # NoClient THEN 1 ELSE 0
    BY FS_EmptySet, FS_Singleton
  <2>3. <<t, 1>> \notin a0
    OBVIOUS
  <2>4. Cardinality(a0 \cup a1) = Cardinality(a0)
                                  + (IF seat[<<t, 1>>] # NoClient THEN 1 ELSE 0)
    <3>1. CASE seat[<<t, 1>>] # NoClient
      BY <2>2, <2>3, <3>1, FS_AddElement
    <3>2. CASE seat[<<t, 1>>] = NoClient
      <4>1. a0 \cup a1 = a0
        BY <3>2
      <4> QED BY <2>2, <3>2, <4>1
    <3> QED BY <3>1, <3>2
  <2> HIDE DEF before, a0, a1
  <2>5. Rank(p) = (IF seat[<<t, 0>>] # NoClient THEN 1 ELSE 0)
                  + (IF seat[<<t, 1>>] # NoClient THEN 1 ELSE 0)
    BY <1>1, <2>1, <2>2, <2>4
  <2> QED BY <1>5, <2>5 DEF t
<1> QED BY <1>2, <1>3, <1>4, <1>5

\* Tightening moves a duelist to a seat of its team, no two to the same one,
\* and leaves no hole: TightenTeam in TryStart.
LEMMA TightenFacts ==
    ASSUME Inv, NEW t \in Teams
    PROVE  /\ \A p \in Taken(t) : Tightened(p) \in Seats /\ Tightened(p)[1] = t
           /\ \A p, q \in Taken(t) : Tightened(p) = Tightened(q) => p = q
           /\ \A p \in Taken(t) : \A i \in Nat :
                 i < Tightened(p)[2] => \E q \in Taken(t) : Tightened(q) = <<t, i>>
           /\ Taken(t) # {} => \E q \in Taken(t) : Tightened(q) = <<t, 0>>
<1> DEFINE taken(i) == <<t, i>> \in Taken(t)
           n0 == IF taken(0) THEN 1 ELSE 0
           n1 == IF taken(1) THEN 1 ELSE 0
<1>1. \A p \in Taken(t) : /\ p \in Seats /\ p = <<t, p[2]>> /\ p[2] \in {0, 1, 2}
                          /\ p[1] = t
  BY SeatFacts DEF Taken, TeamSeats
<1>2. \A p \in Taken(t) : \A i \in 0..p[2] :
          <<t, i>> \in Seats /\ (taken(i) <=> seat[<<t, i>>] # NoClient)
  BY <1>1, SeatFacts DEF Taken, TeamSeats
<1>3. \A p \in Taken(t) : Rank(p) = IF p[2] = 0 THEN 0
                                    ELSE IF p[2] = 1 THEN n0 ELSE n0 + n1
  <2> TAKE p \in Taken(t)
  <2>1. CASE p[2] = 0
    BY <1>1, <2>1, RankValue
  <2>2. CASE p[2] = 1
    <3>1. taken(0) <=> seat[<<t, 0>>] # NoClient
      BY <1>2, <2>2
    <3> QED BY <1>1, <2>2, <3>1, RankValue
  <2>3. CASE p[2] = 2
    <3>1. /\ taken(0) <=> seat[<<t, 0>>] # NoClient
          /\ taken(1) <=> seat[<<t, 1>>] # NoClient
      BY <1>2, <2>3
    <3> QED BY <1>1, <2>3, <3>1, RankValue
  <2> QED BY <1>1, <2>1, <2>2, <2>3
<1>4. \A p \in Taken(t) : Tightened(p) = <<t, Rank(p)>>
  BY <1>1 DEF Tightened
<1> HIDE DEF n0, n1
<1>5. /\ n0 \in {0, 1} /\ (n0 = 1 <=> taken(0))
      /\ n1 \in {0, 1} /\ (n1 = 1 <=> taken(1))
  BY DEF n0, n1
<1>6. \A p \in Taken(t) : Rank(p) \in 0..p[2]
  BY <1>1, <1>3, <1>5
<1>7. \A p \in Taken(t) : Tightened(p) \in Seats /\ Tightened(p)[1] = t
  BY <1>2, <1>4, <1>6
<1>8. \A p, q \in Taken(t) : Tightened(p) = Tightened(q) => p = q
  BY <1>1, <1>3, <1>4, <1>5
<1>9. Taken(t) # {} => \E q \in Taken(t) : Rank(q) = 0
  <2>1. CASE taken(0)
    BY <1>3, <2>1
  <2>2. CASE ~taken(0) /\ taken(1)
    BY <1>3, <1>5, <2>2
  <2>3. CASE ~taken(0) /\ ~taken(1)
    BY <1>3, <1>5, <2>3, <1>1
  <2> QED BY <2>1, <2>2, <2>3
<1>10. \A p \in Taken(t) : Rank(p) = 2 => \E q \in Taken(t) : Rank(q) = 1
  BY <1>1, <1>3, <1>5
<1>11. \A p \in Taken(t) : \A i \in Nat :
          i < Rank(p) => \E q \in Taken(t) : Rank(q) = i
  <2> TAKE p \in Taken(t)
  <2> TAKE i \in Nat
  <2>1. Rank(p) \in {0, 1, 2}
    BY <1>1, <1>6
  <2>2. i < Rank(p) => i = 0 \/ (i = 1 /\ Rank(p) = 2)
    BY <2>1
  <2> QED BY <1>9, <1>10, <2>2
<1> QED BY <1>4, <1>7, <1>8, <1>9, <1>11

LEMMA SeatsOfTeams ==
    /\ \A p \in Seats : p[1] \in Teams /\ p \in TeamSeats(p[1])
    /\ \A t \in Teams : <<t, 0>> \in TeamSeats(t)
BY SeatFacts DEF TeamSeats, Teams

LEMMA TryStartInv ==
    ASSUME Inv, NEW c \in Clients, TryStart(c) PROVE Inv'
<1>0. /\ conn[c] = "open" /\ state.tag = "Waiting"
      /\ RosterValid
      /\ isStarted' = TRUE
      /\ state' = In("RockPaperScissor")
      /\ UNCHANGED <<spectators, ready, deckOk, wins, conn, shut, kicked, listed, closing>>
  BY DEF TryStart, InWaiting, clientData, lobbyVars
<1>1. state' \in States /\ state'.tag = "RockPaperScissor"
  BY <1>0, InType DEF Tags
<1>2. HostInv' /\ ScoreInv' /\ AnsweredInv' /\ ShutInv' /\ ClosedInv'
  BY <1>0, <1>1 DEF Inv, HostInv, ScoreInv, AnsweredInv, ShutInv, ClosedInv, GameTags
<1>3. CASE Relay
  <2>1. seat' = TightSeating /\ position' = TightPositions
    BY <1>3 DEF TryStart
  <2>2. \A t \in Teams : Taken(t) # {}
    BY <1>0, <1>3 DEF RosterValid
  <2> DEFINE To(p, q) == p \in Taken(q[1]) /\ Tightened(p) = q
  <2>3. \A q \in Seats : \/ /\ seat'[q] = NoClient
                            /\ \A p \in Taken(q[1]) : Tightened(p) # q
                         \/ \E p \in Taken(q[1]) : Tightened(p) = q /\ seat'[q] = seat[p]
    BY <2>1 DEF TightSeating
  <2>4. \A d \in Clients : position'[d] = IF d \in Seated THEN Tightened(position[d])
                                                         ELSE position[d]
    BY <2>1 DEF TightPositions
  <2>5. \A p \in Seats : seat[p] # NoClient =>
            /\ p \in Taken(p[1]) /\ seat[p] \in Clients /\ seat[p] \in Seated
            /\ position[seat[p]] = p /\ conn[seat[p]] = "open"
    BY SeatsOfTeams DEF Inv, TypeOK, RosterSound, Taken, Seated
  <2>6. \A t \in Teams : \A p \in Taken(t) : p \in Seats /\ p[1] = t /\ seat[p] # NoClient
    BY DEF Taken, TeamSeats
  <2>7. \A d \in Seated : position[d] \in Taken(position[d][1])
                          /\ position[d][1] \in Teams /\ seat[position[d]] = d
    BY <2>5, SeatsOfTeams DEF Seated
  <2>8. TypeOK'
    <3>1. seat' \in [Seats -> Clients \cup {NoClient}]
      <4>1. \A q \in Seats : seat'[q] \in Clients \cup {NoClient}
        BY <2>3, <2>6, SeatsOfTeams DEF Inv, TypeOK
      <4> QED BY <2>1, <4>1 DEF TightSeating
    <3>2. position' \in [Clients -> Seats \cup {SPECTATOR}]
      <4>1. \A d \in Clients : position'[d] \in Seats \cup {SPECTATOR}
        BY <2>4, <2>7, TightenFacts DEF Inv, TypeOK
      <4> QED BY <2>1, <4>1 DEF TightPositions
    <3> QED BY <1>0, <1>1, <3>1, <3>2 DEF Inv, TypeOK
  <2>9. RosterSound'
    <3>1. ASSUME NEW q \in Seats, seat'[q] # NoClient
          PROVE  conn'[seat'[q]] = "open" /\ position'[seat'[q]] = q
      <4>1. PICK p \in Taken(q[1]) : Tightened(p) = q /\ seat'[q] = seat[p]
        BY <2>3, <3>1
      <4>2. p \in Seats /\ seat[p] # NoClient
        BY <2>6, <4>1, SeatsOfTeams
      <4> QED BY <1>0, <2>4, <2>5, <4>1, <4>2
    <3>2. ASSUME NEW d \in spectators PROVE conn'[d] = "open" /\ position'[d] = SPECTATOR
      <4>1. conn[d] = "open" /\ position[d] = SPECTATOR /\ d \in Clients
        BY <3>2 DEF Inv, RosterSound, TypeOK
      <4>2. d \notin Seated
        BY <2>7, <4>1, SeatFacts, <2>5 DEF Seated
      <4> QED BY <1>0, <2>4, <4>1, <4>2
    <3> QED BY <1>0, <3>1, <3>2 DEF RosterSound
  <2>10. Unseen'
    <3>1. \A d \in Seated : conn[d] = "open"
      BY <2>5 DEF Seated
    <3> QED BY <1>0, <2>4, <3>1 DEF Inv, Unseen
  <2>11. LineupComplete'
    <3> SUFFICES ASSUME NEW t \in Teams
                 PROVE  /\ seat'[<<t, 0>>] # NoClient
                        /\ \A p, q \in TeamSeats(t) :
                             p[2] < q[2] /\ seat'[q] # NoClient => seat'[p] # NoClient
      BY <1>1, <1>3 DEF LineupComplete
    <3>1. \A q \in TeamSeats(t) :
             seat'[q] # NoClient <=> \E p \in Taken(t) : Tightened(p) = q
      <4> TAKE q \in TeamSeats(t)
      <4>1. q \in Seats /\ q[1] = t
        BY DEF TeamSeats
      <4> QED BY <2>3, <2>6, <4>1
    <3>2. seat'[<<t, 0>>] # NoClient
      BY <2>2, <3>1, SeatsOfTeams, TightenFacts
    <3>3. ASSUME NEW p \in TeamSeats(t), NEW q \in TeamSeats(t),
                 p[2] < q[2], seat'[q] # NoClient
          PROVE  seat'[p] # NoClient
      <4>1. p = <<t, p[2]>> /\ p[2] \in Nat
        BY SeatFacts DEF TeamSeats
      <4>2. \E r \in Taken(t) : Tightened(r) = p
        BY <3>1, <3>3, <4>1, TightenFacts
      <4> QED BY <3>1, <4>2
    <3> QED BY <3>2, <3>3
  <2>12. NobodyStranded'
    <3>1. \A d \in Seated : d \in Seated'
      <4> TAKE d \in Seated
      <4> DEFINE p == position[d]
      <4>1. p \in Taken(p[1]) /\ p[1] \in Teams /\ seat[p] = d /\ d # NoClient
        BY <2>7 DEF Seated
      <4>2. Tightened(p) \in Seats /\ Tightened(p)[1] = p[1]
        BY <4>1, TightenFacts
      <4>3. seat'[Tightened(p)] = seat[p]
        BY <2>3, <4>1, <4>2, TightenFacts
      <4> QED BY <4>1, <4>2, <4>3 DEF Seated
    <3> QED BY <1>0, <1>1, <3>1 DEF Inv, NobodyStranded
  <2> QED BY <1>2, <2>8, <2>9, <2>10, <2>11, <2>12 DEF Inv
<1>4. CASE ~Relay
  <2>1. UNCHANGED <<seat, position>> /\ FreeSeats(seat) = {}
    BY <1>0, <1>4 DEF TryStart, RosterValid
  <2>2. TypeOK' /\ RosterSound' /\ Unseen'
    BY <1>0, <1>1, <2>1 DEF Inv, TypeOK, RosterSound, Unseen
  <2>3. \A p \in Seats : seat[p] # NoClient
    BY <2>1 DEF FreeSeats
  <2>4. LineupComplete'
    <3>1. \A t \in Teams : /\ Taken(t)' = TeamSeats(t)
                           /\ \A p \in TeamSeats(t) : seat'[p] # NoClient
      BY <2>1, <2>3 DEF Taken, TeamSeats
    <3> QED BY <1>1, <3>1, SeatsOfTeams DEF LineupComplete
  <2>5. NobodyStranded'
    BY <1>0, <1>1, <2>1 DEF Inv, NobodyStranded, Seated
  <2> QED BY <1>2, <2>2, <2>4, <2>5 DEF Inv
<1> QED BY <1>3, <1>4

-----------------------------------------------------------------------------
(***************************************************************************)
(* The game.                                                               *)
(***************************************************************************)
\* During a game handlers only move the state machine and the score.
LEMMA GameFrame ==
    ASSUME Inv, state.tag \in GameTags,
           state' \in States, state'.tag \in GameTags,
           state'.tag \in {"ChoosingTurn", "Rematching", "Sidedecking"}
               => state'.turnChooser \in Seated,
           state'.tag = "Dueling" => state'.replier \in Seated,
           kicked = {} /\ state'.tag \in {"Rematching", "Sidedecking"}
               => state'.answered \subseteq Seated,
           wins' \in [Teams -> Nat], \A t \in Teams : wins'[t] < neededWins,
           UNCHANGED <<members, clientData, isStarted, conn, shut, kicked, lobbyVars>>
    PROVE  Inv'
<1> USE DEF members, clientData, lobbyVars
<1>1. TypeOK' /\ RosterSound' /\ Unseen'
  BY DEF Inv, TypeOK, RosterSound, Unseen
<1>2. HostInv' /\ ScoreInv' /\ ShutInv' /\ ClosedInv'
  BY DEF Inv, HostInv, ScoreInv, ShutInv, ClosedInv, GameTags
<1>3. Seated' = Seated /\ \A t \in Teams : Taken(t)' = Taken(t)
  BY DEF Seated, Taken
<1>4. LineupComplete' /\ AnsweredInv'
  BY <1>3 DEF Inv, LineupComplete, AnsweredInv
<1>5. NobodyStranded'
  BY <1>3 DEF Inv, NobodyStranded, GameTags
<1> QED BY <1>1, <1>2, <1>4, <1>5 DEF Inv

\* The first duelist of either team is there throughout a game.
LEMMA FirstDuelists ==
    ASSUME Inv, state.tag \in GameTags
    PROVE  \A t \in Teams : seat[<<t, 0>>] \in Seated
BY SeatFacts DEF Inv, LineupComplete, Seated

LEMMA SeatedType == Inv => Seated \subseteq Clients
BY DEF Inv, TypeOK, Seated

LEMMA ChoosingType ==
    \A c \in Clients : /\ ChoosingBy(c) \in States
                       /\ ChoosingBy(c).tag = "ChoosingTurn"
                       /\ ChoosingBy(c).turnChooser = c
BY DEF ChoosingBy, In, States, Tags, Teams

LEMMA AwaitingType ==
    \A c \in Clients : /\ DuelAwaiting(c) \in States
                       /\ DuelAwaiting(c).tag = "Dueling"
                       /\ DuelAwaiting(c).replier = c
BY DEF DuelAwaiting, In, States, Tags, Teams

LEMMA ChooseRPSInv ==
    ASSUME Inv, NEW c \in Clients, NEW v \in 0..3, ChooseRPS(c, v) PROVE Inv'
<1> DEFINE choices == [state.choices EXCEPT ![position[c][1]] = v]
           winner == IF Beats(choices[1], choices[0]) THEN 1 ELSE 0
<1>1. /\ state.tag = "RockPaperScissor" /\ state.tag \in GameTags
      /\ position[c][2] = 0
      /\ UNCHANGED <<members, clientData, isStarted, wins, conn, shut, kicked, lobbyVars>>
  BY DEF ChooseRPS, InState, GameTags, Tags
<1>2. \/ state' = [state EXCEPT !.choices = choices]
      \/ state' = In("RockPaperScissor")
      \/ state' = ChoosingBy(seat[<<winner, 0>>])
  BY DEF ChooseRPS
<1>3. wins' \in [Teams -> Nat] /\ \A t \in Teams : wins'[t] < neededWins
  BY <1>1 DEF Inv, TypeOK, ScoreInv
<1>4. CASE state' = [state EXCEPT !.choices = choices]
  <2>1. position[c][1] \in Teams
    BY <1>1, SeatFacts DEF Inv, TypeOK, SPECTATOR
  <2>2. state' \in States /\ state'.tag = "RockPaperScissor"
    BY <1>1, <1>4, <2>1 DEF Inv, TypeOK, States
  <2> QED BY <1>1, <1>3, <2>2, GameFrame
<1>5. CASE state' = In("RockPaperScissor")
  <2>1. state' \in States /\ state'.tag = "RockPaperScissor"
    BY <1>5, InType DEF Tags
  <2> QED BY <1>1, <1>3, <2>1, GameFrame
<1>6. CASE state' = ChoosingBy(seat[<<winner, 0>>])
  <2>1. seat[<<winner, 0>>] \in Seated
    BY <1>1, FirstDuelists DEF Teams
  <2>2. /\ state' \in States /\ state'.tag = "ChoosingTurn"
        /\ state'.turnChooser = seat[<<winner, 0>>]
    BY <1>6, <2>1, ChoosingType, SeatedType
  <2>3. state'.tag \in GameTags
    BY <2>2 DEF GameTags, Tags
  <2> QED BY <1>1, <1>3, <2>1, <2>2, <2>3, GameFrame
<1> QED BY <1>2, <1>4, <1>5, <1>6

LEMMA NextDuelStateType ==
    ASSUME Inv, state.tag \in GameTags, NEW winner \in 0..2
    PROVE  /\ NextDuelState(winner) \in States
           /\ NextDuelState(winner).tag \in {"Rematching", "Sidedecking"}
           /\ NextDuelState(winner).turnChooser \in Seated
           /\ NextDuelState(winner).answered = {}
<1>1. turnDecider(winner) \in Seated
  <2>1. winner # 2 => 1 - winner \in Teams
    BY DEF Teams
  <2> QED BY <2>1, FirstDuelists DEF turnDecider, Teams
<1>2. turnDecider(winner) \in Clients
  BY <1>1, SeatedType
<1> DEFINE tag == IF BestOf = 1 THEN "Rematching" ELSE "Sidedecking"
<1>3. tag \in Tags /\ tag \in {"Rematching", "Sidedecking"}
  BY DEF Tags
<1>4. NextDuelState(winner) = [In(tag) EXCEPT !.turnChooser = turnDecider(winner)]
  BY DEF NextDuelState
<1> HIDE DEF tag
<1> QED BY <1>1, <1>2, <1>3, <1>4 DEF In, States, Teams

LEMMA FinishScoredInv ==
    ASSUME Inv, state.tag \in GameTags,
           NEW winner \in 0..2, NEW kill \in BOOLEAN, FinishScored(winner, kill),
           UNCHANGED <<position, clientData, isStarted, conn, kicked, lobbyVars>>
    PROVE  Inv'
<1> DEFINE score == NewScore(winner, kill)
<1>1. wins' = score /\ score \in [Teams -> Nat]
  <2>1. \A t \in Teams : wins[t] \in Nat /\ score[t] \in Nat
    BY NeededWinsType DEF NewScore, Inv, TypeOK
  <2> QED BY <2>1 DEF NewScore, FinishScored
<1> HIDE DEF score
<1>2. CASE EnterClosing
  BY <1>1, <1>2, EnterClosingInv DEF Inv, TypeOK, lobbyVars
<1>3. CASE ~EnterClosing
  <2>1. /\ ~Decided(score) /\ state' = NextDuelState(winner)
        /\ UNCHANGED <<seat, spectators, shut>>
    BY <1>3 DEF FinishScored, score
  <2>2. \A t \in Teams : wins'[t] < neededWins
    BY <1>1, <2>1, NeededWinsType DEF Decided
  <2>3. state'.tag \in GameTags
    BY <2>1, NextDuelStateType DEF GameTags, Tags
  <2> QED BY <1>1, <2>1, <2>2, <2>3, NextDuelStateType, GameFrame DEF members
<1> QED BY <1>2, <1>3

LEMMA ProcessInv ==
    ASSUME Inv, state.tag \in GameTags, Process,
           UNCHANGED <<position, clientData, isStarted, conn, kicked, lobbyVars>>
    PROVE  Inv'
<1>1. wins \in [Teams -> Nat] /\ \A t \in Teams : wins[t] < neededWins
  BY DEF Inv, TypeOK, ScoreInv, GameTags
<1>2. CASE \E r \in Seated : state' = DuelAwaiting(r)
                             /\ UNCHANGED <<seat, spectators, shut, wins>>
  <2>1. PICK r \in Seated : state' = DuelAwaiting(r)
    BY <1>2
  <2>2. state' \in States /\ state'.tag = "Dueling" /\ state'.replier = r
    BY <2>1, AwaitingType, SeatedType
  <2>3. state'.tag \in GameTags
    BY <2>2 DEF GameTags, Tags
  <2> QED BY <1>1, <1>2, <2>2, <2>3, GameFrame DEF members
<1>3. CASE \E winner \in 0..2, kill \in BOOLEAN : FinishScored(winner, kill)
  BY <1>3, FinishScoredInv
<1>4. CASE FinishCrashed
  <2>1. state' = NextDuelState(2) /\ UNCHANGED <<seat, spectators, shut, wins>>
    BY <1>4 DEF FinishCrashed
  <2>2. /\ state' \in States
        /\ state'.tag \in {"Rematching", "Sidedecking"}
        /\ state'.turnChooser \in Seated
        /\ state'.answered = {}
    BY <2>1, NextDuelStateType
  <2>3. state'.tag \in GameTags
    BY <2>2 DEF GameTags, Tags
  <2> QED BY <1>1, <2>1, <2>2, <2>3, GameFrame DEF members
<1> QED BY <1>2, <1>3, <1>4 DEF Process

LEMMA TagsOfAGame ==
    {"ChoosingTurn", "Dueling", "Rematching", "Sidedecking"} \subseteq GameTags
BY DEF GameTags, Tags

LEMMA ChooseTurnInv ==
    ASSUME Inv, NEW c \in Clients, ChooseTurn(c) PROVE Inv'
BY ProcessInv, TagsOfAGame DEF ChooseTurn, InState

LEMMA ResponseInv ==
    ASSUME Inv, NEW c \in Clients, Response(c) PROVE Inv'
BY ProcessInv, TagsOfAGame DEF Response, InState

LEMMA SurrenderInv ==
    ASSUME Inv, NEW c \in Clients, Surrender(c) PROVE Inv'
<1>0. /\ conn[c] = "open" /\ state.tag = "Dueling" /\ state.tag \in GameTags
      /\ UNCHANGED <<position, clientData, isStarted, conn, kicked, lobbyVars>>
  BY TagsOfAGame DEF Surrender, InState
<1>1. CASE position[c] = SPECTATOR
  <2>1. /\ shut' = [shut EXCEPT ![c] = TRUE]
        /\ spectators' = spectators \ {c}
        /\ UNCHANGED <<state, seat, wins>>
    BY <1>1 DEF Surrender
  <2> USE DEF clientData, lobbyVars
  <2>2. TypeOK' /\ RosterSound'
    BY <1>0, <2>1 DEF Inv, TypeOK, RosterSound
  <2>3. Unseen'
    BY <1>0, <2>1 DEF Inv, TypeOK, Unseen
  <2>4. HostInv' /\ ScoreInv' /\ ClosedInv'
    BY <1>0, <2>1 DEF Inv, HostInv, ScoreInv, ClosedInv
  <2>5. LineupComplete' /\ AnsweredInv'
    BY <1>0, <2>1 DEF Inv, LineupComplete, AnsweredInv, Taken, Seated
  <2>6. NobodyStranded'
    <3>1. Seated' = Seated
      BY <2>1 DEF Seated
    <3> QED BY <1>0, <2>1, <3>1 DEF Inv, TypeOK, NobodyStranded
  <2>7. ShutInv'
    BY <1>0, <1>1, <2>1 DEF Inv, TypeOK, ShutInv
  <2> QED BY <2>2, <2>3, <2>4, <2>5, <2>6, <2>7 DEF Inv
<1>2. CASE position[c] # SPECTATOR
  <2>1. PICK kill \in BOOLEAN : FinishScored(1 - position[c][1], kill)
    BY <1>2 DEF Surrender
  <2>2. 1 - position[c][1] \in 0..2
    BY <1>2, SeatFacts DEF Inv, TypeOK, Teams
  <2> QED BY <1>0, <2>1, <2>2, FinishScoredInv
<1> QED BY <1>1, <1>2

LEMMA TimerExpiredInv ==
    ASSUME Inv, NEW t \in Teams, TimerExpired(t) PROVE Inv'
<1>1. 1 - t \in 0..2
  BY DEF Teams
<1> QED BY <1>1, FinishScoredInv, TagsOfAGame DEF TimerExpired

\* While nobody has been kicked, whoever has a position in a game is a duelist.
LEMMA PositionMeansSeated ==
    ASSUME Inv, state.tag \in GameTags, kicked = {},
           NEW c \in Clients, conn[c] = "open", position[c] # SPECTATOR
    PROVE  c \in Seated
BY DEF Inv, NobodyStranded, ShutInv, RosterSound, GameTags

LEMMA AgreeInv ==
    ASSUME Inv, state.tag \in {"Rematching", "Sidedecking"},
           NEW c \in Clients, conn[c] = "open", position[c] # SPECTATOR, Agree(c),
           UNCHANGED <<members, clientData, isStarted, wins, conn, shut, kicked, lobbyVars>>
    PROVE  Inv'
<1> DEFINE answered == state.answered \cup {c}
<1>1. /\ state.tag \in GameTags /\ state.turnChooser \in Seated
      /\ wins' \in [Teams -> Nat] /\ \A t \in Teams : wins'[t] < neededWins
  BY TagsOfAGame DEF Inv, TypeOK, LineupComplete, ScoreInv, GameTags
<1>2. \/ state' = ChoosingBy(state.turnChooser)
      \/ state' = [state EXCEPT !.answered = answered]
  BY DEF Agree
<1>3. CASE state' = ChoosingBy(state.turnChooser)
  <2>1. /\ state' \in States /\ state'.tag = "ChoosingTurn"
        /\ state'.turnChooser = state.turnChooser
    BY <1>1, <1>3, ChoosingType, SeatedType
  <2> QED BY <1>1, <2>1, TagsOfAGame, GameFrame
<1>4. CASE state' = [state EXCEPT !.answered = answered]
  <2>1. /\ state' \in States /\ state'.tag = state.tag
        /\ state'.turnChooser = state.turnChooser
        /\ state'.answered = answered
    BY <1>4 DEF Inv, TypeOK, States
  <2>2. kicked = {} => answered \subseteq Seated
    BY <1>1, PositionMeansSeated DEF Inv, AnsweredInv
  <2> QED BY <1>1, <2>1, <2>2, GameFrame
<1> QED BY <1>2, <1>3, <1>4

LEMMA RematchInv ==
    ASSUME Inv, NEW c \in Clients, NEW v \in BOOLEAN, Rematch(c, v) PROVE Inv'
<1>0. /\ conn[c] = "open" /\ state.tag = "Rematching" /\ position[c] # SPECTATOR
      /\ UNCHANGED <<position, clientData, isStarted, wins, conn, kicked, lobbyVars>>
  BY DEF Rematch, InState
<1>1. CASE v
  BY <1>0, <1>1, AgreeInv DEF Rematch, members
<1>2. CASE ~v
  BY <1>0, <1>2, EnterClosingInv DEF Rematch, Inv, TypeOK, lobbyVars
<1> QED BY <1>1, <1>2

LEMMA SideDeckInv ==
    ASSUME Inv, NEW c \in Clients, SideDeck(c) PROVE Inv'
BY AgreeInv DEF SideDeck, InState

-----------------------------------------------------------------------------
(***************************************************************************)
(* Lost connections and the lobby's request to close.                      *)
(***************************************************************************)
\* A client that was a spectator only is forgotten.
LEMMA SpectatorLostInv ==
    ASSUME Inv, NEW c \in Clients, conn[c] = "open", position[c] = SPECTATOR,
           state.tag = "Waiting" => state.host # c,
           conn' = [conn EXCEPT ![c] = "gone"],
           spectators' = spectators \ {c},
           UNCHANGED <<state, seat, shut, position, clientData, isStarted, wins,
                       kicked, lobbyVars>>
    PROVE  Inv'
<1> USE DEF clientData, lobbyVars
<1>1. TypeOK'
  BY DEF Inv, TypeOK
<1>2. RosterSound'
  <2>1. \A p \in Seats : seat[p] # c
    BY SeatFacts, ClientsAssumption DEF Inv, RosterSound
  <2> QED BY <2>1 DEF Inv, TypeOK, RosterSound
<1>3. Unseen' /\ HostInv'
  BY DEF Inv, TypeOK, Unseen, HostInv, States
<1>4. LineupComplete' /\ ScoreInv' /\ AnsweredInv' /\ ShutInv' /\ ClosedInv'
  BY DEF Inv, LineupComplete, ScoreInv, AnsweredInv, ShutInv, ClosedInv, Taken, Seated
<1>5. NobodyStranded'
  BY DEF Inv, TypeOK, NobodyStranded, Seated
<1> QED BY <1>1, <1>2, <1>3, <1>4, <1>5 DEF Inv

LEMMA ConnectionLostInv ==
    ASSUME Inv, NEW c \in Clients, ConnectionLost(c) PROVE Inv'
<1>0. /\ conn[c] = "open" /\ conn' = [conn EXCEPT ![c] = "gone"]
      /\ UNCHANGED <<position, clientData, isStarted, wins, kicked, lobbyVars>>
  BY DEF ConnectionLost
<1>a. /\ conn' \in [Clients -> {"idle", "joining", "open", "gone"}]
      /\ \A d \in Clients : conn'[d] \in {"idle", "joining"} => conn'[d] = conn[d]
      /\ wins' \in [Teams -> Nat] /\ closing' \in BOOLEAN /\ UNCHANGED listed
  BY <1>0 DEF Inv, TypeOK, lobbyVars
<1>1. CASE EnterClosing
  BY <1>0, <1>a, <1>1, EnterClosingInv
<1>2. CASE ~EnterClosing /\ state.tag # "Closing" /\ position[c] = SPECTATOR
  <2>1. /\ spectators' = spectators \ {c}
        /\ UNCHANGED <<state, seat, shut>>
        /\ state.tag = "Waiting" => state.host # c
    BY <1>2 DEF ConnectionLost, LoseWhileWaiting, LoseDuringGame, LoseWhileClosing,
                GameTags
  <2> QED BY <1>0, <1>2, <2>1, SpectatorLostInv
<1>3. CASE ~EnterClosing /\ state.tag # "Closing" /\ position[c] # SPECTATOR
  <2>1. /\ state.tag = "Waiting" /\ state.host # c
        /\ seat' = Vacated(position[c])
        /\ UNCHANGED <<state, spectators, shut>>
    BY <1>3 DEF ConnectionLost, LoseWhileWaiting, LoseDuringGame, LoseWhileClosing
  <2>2. /\ position[c] \in Seats
        /\ seat' = [p \in Seats |-> IF p = position[c] THEN NoClient ELSE seat[p]]
    BY <1>3, <2>1 DEF Inv, TypeOK, Vacated
  <2> USE DEF clientData, lobbyVars
  <2>3. TypeOK'
    BY <1>0, <1>a, <2>1, <2>2 DEF Inv, TypeOK
  <2>4. RosterSound'
    <3>1. \A p \in Seats : seat'[p] # c
      BY <2>2, ClientsAssumption DEF Inv, RosterSound
    <3>2. c \notin spectators
      BY <1>3 DEF Inv, RosterSound
    <3> QED BY <1>0, <2>1, <2>2, <3>1, <3>2 DEF Inv, TypeOK, RosterSound
  <2>5. Unseen' /\ HostInv'
    BY <1>0, <2>1 DEF Inv, TypeOK, Unseen, HostInv, States
  <2>6. LineupComplete' /\ ScoreInv' /\ AnsweredInv' /\ ShutInv' /\ ClosedInv'
    BY <1>0, <2>1 DEF Inv, LineupComplete, ScoreInv, AnsweredInv, ShutInv, ClosedInv,
                      GameTags
  <2>7. NobodyStranded'
    <3> SUFFICES ASSUME kicked = {}, NEW d \in Clients, conn[d] = "open", d # c
                 PROVE  d \in Seated' \/ d \in spectators' \/ shut'[d]
      BY <1>0 DEF NobodyStranded, Inv, TypeOK
    <3>1. seat[position[c]] = c
      BY <1>0, <1>3, <2>1, SitsAtPosition
    <3>2. d \in Seated => d \in Seated'
      BY <2>2, <3>1 DEF Seated
    <3> QED BY <2>1, <3>2 DEF Inv, NobodyStranded
  <2> QED BY <2>3, <2>4, <2>5, <2>6, <2>7 DEF Inv
<1>4. CASE ~EnterClosing /\ state.tag = "Closing"
  <2>1. UNCHANGED <<state, seat, spectators, shut>>
    BY <1>4 DEF ConnectionLost, LoseWhileWaiting, LoseDuringGame, LoseWhileClosing,
                GameTags
  <2> USE DEF clientData, lobbyVars
  <2>2. TypeOK' /\ Unseen'
    BY <1>0, <2>1 DEF Inv, TypeOK, Unseen
  <2>3. RosterSound' /\ ClosedInv'
    BY <1>0, <1>4, <2>1 DEF Inv, RosterSound, ClosedInv
  <2>4. HostInv' /\ LineupComplete' /\ ScoreInv' /\ AnsweredInv'
    BY <1>4, <2>1 DEF HostInv, LineupComplete, ScoreInv, AnsweredInv, GameTags
  <2>5. NobodyStranded' /\ ShutInv'
    BY <1>4, <2>1 DEF NobodyStranded, ShutInv, GameTags
  <2> QED BY <2>2, <2>3, <2>4, <2>5 DEF Inv
<1> QED BY <1>1, <1>2, <1>3, <1>4

LEMMA LobbyCloseInv == ASSUME Inv, LobbyClose PROVE Inv'
<1> USE DEF LobbyClose, members, clientData
<1>1. TypeOK' /\ RosterSound' /\ Unseen' /\ HostInv'
  BY DEF Inv, TypeOK, RosterSound, Unseen, HostInv
<1>2. LineupComplete' /\ ScoreInv' /\ AnsweredInv' /\ ShutInv' /\ ClosedInv'
  BY DEF Inv, LineupComplete, ScoreInv, AnsweredInv, ShutInv, ClosedInv, Taken, Seated
<1>3. NobodyStranded'
  BY DEF Inv, NobodyStranded, Seated
<1> QED BY <1>1, <1>2, <1>3 DEF Inv

LEMMA CloseInv == ASSUME Inv, Close PROVE Inv'
<1>0. /\ closing' = FALSE
      /\ UNCHANGED <<position, clientData, isStarted, wins, conn, kicked, listed>>
  BY DEF Close
<1>1. CASE EnterClosing
  BY <1>0, <1>1, EnterClosingInv DEF Inv, TypeOK
<1>2. CASE UNCHANGED <<state, seat, spectators, shut>>
  <2> USE <1>0, <1>2 DEF clientData
  <2>1. TypeOK' /\ RosterSound' /\ Unseen' /\ HostInv'
    BY DEF Inv, TypeOK, RosterSound, Unseen, HostInv
  <2>2. LineupComplete' /\ ScoreInv' /\ AnsweredInv' /\ ShutInv' /\ ClosedInv'
    BY DEF Inv, LineupComplete, ScoreInv, AnsweredInv, ShutInv, ClosedInv, Taken, Seated
  <2>3. NobodyStranded'
    BY DEF Inv, NobodyStranded, Seated
  <2> QED BY <2>1, <2>2, <2>3 DEF Inv
<1> QED BY <1>1, <1>2 DEF Close

LEMMA StutterInv == ASSUME Inv, UNCHANGED vars PROVE Inv'
<1> USE DEF vars
<1>1. TypeOK' /\ RosterSound' /\ Unseen' /\ HostInv'
  BY DEF Inv, TypeOK, RosterSound, Unseen, HostInv
<1>2. LineupComplete' /\ ScoreInv' /\ AnsweredInv' /\ ShutInv' /\ ClosedInv'
  BY DEF Inv, LineupComplete, ScoreInv, AnsweredInv, ShutInv, ClosedInv, Taken, Seated
<1>3. NobodyStranded'
  BY DEF Inv, NobodyStranded, Seated
<1> QED BY <1>1, <1>2, <1>3 DEF Inv

-----------------------------------------------------------------------------
(***************************************************************************)
(* The theorems.                                                           *)
(***************************************************************************)
\* Every step of the room, whoever takes it, keeps the invariant.
LEMMA InvStep == Inv /\ [Next]_vars => Inv'
<1> SUFFICES ASSUME Inv, [Next]_vars PROVE Inv'
  OBVIOUS
<1>1. ASSUME NEW c \in Clients, ClientStep(c) PROVE Inv'
  <2>1. CASE Connect(c)                        BY <2>1, ConnectInv
  <2>2. CASE Join(c)                           BY <2>2, JoinInv
  <2>3. CASE ToDuelist(c)                      BY <2>3, ToDuelistInv
  <2>4. CASE ToObserver(c)                     BY <2>4, ToObserverInv
  <2>5. CASE \E v \in BOOLEAN : Ready(c, v)    BY <2>5, ReadyInv
  <2>6. CASE \E v \in BOOLEAN : UpdateDeck(c, v)
    BY <2>6, UpdateDeckInv
  <2>7. CASE \E pos \in 0..T0Count + T1Count : TryKick(c, pos)
    BY <2>7, TryKickInv
  <2>8. CASE TryStart(c)                       BY <2>8, TryStartInv
  <2>9. CASE \E v \in 0..3 : ChooseRPS(c, v)   BY <2>9, ChooseRPSInv
  <2>10. CASE ChooseTurn(c)                    BY <2>10, ChooseTurnInv
  <2>11. CASE Response(c)                      BY <2>11, ResponseInv
  <2>12. CASE Surrender(c)                     BY <2>12, SurrenderInv
  <2>13. CASE \E v \in BOOLEAN : Rematch(c, v) BY <2>13, RematchInv
  <2>14. CASE SideDeck(c)                      BY <2>14, SideDeckInv
  <2>15. CASE ConnectionLost(c)                BY <2>15, ConnectionLostInv
  <2> QED BY <1>1, <2>1, <2>2, <2>3, <2>4, <2>5, <2>6, <2>7, <2>8, <2>9, <2>10,
             <2>11, <2>12, <2>13, <2>14, <2>15 DEF ClientStep
<1>2. CASE \E t \in Teams : TimerExpired(t)    BY <1>2, TimerExpiredInv
<1>3. CASE LobbyClose                          BY <1>3, LobbyCloseInv
<1>4. CASE Close                               BY <1>4, CloseInv
<1>5. CASE UNCHANGED vars                      BY <1>5, StutterInv
<1> QED BY <1>1, <1>2, <1>3, <1>4, <1>5 DEF Next

\* The invariant holds in every reachable state, for any clients and options.
THEOREM Invariance == Spec => []Inv
BY InitInv, InvStep, PTL DEF Spec

\* The variables of a room keep their types.
THEOREM TypeCorrect == Spec => []TypeOK
<1>1. Inv => TypeOK
  BY DEF Inv
<1> QED BY <1>1, Invariance, PTL

\* No Client pointer of the room dangles, and roster and clients agree.
THEOREM RosterSafety == Spec => []RosterSound
<1>1. Inv => RosterSound
  BY DEF Inv
<1> QED BY <1>1, Invariance, PTL

\* The waiting room always has a connected host.
THEOREM HostSafety == Spec => []HostPresent
<1>1. Inv => HostPresent
  BY DEF Inv, HostInv, HostPresent
<1> QED BY <1>1, Invariance, PTL

\* Whoever a running game looks up among the duelists is there.
THEOREM LineupSafety == Spec => []LineupComplete
<1>1. Inv => LineupComplete
  BY DEF Inv
<1> QED BY <1>1, Invariance, PTL

\* A decided match is over.
THEOREM MatchSafety == Spec => []MatchUndecided
<1>1. Inv => MatchUndecided
  BY DEF Inv, ScoreInv, MatchUndecided, GameTags
<1> QED BY <1>1, Invariance, PTL

\* Without kicks the room never forgets a connected client.
THEOREM StrandSafety == Spec => []NobodyStranded
<1>1. Inv => NobodyStranded
  BY DEF Inv
<1> QED BY <1>1, Invariance, PTL

-----------------------------------------------------------------------------
(***************************************************************************)
(* Consent.                                                                *)
(***************************************************************************)
LEMMA SeatsFinite == IsFiniteSet(Seats)
<1> DEFINE square == (0..1) \X (0..2)
<1>1. IsFiniteSet(0..1) /\ IsFiniteSet(0..2)
  <2>1. 0 \in Int /\ 1 \in Int /\ 2 \in Int
    OBVIOUS
  <2>2. \A a, b \in Int : IsFiniteSet(a..b)
    BY FS_Interval, Zenon
  <2> QED BY <2>1, <2>2, Zenon
<1>2. IsFiniteSet(square)
  BY <1>1, FS_Product
<1>3. Seats \subseteq square
  BY SeatFacts DEF Teams
<1> QED BY <1>2, <1>3, FS_Subset

\* duelists.size() is the number of the duelists: nobody sits twice.
LEMMA SeatedCount ==
    ASSUME Inv
    PROVE  /\ IsFiniteSet(Seated)
           /\ Cardinality(Seated) = Cardinality(Taken(0) \cup Taken(1))
<1> DEFINE T == Taken(0) \cup Taken(1)
           f == [p \in T |-> seat[p]]
<1>1. T = {p \in Seats : seat[p] # NoClient}
  BY SeatFacts DEF Taken, TeamSeats, Teams
<1>2. IsFiniteSet(T)
  BY <1>1, SeatsFinite, FS_Subset
<1>3. f \in Bijection(T, Seated)
  <2>1. f \in [T -> Seated] /\ \A d \in Seated : \E p \in T : f[p] = d
    BY <1>1 DEF Seated
  <2>2. \A p, q \in T : f[p] = f[q] => p = q
    BY <1>1 DEF Inv, RosterSound
  <2> QED BY <2>1, <2>2 DEF Bijection, Injection, Surjection, IsInjective
<1>4. ExistsBijection(T, Seated)
  BY <1>3 DEF ExistsBijection
<1> QED BY <1>2, <1>4, FS_Bijection

\* Agree goes on to the next duel exactly when everybody has answered.
LEMMA AgreeConsent ==
    ASSUME Inv, kicked = {}, state.tag \in {"Rematching", "Sidedecking"},
           NEW c \in Clients, conn[c] = "open", position[c] # SPECTATOR, Agree(c),
           state'.tag = "ChoosingTurn"
    PROVE  state.answered \cup {c} = Seated
<1> DEFINE answered == state.answered \cup {c}
<1>1. Cardinality(answered) = Cardinality(Taken(0) \cup Taken(1))
  <2>1. [state EXCEPT !.answered = answered].tag = state.tag
    BY DEF Inv, TypeOK, States
  <2> QED BY <2>1 DEF Agree
<1>2. answered \subseteq Seated
  BY PositionMeansSeated, TagsOfAGame DEF Inv, AnsweredInv
<1> QED BY <1>1, <1>2, SeatedCount, FS_Subset

ConsentStep ==
    state.tag \in {"Rematching", "Sidedecking"} /\ state'.tag = "ChoosingTurn"
      /\ kicked = {} => \E c \in Clients : state.answered \cup {c} = Seated

LEMMA ConsentAction == Inv /\ [Next]_vars => [ConsentStep]_vars
<1> SUFFICES ASSUME Inv, [Next]_vars, kicked = {},
                    state.tag \in {"Rematching", "Sidedecking"},
                    state'.tag = "ChoosingTurn"
             PROVE  \E c \in Clients : state.answered \cup {c} = Seated
  BY DEF ConsentStep
<1>1. state' # state
  OBVIOUS
<1>2. ~EnterClosing
  BY InType DEF EnterClosing, Tags
<1>3. PICK c \in Clients : SideDeck(c) \/ \E v \in BOOLEAN : Rematch(c, v)
  BY <1>1, <1>2, TagsOfAGame
     DEF Next, ClientStep, vars, Connect, Join, JoinWaiting, JoinStarted,
         JoinClosing, ToDuelist, ToObserver, Ready, UpdateDeck, TryKick, TryStart,
         InWaiting, InState, ChooseRPS, ChooseTurn, Response, Surrender,
         ConnectionLost, LoseWhileWaiting, LoseDuringGame, LoseWhileClosing,
         TimerExpired, LobbyClose, Close
<1>4. /\ conn[c] = "open" /\ position[c] # SPECTATOR
      /\ Agree(c)
  BY <1>2, <1>3 DEF SideDeck, Rematch, InState
<1> QED BY <1>4, AgreeConsent

\* A rematch and the next duel of a match start only with everybody's consent.
THEOREM ConsentSafety == Spec => UnanimousConsent
<1>1. [][ConsentStep]_vars => UnanimousConsent
  BY PTL DEF UnanimousConsent, ConsentStep
<1> QED BY <1>1, Invariance, ConsentAction, PTL DEF Spec

-----------------------------------------------------------------------------
(***************************************************************************)
(* The room implements RoomPromise: a step of the room is a step of the    *)
(* promise (Begin, Score or GiveUp) or leaves it alone.                    *)
(***************************************************************************)

Quiet == UNCHANGED <<roomPhase, roomLineup, wins>>
Kept == Promise!PNext \/ Quiet

\* A step that stays in the waiting room, in the game with the same seating,
\* or in the closed room, keeps quiet.
LEMMA QuietStep ==
    ASSUME \/ state'.tag = state.tag
           \/ state.tag \in GameTags /\ state'.tag \in GameTags,
           state.tag \in GameTags => seat' = seat,
           wins' = wins
    PROVE  Quiet
<1>1. CASE state.tag \in GameTags /\ state'.tag \in GameTags
  BY <1>1 DEF Quiet, roomPhase, roomLineup, GameTags, Tags
<1>2. CASE state'.tag = state.tag /\ state.tag \notin GameTags
  BY <1>2 DEF Quiet, roomPhase, roomLineup
<1> QED BY <1>1, <1>2

LEMMA GiveUpStep ==
    ASSUME Inv, state.tag # "Closing", EnterClosing, wins' = wins
    PROVE  Kept
<1>1. state.tag \in Tags
  BY DEF Inv, TypeOK, States
<1>2. state'.tag = "Closing"
  BY InType DEF EnterClosing, Tags
<1>3. roomPhase # "over" /\ roomPhase' = "over"
  BY <1>1, <1>2 DEF roomPhase
<1>4. roomLineup' = [p \in Seats |-> NoClient]
  BY <1>2 DEF roomLineup, GameTags
<1> QED BY <1>3, <1>4 DEF Kept, Promise!PNext, Promise!GiveUp, Promise!NoLineup

LEMMA BeginStep ==
    ASSUME Inv, Inv', NEW c \in Clients, TryStart(c)
    PROVE  Kept
<1>1. state.tag = "Waiting" /\ state'.tag = "RockPaperScissor" /\ wins' = wins
  BY InType DEF TryStart, InWaiting, Tags
<1>2. state'.tag \in GameTags
  BY <1>1 DEF GameTags, Tags
<1>3. roomPhase = "gathering" /\ roomPhase' = "playing" /\ roomLineup' = seat'
  BY <1>1, <1>2 DEF roomPhase, roomLineup
<1>4. Promise!Legal(seat')
  <2>1. seat' \in [Seats -> Clients \cup {NoClient}]
    BY DEF Inv, TypeOK
  <2>2. seat'[<<0, 0>>] # NoClient /\ seat'[<<1, 0>>] # NoClient
    BY <1>2 DEF Inv, LineupComplete, Teams
  <2>3. \A p, q \in Seats : seat'[p] = seat'[q] /\ seat'[p] # NoClient => p = q
    BY DEF Inv, RosterSound
  <2> QED BY <2>1, <2>2, <2>3 DEF Promise!Legal
<1> QED BY <1>1, <1>3, <1>4 DEF Kept, Promise!PNext, Promise!Begin

\* A finished duel scores, or a draw or a single duel leaves the score alone.
LEMMA ScoreStep ==
    ASSUME Inv, state.tag \in GameTags,
           NEW winner \in 0..2, NEW kill \in BOOLEAN, FinishScored(winner, kill)
    PROVE  Kept
<1> DEFINE score == NewScore(winner, kill)
<1>1. /\ wins' = score
      /\ \/ Decided(score) /\ EnterClosing
         \/ /\ ~Decided(score)
            /\ state' = NextDuelState(winner)
            /\ UNCHANGED <<seat, spectators, shut>>
  BY DEF FinishScored
<1>2. /\ wins \in [Teams -> Nat] /\ \A t \in Teams : wins[t] < neededWins
      /\ roomPhase = "playing" /\ roomLineup = seat
  BY DEF Inv, TypeOK, ScoreInv, GameTags, roomPhase, roomLineup
<1>3. NextDuelState(winner).tag \in GameTags
  BY NextDuelStateType, TagsOfAGame
<1>4. CASE BestOf > 1 /\ winner # 2
  <2>1. winner \in Teams
    BY <1>4 DEF Teams
  <2>2. \E points \in {1, neededWins} :
           score = [wins EXCEPT ![winner] = wins[winner] + points]
    BY <1>2, <1>4 DEF NewScore
  <2>3. Decided(score) <=> score[winner] >= neededWins
    <3>1. \A t \in Teams \ {winner} : score[t] = wins[t]
      BY DEF NewScore
    <3> QED BY <1>2, <2>1, <3>1, NeededWinsType DEF Decided
  <2>4. CASE Decided(score)
    <3>1. EnterClosing
      BY <1>1, <2>4
    <3>2. state'.tag = "Closing"
      BY <3>1, InType DEF EnterClosing, Tags
    <3>3. roomPhase' = "over" /\ roomLineup' = [p \in Seats |-> NoClient]
      BY <3>2 DEF roomPhase, roomLineup, GameTags
    <3> HIDE DEF score
    <3>4. Promise!Score(winner)
      BY <1>1, <1>2, <2>2, <2>3, <2>4, <3>3 DEF Promise!Score, Promise!NoLineup
    <3> QED BY <2>1, <3>4 DEF Kept, Promise!PNext, Teams
  <2>5. CASE ~Decided(score)
    <3>1. roomPhase' = "playing" /\ roomLineup' = seat
      BY <1>1, <1>3, <2>5 DEF roomPhase, roomLineup, GameTags
    <3> HIDE DEF score
    <3>2. Promise!Score(winner)
      BY <1>1, <1>2, <2>2, <2>3, <2>5, <3>1 DEF Promise!Score
    <3> QED BY <2>1, <3>2 DEF Kept, Promise!PNext, Teams
  <2> QED BY <2>4, <2>5
<1>5. CASE ~(BestOf > 1 /\ winner # 2)
  <2>1. score = wins
    BY <1>2, <1>5 DEF NewScore, Teams
  <2>2. ~Decided(score)
    BY <1>2, <2>1, NeededWinsType DEF Decided
  <2> QED BY <1>1, <1>3, <2>1, <2>2, QuietStep DEF Kept
<1> QED BY <1>4, <1>5

LEMMA ProcessStep ==
    ASSUME Inv, state.tag \in GameTags, Process
    PROVE  Kept
<1>1. CASE \E r \in Seated : state' = DuelAwaiting(r)
                             /\ UNCHANGED <<seat, spectators, shut, wins>>
  <2>1. state'.tag = "Dueling"
    BY <1>1, AwaitingType, SeatedType
  <2> QED BY <1>1, <2>1, TagsOfAGame, QuietStep DEF Kept
<1>2. CASE \E winner \in 0..2, kill \in BOOLEAN : FinishScored(winner, kill)
  BY <1>2, ScoreStep
<1>3. CASE FinishCrashed
  <2>1. state'.tag \in GameTags /\ UNCHANGED <<seat, wins>>
    BY <1>3, NextDuelStateType, TagsOfAGame DEF FinishCrashed
  <2> QED BY <2>1, QuietStep DEF Kept
<1> QED BY <1>1, <1>2, <1>3 DEF Process

\* Steps of the waiting room that are neither the start nor the end.
LEMMA WaitingStep ==
    ASSUME Inv, state.tag = "Waiting", NEW c \in Clients,
           \/ ToDuelist(c) \/ ToObserver(c)
           \/ \E v \in BOOLEAN : Ready(c, v) \/ UpdateDeck(c, v)
           \/ \E pos \in 0..T0Count + T1Count : TryKick(c, pos)
    PROVE  Kept
<1>1. state' = state /\ wins' = wins
  BY DEF ToDuelist, ToObserver, Ready, UpdateDeck, TryKick
<1>2. state.tag \notin GameTags
  BY DEF GameTags
<1> QED BY <1>1, <1>2, QuietStep DEF Kept

LEMMA JoinStep ==
    ASSUME Inv, NEW c \in Clients, Join(c)
    PROVE  Kept
<1>1. wins' = wins
  BY DEF Join
<1>2. CASE JoinWaiting(c)
  <2>1. state'.tag = state.tag /\ state.tag \notin GameTags
    BY <1>2 DEF JoinWaiting, GameTags, Inv, TypeOK, States
  <2> QED BY <1>1, <2>1, QuietStep DEF Kept
<1>3. CASE JoinStarted(c) \/ JoinClosing(c)
  BY <1>1, <1>3, QuietStep DEF Kept, JoinStarted, JoinClosing, members
<1> QED BY <1>2, <1>3 DEF Join

LEMMA ChooseRPSStep ==
    ASSUME Inv, NEW c \in Clients, NEW v \in 0..3, ChooseRPS(c, v), Inv'
    PROVE  Kept
<1>1. state.tag = "RockPaperScissor" /\ wins' = wins /\ seat' = seat
  BY DEF ChooseRPS, InState, members
<1>2. state'.tag \in {"RockPaperScissor", "ChoosingTurn"}
  <2> DEFINE choices == [state.choices EXCEPT ![position[c][1]] = v]
  <2>1. \/ state' = [state EXCEPT !.choices = choices]
        \/ state' = In("RockPaperScissor")
        \/ \E d : state' = ChoosingBy(d)
    BY DEF ChooseRPS
  <2>2. CASE state' = [state EXCEPT !.choices = choices]
    <3> HIDE DEF choices
    <3> QED BY <1>1, <2>2 DEF Inv, TypeOK, States
  <2>3. CASE state' = In("RockPaperScissor") \/ \E d : state' = ChoosingBy(d)
    BY <2>3 DEF ChoosingBy, In
  <2> QED BY <2>1, <2>2, <2>3
<1>3. {"RockPaperScissor", "ChoosingTurn"} \subseteq GameTags
  BY DEF GameTags, Tags
<1> QED BY <1>1, <1>2, <1>3, QuietStep DEF Kept

LEMMA AgreeStep ==
    ASSUME Inv, state.tag \in {"Rematching", "Sidedecking"},
           NEW c \in Clients, Agree(c), seat' = seat, wins' = wins
    PROVE  Kept
<1> DEFINE answered == state.answered \cup {c}
<1>1. \/ state' = ChoosingBy(state.turnChooser)
      \/ state' = [state EXCEPT !.answered = answered]
  BY DEF Agree
<1>2. CASE state' = ChoosingBy(state.turnChooser)
  <2>1. state'.tag = "ChoosingTurn"
    BY <1>2 DEF ChoosingBy, In
  <2> QED BY <2>1, TagsOfAGame, QuietStep DEF Kept
<1>3. CASE state' = [state EXCEPT !.answered = answered]
  <2>1. state'.tag = state.tag
    BY <1>3 DEF Inv, TypeOK, States
  <2> QED BY <2>1, QuietStep DEF Kept
<1> QED BY <1>1, <1>2, <1>3

\* Losing a client ends the room or takes a name off a list.
LEMMA ConnectionLostStep ==
    ASSUME Inv, NEW c \in Clients, ConnectionLost(c)
    PROVE  Kept
<1>1. wins' = wins
  BY DEF ConnectionLost
<1>2. CASE state.tag # "Closing" /\ EnterClosing
  BY <1>1, <1>2, GiveUpStep
<1>3. CASE ~(state.tag # "Closing" /\ EnterClosing)
  <2>1. state' = state /\ (state.tag \in GameTags => seat' = seat)
    BY <1>3 DEF ConnectionLost, LoseWhileWaiting, LoseDuringGame,
                LoseWhileClosing, GameTags
  <2> QED BY <1>1, <2>1, QuietStep DEF Kept
<1> QED BY <1>2, <1>3

\* Every step of the room keeps the promise.
LEMMA PromiseStep == Inv /\ Inv' /\ [Next]_vars => Kept
<1> SUFFICES ASSUME Inv, Inv', [Next]_vars PROVE Kept
  OBVIOUS
<1>1. ASSUME NEW c \in Clients, ClientStep(c) PROVE Kept
  <2>1. CASE Connect(c)
    BY <2>1, QuietStep DEF Connect, members, Kept
  <2>2. CASE Join(c)                  BY <2>2, JoinStep
  <2>3. CASE \/ ToDuelist(c) \/ ToObserver(c)
             \/ \E v \in BOOLEAN : Ready(c, v) \/ UpdateDeck(c, v)
             \/ \E pos \in 0..T0Count + T1Count : TryKick(c, pos)
    <3>1. state.tag = "Waiting"
      BY <2>3 DEF ToDuelist, ToObserver, Ready, UpdateDeck, TryKick, InWaiting
    <3> QED BY <2>3, <3>1, WaitingStep
  <2>4. CASE TryStart(c)              BY <2>4, BeginStep
  <2>5. CASE \E v \in 0..3 : ChooseRPS(c, v)
    BY <2>5, ChooseRPSStep
  <2>6. CASE ChooseTurn(c) \/ Response(c)
    <3>1. state.tag \in GameTags /\ Process
      BY <2>6, TagsOfAGame DEF ChooseTurn, Response, InState
    <3> QED BY <3>1, ProcessStep
  <2>7. CASE Surrender(c)
    <3>1. state.tag \in GameTags
      BY <2>7, TagsOfAGame DEF Surrender, InState
    <3>2. CASE position[c] = SPECTATOR
      BY <2>7, <3>2, QuietStep DEF Surrender, Kept
    <3>3. CASE position[c] # SPECTATOR
      <4>1. 1 - position[c][1] \in 0..2
        BY <3>3, SeatFacts DEF Inv, TypeOK, Teams
      <4>2. \E kill \in BOOLEAN : FinishScored(1 - position[c][1], kill)
        BY <2>7, <3>3 DEF Surrender
      <4> QED BY <3>1, <4>1, <4>2, ScoreStep
    <3> QED BY <3>2, <3>3
  <2>8. CASE \E v \in BOOLEAN : Rematch(c, v)
    <3>1. state.tag = "Rematching" /\ wins' = wins
      BY <2>8 DEF Rematch, InState
    <3>2. (Agree(c) /\ seat' = seat) \/ EnterClosing
      BY <2>8 DEF Rematch
    <3> QED BY <3>1, <3>2, AgreeStep, GiveUpStep
  <2>9. CASE SideDeck(c)
    BY <2>9, AgreeStep DEF SideDeck, InState, members
  <2>10. CASE ConnectionLost(c)       BY <2>10, ConnectionLostStep
  <2> QED BY <1>1, <2>1, <2>2, <2>3, <2>4, <2>5, <2>6, <2>7, <2>8, <2>9, <2>10
          DEF ClientStep
<1>2. ASSUME NEW t \in Teams, TimerExpired(t) PROVE Kept
  <2>1. 1 - t \in 0..2
    BY DEF Teams
  <2> QED BY <1>2, <2>1, ScoreStep, TagsOfAGame DEF TimerExpired
<1>3. CASE LobbyClose
  BY <1>3, QuietStep DEF LobbyClose, members, Kept
<1>4. CASE Close
  <2>1. CASE state.tag = "Waiting"
    <3>1. EnterClosing /\ wins' = wins
      BY <1>4, <2>1 DEF Close
    <3> QED BY <2>1, <3>1, GiveUpStep
  <2>2. CASE state.tag # "Waiting"
    BY <1>4, <2>2, QuietStep DEF Close, Kept
  <2> QED BY <2>1, <2>2
<1>5. CASE UNCHANGED vars
  BY <1>5, QuietStep DEF vars, members, Kept
<1> QED BY <1>1, <1>2, <1>3, <1>4, <1>5 DEF Next

\* The empty waiting room is what the promise starts from.
LEMMA PromiseInit == Init => Promise!PInit
<1> SUFFICES ASSUME Init PROVE Promise!PInit
  OBVIOUS
<1>1. state.tag = "Waiting"
  BY InType DEF Init, Tags
<1> QED BY <1>1 DEF Init, Promise!PInit, Promise!NoLineup, roomPhase, roomLineup,
               GameTags, Teams

\* A room gathers, plays one match with a fixed and legal line-up, and ends:
\* Room implements RoomPromise, whatever the clients and the options.
THEOREM RoomKeepsPromise == Spec => KeepsPromise
<1>1. Inv /\ Inv' /\ [Next]_vars => [Promise!PNext]_(Promise!pvars)
  BY PromiseStep DEF Kept, Quiet, Promise!pvars
<1> QED BY <1>1, PromiseInit, Invariance, PTL DEF Spec, KeepsPromise, Promise!PSpec

-----------------------------------------------------------------------------
(***************************************************************************)
(* A duelist that moves has to get ready again.  The inductive invariant   *)
(* is Inv with ObserversUnready; that no step leads back to the waiting    *)
(* room is taken from the refinement.                                      *)
(***************************************************************************)

\* In the waiting room only seated clients, and kicked ones, can be ready.
ObserversUnready ==
    state.tag = "Waiting" =>
        \A c \in Clients : position[c] = SPECTATOR => ~ready[c]

EarnedStep ==
    \A c \in Clients :
        position'[c] # position[c] /\ state'.tag = "Waiting" => ~ready'[c]

\* A step of a waiting room that touches no position leaves readiness honest.
LEMMA UnmovedReady ==
    ASSUME ObserversUnready, state.tag = "Waiting", position' = position,
           \A d \in Clients : position[d] = SPECTATOR => ready'[d] = ready[d]
    PROVE  ObserversUnready' /\ EarnedStep
BY DEF ObserversUnready, EarnedStep

\* One that moves c, which is unready or sits down unready, does so too.
LEMMA MovedUnready ==
    ASSUME Inv, ObserversUnready, state.tag = "Waiting", NEW c \in Clients,
           NEW p \in Seats \cup {SPECTATOR},
           position' = [position EXCEPT ![c] = p],
           \A d \in Clients \ {c} : ready'[d] = ready[d],
           p # position[c] \/ p = SPECTATOR => ~ready'[c]
    PROVE  ObserversUnready' /\ EarnedStep
<1>1. \A d \in Clients \ {c} : position'[d] = position[d]
  BY DEF Inv, TypeOK
<1>2. position'[c] = p
  BY DEF Inv, TypeOK
<1> QED BY <1>1, <1>2 DEF ObserversUnready, EarnedStep

\* Nothing leads back to the waiting room.
LEMMA WaitingOnce ==
    ASSUME Inv, [Next]_vars, state'.tag = "Waiting"
    PROVE  state.tag = "Waiting"
<1> SUFFICES ASSUME state.tag # "Waiting" PROVE FALSE
  OBVIOUS
<1>1. roomPhase # "gathering" /\ roomPhase' = "gathering"
  BY DEF roomPhase
<1>2. Inv'
  BY InvStep
<1>3. Promise!PNext \/ UNCHANGED <<roomPhase, roomLineup, wins>>
  BY <1>2, PromiseStep DEF Kept, Quiet
<1> QED BY <1>1, <1>3 DEF Promise!PNext, Promise!Begin, Promise!Score, Promise!GiveUp

\* A step of the waiting room keeps readiness honest.
LEMMA ReadyStep ==
    ASSUME Inv, ObserversUnready, Next, state.tag = "Waiting", state'.tag = "Waiting"
    PROVE  ObserversUnready' /\ EarnedStep
<1>1. ~EnterClosing
  BY InType DEF EnterClosing, Tags
<1>2. ASSUME NEW c \in Clients, ClientStep(c)
      PROVE  ObserversUnready' /\ EarnedStep
  <2>1. CASE Connect(c)
    BY <2>1, UnmovedReady DEF Connect, members, clientData
  <2>2. CASE Join(c)
    <3>1. position[c] = SPECTATOR /\ ready' = ready /\ ~ready[c]
      BY <2>2 DEF Join, clientData, Inv, Unseen, ObserversUnready
    <3>2. JoinWaiting(c)
      BY <2>2 DEF Join, JoinStarted, JoinClosing, GameTags
    <3>3. \E p \in Seats \cup {SPECTATOR} : position' = [position EXCEPT ![c] = p]
      BY <3>2, FreeSeatFromIn DEF JoinWaiting, Sit
    <3> QED BY <3>1, <3>3, MovedUnready
  <2>3. CASE ToDuelist(c)
    <3>1. CASE position[c] = SPECTATOR
      <4>1. ~ready[c] /\ ready' = ready
        BY <2>3, <3>1 DEF ToDuelist, ObserversUnready
      <4>2. \E p \in Seats : position' = [position EXCEPT ![c] = p]
        BY <2>3, <3>1, FreeSeatFromIn DEF ToDuelist, Sit
      <4> QED BY <4>1, <4>2, MovedUnready
    <3>2. CASE position[c] # SPECTATOR
      <4> DEFINE p == position[c]
                 q == FreeSeatFrom(Vacated(p), <<p[1], p[2] + 1>>)
      <4>1. /\ position' = [position EXCEPT ![c] = q]
            /\ ready' = [ready EXCEPT ![c] = ready[c] /\ q = p]
        BY <2>3, <3>2 DEF ToDuelist, Sit
      <4>2. q \in Seats
        <5>1. p \in Seats
          BY <3>2 DEF Inv, TypeOK
        <5>2. FreeSeats(Vacated(p)) # {}
          BY <5>1 DEF Inv, TypeOK, FreeSeats, Vacated
        <5> QED BY <5>2, FreeSeatFromIn
      <4> HIDE DEF q
      <4>3. q # p => ~ready'[c]
        BY <4>1 DEF Inv, TypeOK
      <4>4. \A d \in Clients \ {c} : ready'[d] = ready[d]
        BY <4>1 DEF Inv, TypeOK
      <4>5. q # SPECTATOR
        BY <4>2, SeatFacts
      <4> QED BY <4>1, <4>2, <4>3, <4>4, <4>5, MovedUnready
    <3> QED BY <3>1, <3>2
  <2>4. CASE ToObserver(c)
    <3>1. /\ position' = [position EXCEPT ![c] = SPECTATOR]
          /\ ready' = [ready EXCEPT ![c] = FALSE]
      BY <2>4 DEF ToObserver
    <3>2. ~ready'[c] /\ \A d \in Clients \ {c} : ready'[d] = ready[d]
      BY <3>1 DEF Inv, TypeOK
    <3> QED BY <3>1, <3>2, MovedUnready
  <2>5. CASE \E v \in BOOLEAN : Ready(c, v)
    <3>1. position[c] # SPECTATOR /\ position' = position
      BY <2>5 DEF Ready, members
    <3>2. \A d \in Clients \ {c} : ready'[d] = ready[d]
      BY <2>5 DEF Ready, Inv, TypeOK
    <3> QED BY <3>1, <3>2, UnmovedReady
  <2>6. CASE \E v \in BOOLEAN : UpdateDeck(c, v)
    BY <2>6, UnmovedReady DEF UpdateDeck, members
  <2>7. CASE \E pos \in 0..T0Count + T1Count : TryKick(c, pos)
    BY <2>7, UnmovedReady DEF TryKick, clientData
  <2>8. CASE TryStart(c)
    BY <2>8, InType DEF TryStart, Tags
  <2>9. CASE \/ \E v \in 0..3 : ChooseRPS(c, v)
             \/ ChooseTurn(c) \/ Response(c) \/ Surrender(c)
             \/ \E v \in BOOLEAN : Rematch(c, v)
             \/ SideDeck(c)
    BY <2>9 DEF ChooseRPS, ChooseTurn, Response, Surrender, Rematch, SideDeck, InState
  <2>10. CASE ConnectionLost(c)
    BY <2>10, UnmovedReady DEF ConnectionLost, clientData
  <2> QED BY <1>2, <2>1, <2>2, <2>3, <2>4, <2>5, <2>6, <2>7, <2>8, <2>9, <2>10
          DEF ClientStep
<1>3. CASE \E t \in Teams : TimerExpired(t)
  BY <1>3 DEF TimerExpired
<1>4. CASE LobbyClose
  BY <1>4, UnmovedReady DEF LobbyClose, members, clientData
<1>5. CASE Close
  BY <1>5, UnmovedReady DEF Close, clientData
<1> QED BY <1>2, <1>3, <1>4, <1>5 DEF Next

LEMMA ReadyAction ==
    Inv /\ ObserversUnready /\ [Next]_vars => ObserversUnready' /\ [EarnedStep]_vars
<1> SUFFICES ASSUME Inv, ObserversUnready, [Next]_vars
             PROVE  ObserversUnready' /\ [EarnedStep]_vars
  OBVIOUS
<1>1. CASE state'.tag # "Waiting"
  BY <1>1 DEF ObserversUnready, EarnedStep
<1>2. CASE state'.tag = "Waiting" /\ Next
  BY <1>2, WaitingOnce, ReadyStep
<1>3. CASE UNCHANGED vars
  BY <1>3 DEF vars, members, clientData, ObserversUnready
<1> QED BY <1>1, <1>2, <1>3

\* Readiness is never carried to a seat it was not given for.
THEOREM ReadinessIsEarned == Spec => ReadyIsEarned
<1>1. Init => ObserversUnready
  BY DEF Init, ObserversUnready
<1>2. [][EarnedStep]_vars => ReadyIsEarned
  BY PTL DEF ReadyIsEarned, EarnedStep
<1> QED BY <1>1, <1>2, Invariance, ReadyAction, PTL DEF Spec
-----------------------------------------------------------------------------
(***************************************************************************)
(* What the clients are shown.  The posts of a handler are followed from   *)
(* the pictures before the step, message by message, to the room after it. *)
(***************************************************************************)
\* Every step of RoomView is a step of Room, so all of the above holds in it.
LEMMA ViewIsRoom == [ViewNext]_viewVars => [Next]_vars
<1> SUFFICES ASSUME [ViewNext]_viewVars PROVE [Next]_vars
  OBVIOUS
<1>1. CASE UNCHANGED viewVars
  BY <1>1 DEF viewVars
<1>2. ASSUME NEW c \in Clients, NEW v \in BOOLEAN, ViewUpdateDeck(c, v) PROVE Next
  BY <1>2 DEF ViewUpdateDeck, Next, ClientStep
<1>3. CASE Handlers
  BY <1>3 DEF Handlers, Silent, Next, ClientStep, ViewJoin, ViewToDuelist,
              ViewToObserver, ViewReady, ViewTryKick, ViewTryStart, ViewChooseRPS,
              ViewChooseTurn, ViewResponse, ViewSurrender, ViewRematch,
              ViewSideDeck, ViewConnectionLost, ViewTimerExpired
<1> QED BY <1>1, <1>2, <1>3 DEF ViewNext

Screens == {"room", "duel", "choose a hand", "choose the turn", "answer", "sidedeck",
            "wait"}
Entries == [name : Clients \cup {NoClient}, ready : BOOLEAN]
Views ==
    [seats : [Slots -> Entries],
     watching : Nat, slot : Slots \cup {WATCHER}, isHost : BOOLEAN,
     screen : Screens]

\* What picture w shows at seat p.
At(w, p) == w.seats[EncodePosition(p)]

\* The seats of both teams have slots of their own, and MakeTypeChange's 7 is none.
LEMMA SlotFacts ==
    /\ \A p \in Seats : EncodePosition(p) \in Slots
                        /\ DecodePosition(EncodePosition(p)) = p
    /\ \A s \in Slots : DecodePosition(s) \in Seats
                        /\ EncodePosition(DecodePosition(s)) = s
<1>1. T0Count \in {1, 2, 3} /\ T1Count \in {1, 2, 3}
  BY HostInfoAssumption
<1>2. ASSUME NEW p \in Seats
      PROVE  EncodePosition(p) \in Slots /\ DecodePosition(EncodePosition(p)) = p
  <2>1. CASE p[1] = 0
    <3>1. p = <<0, p[2]>> /\ p[2] \in 0..T0Count - 1 /\ p[2] \in Int
      BY <1>1, <2>1 DEF Seats
    <3>2. EncodePosition(p) = p[2]
      BY <1>1, <2>1, <3>1 DEF EncodePosition
    <3> QED BY <1>1, <3>1, <3>2 DEF Slots, DecodePosition
  <2>2. CASE p[1] = 1
    <3>1. p = <<1, p[2]>> /\ p[2] \in 0..T1Count - 1 /\ p[2] \in Int
      BY <1>1, <2>2 DEF Seats
    <3>2. EncodePosition(p) = T0Count + p[2]
      BY <1>1, <2>2, <3>1 DEF EncodePosition
    <3> QED BY <1>1, <3>1, <3>2 DEF Slots, DecodePosition
  <2> QED BY <2>1, <2>2, SeatFacts DEF Teams
<1>3. ASSUME NEW s \in Slots
      PROVE  DecodePosition(s) \in Seats /\ EncodePosition(DecodePosition(s)) = s
  <2>1. CASE s >= T0Count
    <3>1. DecodePosition(s) = <<1, s - T0Count>> /\ s - T0Count \in 0..T1Count - 1
      BY <1>1, <2>1 DEF Slots, DecodePosition
    <3> QED BY <1>1, <3>1 DEF Slots, Seats, EncodePosition
  <2>2. CASE s < T0Count
    <3>1. DecodePosition(s) = <<0, s>> /\ s \in 0..T0Count - 1
      BY <1>1, <2>2 DEF Slots, DecodePosition
    <3> QED BY <1>1, <3>1 DEF Slots, Seats, EncodePosition
  <2> QED BY <1>1, <2>1, <2>2 DEF Slots
<1> QED BY <1>2, <1>3

LEMMA SlotsApart ==
    ASSUME NEW p \in Seats, NEW q \in Seats, EncodePosition(p) = EncodePosition(q)
    PROVE  p = q
BY SlotFacts

LEMMA BlankView == Blank \in Views /\ \A p \in Seats : At(Blank, p) = Nobody
<1>1. Nobody \in Entries
  BY DEF Nobody, Entries
<1>2. [s \in Slots |-> Nobody] \in [Slots -> Entries]
  BY <1>1
<1>3. Blank \in Views
  <2> DEFINE f == [s \in Slots |-> Nobody]
  <2>1. f \in [Slots -> Entries]
    BY <1>2
  <2> HIDE DEF f
  <2>2. [seats |-> f, watching |-> 0, slot |-> WATCHER, isHost |-> FALSE,
         screen |-> "room"] \in Views
    BY <2>1 DEF Views, Screens
  <2> QED BY <2>2 DEF Blank, f
<1>4. \A p \in Seats : At(Blank, p) = Nobody
  BY SlotFacts DEF Blank, At
<1> QED BY <1>3, <1>4

LEMMA EntryType ==
    /\ Nobody \in Entries /\ Nobody.name = NoClient
    /\ \A c \in Clients : /\ [name |-> c, ready |-> FALSE] \in Entries
                         /\ [name |-> c, ready |-> FALSE].name = c
BY DEF Nobody, Entries

LEMMA AtType ==
    ASSUME NEW w \in Views, NEW p \in Seats
    PROVE  At(w, p) \in Entries
BY SlotFacts DEF Views, At

(***************************************************************************)
(* The messages, one by one.                                               *)
(***************************************************************************)
\* Picture u differs from w at most at seats.
OnlySeats(u, w) ==
    /\ u \in Views
    /\ u.watching = w.watching /\ u.slot = w.slot
    /\ u.isHost = w.isHost /\ u.screen = w.screen

\* ... or at everything but the seats.
SameSeats(u, w) ==
    /\ u \in Views
    /\ \A q \in Seats : At(u, q) = At(w, q)

LEMMA PutAtSlot ==
    ASSUME NEW w \in Views, NEW p \in Seats,
           NEW x \in Entries,
           NEW u, u = [w EXCEPT !.seats[EncodePosition(p)] = x]
    PROVE  /\ OnlySeats(u, w)
           /\ \A q \in Seats : At(u, q) = IF q = p THEN x ELSE At(w, q)
<1>1. u.seats = [w.seats EXCEPT ![EncodePosition(p)] = x]
  BY DEF Views
<1>2. EncodePosition(p) \in Slots
  BY SlotFacts
<1>3. u \in Views /\ u.watching = w.watching /\ u.slot = w.slot
      /\ u.isHost = w.isHost /\ u.screen = w.screen
  BY <1>2 DEF Views
<1>4. ASSUME NEW q \in Seats PROVE At(u, q) = IF q = p THEN x ELSE At(w, q)
  <2>1. EncodePosition(q) \in Slots /\ (EncodePosition(q) = EncodePosition(p) => q = p)
    BY SlotFacts, SlotsApart
  <2>2. w.seats \in [Slots -> Entries]
    BY DEF Views
  <2> QED BY <1>1, <1>2, <2>1, <2>2 DEF At
<1> QED BY <1>3, <1>4 DEF OnlySeats

LEMMA EnterShown ==
    ASSUME NEW w \in Views, NEW p \in Seats, NEW c \in Clients,
           NEW u, u = Shows(w, PlayerEnter(c, p))
    PROVE  /\ OnlySeats(u, w)
           /\ \A q \in Seats : At(u, q) = IF q = p THEN [name |-> c, ready |-> FALSE]
                                                   ELSE At(w, q)
<1> DEFINE x == [name |-> c, ready |-> FALSE]
<1>1. u = [w EXCEPT !.seats[EncodePosition(p)] = x]
  BY DEF Shows, PlayerEnter
<1>2. x \in Entries
  BY EntryType
<1> HIDE DEF x
<1>3. OnlySeats(u, w) /\ \A q \in Seats : At(u, q) = IF q = p THEN x ELSE At(w, q)
  BY <1>1, <1>2, PutAtSlot
<1> QED BY <1>3 DEF x

LEMMA ChangeShown ==
    ASSUME NEW w \in Views, NEW p \in Seats, NEW r \in BOOLEAN,
           NEW u, u = Shows(w, PlayerChange(p, r))
    PROVE  /\ OnlySeats(u, w)
           /\ \A q \in Seats :
                 /\ At(u, q).name = At(w, q).name
                 /\ At(u, q).ready = IF q = p THEN r ELSE At(w, q).ready
<1> DEFINE x == [At(w, p) EXCEPT !.ready = r]
<1>1. At(w, p) \in Entries
  BY AtType
<1>2. u = [w EXCEPT !.seats[EncodePosition(p)].ready = r]
  BY DEF Shows, PlayerChange, Status
<1>3. u = [w EXCEPT !.seats[EncodePosition(p)] = x]
  BY <1>2 DEF At
<1>4. x \in Entries
      /\ x.name = At(w, p).name /\ x.ready = r
  BY <1>1 DEF Entries
<1> HIDE DEF x
<1> QED BY <1>3, <1>4, PutAtSlot

\* LEAVE and SPECTATE empty a seat; SPECTATE counts one more that watches.
LEMMA LeaveShown ==
    ASSUME NEW w \in Views, NEW p \in Seats,
           NEW u, u = Shows(w, Status(p, "LEAVE"))
    PROVE  /\ OnlySeats(u, w)
           /\ \A q \in Seats : At(u, q) = IF q = p THEN Nobody ELSE At(w, q)
<1>1. u = [w EXCEPT !.seats[EncodePosition(p)] = Nobody]
  BY DEF Shows, Status
<1> QED BY <1>1, PutAtSlot, EntryType

LEMMA SpectateShown ==
    ASSUME NEW w \in Views, NEW p \in Seats,
           NEW u, u = Shows(w, Status(p, "SPECTATE"))
    PROVE  /\ u \in Views
           /\ u.watching = w.watching + 1 /\ u.slot = w.slot /\ u.isHost = w.isHost
           /\ u.screen = w.screen
           /\ \A q \in Seats : At(u, q) = IF q = p THEN Nobody ELSE At(w, q)
<1> DEFINE e == [w EXCEPT !.seats[EncodePosition(p)] = Nobody]
<1>1. u = [w EXCEPT !.seats[EncodePosition(p)] = Nobody, !.watching = @ + 1]
  BY DEF Shows, Status
<1>2. OnlySeats(e, w) /\ \A q \in Seats : At(e, q) = IF q = p THEN Nobody ELSE At(w, q)
  BY PutAtSlot, EntryType
<1>3. u = [e EXCEPT !.watching = w.watching + 1]
  BY <1>1 DEF Views
<1> HIDE DEF e
<1>4. u \in Views /\ u.seats = e.seats /\ u.watching = w.watching + 1 /\ u.slot = e.slot
      /\ u.isHost = e.isHost /\ u.screen = e.screen
  BY <1>2, <1>3 DEF Views, OnlySeats
<1> QED BY <1>2, <1>4 DEF At, OnlySeats

\* A move takes the name along and empties the seat it comes from.
LEMMA MoveShown ==
    ASSUME NEW w \in Views, NEW p \in Seats, NEW r \in Seats, p # r,
           NEW u, u = Shows(w, PlayerMove(p, r))
    PROVE  /\ OnlySeats(u, w)
           /\ \A q \in Seats :
                 At(u, q).name = IF q = p THEN NoClient
                                 ELSE IF q = r THEN At(w, p).name ELSE At(w, q).name
           /\ \A q \in Seats \ {p, r} : At(u, q) = At(w, q)
<1> DEFINE x == [At(w, p) EXCEPT !.ready = FALSE]
           m == [w EXCEPT !.seats[EncodePosition(r)] = x]
<1>1. At(w, p) \in Entries
  BY AtType
<1>2. x \in Entries
      /\ x.name = At(w, p).name
  BY <1>1 DEF Entries
<1>3. u = [m EXCEPT !.seats[EncodePosition(p)] = Nobody]
  BY DEF Shows, PlayerMove, At
<1> HIDE DEF x
<1>4. OnlySeats(m, w) /\ \A q \in Seats : At(m, q) = IF q = r THEN x ELSE At(w, q)
  BY <1>2, PutAtSlot
<1> HIDE DEF m
<1>5. OnlySeats(u, m) /\ \A q \in Seats : At(u, q) = IF q = p THEN Nobody ELSE At(m, q)
  BY <1>3, <1>4, PutAtSlot, EntryType DEF OnlySeats
<1> QED BY <1>2, <1>4, <1>5, EntryType DEF OnlySeats

LEMMA WatchShown ==
    ASSUME NEW w \in Views, NEW n \in Nat, NEW u, u = Shows(w, WatchChange(n))
    PROVE  /\ SameSeats(u, w)
           /\ u.watching = n /\ u.slot = w.slot /\ u.isHost = w.isHost
           /\ u.screen = w.screen
<1>1. u = [w EXCEPT !.watching = n]
  BY DEF Shows, WatchChange
<1>2. u.seats = w.seats
  BY <1>1 DEF Views
<1> QED BY <1>1, <1>2 DEF SameSeats, At, Views

LEMMA TypeShown ==
    ASSUME NEW w \in Views, NEW p \in Seats \cup {SPECTATOR}, NEW h \in BOOLEAN,
           NEW u, u = Shows(w, TypeChange(p, h))
    PROVE  /\ SameSeats(u, w)
           /\ u.slot = IF p = SPECTATOR THEN WATCHER ELSE EncodePosition(p)
           /\ u.isHost = h /\ u.watching = w.watching /\ u.screen = w.screen
<1> DEFINE s == IF p = SPECTATOR THEN WATCHER ELSE EncodePosition(p)
<1>1. u = [w EXCEPT !.slot = s, !.isHost = h]
  BY DEF Shows, TypeChange
<1>2. s \in Slots \cup {WATCHER}
  BY SlotFacts
<1> HIDE DEF s
<1>3. u.seats = w.seats
  BY <1>1 DEF Views
<1>4. u \in Views /\ u.slot = s /\ u.isHost = h /\ u.watching = w.watching
      /\ u.screen = w.screen
  BY <1>1, <1>2 DEF Views
<1> QED BY <1>3, <1>4 DEF SameSeats, At, s

\* A screen covers the room and changes nothing of it.
SameRoom(u, w) ==
    /\ SameSeats(u, w)
    /\ u.watching = w.watching /\ u.slot = w.slot /\ u.isHost = w.isHost

LEMMA ScreenShown ==
    ASSUME NEW w \in Views, NEW what \in Screens, NEW u, u = Shows(w, Screen(what))
    PROVE  SameRoom(u, w) /\ u.screen = what
<1>1. u = [w EXCEPT !.screen = what]
  BY DEF Shows, Screen
<1>2. u.seats = w.seats
  BY <1>1 DEF Views
<1> QED BY <1>1, <1>2 DEF SameRoom, SameSeats, At, Views

(***************************************************************************)
(* The posts.                                                              *)
(***************************************************************************)
LEMMA Posted ==
    ASSUME NEW v \in [Clients -> Views], NEW to, NEW msg,
           \A w \in Views : Shows(w, msg) \in Views,
           NEW u, u = Post(v, to, msg)
    PROVE  /\ u \in [Clients -> Views]
           /\ \A d \in Clients : u[d] = IF d \in to THEN Shows(v[d], msg) ELSE v[d]
BY DEF Post

LEMMA SameRoomTrans ==
    ASSUME NEW a, NEW b, NEW w, SameRoom(a, b), SameRoom(b, w)
    PROVE  SameRoom(a, w)
BY DEF SameRoom, SameSeats

LEMMA ScreenPosted ==
    ASSUME NEW v \in [Clients -> Views], NEW to, NEW what \in Screens,
           NEW u, u = Post(v, to, Screen(what))
    PROVE  /\ u \in [Clients -> Views]
           /\ \A d \in Clients :
                 /\ SameRoom(u[d], v[d])
                 /\ u[d].screen = IF d \in to THEN what ELSE v[d].screen
<1>1. \A w \in Views : /\ SameRoom(Shows(w, Screen(what)), w)
                       /\ Shows(w, Screen(what)).screen = what
  BY ScreenShown
<1>2. \A w \in Views : Shows(w, Screen(what)) \in Views /\ SameRoom(w, w)
  BY <1>1 DEF SameRoom, SameSeats
<1>3. /\ u \in [Clients -> Views]
      /\ \A d \in Clients : u[d] = IF d \in to THEN Shows(v[d], Screen(what)) ELSE v[d]
  BY <1>2, Posted
<1>4. \A d \in Clients : v[d] \in Views
  OBVIOUS
<1>5. ASSUME NEW d \in Clients
      PROVE  /\ SameRoom(u[d], v[d])
             /\ u[d].screen = IF d \in to THEN what ELSE v[d].screen
  <2>1. CASE d \in to
    BY <1>1, <1>3, <1>4, <2>1
  <2>2. CASE d \notin to
    BY <1>2, <1>3, <1>4, <2>2
  <2> QED BY <2>1, <2>2
<1> QED BY <1>3, <1>5

\* The questions of the entry handlers, and who is asked: what d looks at after
\* them.
EntryScreen(d, before) ==
    IF state'.tag = "RockPaperScissor" /\ d \in HandPlayers THEN "choose a hand"
    ELSE IF state'.tag = "ChoosingTurn" /\ d = state'.turnChooser THEN "choose the turn"
    ELSE IF state'.tag = "Rematching" /\ d \in Seated' THEN "answer"
    ELSE IF state'.tag = "Rematching" /\ d \in Present' THEN "wait"
    ELSE IF state'.tag = "Sidedecking" /\ d \in spectators' THEN "wait"
    ELSE IF state'.tag = "Sidedecking" /\ d \in Seated' THEN "sidedeck"
    ELSE before

LEMMA EntryPosted ==
    ASSUME NEW v \in [Clients -> Views], state'.tag \in GameTags,
           NEW u, u = EntryPosts(v)
    PROVE  /\ u \in [Clients -> Views]
           /\ \A d \in Clients : /\ SameRoom(u[d], v[d])
                                /\ u[d].screen = EntryScreen(d, v[d].screen)
<1> USE DEF EntryScreen
<1>0. /\ "choose a hand" \in Screens /\ "choose the turn" \in Screens
      /\ "answer" \in Screens /\ "wait" \in Screens /\ "sidedeck" \in Screens
  BY DEF Screens
<1>a. PICK hand \in Screens : hand = "choose a hand"
  BY <1>0
<1>b. PICK turn \in Screens : turn = "choose the turn"
  BY <1>0
<1>c. PICK answer \in Screens : answer = "answer"
  BY <1>0
<1>d. PICK wait \in Screens : wait = "wait"
  BY <1>0
<1>e. PICK side \in Screens : side = "sidedeck"
  BY <1>0
<1>1. CASE state'.tag = "RockPaperScissor"
  <2>1. u = Post(v, HandPlayers, Screen(hand))
    BY <1>1, <1>a DEF EntryPosts, AskRPS
  <2>2. /\ u \in [Clients -> Views]
        /\ \A d \in Clients :
             /\ SameRoom(u[d], v[d])
             /\ u[d].screen = IF d \in HandPlayers THEN hand ELSE v[d].screen
    BY <2>1, ScreenPosted
  <2> QED BY <1>1, <1>a, <2>2
<1>2. CASE state'.tag = "ChoosingTurn"
  <2>1. u = Post(v, {state'.turnChooser}, Screen(turn))
    BY <1>2, <1>b DEF EntryPosts, AskIfGoingFirst
  <2>2. /\ u \in [Clients -> Views]
        /\ \A d \in Clients :
             /\ SameRoom(u[d], v[d])
             /\ u[d].screen = IF d \in {state'.turnChooser} THEN turn ELSE v[d].screen
    BY <2>1, ScreenPosted
  <2> QED BY <1>2, <1>b, <2>2
<1>3. CASE state'.tag = "Rematching"
  <2> DEFINE m == Post(v, Present', Screen(wait))
  <2>1. u = Post(m, Seated', Screen(answer))
    BY <1>3, <1>c, <1>d DEF EntryPosts, AskIfRematch, RematchWait, ToAll
  <2>2. /\ m \in [Clients -> Views]
        /\ \A d \in Clients :
             /\ SameRoom(m[d], v[d])
             /\ m[d].screen = IF d \in Present' THEN wait ELSE v[d].screen
    BY ScreenPosted
  <2> HIDE DEF m
  <2>3. /\ u \in [Clients -> Views]
        /\ \A d \in Clients :
             /\ SameRoom(u[d], m[d])
             /\ u[d].screen = IF d \in Seated' THEN answer ELSE m[d].screen
    BY <2>1, <2>2, ScreenPosted
  <2>4. \A d \in Clients : SameRoom(u[d], v[d])
    BY <2>2, <2>3, SameRoomTrans
  <2> QED BY <1>3, <1>c, <1>d, <2>2, <2>3, <2>4
<1>4. CASE state'.tag = "Sidedecking"
  <2> DEFINE m == Post(v, Seated', Screen(side))
  <2>1. u = Post(m, spectators', Screen(wait))
    BY <1>4, <1>d, <1>e DEF EntryPosts, AskSidedeck, SidedeckWait
  <2>2. /\ m \in [Clients -> Views]
        /\ \A d \in Clients :
             /\ SameRoom(m[d], v[d])
             /\ m[d].screen = IF d \in Seated' THEN side ELSE v[d].screen
    BY ScreenPosted
  <2> HIDE DEF m
  <2>3. /\ u \in [Clients -> Views]
        /\ \A d \in Clients :
             /\ SameRoom(u[d], m[d])
             /\ u[d].screen = IF d \in spectators' THEN wait ELSE m[d].screen
    BY <2>1, <2>2, ScreenPosted
  <2>4. \A d \in Clients : SameRoom(u[d], v[d])
    BY <2>2, <2>3, SameRoomTrans
  <2> QED BY <1>4, <1>d, <1>e, <2>2, <2>3, <2>4
<1>5. CASE state'.tag = "Dueling"
  <2>1. u = v
    BY <1>5 DEF EntryPosts
  <2>2. \A d \in Clients : SameRoom(v[d], v[d])
    BY DEF SameRoom, SameSeats
  <2> QED BY <1>5, <2>1, <2>2
<1> QED BY <1>1, <1>2, <1>3, <1>4, <1>5 DEF GameTags, Tags

(***************************************************************************)
(* The invariant.                                                          *)
(***************************************************************************)
\* A question stays on the screens of both hand players until the state ends.
HandsAsked ==
    kicked = {} /\ state.tag = "RockPaperScissor" =>
        \A t \in Teams : shown[seat[<<t, 0>>]].screen = "choose a hand"

ViewInv ==
    /\ shown \in [Clients -> Views]
    /\ IsFiniteSet(spectators)
    /\ \A d \in Clients : conn[d] # "open" => shown[d] = Blank
    /\ kicked = {} /\ state.tag # "Closing" => PictureOfRoom
    /\ AwaitedAreAsked
    /\ HandsAsked

\* Picture w is what client d has to have after the step: the room,
RoomAfter(w, d) ==
    /\ \A p \in Seats :
         /\ At(w, p).name = seat'[p]
         /\ state'.tag = "Waiting" /\ seat'[p] # NoClient =>
              At(w, p).ready = ready'[seat'[p]]
    /\ w.slot = IF d \in spectators' THEN WATCHER ELSE EncodePosition(position'[d])
    /\ state'.tag = "Waiting" =>
         w.isHost = (state'.host = d) /\ w.watching = Cardinality(spectators')

\* ... and its question or the lack of one.
ScreenAfter(w, d) ==
    /\ state'.tag = "RockPaperScissor" /\ d \in HandPlayers =>
         w.screen = "choose a hand"
    /\ state'.tag = "ChoosingTurn" /\ d = state'.turnChooser =>
         w.screen = "choose the turn"
    /\ state'.tag = "Rematching" /\ d \in Seated' \ state'.answered =>
         w.screen = "answer"
    /\ state'.tag = "Sidedecking" /\ d \in Seated' \ state'.answered =>
         w.screen = "sidedeck"
    /\ state'.tag \in GameTags /\ d \in spectators' =>
         w.screen = IF state'.tag \in {"Rematching", "Sidedecking"} THEN "wait"
                                                                   ELSE "duel"

PictureStep == kicked = {} /\ state'.tag # "Closing" => PictureOfRoom'

\* A dispatch whose posts leave everybody present with the right picture keeps
\* the invariant.
LEMMA ToldRight ==
    ASSUME Inv', IsFiniteSet(spectators'), kicked \subseteq kicked',
           NEW v, Tell(v),
           kicked = {} /\ state'.tag # "Closing" =>
               /\ v \in [Clients -> Views]
               /\ \A d \in Present' : RoomAfter(v[d], d) /\ ScreenAfter(v[d], d)
    PROVE  ViewInv' /\ PictureStep
<1>1. \A d \in Clients :
          shown'[d] = IF conn'[d] = "open" /\ state'.tag # "Closing" /\ kicked = {}
                        THEN v[d] ELSE Blank
  BY DEF Tell
<1>2. shown' \in [Clients -> Views]
  BY <1>1, BlankView DEF Tell
<1>3. Present' \subseteq Clients /\ \A d \in Present' : conn'[d] = "open"
  BY DEF Present, Seated, Inv, TypeOK, RosterSound
<1>4. PictureStep
  <2> SUFFICES ASSUME kicked = {}, state'.tag # "Closing", NEW d \in Present'
               PROVE  Depicts(shown[d], d)'
    BY DEF PictureStep, PictureOfRoom
  <2>1. shown'[d] = v[d] /\ RoomAfter(v[d], d)
    BY <1>1, <1>3
  <2> QED BY <2>1 DEF RoomAfter, Depicts, At
<1>5. ASSUME kicked' = {}, state'.tag \in GameTags
      PROVE  \A d \in Present' : ScreenAfter(shown'[d], d)
  BY <1>1, <1>3, <1>5 DEF GameTags
<1>6. \A t \in Teams : state'.tag \in GameTags =>
          seat'[<<t, 0>>] \in Seated' /\ seat'[<<t, 0>>] \in HandPlayers
  BY SeatFacts DEF Inv, LineupComplete, Seated, HandPlayers, Teams
<1>7. HandsAsked'
  BY <1>5, <1>6 DEF HandsAsked, ScreenAfter, Present, GameTags, Tags
<1>8. AwaitedAreAsked'
  <2> SUFFICES ASSUME kicked' = {}, state'.tag \in GameTags
               PROVE  /\ \A c \in Awaited' : shown'[c].screen = Question[state'.tag]
                      /\ \A c \in spectators' :
                            shown'[c].screen =
                              IF state'.tag \in {"Rematching", "Sidedecking"}
                                THEN "wait" ELSE "duel"
    BY DEF AwaitedAreAsked
  <2>1. \A c \in spectators' :
            shown'[c].screen = IF state'.tag \in {"Rematching", "Sidedecking"}
                                 THEN "wait" ELSE "duel"
    BY <1>5 DEF ScreenAfter, Present
  <2>2. CASE state'.tag = "RockPaperScissor"
    <3>1. \A c \in Awaited' : c \in Seated' /\ c \in HandPlayers
      BY <1>6, <2>2 DEF Awaited
    <3>2. Question[state'.tag] = "choose a hand"
      BY <2>2 DEF Question
    <3> QED BY <1>5, <2>1, <2>2, <3>1, <3>2 DEF ScreenAfter, Present
  <2>3. CASE state'.tag = "ChoosingTurn"
    <3>1. \A c \in Awaited' : c \in Seated' /\ c = state'.turnChooser
      BY <2>3 DEF Awaited, Inv, LineupComplete
    <3>2. Question[state'.tag] = "choose the turn"
      BY <2>3 DEF Question
    <3> QED BY <1>5, <2>1, <2>3, <3>1, <3>2 DEF ScreenAfter, Present
  <2>4. CASE state'.tag = "Rematching"
    <3>1. Awaited' = Seated' \ state'.answered /\ Question[state'.tag] = "answer"
      BY <2>4 DEF Awaited, Question
    <3> QED BY <1>5, <2>1, <2>4, <3>1 DEF ScreenAfter, Present
  <2>5. CASE state'.tag = "Sidedecking"
    <3>1. Awaited' = Seated' \ state'.answered /\ Question[state'.tag] = "sidedeck"
      BY <2>5 DEF Awaited, Question
    <3> QED BY <1>5, <2>1, <2>5, <3>1 DEF ScreenAfter, Present
  <2>6. CASE state'.tag = "Dueling"
    <3>1. Awaited' = {}
      BY <2>6 DEF Awaited
    <3> QED BY <2>1, <3>1
  <2> QED BY <2>2, <2>3, <2>4, <2>5, <2>6 DEF GameTags, Tags
<1>9. kicked' = {} /\ state'.tag # "Closing" => PictureOfRoom'
  BY <1>4 DEF PictureStep
<1> QED BY <1>1, <1>2, <1>4, <1>7, <1>8, <1>9 DEF ViewInv

(***************************************************************************)
(* The waiting room: the pictures follow the roster.                       *)
(***************************************************************************)
\* A message about a seat, to an audience.
LEMMA LeavePosted ==
    ASSUME NEW v \in [Clients -> Views], NEW to, NEW p \in Seats,
           NEW u, u = Post(v, to, Status(p, "LEAVE"))
    PROVE  /\ u \in [Clients -> Views]
           /\ \A d \in Clients \cap to :
                 /\ OnlySeats(u[d], v[d])
                 /\ \A q \in Seats : At(u[d], q) = IF q = p THEN Nobody ELSE At(v[d], q)
<1>1. \A w \in Views :
          /\ OnlySeats(Shows(w, Status(p, "LEAVE")), w)
          /\ \A q \in Seats : At(Shows(w, Status(p, "LEAVE")), q)
                                = IF q = p THEN Nobody ELSE At(w, q)
  BY LeaveShown
<1>2. \A w \in Views : Shows(w, Status(p, "LEAVE")) \in Views
  BY <1>1 DEF OnlySeats
<1> QED BY <1>1, <1>2, Posted

LEMMA SpectatePosted ==
    ASSUME NEW v \in [Clients -> Views], NEW to, NEW p \in Seats,
           NEW u, u = Post(v, to, Status(p, "SPECTATE"))
    PROVE  /\ u \in [Clients -> Views]
           /\ \A d \in Clients \cap to :
                 /\ u[d].watching = v[d].watching + 1 /\ u[d].slot = v[d].slot
                 /\ u[d].isHost = v[d].isHost
                 /\ \A q \in Seats : At(u[d], q) = IF q = p THEN Nobody ELSE At(v[d], q)
<1>1. \A w \in Views :
          /\ Shows(w, Status(p, "SPECTATE")) \in Views
          /\ Shows(w, Status(p, "SPECTATE")).watching = w.watching + 1
          /\ Shows(w, Status(p, "SPECTATE")).slot = w.slot
          /\ Shows(w, Status(p, "SPECTATE")).isHost = w.isHost
          /\ \A q \in Seats : At(Shows(w, Status(p, "SPECTATE")), q)
                                = IF q = p THEN Nobody ELSE At(w, q)
  BY SpectateShown
<1> QED BY <1>1, Posted

LEMMA ChangePosted ==
    ASSUME NEW v \in [Clients -> Views], NEW to, NEW p \in Seats, NEW r \in BOOLEAN,
           NEW u, u = Post(v, to, PlayerChange(p, r))
    PROVE  /\ u \in [Clients -> Views]
           /\ \A d \in Clients \cap to :
                 /\ OnlySeats(u[d], v[d])
                 /\ \A q \in Seats :
                       /\ At(u[d], q).name = At(v[d], q).name
                       /\ At(u[d], q).ready = IF q = p THEN r ELSE At(v[d], q).ready
<1>1. \A w \in Views :
          /\ OnlySeats(Shows(w, PlayerChange(p, r)), w)
          /\ \A q \in Seats :
                /\ At(Shows(w, PlayerChange(p, r)), q).name = At(w, q).name
                /\ At(Shows(w, PlayerChange(p, r)), q).ready
                     = IF q = p THEN r ELSE At(w, q).ready
  BY ChangeShown
<1>2. \A w \in Views : Shows(w, PlayerChange(p, r)) \in Views
  BY <1>1 DEF OnlySeats
<1> QED BY <1>1, <1>2, Posted

LEMMA MovePosted ==
    ASSUME NEW v \in [Clients -> Views], NEW to, NEW p \in Seats, NEW r \in Seats, p # r,
           NEW u, u = Post(v, to, PlayerMove(p, r))
    PROVE  /\ u \in [Clients -> Views]
           /\ \A d \in Clients \cap to :
                 /\ OnlySeats(u[d], v[d])
                 /\ \A q \in Seats :
                       At(u[d], q).name = IF q = p THEN NoClient
                                          ELSE IF q = r THEN At(v[d], p).name
                                          ELSE At(v[d], q).name
                 /\ \A q \in Seats \ {p, r} : At(u[d], q) = At(v[d], q)
<1>1. \A w \in Views :
          /\ OnlySeats(Shows(w, PlayerMove(p, r)), w)
          /\ \A q \in Seats :
                At(Shows(w, PlayerMove(p, r)), q).name
                  = IF q = p THEN NoClient
                    ELSE IF q = r THEN At(w, p).name ELSE At(w, q).name
          /\ \A q \in Seats \ {p, r} : At(Shows(w, PlayerMove(p, r)), q) = At(w, q)
  BY MoveShown
<1>2. \A w \in Views : Shows(w, PlayerMove(p, r)) \in Views
  BY <1>1 DEF OnlySeats
<1> QED BY <1>1, <1>2, Posted

LEMMA NewDuelistPosted ==
    ASSUME Inv', NEW c \in Clients, position'[c] \in Seats,
           NEW v \in [Clients -> Views], NEW u, u = NewDuelistPosts(v, c)
    PROVE  /\ u \in [Clients -> Views]
           /\ \A d \in Present' :
                 /\ OnlySeats(u[d], v[d])
                 /\ \A q \in Seats :
                       IF q = position'[c]
                         THEN At(u[d], q).name = c /\ At(u[d], q).ready = ready'[c]
                         ELSE /\ At(u[d], q).name = At(v[d], q).name
                              /\ At(u[d], q).ready = At(v[d], q).ready
<1> DEFINE p == position'[c]
           r == ready'[c]
           e == Post(v, Present', PlayerEnter(c, p))
<1>1. p \in Seats /\ r \in BOOLEAN
  BY DEF Inv, TypeOK
<1>2. Present' \subseteq Clients
  BY DEF Present, Seated, Inv, TypeOK
<1>3. u = Post(e, Present', PlayerChange(p, r))
  BY DEF NewDuelistPosts, ToAll
<1> SUFFICES /\ u \in [Clients -> Views]
             /\ \A d \in Present' :
                   /\ OnlySeats(u[d], v[d])
                   /\ \A q \in Seats :
                         IF q = p
                           THEN At(u[d], q).name = c /\ At(u[d], q).ready = r
                           ELSE /\ At(u[d], q).name = At(v[d], q).name
                                /\ At(u[d], q).ready = At(v[d], q).ready
  OBVIOUS
<1> HIDE DEF p, r
<1>4. \A w \in Views :
          /\ OnlySeats(Shows(w, PlayerEnter(c, p)), w)
          /\ \A q \in Seats : At(Shows(w, PlayerEnter(c, p)), q)
                                = IF q = p THEN [name |-> c, ready |-> FALSE]
                                           ELSE At(w, q)
  BY <1>1, EnterShown
<1>5. \A w \in Views : Shows(w, PlayerEnter(c, p)) \in Views
  BY <1>4 DEF OnlySeats
<1>6. /\ e \in [Clients -> Views]
      /\ \A d \in Clients : e[d] = IF d \in Present' THEN Shows(v[d], PlayerEnter(c, p))
                                                     ELSE v[d]
  BY <1>5, Posted
<1> HIDE DEF e
<1>7. /\ u \in [Clients -> Views]
      /\ \A d \in Clients \cap Present' :
           /\ OnlySeats(u[d], e[d])
           /\ \A q \in Seats :
                 /\ At(u[d], q).name = At(e[d], q).name
                 /\ At(u[d], q).ready = IF q = p THEN r ELSE At(e[d], q).ready
  BY <1>1, <1>3, <1>6, ChangePosted
<1>8. ASSUME NEW d \in Present'
      PROVE  /\ OnlySeats(u[d], v[d])
             /\ \A q \in Seats :
                   IF q = p
                     THEN At(u[d], q).name = c /\ At(u[d], q).ready = r
                     ELSE /\ At(u[d], q).name = At(v[d], q).name
                          /\ At(u[d], q).ready = At(v[d], q).ready
  <2>1. d \in Clients \cap Present' /\ v[d] \in Views
    BY <1>2
  <2>2. /\ OnlySeats(e[d], v[d])
        /\ \A q \in Seats : At(e[d], q) = IF q = p THEN [name |-> c, ready |-> FALSE]
                                                   ELSE At(v[d], q)
    BY <1>4, <1>6, <2>1
  <2>3. OnlySeats(u[d], v[d])
    BY <1>7, <2>1, <2>2 DEF OnlySeats
  <2> QED BY <1>7, <2>1, <2>2, <2>3, EntryType
<1> QED BY <1>7, <1>8

\* How many watch, and where the client itself is.
LEMMA WatchPosted ==
    ASSUME NEW v \in [Clients -> Views], NEW to, NEW n \in Nat,
           NEW u, u = Post(v, to, WatchChange(n))
    PROVE  /\ u \in [Clients -> Views]
           /\ \A d \in Clients :
                 /\ SameSeats(u[d], v[d])
                 /\ u[d].watching = IF d \in to THEN n ELSE v[d].watching
                 /\ u[d].slot = v[d].slot /\ u[d].isHost = v[d].isHost
                 /\ u[d].screen = v[d].screen
<1>1. \A w \in Views :
          /\ SameSeats(Shows(w, WatchChange(n)), w)
          /\ Shows(w, WatchChange(n)).watching = n
          /\ Shows(w, WatchChange(n)).slot = w.slot
          /\ Shows(w, WatchChange(n)).isHost = w.isHost
          /\ Shows(w, WatchChange(n)).screen = w.screen
  BY WatchShown
<1>2. \A w \in Views : Shows(w, WatchChange(n)) \in Views /\ SameSeats(w, w)
  BY <1>1 DEF SameSeats
<1>3. /\ u \in [Clients -> Views]
      /\ \A d \in Clients : u[d] = IF d \in to THEN Shows(v[d], WatchChange(n)) ELSE v[d]
  BY <1>2, Posted
<1>4. \A d \in Clients : v[d] \in Views
  OBVIOUS
<1> QED BY <1>1, <1>2, <1>3, <1>4

\* Only client c's picture changes ...
OthersSame(u, v, c) == \A d \in Clients : d # c => u[d] = v[d]

\* ... and in it the client's own place p and whether it is the host, h.
TypedAs(u, w, p, h) ==
    /\ SameSeats(u, w)
    /\ u.slot = IF p = SPECTATOR THEN WATCHER ELSE EncodePosition(p)
    /\ u.isHost = h /\ u.watching = w.watching /\ u.screen = w.screen

LEMMA TypePosted ==
    ASSUME NEW v \in [Clients -> Views], NEW c \in Clients,
           NEW p \in Seats \cup {SPECTATOR}, NEW h \in BOOLEAN,
           NEW u, u = Post(v, {c}, TypeChange(p, h))
    PROVE  u \in [Clients -> Views] /\ OthersSame(u, v, c) /\ TypedAs(u[c], v[c], p, h)
<1>1. \A w \in Views : TypedAs(Shows(w, TypeChange(p, h)), w, p, h)
  BY TypeShown DEF TypedAs
<1>2. \A w \in Views : Shows(w, TypeChange(p, h)) \in Views
  BY <1>1 DEF SameSeats, TypedAs
<1>3. /\ u \in [Clients -> Views]
      /\ \A d \in Clients : u[d] = IF d \in {c} THEN Shows(v[d], TypeChange(p, h)) ELSE v[d]
  BY <1>2, Posted
<1>4. v[c] \in Views /\ u[c] = Shows(v[c], TypeChange(p, h))
  BY <1>3
<1> QED BY <1>1, <1>3, <1>4 DEF OthersSame

(***************************************************************************)
(* The game: the pictures of the room stay, the screens change.            *)
(***************************************************************************)
LEMMA SameMembers ==
    ASSUME Inv, Inv', ViewInv, kicked = {}, state.tag # "Closing", state'.tag \in GameTags,
           UNCHANGED <<seat, position>>, spectators' \subseteq spectators,
           NEW v, \A d \in Clients : SameRoom(v[d], shown[d])
    PROVE  \A d \in Present' : RoomAfter(v[d], d)
<1> SUFFICES ASSUME NEW d \in Present' PROVE RoomAfter(v[d], d)
  OBVIOUS
<1>1. d \in Present /\ d \in Clients /\ (d \in spectators <=> d \in spectators')
  <2>1. Seated' = Seated
    BY DEF Seated
  <2>2. Seated \cap spectators = {}
    BY SeatFacts DEF Inv, RosterSound, Seated
  <2> QED BY <2>1, <2>2, SeatedType DEF Present, Inv, TypeOK
<1>2. Depicts(shown[d], d)
  BY <1>1 DEF ViewInv, PictureOfRoom
<1>3. SameRoom(v[d], shown[d])
  BY <1>1
<1>4. state'.tag # "Waiting"
  BY DEF GameTags
<1> QED BY <1>1, <1>2, <1>3, <1>4 DEF RoomAfter, Depicts, SameRoom, SameSeats, At

\* After a message that shows the duel to the spectators the entry handlers
\* ask whom they have to.
LEMMA EntryAsks ==
    ASSUME Inv', state'.tag \in GameTags, NEW v \in [Clients -> Views],
           \A d \in spectators' : v[d].screen = "duel",
           NEW u, u = EntryPosts(v)
    PROVE  /\ u \in [Clients -> Views]
           /\ \A d \in Clients : SameRoom(u[d], v[d])
           /\ \A d \in Present' : ScreenAfter(u[d], d)
<1>1. /\ u \in [Clients -> Views]
      /\ \A d \in Clients : SameRoom(u[d], v[d])
  BY EntryPosted
<1>2. Present' \subseteq Clients
  BY DEF Present, Seated, Inv, TypeOK
<1>3. Seated' \cap spectators' = {}
  BY SeatFacts DEF Inv, RosterSound, Seated
<1>4. state'.tag = "RockPaperScissor" => HandPlayers \subseteq Seated'
  BY SeatFacts DEF HandPlayers, Inv, LineupComplete, Seated, GameTags, Tags, Teams
<1>5. state'.tag = "ChoosingTurn" => state'.turnChooser \in Seated'
  BY DEF Inv, LineupComplete, GameTags, Tags
<1>6. Present' = Seated' \cup spectators'
  BY DEF Present
<1>8. \A d \in Clients : u[d].screen = EntryScreen(d, v[d].screen)
  BY EntryPosted
<1>7. ASSUME NEW d \in Present' PROVE ScreenAfter(u[d], d)
  <2>1. d \in Clients
    BY <1>2
  <2>3. CASE d \in spectators'
    BY <1>3, <1>4, <1>5, <1>8, <2>1, <2>3 DEF ScreenAfter, EntryScreen
  <2>4. CASE d \notin spectators' /\ d \in Seated'
    BY <1>6, <1>8, <2>1, <2>4 DEF ScreenAfter, EntryScreen
  <2> QED BY <1>6, <2>3, <2>4
<1> QED BY <1>1, <1>7

\* Everybody is shown the duel, and then asked.
LEMMA DuelThenAsks ==
    ASSUME Inv', state'.tag \in GameTags, NEW v \in [Clients -> Views],
           NEW u, u = EntryPosts(ToAll(v, Screen("duel")))
    PROVE  /\ u \in [Clients -> Views]
           /\ \A d \in Clients : SameRoom(u[d], v[d])
           /\ \A d \in Present' : ScreenAfter(u[d], d)
<1>1. PICK duel \in Screens : duel = "duel"
  BY DEF Screens
<1> DEFINE m == Post(v, Present', Screen(duel))
<1>2. u = EntryPosts(m)
  BY <1>1 DEF ToAll
<1>3. /\ m \in [Clients -> Views]
      /\ \A d \in Clients :
           /\ SameRoom(m[d], v[d])
           /\ m[d].screen = IF d \in Present' THEN duel ELSE v[d].screen
  BY ScreenPosted
<1> HIDE DEF m
<1>4. spectators' \subseteq Present' /\ Present' \subseteq Clients
  BY DEF Present, Seated, Inv, TypeOK
<1>5. \A d \in spectators' : m[d].screen = "duel"
  BY <1>1, <1>3, <1>4
<1>6. /\ u \in [Clients -> Views]
      /\ \A d \in Clients : SameRoom(u[d], m[d])
      /\ \A d \in Present' : ScreenAfter(u[d], d)
  BY <1>2, <1>3, <1>5, EntryAsks
<1>7. \A d \in Clients : SameRoom(u[d], v[d])
  BY <1>3, <1>6, SameRoomTrans
<1> QED BY <1>6, <1>7

\* A dispatch of the game that shows the duel to all.
LEMMA GameTold ==
    ASSUME Inv, Inv', ViewInv, state.tag \in GameTags,
           Tell(EntryPosts(ToAll(shown, Screen("duel")))),
           UNCHANGED <<position, kicked>>, spectators' \subseteq spectators,
           state'.tag # "Closing" => state'.tag \in GameTags /\ seat' = seat
    PROVE  ViewInv' /\ PictureStep
<1> DEFINE v == EntryPosts(ToAll(shown, Screen("duel")))
<1>1. IsFiniteSet(spectators')
  BY FS_Subset DEF ViewInv
<1>2. ASSUME kicked = {}, state'.tag # "Closing"
      PROVE  /\ v \in [Clients -> Views]
             /\ \A d \in Present' : RoomAfter(v[d], d) /\ ScreenAfter(v[d], d)
  <2>1. shown \in [Clients -> Views] /\ state'.tag \in GameTags /\ state.tag # "Closing"
    BY <1>2 DEF ViewInv, GameTags
  <2>2. /\ v \in [Clients -> Views]
        /\ \A d \in Clients : SameRoom(v[d], shown[d])
        /\ \A d \in Present' : ScreenAfter(v[d], d)
    BY <2>1, DuelThenAsks
  <2> HIDE DEF v
  <2>3. \A d \in Present' : RoomAfter(v[d], d)
    BY <1>2, <2>1, <2>2, SameMembers
  <2> QED BY <2>2, <2>3
<1>3. Tell(v)
  OBVIOUS
<1> HIDE DEF v
<1> QED BY <1>1, <1>2, <1>3, ToldRight

\* Who has a question on its screen keeps it while the state lasts.
LEMMA StillAsked ==
    ASSUME ViewInv, kicked = {}, state.tag \in GameTags, seat' = seat,
           state'.tag = state.tag, state'.turnChooser = state.turnChooser,
           state.answered \subseteq state'.answered,
           NEW d, d \in spectators' => d \in spectators,
           NEW w, w.screen = shown[d].screen
    PROVE  ScreenAfter(w, d)
<1>1. Seated' = Seated
  BY DEF Seated
<1>2. HandsAsked /\ AwaitedAreAsked
  BY DEF ViewInv
<1>3. ASSUME state'.tag = "RockPaperScissor", d \in HandPlayers
      PROVE  w.screen = "choose a hand"
  BY <1>2, <1>3 DEF HandsAsked, HandPlayers, Teams
<1>4. ASSUME state'.tag = "ChoosingTurn", d = state'.turnChooser
      PROVE  w.screen = "choose the turn"
  <2>1. d \in Awaited /\ state.tag = "ChoosingTurn"
    BY <1>4 DEF Awaited
  <2>2. Question[state.tag] = "choose the turn"
    BY <2>1 DEF Question
  <2> QED BY <1>2, <2>1, <2>2 DEF AwaitedAreAsked
<1>5. ASSUME state'.tag = "Rematching", d \in Seated' \ state'.answered
      PROVE  w.screen = "answer"
  <2>1. d \in Awaited /\ state.tag = "Rematching"
    BY <1>1, <1>5 DEF Awaited
  <2>2. Question[state.tag] = "answer"
    BY <2>1 DEF Question
  <2> QED BY <1>2, <2>1, <2>2 DEF AwaitedAreAsked
<1>6. ASSUME state'.tag = "Sidedecking", d \in Seated' \ state'.answered
      PROVE  w.screen = "sidedeck"
  <2>1. d \in Awaited /\ state.tag = "Sidedecking"
    BY <1>1, <1>6 DEF Awaited
  <2>2. Question[state.tag] = "sidedeck"
    BY <2>1 DEF Question
  <2> QED BY <1>2, <2>1, <2>2 DEF AwaitedAreAsked
<1>7. ASSUME d \in spectators'
      PROVE  w.screen = IF state'.tag \in {"Rematching", "Sidedecking"}
                                 THEN "wait" ELSE "duel"
  BY <1>2, <1>7 DEF AwaitedAreAsked
<1> QED BY <1>3, <1>4, <1>5, <1>6, <1>7 DEF ScreenAfter

\* A dispatch that posts nothing, in a game that stays in its state.
LEMMA GameSilent ==
    ASSUME Inv, Inv', ViewInv, state.tag \in GameTags, Tell(shown),
           UNCHANGED <<position, kicked>>, spectators' \subseteq spectators,
           state'.tag # "Closing" =>
               /\ seat' = seat /\ state'.tag = state.tag
               /\ state'.turnChooser = state.turnChooser
               /\ state.answered \subseteq state'.answered
    PROVE  ViewInv' /\ PictureStep
<1>1. IsFiniteSet(spectators')
  BY FS_Subset DEF ViewInv
<1>2. ASSUME kicked = {}, state'.tag # "Closing"
      PROVE  /\ shown \in [Clients -> Views]
             /\ \A d \in Present' : RoomAfter(shown[d], d) /\ ScreenAfter(shown[d], d)
  <2>1. shown \in [Clients -> Views]
    BY DEF ViewInv
  <2>2. \A d \in Clients : SameRoom(shown[d], shown[d])
    BY <2>1 DEF SameRoom, SameSeats
  <2>3. \A d \in Present' : RoomAfter(shown[d], d)
    BY <1>2, <2>2, SameMembers DEF GameTags
  <2> QED BY <1>2, <2>1, <2>3, StillAsked
<1> QED BY <1>1, <1>2, ToldRight

LEMMA ScoredKeeps ==
    ASSUME Inv, state.tag \in GameTags, NEW winner \in 0..2, NEW kill \in BOOLEAN,
           FinishScored(winner, kill)
    PROVE  /\ spectators' \subseteq spectators
           /\ state'.tag # "Closing" => state'.tag \in GameTags /\ seat' = seat
<1>1. CASE EnterClosing
  <2>1. state'.tag = "Closing" /\ spectators' = {}
    BY <1>1, InType DEF EnterClosing, Tags
  <2> QED BY <2>1
<1>2. CASE state' = NextDuelState(winner) /\ UNCHANGED <<seat, spectators, shut>>
  BY <1>2, NextDuelStateType, TagsOfAGame
<1> QED BY <1>1, <1>2 DEF FinishScored

LEMMA ProcessKeeps ==
    ASSUME Inv, state.tag \in GameTags, Process
    PROVE  /\ spectators' \subseteq spectators
           /\ state'.tag # "Closing" => state'.tag \in GameTags /\ seat' = seat
<1>1. CASE \E r \in Seated : state' = DuelAwaiting(r)
                             /\ UNCHANGED <<seat, spectators, shut, wins>>
  BY <1>1, AwaitingType, SeatedType, TagsOfAGame
<1>2. CASE \E winner \in 0..2, kill \in BOOLEAN : FinishScored(winner, kill)
  BY <1>2, ScoredKeeps
<1>3. CASE FinishCrashed
  BY <1>3, NextDuelStateType, TagsOfAGame DEF FinishCrashed
<1> QED BY <1>1, <1>2, <1>3 DEF Process

LEMMA ChooseTurnTold ==
    ASSUME Inv, Inv', ViewInv, NEW c \in Clients, ViewChooseTurn(c)
    PROVE  ViewInv' /\ PictureStep
<1>1. state.tag \in GameTags /\ Process /\ UNCHANGED <<position, kicked>>
  BY TagsOfAGame DEF ViewChooseTurn, ChooseTurn, InState
<1>2. Tell(EntryPosts(ToAll(shown, Screen("duel"))))
  BY DEF ViewChooseTurn, GamePosts, GameMsg
<1> QED BY <1>1, <1>2, ProcessKeeps, GameTold

LEMMA ResponseTold ==
    ASSUME Inv, Inv', ViewInv, NEW c \in Clients, ViewResponse(c)
    PROVE  ViewInv' /\ PictureStep
<1>1. state.tag \in GameTags /\ Process /\ UNCHANGED <<position, kicked>>
  BY TagsOfAGame DEF ViewResponse, Response, InState
<1>2. Tell(EntryPosts(ToAll(shown, Screen("duel"))))
  BY DEF ViewResponse, GamePosts, GameMsg
<1> QED BY <1>1, <1>2, ProcessKeeps, GameTold

LEMMA TimerExpiredTold ==
    ASSUME Inv, Inv', ViewInv, NEW t \in Teams, ViewTimerExpired(t)
    PROVE  ViewInv' /\ PictureStep
<1>1. state.tag \in GameTags /\ UNCHANGED <<position, kicked>>
  BY TagsOfAGame DEF ViewTimerExpired, TimerExpired
<1>2. \E kill \in BOOLEAN : FinishScored(1 - t, kill)
  BY DEF ViewTimerExpired, TimerExpired
<1>3. 1 - t \in 0..2
  BY DEF Teams
<1>4. Tell(EntryPosts(ToAll(shown, Screen("duel"))))
  BY DEF ViewTimerExpired, GamePosts, GameMsg
<1> QED BY <1>1, <1>2, <1>3, <1>4, ScoredKeeps, GameTold

LEMMA SurrenderTold ==
    ASSUME Inv, Inv', ViewInv, NEW c \in Clients, ViewSurrender(c)
    PROVE  ViewInv' /\ PictureStep
<1>1. state.tag \in GameTags /\ UNCHANGED <<position, kicked>>
  BY TagsOfAGame DEF ViewSurrender, Surrender, InState
<1>2. CASE position[c] = SPECTATOR
  <2>1. UNCHANGED <<state, seat>> /\ spectators' \subseteq spectators
    BY <1>2 DEF ViewSurrender, Surrender
  <2>2. Tell(shown)
    BY <1>2 DEF ViewSurrender
  <2> QED BY <1>1, <2>1, <2>2, GameSilent
<1>3. CASE position[c] # SPECTATOR
  <2>1. \E kill \in BOOLEAN : FinishScored(1 - position[c][1], kill)
    BY <1>3 DEF ViewSurrender, Surrender
  <2>2. 1 - position[c][1] \in 0..2
    BY <1>3, SeatFacts DEF Inv, TypeOK, Teams
  <2>3. Tell(EntryPosts(ToAll(shown, Screen("duel"))))
    BY <1>3 DEF ViewSurrender, GamePosts, GameMsg
  <2> QED BY <1>1, <2>1, <2>2, <2>3, ScoredKeeps, GameTold
<1> QED BY <1>2, <1>3

\* A hand: half of the choice, a tie, or a winner who chooses the turn.
LEMMA ChooseRPSTold ==
    ASSUME Inv, Inv', ViewInv, NEW c \in Clients, NEW value \in 0..3,
           ViewChooseRPS(c, value)
    PROVE  ViewInv' /\ PictureStep
<1> DEFINE t == position[c][1]
           choices == [state.choices EXCEPT ![t] = value]
           winner == IF Beats(choices[1], choices[0]) THEN 1 ELSE 0
<1>1. /\ state.tag = "RockPaperScissor" /\ state.tag \in GameTags
      /\ position[c][2] = 0
      /\ UNCHANGED <<seat, spectators, position, kicked>>
  BY DEF ViewChooseRPS, ChooseRPS, InState, GameTags, Tags, members
<1>2. state' = IF 0 \in {choices[0], choices[1]} THEN [state EXCEPT !.choices = choices]
               ELSE IF choices[0] = choices[1] THEN In("RockPaperScissor")
               ELSE ChoosingBy(seat[<<winner, 0>>])
  BY DEF ViewChooseRPS, ChooseRPS
<1>3. t \in Teams
  BY <1>1, SeatFacts DEF Inv, TypeOK, SPECTATOR
<1>4. state.choices \in [Teams -> 0..3]
  BY DEF Inv, TypeOK, States
<1>5. 0 \in {choices[0], choices[1]} <=> 0 \in {value, state.choices[1 - t]}
  BY <1>3, <1>4 DEF Teams
<1>6. Tell(IF 0 \in {value, state.choices[1 - t]} THEN shown
           ELSE EntryPosts(ToAll(shown, Screen("duel"))))
  BY DEF ViewChooseRPS, RPSResult
<1> HIDE DEF t, choices, winner
<1>7. CASE 0 \in {choices[0], choices[1]}
  <2>1. state' = [state EXCEPT !.choices = choices] /\ Tell(shown)
    BY <1>2, <1>5, <1>6, <1>7
  <2>2. /\ state'.tag = state.tag /\ state'.turnChooser = state.turnChooser
        /\ state'.answered = state.answered
    BY <2>1 DEF Inv, TypeOK, States
  <2> QED BY <1>1, <2>1, <2>2, GameSilent
<1>8. CASE 0 \notin {choices[0], choices[1]}
  <2>1. Tell(EntryPosts(ToAll(shown, Screen("duel"))))
    BY <1>5, <1>6, <1>8
  <2>2. state'.tag \in GameTags
    <3>1. CASE state' = In("RockPaperScissor")
      BY <1>1, <3>1, InType DEF Tags
    <3>2. CASE state' = ChoosingBy(seat[<<winner, 0>>])
      <4>1. seat[<<winner, 0>>] \in Clients
        BY <1>1, FirstDuelists, SeatedType DEF Teams, winner
      <4> QED BY <3>2, <4>1, ChoosingType, TagsOfAGame
    <3> QED BY <1>2, <1>8, <3>1, <3>2
  <2> QED BY <1>1, <2>1, <2>2, GameTold
<1> QED BY <1>7, <1>8

\* Who agrees is counted; the last one starts the next duel.
LEMMA AgreeKeeps ==
    ASSUME Inv, state.tag \in {"Rematching", "Sidedecking"}, NEW c \in Clients, Agree(c)
    PROVE  /\ state'.tag \in GameTags
           /\ ~NextDuel => /\ state'.tag = state.tag
                           /\ state'.turnChooser = state.turnChooser
                           /\ state'.answered = state.answered \cup {c}
<1>1. state.tag \in GameTags /\ state.turnChooser \in Clients
  BY TagsOfAGame, SeatedType DEF Inv, LineupComplete
<1>2. CASE state' = ChoosingBy(state.turnChooser)
  BY <1>1, <1>2, ChoosingType, TagsOfAGame DEF NextDuel
<1>3. CASE state' = [state EXCEPT !.answered = state.answered \cup {c}]
  BY <1>1, <1>3 DEF Inv, TypeOK, States
<1> QED BY <1>2, <1>3 DEF Agree

LEMMA RematchTold ==
    ASSUME Inv, Inv', ViewInv, NEW c \in Clients, NEW answer \in BOOLEAN,
           ViewRematch(c, answer)
    PROVE  ViewInv' /\ PictureStep
<1>1. /\ state.tag = "Rematching" /\ state.tag \in GameTags
      /\ UNCHANGED <<position, kicked>>
  BY TagsOfAGame DEF ViewRematch, Rematch, InState
<1>2. Tell(IF NextDuel THEN EntryPosts(ToAll(shown, Screen("duel"))) ELSE shown)
  BY DEF ViewRematch, DuelStart
<1>3. CASE answer
  <2>1. Agree(c) /\ UNCHANGED <<seat, spectators>>
    BY <1>3 DEF ViewRematch, Rematch
  <2>2. CASE NextDuel
    BY <1>1, <1>2, <2>1, <2>2, AgreeKeeps, GameTold
  <2>3. CASE ~NextDuel
    BY <1>1, <1>2, <2>1, <2>3, AgreeKeeps, GameSilent
  <2> QED BY <2>2, <2>3
<1>4. CASE ~answer
  <2>1. EnterClosing
    BY <1>4 DEF ViewRematch, Rematch
  <2>2. state'.tag = "Closing" /\ spectators' = {}
    BY <2>1, InType DEF EnterClosing, Tags
  <2> QED BY <1>1, <1>2, <2>2, GameSilent DEF NextDuel
<1> QED BY <1>3, <1>4

\* A side deck is acknowledged with the start of a duel; spectators hear of it
\* when the last one is in.
LEMMA SideDeckTold ==
    ASSUME Inv, Inv', ViewInv, NEW c \in Clients, ViewSideDeck(c)
    PROVE  ViewInv' /\ PictureStep
<1>1. /\ state.tag = "Sidedecking" /\ state.tag \in GameTags
      /\ position[c] # SPECTATOR /\ Agree(c)
      /\ UNCHANGED <<seat, spectators, position, kicked>>
  BY TagsOfAGame DEF ViewSideDeck, SideDeck, InState, members
<1>2. PICK duel \in Screens : duel = "duel"
  BY DEF Screens
<1> DEFINE started == Post(shown, {c}, Screen(duel))
           all == Post(started, spectators', Screen(duel))
           v == IF NextDuel THEN EntryPosts(all) ELSE started
<1>3. Tell(v)
  BY <1>2 DEF ViewSideDeck, DuelStart
<1>4. shown \in [Clients -> Views] /\ IsFiniteSet(spectators')
  BY <1>1 DEF ViewInv
<1>5. /\ started \in [Clients -> Views]
      /\ \A d \in Clients : /\ SameRoom(started[d], shown[d])
                            /\ started[d].screen = IF d \in {c} THEN duel
                                                               ELSE shown[d].screen
  BY <1>4, ScreenPosted
<1> HIDE DEF started
<1>6. /\ all \in [Clients -> Views]
      /\ \A d \in Clients : /\ SameRoom(all[d], started[d])
                            /\ all[d].screen = IF d \in spectators' THEN duel
                                                               ELSE started[d].screen
  BY <1>5, ScreenPosted
<1> HIDE DEF all
<1>7. state'.tag \in GameTags
  BY <1>1, AgreeKeeps
<1>8. Present' \subseteq Clients /\ spectators' \subseteq Present'
  BY DEF Present, Seated, Inv, TypeOK
<1>9. ASSUME kicked = {}, state'.tag # "Closing"
      PROVE  /\ v \in [Clients -> Views]
             /\ \A d \in Present' : RoomAfter(v[d], d) /\ ScreenAfter(v[d], d)
  <2>1. CASE NextDuel
    <3>1. v = EntryPosts(all)
      BY <2>1
    <3>2. \A d \in spectators' : all[d].screen = "duel"
      BY <1>2, <1>6, <1>8
    <3>3. /\ v \in [Clients -> Views]
          /\ \A d \in Clients : SameRoom(v[d], all[d])
          /\ \A d \in Present' : ScreenAfter(v[d], d)
      BY <1>6, <1>7, <3>1, <3>2, EntryAsks
    <3> HIDE DEF v
    <3>4. \A d \in Clients : SameRoom(v[d], shown[d])
      <4> TAKE d \in Clients
      <4>1. SameRoom(v[d], all[d]) /\ SameRoom(all[d], started[d])
            /\ SameRoom(started[d], shown[d])
        BY <1>5, <1>6, <3>3
      <4> QED BY <4>1, SameRoomTrans
    <3>5. \A d \in Present' : RoomAfter(v[d], d)
      BY <1>1, <1>7, <1>9, <3>4, SameMembers DEF GameTags
    <3> QED BY <3>3, <3>5
  <2>2. CASE ~NextDuel
    <3>1. v = started
      BY <2>2
    <3> HIDE DEF v
    <3>2. /\ state'.tag = "Sidedecking" /\ state'.answered = state.answered \cup {c}
      BY <1>1, <2>2, AgreeKeeps
    <3>3. \A d \in Present' : RoomAfter(v[d], d)
      BY <1>1, <1>5, <1>7, <1>9, <3>1, SameMembers DEF GameTags
    <3>4. ASSUME NEW d \in Present' PROVE ScreenAfter(v[d], d)
      <4>1. d \in Clients /\ Seated' = Seated
        BY <1>1, <1>8 DEF Seated
      <4>2. AwaitedAreAsked
        BY DEF ViewInv
      <4>3. ASSUME d \in Seated' \ state'.answered PROVE v[d].screen = "sidedeck"
        <5>1. d # c /\ d \in Seated \ state.answered
          BY <3>2, <4>1, <4>3
        <5>2. d \in Awaited
          BY <1>1, <5>1 DEF Awaited
        <5>3. Question[state.tag] = "sidedeck"
          BY <1>1 DEF Question
        <5>4. shown[d].screen = "sidedeck"
          BY <1>1, <1>9, <4>2, <5>2, <5>3 DEF AwaitedAreAsked
        <5> QED BY <1>5, <3>1, <4>1, <5>1, <5>4
      <4>4. ASSUME d \in spectators' PROVE v[d].screen = "wait"
        <5>1. d # c /\ d \in spectators
          BY <1>1, <4>4 DEF Inv, RosterSound
        <5>2. shown[d].screen = "wait"
          BY <1>1, <1>9, <4>2, <5>1 DEF AwaitedAreAsked
        <5> QED BY <1>5, <3>1, <4>1, <5>1, <5>2
      <4> QED BY <3>2, <4>3, <4>4 DEF ScreenAfter
    <3> QED BY <1>5, <3>1, <3>3, <3>4
  <2> QED BY <2>1, <2>2
<1> HIDE DEF v
<1> QED BY <1>1, <1>3, <1>4, <1>9, ToldRight

(***************************************************************************)
(* The handlers of the waiting room.                                       *)
(***************************************************************************)
\* The picture of a client in the waiting room before the step.
LEMMA PictureBefore ==
    ASSUME ViewInv, kicked = {}, state.tag = "Waiting", NEW d \in Present
    PROVE  /\ \A p \in Seats :
                 /\ At(shown[d], p).name = seat[p]
                 /\ seat[p] # NoClient => At(shown[d], p).ready = ready[seat[p]]
           /\ shown[d].slot = IF d \in spectators THEN WATCHER
                                                  ELSE EncodePosition(position[d])
           /\ shown[d].isHost = (state.host = d)
           /\ shown[d].watching = Cardinality(spectators)
<1>1. Depicts(shown[d], d)
  BY DEF ViewInv, PictureOfRoom
<1> QED BY <1>1 DEF Depicts, At

\* A dispatch that leaves the room waiting.
LEMMA WaitingTold ==
    ASSUME Inv', IsFiniteSet(spectators'), kicked \subseteq kicked',
           state'.tag = "Waiting", NEW v, Tell(v),
           kicked = {} => /\ v \in [Clients -> Views]
                          /\ \A d \in Present' : RoomAfter(v[d], d)
    PROVE  ViewInv' /\ PictureStep
<1>1. \A d : ScreenAfter(v[d], d)
  BY DEF ScreenAfter, GameTags
<1> QED BY <1>1, ToldRight

\* One that closes it.
LEMMA ClosingTold ==
    ASSUME Inv', kicked \subseteq kicked', state'.tag = "Closing", NEW v, Tell(v)
    PROVE  ViewInv' /\ PictureStep
<1>1. IsFiniteSet(spectators')
  BY FS_EmptySet DEF Inv, ClosedInv
<1> QED BY <1>1, ToldRight

\* One that neither moves anybody nor says anything.
LEMMA SilentTold ==
    ASSUME Inv, Inv', ViewInv, Tell(shown),
           UNCHANGED <<state, seat, spectators, position, ready, kicked>>
    PROVE  ViewInv' /\ PictureStep
<1>1. CASE state.tag = "Waiting"
  <2>1. shown \in [Clients -> Views] /\ IsFiniteSet(spectators')
    BY DEF ViewInv
  <2>2. Present' = Present
    BY DEF Present, Seated
  <2>3. ASSUME kicked = {}, NEW d \in Present' PROVE RoomAfter(shown[d], d)
    BY <1>1, <2>2, <2>3, PictureBefore DEF RoomAfter
  <2> QED BY <1>1, <2>1, <2>3, WaitingTold
<1>2. CASE state.tag = "Closing"
  BY <1>2, ClosingTold
<1>3. CASE state.tag \in GameTags
  BY <1>3, GameSilent
<1> QED BY <1>1, <1>2, <1>3 DEF Inv, TypeOK, States, GameTags

LEMMA UpdateDeckTold ==
    ASSUME Inv, Inv', ViewInv, NEW c \in Clients, NEW valid \in BOOLEAN,
           ViewUpdateDeck(c, valid)
    PROVE  ViewInv' /\ PictureStep
BY SilentTold DEF ViewUpdateDeck, UpdateDeck, members

LEMMA OthersTold ==
    ASSUME Inv, Inv', ViewInv, Silent
    PROVE  ViewInv' /\ PictureStep
<1>1. Tell(shown)
  BY DEF Silent
<1>2. CASE LobbyClose
  BY <1>1, <1>2, SilentTold DEF LobbyClose, members, clientData
<1>3. CASE Close
  <2>1. CASE state.tag = "Waiting"
    <3>1. state'.tag = "Closing" /\ kicked' = kicked
      BY <1>3, <2>1, InType DEF Close, EnterClosing, Tags
    <3> QED BY <1>1, <3>1, ClosingTold
  <2>2. CASE state.tag # "Waiting"
    BY <1>1, <1>3, <2>2, SilentTold DEF Close, clientData
  <2> QED BY <2>1, <2>2
<1>4. CASE \E c \in Clients : Connect(c)
  BY <1>1, <1>4, SilentTold DEF Connect, members, clientData
<1> QED BY <1>2, <1>3, <1>4 DEF Silent

\* A client is ready, or no longer.
LEMMA ReadyTold ==
    ASSUME Inv, Inv', ViewInv, NEW c \in Clients, NEW value \in BOOLEAN,
           ViewReady(c, value)
    PROVE  ViewInv' /\ PictureStep
<1> DEFINE p == position[c]
           r == ready'[c]
           v == Post(shown, Present', PlayerChange(p, r))
<1>1. /\ conn[c] = "open" /\ state.tag = "Waiting" /\ position[c] # SPECTATOR
      /\ UNCHANGED <<state, seat, spectators, position, kicked>>
      /\ \A d \in Clients \ {c} : ready'[d] = ready[d]
  BY DEF ViewReady, Ready, InWaiting, members, Inv, TypeOK
<1>2. Tell(v)
  BY DEF ViewReady, ToAll
<1>3. p \in Seats /\ r \in BOOLEAN
  BY <1>1 DEF Inv, TypeOK
<1>4. Present' = Present /\ Present' \subseteq Clients
  BY <1>1 DEF Present, Seated, Inv, TypeOK
<1>5. shown \in [Clients -> Views] /\ IsFiniteSet(spectators')
  BY <1>1 DEF ViewInv
<1>6. \A q \in Seats : seat[q] = c => q = p
  BY ClientsAssumption DEF Inv, RosterSound
<1>7. kicked = {} => seat[p] = c
  BY <1>1, SitsAtPosition
<1>a. r = ready'[c]
  OBVIOUS
<1> HIDE DEF p, r
<1>8. /\ v \in [Clients -> Views]
      /\ \A d \in Clients \cap Present' :
           /\ OnlySeats(v[d], shown[d])
           /\ \A q \in Seats :
                 /\ At(v[d], q).name = At(shown[d], q).name
                 /\ At(v[d], q).ready = IF q = p THEN r ELSE At(shown[d], q).ready
  BY <1>3, <1>5, ChangePosted
<1> HIDE DEF v
<1>9. ASSUME kicked = {}, NEW d \in Present' PROVE RoomAfter(v[d], d)
  <2>1. d \in Clients \cap Present'
    BY <1>4
  <2>2. \A q \in Seats : At(v[d], q).name = seat'[q]
    BY <1>1, <1>4, <1>8, <1>9, <2>1, PictureBefore
  <2>3. ASSUME NEW q \in Seats, seat'[q] # NoClient
        PROVE  At(v[d], q).ready = ready'[seat'[q]]
    <3>1. CASE q = p
      BY <1>1, <1>7, <1>8, <1>9, <1>a, <2>1, <3>1
    <3>2. CASE q # p
      <4>1. seat[q] \in Clients \ {c} /\ seat'[q] = seat[q]
        <5>1. seat'[q] = seat[q] /\ seat[q] # c
          BY <1>1, <1>6, <3>2
        <5>2. seat[q] \in Clients \cup {NoClient}
          BY DEF Inv, TypeOK
        <5> QED BY <2>3, <5>1, <5>2
      <4>2. At(shown[d], q).ready = ready[seat[q]]
        BY <1>1, <1>4, <1>9, <2>3, <4>1, PictureBefore
      <4>3. ready'[seat'[q]] = ready[seat[q]]
        BY <1>1, <4>1
      <4> QED BY <1>8, <2>1, <3>2, <4>2, <4>3
    <3> QED BY <3>1, <3>2
  <2>4. OnlySeats(v[d], shown[d])
    BY <1>8, <2>1
  <2> QED BY <1>1, <1>4, <1>9, <2>2, <2>3, <2>4, PictureBefore DEF RoomAfter, OnlySeats
<1> QED BY <1>1, <1>2, <1>5, <1>8, <1>9, WaitingTold

\* A duelist leaves its seat empty: the kick and the lost connection.
LEMMA SeatLeft ==
    ASSUME Inv, Inv', ViewInv, kicked = {}, state.tag = "Waiting", NEW p \in Seats,
           seat[p] # NoClient, seat' = Vacated(p),
           UNCHANGED <<state, spectators, position, ready>>,
           NEW v, v = Post(shown, Present', Status(p, "LEAVE"))
    PROVE  /\ v \in [Clients -> Views]
           /\ \A d \in Present' : RoomAfter(v[d], d)
<1>1. Present' \subseteq Present /\ Present' \subseteq Clients
  BY DEF Present, Seated, Inv, TypeOK, Vacated
<1>2. shown \in [Clients -> Views]
  BY DEF ViewInv
<1>3. /\ v \in [Clients -> Views]
      /\ \A d \in Clients \cap Present' :
           /\ OnlySeats(v[d], shown[d])
           /\ \A q \in Seats : At(v[d], q) = IF q = p THEN Nobody ELSE At(shown[d], q)
  BY <1>2, LeavePosted
<1>4. \A q \in Seats : seat'[q] = IF q = p THEN NoClient ELSE seat[q]
  BY DEF Vacated, Inv, TypeOK
<1>5. ASSUME NEW d \in Present' PROVE RoomAfter(v[d], d)
  <2>1. d \in Clients \cap Present' /\ d \in Present
    BY <1>1
  <2>2. \A q \in Seats : /\ At(v[d], q).name = seat'[q]
                         /\ seat'[q] # NoClient => At(v[d], q).ready = ready'[seat'[q]]
    BY <1>3, <1>4, <2>1, PictureBefore, EntryType
  <2>3. OnlySeats(v[d], shown[d])
    BY <1>3, <2>1
  <2> QED BY <2>1, <2>2, <2>3, PictureBefore DEF RoomAfter, OnlySeats
<1> QED BY <1>3, <1>5

LEMMA TryKickTold ==
    ASSUME Inv, Inv', ViewInv, NEW c \in Clients, NEW pos \in 0..T0Count + T1Count,
           ViewTryKick(c, pos)
    PROVE  ViewInv' /\ PictureStep
<1> DEFINE p == DecodePosition(pos)
           v == Post(shown, Present', Status(p, "LEAVE"))
<1>1. /\ state.tag = "Waiting" /\ p \in Seats /\ seat[p] # NoClient
      /\ seat' = Vacated(p) /\ kicked \subseteq kicked'
      /\ UNCHANGED <<state, spectators, position, ready>>
  BY DEF ViewTryKick, TryKick, InWaiting, clientData
<1>2. position[seat[p]] = p
  BY <1>1 DEF Inv, RosterSound
<1>3. Tell(v)
  BY <1>2 DEF ViewTryKick, ToAll
<1>4. IsFiniteSet(spectators')
  BY <1>1 DEF ViewInv
<1> HIDE DEF p
<1>5. kicked = {} => v \in [Clients -> Views] /\ \A d \in Present' : RoomAfter(v[d], d)
  BY <1>1, SeatLeft
<1> HIDE DEF v
<1> QED BY <1>1, <1>3, <1>4, <1>5, WaitingTold

\* A spectator leaves, or comes: everybody hears how many are left.
LEMMA WatcherLeft ==
    ASSUME Inv, Inv', ViewInv, kicked = {}, state.tag = "Waiting",
           spectators' \subseteq spectators,
           UNCHANGED <<state, seat, position, ready>>,
           NEW v, v = Post(shown, Present', WatchChange(Cardinality(spectators')))
    PROVE  /\ v \in [Clients -> Views]
           /\ \A d \in Present' : RoomAfter(v[d], d)
<1>1. Present' \subseteq Present /\ Present' \subseteq Clients
  BY DEF Present, Seated, Inv, TypeOK
<1>2. Cardinality(spectators') \in Nat
  BY FS_Subset, FS_CardinalityType DEF ViewInv
<1>3. shown \in [Clients -> Views]
  BY DEF ViewInv
<1>4. /\ v \in [Clients -> Views]
      /\ \A d \in Clients :
           /\ SameSeats(v[d], shown[d])
           /\ v[d].watching = IF d \in Present' THEN Cardinality(spectators')
                                                ELSE shown[d].watching
           /\ v[d].slot = shown[d].slot /\ v[d].isHost = shown[d].isHost
  BY <1>2, <1>3, WatchPosted
<1>5. ASSUME NEW d \in Present' PROVE RoomAfter(v[d], d)
  <2>1. d \in Clients /\ d \in Present /\ (d \in spectators <=> d \in spectators')
    <3>1. Seated' = Seated /\ Seated \cap spectators = {}
      BY SeatFacts DEF Seated, Inv, RosterSound
    <3> QED BY <1>1, <3>1 DEF Present
  <2>2. \A q \in Seats : At(v[d], q) = At(shown[d], q)
    BY <1>4, <2>1 DEF SameSeats
  <2> QED BY <1>4, <2>1, <2>2, PictureBefore DEF RoomAfter
<1> QED BY <1>4, <1>5

LEMMA ConnectionLostTold ==
    ASSUME Inv, Inv', ViewInv, NEW c \in Clients, ViewConnectionLost(c)
    PROVE  ViewInv' /\ PictureStep
<1>1. /\ conn[c] = "open"
      /\ Tell(LeavePosts(shown, c))
      /\ UNCHANGED <<position, ready, kicked>>
      /\ LoseWhileWaiting(c) \/ LoseDuringGame(c) \/ LoseWhileClosing
  BY DEF ViewConnectionLost, ConnectionLost, clientData
<1>2. CASE EnterClosing
  <2>1. state'.tag = "Closing"
    BY <1>2, InType DEF EnterClosing, Tags
  <2> QED BY <1>1, <2>1, ClosingTold
<1>3. CASE LoseWhileWaiting(c) /\ ~EnterClosing
  <2>1. CASE position[c] # SPECTATOR
    <3> DEFINE p == position[c]
               v == Post(shown, Present', Status(p, "LEAVE"))
    <3>1. state.tag = "Waiting" /\ seat' = Vacated(p) /\ UNCHANGED <<state, spectators>>
      BY <1>3, <2>1 DEF LoseWhileWaiting
    <3>2. Tell(v)
      BY <1>1, <2>1, <3>1 DEF LeavePosts, ToAll
    <3>3. p \in Seats /\ IsFiniteSet(spectators')
      BY <2>1, <3>1 DEF Inv, TypeOK, ViewInv
    <3>4. kicked = {} => seat[p] = c /\ seat[p] # NoClient
      BY <1>1, <2>1, <3>1, SitsAtPosition, ClientsAssumption
    <3> HIDE DEF p
    <3>5. kicked = {} => v \in [Clients -> Views] /\ \A d \in Present' : RoomAfter(v[d], d)
      BY <1>1, <3>1, <3>3, <3>4, SeatLeft
    <3> HIDE DEF v
    <3> QED BY <1>1, <3>1, <3>2, <3>3, <3>5, WaitingTold
  <2>2. CASE position[c] = SPECTATOR
    <3> DEFINE v == Post(shown, Present', WatchChange(Cardinality(spectators')))
    <3>1. state.tag = "Waiting" /\ spectators' = spectators \ {c} /\ UNCHANGED <<state, seat>>
      BY <1>3, <2>2 DEF LoseWhileWaiting
    <3>2. Tell(v)
      BY <1>1, <2>2, <3>1 DEF LeavePosts, WatchPosts, ToAll
    <3>3. IsFiniteSet(spectators')
      BY <3>1, FS_Subset DEF ViewInv
    <3>4. kicked = {} => v \in [Clients -> Views] /\ \A d \in Present' : RoomAfter(v[d], d)
      BY <1>1, <3>1, WatcherLeft
    <3> HIDE DEF v
    <3> QED BY <1>1, <3>1, <3>2, <3>3, <3>4, WaitingTold
  <2> QED BY <2>1, <2>2
<1>4. CASE LoseDuringGame(c) /\ ~EnterClosing
  <2>1. state.tag \in GameTags /\ spectators' \subseteq spectators /\ UNCHANGED <<state, seat>>
    BY <1>4 DEF LoseDuringGame
  <2>2. Tell(shown)
    BY <1>1, <2>1 DEF LeavePosts, GameTags
  <2> QED BY <1>1, <2>1, <2>2, GameSilent
<1>5. CASE LoseWhileClosing
  <2>1. state'.tag = "Closing"
    BY <1>5 DEF LoseWhileClosing
  <2> QED BY <1>1, <2>1, ClosingTold
<1> QED BY <1>1, <1>2, <1>3, <1>4, <1>5

\* SendDuelistsInfo shows a newcomer everybody who is seated.
LEMMA InfoShown ==
    ASSUME Inv', NEW c \in Clients, NEW v \in [Clients -> Views],
           NEW u, u = DuelistsInfo(v, c)
    PROVE  /\ u \in [Clients -> Views]
           /\ \A d \in Clients \ {c} : u[d] = v[d]
           /\ u[c].watching = v[c].watching /\ u[c].slot = v[c].slot
           /\ u[c].isHost = v[c].isHost /\ u[c].screen = v[c].screen
           /\ \A q \in Seats :
                 IF seat'[q] \in {NoClient, c}
                   THEN At(u[c], q) = At(v[c], q)
                   ELSE At(u[c], q).name = seat'[q] /\ At(u[c], q).ready = ready'[seat'[q]]
<1> DEFINE Told(p) == Shows(Shows(v[c], PlayerEnter(seat'[p], p)),
                            PlayerChange(p, ready'[seat'[p]]))
           Put(s) == IF seat'[DecodePosition(s)] \in {NoClient, c} THEN v[c].seats[s]
                     ELSE Told(DecodePosition(s)).seats[s]
           shows == [s \in Slots |-> Put(s)]
<1>1. u = [v EXCEPT ![c].seats = shows]
  BY DEF DuelistsInfo
<1>2. v[c] \in Views
  OBVIOUS
<1>3. ASSUME NEW p \in Seats, seat'[p] \notin {NoClient, c}
      PROVE  /\ At(Told(p), p) \in Entries
             /\ At(Told(p), p).name = seat'[p] /\ At(Told(p), p).ready = ready'[seat'[p]]
  <2>1. PICK e : e = seat'[p]
    OBVIOUS
  <2>2. PICK r : r = ready'[e]
    OBVIOUS
  <2>3. e \in Clients /\ r \in BOOLEAN
    BY <1>3, <2>1, <2>2 DEF Inv, TypeOK
  <2> DEFINE a == Shows(v[c], PlayerEnter(e, p))
             b == Shows(a, PlayerChange(p, r))
  <2>4. OnlySeats(a, v[c]) /\ At(a, p) = [name |-> e, ready |-> FALSE]
    BY <1>2, <2>3, EnterShown
  <2>5. a \in Views /\ At(a, p).name = e
    BY <2>3, <2>4, EntryType DEF OnlySeats
  <2> HIDE DEF a
  <2>6. OnlySeats(b, a) /\ At(b, p).name = e /\ At(b, p).ready = r
    BY <2>3, <2>5, ChangeShown
  <2>7. b = Told(p)
    BY <2>1, <2>2 DEF a
  <2> HIDE DEF b, Told
  <2>8. At(b, p) \in Entries
    BY <2>6, AtType DEF OnlySeats
  <2> QED BY <2>1, <2>2, <2>6, <2>7, <2>8
<1> HIDE DEF Told
<1>4. ASSUME NEW q \in Seats
      PROVE  /\ Put(EncodePosition(q)) \in Entries
             /\ IF seat'[q] \in {NoClient, c}
                  THEN Put(EncodePosition(q)) = At(v[c], q)
                  ELSE /\ Put(EncodePosition(q)).name = seat'[q]
                       /\ Put(EncodePosition(q)).ready = ready'[seat'[q]]
  <2>1. DecodePosition(EncodePosition(q)) = q
    BY SlotFacts
  <2>2. CASE seat'[q] \in {NoClient, c}
    <3>1. Put(EncodePosition(q)) = At(v[c], q)
      BY <2>1, <2>2 DEF At
    <3> HIDE DEF Put
    <3> QED BY <1>2, <2>2, <3>1, AtType
  <2>3. CASE seat'[q] \notin {NoClient, c}
    <3>1. Put(EncodePosition(q)) = At(Told(q), q)
      BY <2>1, <2>3 DEF At
    <3> HIDE DEF Put
    <3> QED BY <1>3, <2>3, <3>1
  <2> QED BY <2>2, <2>3
<1> HIDE DEF Put
<1>5. \A s \in Slots : Put(s) \in Entries
  <2> TAKE s \in Slots
  <2>1. DecodePosition(s) \in Seats /\ EncodePosition(DecodePosition(s)) = s
    BY SlotFacts
  <2>2. Put(EncodePosition(DecodePosition(s))) \in Entries
    BY <1>4, <2>1
  <2> QED BY <2>1, <2>2
<1>6. shows \in [Slots -> Entries] /\ \A q \in Seats :
                                        shows[EncodePosition(q)] = Put(EncodePosition(q))
  BY <1>5, SlotFacts
<1> HIDE DEF shows
<1>7. u[c] = [v[c] EXCEPT !.seats = shows]
  BY <1>1
<1>8. /\ u[c] \in Views /\ u[c].seats = shows
      /\ u[c].watching = v[c].watching /\ u[c].slot = v[c].slot
      /\ u[c].isHost = v[c].isHost /\ u[c].screen = v[c].screen
  BY <1>2, <1>6, <1>7 DEF Views
<1>9. \A q \in Seats : At(u[c], q) = Put(EncodePosition(q))
  BY <1>6, <1>8 DEF At
<1>10. \A d \in Clients \ {c} : u[d] = v[d]
  BY <1>1
<1>11. u \in [Clients -> Views]
  BY <1>1, <1>8, <1>10
<1> QED BY <1>4, <1>8, <1>9, <1>10, <1>11

\* What a client that is not there yet is shown: an empty room.
LEMMA NothingBefore ==
    ASSUME ViewInv, NEW c \in Clients, conn[c] # "open"
    PROVE  /\ shown[c] \in Views /\ shown[c].watching = 0
           /\ \A q \in Seats : At(shown[c], q).name = NoClient
<1>1. shown[c] = Blank /\ shown \in [Clients -> Views]
  BY DEF ViewInv
<1>2. Blank.watching = 0
  BY DEF Blank
<1> QED BY <1>1, <1>2, BlankView, EntryType

\* A spectator is set up: it is told so, and who is seated.
LEMMA SetupShown ==
    ASSUME Inv', ViewInv, NEW c \in Clients, conn[c] # "open", c \notin Seated',
           NEW u, u = SetupAsSpectator(shown, c)
    PROVE  /\ u \in [Clients -> Views]
           /\ \A d \in Clients \ {c} : u[d] = shown[d]
           /\ u[c].slot = WATCHER /\ ~u[c].isHost
           /\ \A q \in Seats :
                 /\ At(u[c], q).name = seat'[q]
                 /\ seat'[q] # NoClient => At(u[c], q).ready = ready'[seat'[q]]
<1>0. PICK no \in BOOLEAN : ~no
  OBVIOUS
<1> DEFINE v == Post(shown, {c}, TypeChange(SPECTATOR, no))
<1>1. shown \in [Clients -> Views]
  BY DEF ViewInv
<1>2. /\ v \in [Clients -> Views] /\ OthersSame(v, shown, c)
      /\ TypedAs(v[c], shown[c], SPECTATOR, no)
  BY <1>1, TypePosted
<1>3. u = DuelistsInfo(v, c)
  <2>1. no = FALSE
    BY <1>0
  <2> QED BY <2>1 DEF SetupAsSpectator
<1> HIDE DEF v
<1>4. /\ u \in [Clients -> Views]
      /\ \A d \in Clients \ {c} : u[d] = v[d]
      /\ u[c].slot = v[c].slot /\ u[c].isHost = v[c].isHost
      /\ \A q \in Seats :
            IF seat'[q] \in {NoClient, c}
              THEN At(u[c], q) = At(v[c], q)
              ELSE At(u[c], q).name = seat'[q] /\ At(u[c], q).ready = ready'[seat'[q]]
  BY <1>2, <1>3, InfoShown
<1>5. \A q \in Seats : At(v[c], q).name = NoClient
  BY <1>2, NothingBefore DEF TypedAs, SameSeats
<1>6. \A q \in Seats : seat'[q] # c
  BY ClientsAssumption DEF Seated
<1>7. u[c].slot = WATCHER /\ ~u[c].isHost
  BY <1>0, <1>2, <1>4 DEF TypedAs
<1>8. \A d \in Clients \ {c} : u[d] = shown[d]
  BY <1>2, <1>4 DEF OthersSame
<1> QED BY <1>4, <1>5, <1>6, <1>7, <1>8

\* A client that joins a waiting room with a free seat.
LEMMA SeatJoined ==
    ASSUME Inv, Inv', ViewInv, kicked = {}, NEW c \in Clients,
           Join(c), JoinWaiting(c), FreeSeats(seat) # {},
           NEW u, u = JoinWaitingPosts(shown, c)
    PROVE  /\ u \in [Clients -> Views]
           /\ \A d \in Present' : RoomAfter(u[d], d)
<1>0. PICK h \in BOOLEAN : h = (state'.host = c)
  OBVIOUS
<1> DEFINE p == position'[c]
           n == Cardinality(spectators)
           entered == NewDuelistPosts(shown, c)
           typed == Post(entered, {c}, TypeChange(p, h))
           counted == Post(typed, {c}, WatchChange(n))
           heard == IF spectators # {} THEN counted ELSE typed
<1>1. /\ conn[c] = "joining" /\ state.tag = "Waiting"
      /\ state' = IF state.host = NoClient THEN [state EXCEPT !.host = c] ELSE state
      /\ UNCHANGED <<spectators, ready>>
  BY DEF Join, JoinWaiting, clientData
<1>2. /\ p \in Seats /\ seat[p] = NoClient /\ p = position'[c]
      /\ seat' = [seat EXCEPT ![p] = c]
      /\ position' = [position EXCEPT ![c] = p]
  BY FreeSeatFromIn DEF JoinWaiting, Sit, Inv, TypeOK
<1>3. /\ state'.tag = "Waiting"
      /\ \A d \in Clients : state.host # NoClient => state'.host = state.host
  BY <1>1 DEF Inv, TypeOK, States
<1>4. /\ \A q \in Seats : seat'[q] = IF q = p THEN c ELSE seat[q]
      /\ \A d \in Clients \ {c} : position'[d] = position[d]
      /\ \A q \in Seats : seat[q] # c
      /\ c \notin spectators /\ c \in Seated' /\ c # NoClient
  <2>1. \A q \in Seats : seat'[q] = IF q = p THEN c ELSE seat[q]
    BY <1>2 DEF Inv, TypeOK
  <2>2. \A d \in Clients \ {c} : position'[d] = position[d]
    BY <1>2 DEF Inv, TypeOK
  <2>3. c \notin spectators /\ \A q \in Seats : seat[q] # c
    BY <1>1, ClientsAssumption DEF Inv, RosterSound
  <2>4. c \in Seated' /\ c # NoClient
    BY <1>2, <2>1, ClientsAssumption DEF Seated
  <2> QED BY <2>1, <2>2, <2>3, <2>4
<1>5. /\ Present' \subseteq Clients
      /\ \A d \in Present' : d = c \/ d \in Present
      /\ \A d \in Present : conn[d] = "open"
  BY <1>1, <1>4 DEF Present, Seated, Inv, TypeOK, RosterSound
<1>6. shown \in [Clients -> Views] /\ n \in Nat
      /\ (spectators = {} => n = 0)
  BY FS_CardinalityType, FS_EmptySet DEF ViewInv
<1>7. u = DuelistsInfo(heard, c)
  BY <1>0, <1>1, <1>4 DEF JoinWaitingPosts, TypePosts
<1> HIDE DEF p, n
<1>8. /\ entered \in [Clients -> Views]
      /\ \A d \in Present' :
           /\ OnlySeats(entered[d], shown[d])
           /\ \A q \in Seats :
                 IF q = p
                   THEN At(entered[d], q).name = c /\ At(entered[d], q).ready = ready'[c]
                   ELSE /\ At(entered[d], q).name = At(shown[d], q).name
                        /\ At(entered[d], q).ready = At(shown[d], q).ready
  BY <1>2, <1>6, NewDuelistPosted
<1> HIDE DEF entered
<1>9. /\ typed \in [Clients -> Views] /\ OthersSame(typed, entered, c)
      /\ TypedAs(typed[c], entered[c], p, h)
  <2>1. p \in Seats \cup {SPECTATOR} /\ entered \in [Clients -> Views]
    BY <1>2, <1>8
  <2> QED BY <2>1, TypePosted
<1> HIDE DEF typed
<1>10. /\ counted \in [Clients -> Views]
       /\ \A d \in Clients \ {c} : counted[d] = typed[d]
       /\ SameSeats(counted[c], typed[c])
       /\ counted[c].watching = n /\ counted[c].slot = typed[c].slot
       /\ counted[c].isHost = typed[c].isHost
  <2>1. counted \in [Clients -> Views]
        /\ \A d \in Clients : /\ SameSeats(counted[d], typed[d])
                              /\ counted[d].watching = IF d \in {c} THEN n
                                                                    ELSE typed[d].watching
                              /\ counted[d].slot = typed[d].slot
                              /\ counted[d].isHost = typed[d].isHost
    BY <1>6, <1>9, WatchPosted
  <2>2. \A d \in Clients \ {c} : counted[d] = typed[d]
    BY DEF Post
  <2> QED BY <2>1, <2>2
<1> HIDE DEF counted
<1>11. entered[c].watching = 0
  BY <1>1, <1>4, <1>8, NothingBefore DEF OnlySeats, Present
<1>12. /\ heard \in [Clients -> Views] /\ OthersSame(heard, entered, c)
       /\ \A q \in Seats : At(heard[c], q) = At(entered[c], q)
       /\ heard[c].slot = EncodePosition(p)
       /\ heard[c].isHost = h /\ heard[c].watching = n
  <2>0. p # SPECTATOR
    BY <1>2, SeatFacts
  <2>1. CASE spectators # {}
    BY <1>9, <1>10, <2>0, <2>1 DEF TypedAs, OthersSame, SameSeats
  <2>2. CASE spectators = {}
    BY <1>6, <1>9, <1>11, <2>0, <2>2 DEF TypedAs, OthersSame, SameSeats
  <2> QED BY <2>1, <2>2
<1> HIDE DEF heard
<1>13. /\ u \in [Clients -> Views]
       /\ \A d \in Clients \ {c} : u[d] = heard[d]
       /\ u[c].watching = heard[c].watching /\ u[c].slot = heard[c].slot
       /\ u[c].isHost = heard[c].isHost
       /\ \A q \in Seats :
             IF seat'[q] \in {NoClient, c}
               THEN At(u[c], q) = At(heard[c], q)
               ELSE At(u[c], q).name = seat'[q] /\ At(u[c], q).ready = ready'[seat'[q]]
  BY <1>7, <1>12, InfoShown
<1>14. RoomAfter(u[c], c)
  <2>1. ASSUME NEW q \in Seats
        PROVE  /\ At(u[c], q).name = seat'[q]
               /\ seat'[q] # NoClient => At(u[c], q).ready = ready'[seat'[q]]
    <3>1. c \in Present' /\ conn[c] # "open"
      BY <1>1, <1>4 DEF Present
    <3>2. CASE q = p
      BY <1>4, <1>8, <1>12, <1>13, <3>1, <3>2
    <3>3. CASE q # p
      <4>1. At(entered[c], q).name = NoClient /\ seat'[q] # c
        BY <1>4, <1>8, <3>1, <3>3, NothingBefore
      <4> QED BY <1>12, <1>13, <4>1
    <3> QED BY <3>2, <3>3
  <2>2. c \notin spectators'
    BY <1>1, <1>4
  <2>3. u[c].isHost = (state'.host = c) /\ u[c].watching = Cardinality(spectators')
    BY <1>0, <1>1, <1>12, <1>13 DEF n
  <2>4. u[c].slot = EncodePosition(position'[c])
    BY <1>2, <1>12, <1>13
  <2> QED BY <2>1, <2>2, <2>3, <2>4 DEF RoomAfter
<1>15. ASSUME NEW d \in Present', d # c PROVE RoomAfter(u[d], d)
  <2>1. d \in Present /\ d \in Clients \ {c} /\ conn[d] = "open"
    BY <1>5, <1>15
  <2>2. u[d] = entered[d] /\ OnlySeats(entered[d], shown[d])
    BY <1>8, <1>12, <1>13, <1>15, <2>1 DEF OthersSame
  <2>3. state'.host = state.host
    BY <1>1, <1>3, <2>1 DEF Inv, HostInv
  <2>4. ASSUME NEW q \in Seats
        PROVE  /\ At(u[d], q).name = seat'[q]
               /\ seat'[q] # NoClient => At(u[d], q).ready = ready'[seat'[q]]
    <3>1. CASE q = p
      BY <1>4, <1>8, <2>2, <3>1
    <3>2. CASE q # p
      BY <1>1, <1>4, <1>8, <2>1, <2>2, <3>2, PictureBefore
    <3> QED BY <3>1, <3>2
  <2> QED BY <1>1, <1>4, <2>1, <2>2, <2>3, <2>4, PictureBefore DEF RoomAfter, OnlySeats
<1> QED BY <1>13, <1>14, <1>15

\* A client that joins a full waiting room.
LEMMA WatcherJoined ==
    ASSUME Inv, Inv', ViewInv, kicked = {}, NEW c \in Clients,
           Join(c), JoinWaiting(c), FreeSeats(seat) = {},
           NEW u, u = JoinWaitingPosts(shown, c)
    PROVE  /\ u \in [Clients -> Views]
           /\ \A d \in Present' : RoomAfter(u[d], d)
<1> DEFINE n == Cardinality(spectators')
           v == SetupAsSpectator(shown, c)
<1>1. /\ conn[c] = "joining" /\ state.tag = "Waiting"
      /\ state' = IF state.host = NoClient THEN [state EXCEPT !.host = c] ELSE state
      /\ spectators' = spectators \cup {c}
      /\ position' = [position EXCEPT ![c] = SPECTATOR]
      /\ UNCHANGED <<seat, ready>>
  BY DEF Join, JoinWaiting, clientData
<1>2. /\ state.host # NoClient /\ state.host # c /\ state' = state
  <2>1. seat[<<0, 0>>] # NoClient /\ <<0, 0>> \in Seats
    BY SeatFacts DEF FreeSeats, Teams
  <2>2. seat[<<0, 0>>] \in Clients /\ conn[seat[<<0, 0>>]] = "open"
    BY <2>1 DEF Inv, TypeOK, RosterSound
  <2>3. state.host # NoClient
    BY <1>1, <2>2 DEF Inv, HostInv
  <2>4. conn[state.host] = "open"
    BY <1>1, <2>3 DEF Inv, HostInv
  <2> QED BY <1>1, <2>3, <2>4
<1>3. /\ c \notin Seated /\ Seated' = Seated /\ c \in spectators'
      /\ Seated' \cap spectators' = {}
      /\ \A d \in Clients \ {c} : position'[d] = position[d]
  <2>1. c \notin Seated
    BY <1>1 DEF Seated, Inv, RosterSound
  <2>2. Seated' = Seated
    BY <1>1 DEF Seated
  <2>3. Seated' \cap spectators' = {}
    BY SeatFacts DEF Seated, Inv, RosterSound
  <2>4. \A d \in Clients \ {c} : position'[d] = position[d]
    BY <1>1 DEF Inv, TypeOK
  <2> QED BY <1>1, <2>1, <2>2, <2>3, <2>4
<1>4. Present' \subseteq Clients /\ \A d \in Present' : d = c \/ d \in Present
  BY <1>1, <1>3 DEF Present, Seated, Inv, TypeOK
<1>5. n \in Nat
  BY <1>1, FS_AddElement, FS_CardinalityType DEF ViewInv
<1>6. u = Post(v, Present', WatchChange(n))
  BY <1>1, <1>3 DEF JoinWaitingPosts, WatchPosts, ToAll
<1>7. /\ v \in [Clients -> Views]
      /\ \A d \in Clients \ {c} : v[d] = shown[d]
      /\ v[c].slot = WATCHER /\ ~v[c].isHost
      /\ \A q \in Seats :
            /\ At(v[c], q).name = seat'[q]
            /\ seat'[q] # NoClient => At(v[c], q).ready = ready'[seat'[q]]
  BY <1>1, <1>3, SetupShown
<1> HIDE DEF v
<1>8. /\ u \in [Clients -> Views]
      /\ \A d \in Clients :
           /\ SameSeats(u[d], v[d])
           /\ u[d].watching = IF d \in Present' THEN n ELSE v[d].watching
           /\ u[d].slot = v[d].slot /\ u[d].isHost = v[d].isHost
  BY <1>5, <1>6, <1>7, WatchPosted
<1>9. RoomAfter(u[c], c)
  <2>1. c \in Present' /\ ~(state'.host = c)
    BY <1>2, <1>3 DEF Present
  <2>2. u[c].isHost = (state'.host = c)
    <3>1. u[c].isHost \in BOOLEAN /\ ~u[c].isHost
      <4>1. u[c] \in Views
        BY <1>8
      <4> QED BY <1>7, <1>8, <4>1 DEF Views
    <3> QED BY <2>1, <3>1
  <2>3. \A q \in Seats : At(u[c], q) = At(v[c], q)
    BY <1>8 DEF SameSeats
  <2>4. u[c].slot = WATCHER /\ u[c].watching = n
    BY <1>7, <1>8, <2>1
  <2> QED BY <1>3, <1>7, <2>2, <2>3, <2>4 DEF RoomAfter
<1>10. ASSUME NEW d \in Present', d # c PROVE RoomAfter(u[d], d)
  <2>1. d \in Present /\ d \in Clients \ {c} /\ (d \in spectators <=> d \in spectators')
    BY <1>1, <1>4, <1>10
  <2>2. v[d] = shown[d]
    BY <1>7, <2>1
  <2>3. \A q \in Seats : At(u[d], q) = At(shown[d], q)
    BY <1>8, <2>1, <2>2 DEF SameSeats
  <2>4. u[d].slot = shown[d].slot /\ u[d].isHost = shown[d].isHost /\ u[d].watching = n
    BY <1>8, <1>10, <2>1, <2>2
  <2> QED BY <1>1, <1>2, <1>3, <2>1, <2>3, <2>4, PictureBefore DEF RoomAfter
<1> QED BY <1>8, <1>9, <1>10

\* A client that joins a game: the set up, and the screen of the others.
LEMMA LateJoined ==
    ASSUME Inv, Inv', ViewInv, kicked = {}, NEW c \in Clients,
           Join(c), JoinStarted(c),
           NEW u, u = JoinStartedPosts(shown, c)
    PROVE  /\ u \in [Clients -> Views]
           /\ \A d \in Present' : RoomAfter(u[d], d) /\ ScreenAfter(u[d], d)
<1>1. /\ conn[c] = "joining" /\ state.tag \in GameTags
      /\ spectators' = spectators \cup {c}
      /\ position' = [position EXCEPT ![c] = SPECTATOR]
      /\ UNCHANGED <<state, seat, ready>>
  BY DEF Join, JoinStarted, clientData
<1>2. /\ c \notin Seated /\ Seated' = Seated /\ c \in spectators'
      /\ Seated' \cap spectators' = {}
      /\ \A d \in Clients \ {c} : position'[d] = position[d]
  <2>1. c \notin Seated
    BY <1>1 DEF Seated, Inv, RosterSound
  <2>2. Seated' = Seated
    BY <1>1 DEF Seated
  <2>3. Seated' \cap spectators' = {}
    BY SeatFacts DEF Seated, Inv, RosterSound
  <2>4. \A d \in Clients \ {c} : position'[d] = position[d]
    BY <1>1 DEF Inv, TypeOK
  <2> QED BY <1>1, <2>1, <2>2, <2>3, <2>4
<1>3. Present' \subseteq Clients /\ \A d \in Present' : d = c \/ d \in Present
  BY <1>1, <1>2 DEF Present, Seated, Inv, TypeOK
<1>4. PICK duel \in Screens : duel = "duel"
  BY DEF Screens
<1>5. PICK wait \in Screens : wait = "wait"
  BY DEF Screens
<1> DEFINE v == SetupAsSpectator(shown, c)
           started == Post(v, {c}, Screen(duel))
           late == IF state.tag \in {"Rematching", "Sidedecking"} THEN wait ELSE duel
<1>6. /\ v \in [Clients -> Views]
      /\ \A d \in Clients \ {c} : v[d] = shown[d]
      /\ v[c].slot = WATCHER
      /\ \A q \in Seats : At(v[c], q).name = seat'[q]
  BY <1>1, <1>2, SetupShown
<1>7. (u = started /\ late = duel) \/ u = Post(started, {c}, Screen(late))
  BY <1>1, <1>4, <1>5 DEF JoinStartedPosts, DuelStart, RematchWait, SidedeckWait, GameMsg
<1>8. late \in Screens
  OBVIOUS
<1> HIDE DEF v
<1>9. /\ started \in [Clients -> Views]
      /\ \A d \in Clients :
           /\ SameRoom(started[d], v[d])
           /\ started[d].screen = IF d \in {c} THEN duel ELSE v[d].screen
  BY <1>6, ScreenPosted
<1>a. late = IF state.tag \in {"Rematching", "Sidedecking"} THEN "wait" ELSE "duel"
  BY <1>4, <1>5
<1> HIDE DEF started, late
<1>10. /\ u \in [Clients -> Views]
       /\ \A d \in Clients :
            /\ SameRoom(u[d], v[d])
            /\ u[d].screen = IF d = c THEN late ELSE v[d].screen
  <2>1. CASE u = started /\ late = duel
    BY <1>9, <2>1
  <2>2. CASE u = Post(started, {c}, Screen(late))
    <3>1. /\ u \in [Clients -> Views]
          /\ \A d \in Clients :
               /\ SameRoom(u[d], started[d])
               /\ u[d].screen = IF d \in {c} THEN late ELSE started[d].screen
      BY <1>8, <1>9, <2>2, ScreenPosted
    <3> QED BY <1>9, <3>1, SameRoomTrans
  <2> QED BY <1>7, <2>1, <2>2
<1>11. state'.tag # "Waiting" /\ state.tag # "Closing"
  BY <1>1 DEF GameTags
<1>12. RoomAfter(u[c], c) /\ ScreenAfter(u[c], c)
  <2>1. \A q \in Seats : At(u[c], q).name = seat'[q]
    BY <1>6, <1>10 DEF SameRoom, SameSeats
  <2>2. u[c].slot = WATCHER
    BY <1>6, <1>10 DEF SameRoom
  <2>3. RoomAfter(u[c], c)
    BY <1>2, <1>11, <2>1, <2>2 DEF RoomAfter
  <2>4. c \notin Seated'
    BY <1>2
  <2>5. state'.tag = "RockPaperScissor" => c \notin HandPlayers
    BY <1>1, <2>4, SeatFacts DEF HandPlayers, Inv, LineupComplete, Seated, Teams
  <2>6. state'.tag = "ChoosingTurn" => c # state'.turnChooser
    BY <1>1, <2>4 DEF Inv, LineupComplete
  <2>7. u[c].screen = IF state'.tag \in {"Rematching", "Sidedecking"} THEN "wait"
                                                                     ELSE "duel"
    BY <1>1, <1>a, <1>10
  <2> QED BY <2>3, <2>4, <2>5, <2>6, <2>7 DEF ScreenAfter
<1>13. ASSUME NEW d \in Present', d # c PROVE RoomAfter(u[d], d) /\ ScreenAfter(u[d], d)
  <2>1. d \in Present /\ d \in Clients \ {c} /\ (d \in spectators <=> d \in spectators')
    BY <1>1, <1>3, <1>13
  <2>2. SameRoom(u[d], shown[d]) /\ u[d].screen = shown[d].screen
    BY <1>6, <1>10, <2>1
  <2>3. Depicts(shown[d], d)
    BY <1>11, <2>1 DEF ViewInv, PictureOfRoom
  <2>4. RoomAfter(u[d], d)
    BY <1>1, <1>2, <1>11, <2>1, <2>2, <2>3
       DEF RoomAfter, Depicts, SameRoom, SameSeats, At
  <2>5. ScreenAfter(u[d], d)
    BY <1>1, <2>1, <2>2, StillAsked
  <2> QED BY <2>4, <2>5
<1> QED BY <1>10, <1>12, <1>13

LEMMA JoinTold ==
    ASSUME Inv, Inv', ViewInv, NEW c \in Clients, ViewJoin(c)
    PROVE  ViewInv' /\ PictureStep
<1>1. Join(c) /\ kicked' = kicked
  BY DEF ViewJoin, Join
<1>2. CASE JoinWaiting(c)
  <2> DEFINE v == JoinWaitingPosts(shown, c)
  <2>1. state.tag = "Waiting" /\ state'.tag = "Waiting"
    BY <1>2 DEF JoinWaiting, Inv, TypeOK, States
  <2>2. Tell(v)
    <3> DEFINE told == CASE state.tag = "Waiting" -> v
                         [] state.tag \in GameTags -> JoinStartedPosts(shown, c)
                         [] state.tag = "Closing" -> shown
    <3>1. Tell(told)
      BY DEF ViewJoin
    <3>2. told = v
      BY <2>1 DEF GameTags
    <3> HIDE DEF told, v
    <3> QED BY <3>1, <3>2
  <2>3. IsFiniteSet(spectators')
    BY <1>2, FS_AddElement DEF JoinWaiting, ViewInv
  <2>4. kicked = {} => v \in [Clients -> Views] /\ \A d \in Present' : RoomAfter(v[d], d)
    BY <1>1, <1>2, SeatJoined, WatcherJoined
  <2> HIDE DEF v
  <2> QED BY <1>1, <2>1, <2>2, <2>3, <2>4, WaitingTold
<1>3. CASE JoinStarted(c)
  <2> DEFINE v == JoinStartedPosts(shown, c)
  <2>1. state.tag \in GameTags /\ state.tag # "Waiting" /\ state.tag # "Closing"
    BY <1>3 DEF JoinStarted, GameTags
  <2>2. Tell(v)
    <3> DEFINE told == CASE state.tag = "Waiting" -> JoinWaitingPosts(shown, c)
                         [] state.tag \in GameTags -> v
                         [] state.tag = "Closing" -> shown
    <3>1. Tell(told)
      BY DEF ViewJoin
    <3>2. told = v
      BY <2>1
    <3> HIDE DEF told, v
    <3> QED BY <3>1, <3>2
  <2>3. IsFiniteSet(spectators')
    BY <1>3, FS_AddElement DEF JoinStarted, ViewInv
  <2>4. kicked = {} => /\ v \in [Clients -> Views]
                       /\ \A d \in Present' : RoomAfter(v[d], d) /\ ScreenAfter(v[d], d)
    BY <1>1, <1>3, LateJoined
  <2> HIDE DEF v
  <2> QED BY <1>1, <2>2, <2>3, <2>4, ToldRight
<1>4. CASE JoinClosing(c)
  <2>1. state'.tag = "Closing" /\ Tell(shown)
    BY <1>4 DEF JoinClosing, ViewJoin, GameTags, Tags
  <2> QED BY <1>1, <2>1, ClosingTold
<1> QED BY <1>1, <1>2, <1>3, <1>4 DEF Join

\* A spectator sits down.
LEMMA SpectatorSeated ==
    ASSUME Inv, Inv', ViewInv, kicked = {}, NEW c \in Clients,
           ToDuelist(c), position[c] = SPECTATOR,
           NEW u, u = ToDuelistPosts(shown, c)
    PROVE  /\ u \in [Clients -> Views]
           /\ \A d \in Present' : RoomAfter(u[d], d)
<1>0. PICK h \in BOOLEAN : h = (state'.host = c)
  OBVIOUS
<1> DEFINE p == position'[c]
           n == Cardinality(spectators')
           entered == NewDuelistPosts(shown, c)
           counted == Post(entered, Present', WatchChange(n))
<1>1. /\ conn[c] = "open" /\ state.tag = "Waiting"
      /\ spectators' = spectators \ {c}
      /\ UNCHANGED <<state, ready>>
  BY DEF ToDuelist, InWaiting
<1>2. /\ p \in Seats /\ seat[p] = NoClient /\ p = position'[c]
      /\ seat' = [seat EXCEPT ![p] = c]
      /\ position' = [position EXCEPT ![c] = p]
  BY FreeSeatFromIn DEF ToDuelist, Sit, Inv, TypeOK
<1>3. /\ \A q \in Seats : seat'[q] = IF q = p THEN c ELSE seat[q]
      /\ \A d \in Clients \ {c} : position'[d] = position[d]
      /\ c # NoClient /\ c \in Seated' /\ c \in spectators
  <2>1. \A q \in Seats : seat'[q] = IF q = p THEN c ELSE seat[q]
    BY <1>2 DEF Inv, TypeOK
  <2>2. \A d \in Clients \ {c} : position'[d] = position[d]
    BY <1>2 DEF Inv, TypeOK
  <2>3. c # NoClient /\ c \in Seated'
    BY <1>2, <2>1, ClientsAssumption DEF Seated
  <2>4. c \notin Seated
    BY SeatFacts DEF Seated, Inv, RosterSound
  <2>5. c \in spectators
    BY <1>1, <2>4 DEF Inv, NobodyStranded, ShutInv
  <2> QED BY <2>1, <2>2, <2>3, <2>5
<1>4. Present' \subseteq Clients /\ Present' \subseteq Present
  BY <1>1, <1>3 DEF Present, Seated, Inv, TypeOK
<1>5. shown \in [Clients -> Views] /\ n \in Nat
  BY <1>1, FS_Subset, FS_CardinalityType DEF ViewInv
<1>6. u = Post(counted, {c}, TypeChange(p, h))
  BY <1>0 DEF ToDuelistPosts, TypePosts, WatchPosts, ToAll
<1> HIDE DEF p, n
<1>7. /\ entered \in [Clients -> Views]
      /\ \A d \in Present' :
           /\ OnlySeats(entered[d], shown[d])
           /\ \A q \in Seats :
                 IF q = p
                   THEN At(entered[d], q).name = c /\ At(entered[d], q).ready = ready'[c]
                   ELSE /\ At(entered[d], q).name = At(shown[d], q).name
                        /\ At(entered[d], q).ready = At(shown[d], q).ready
  BY <1>2, <1>5, NewDuelistPosted
<1> HIDE DEF entered
<1>8. /\ counted \in [Clients -> Views]
      /\ \A d \in Clients :
           /\ SameSeats(counted[d], entered[d])
           /\ counted[d].watching = IF d \in Present' THEN n ELSE entered[d].watching
           /\ counted[d].slot = entered[d].slot /\ counted[d].isHost = entered[d].isHost
  BY <1>5, <1>7, WatchPosted
<1> HIDE DEF counted
<1>9. /\ u \in [Clients -> Views] /\ OthersSame(u, counted, c)
      /\ TypedAs(u[c], counted[c], p, h)
  <2>1. p \in Seats \cup {SPECTATOR} /\ counted \in [Clients -> Views]
    BY <1>2, <1>8
  <2> QED BY <1>6, <2>1, TypePosted
<1>10. ASSUME NEW d \in Present' PROVE RoomAfter(u[d], d)
  <2>1. d \in Clients /\ d \in Present
    BY <1>4
  <2>2. \A q \in Seats : At(u[d], q) = At(entered[d], q)
    BY <1>8, <1>9, <2>1 DEF OthersSame, TypedAs, SameSeats
  <2>3. ASSUME NEW q \in Seats
        PROVE  /\ At(u[d], q).name = seat'[q]
               /\ seat'[q] # NoClient => At(u[d], q).ready = ready'[seat'[q]]
    <3>1. CASE q = p
      BY <1>3, <1>7, <2>2, <3>1
    <3>2. CASE q # p
      <4>1. /\ At(u[d], q).name = At(shown[d], q).name
            /\ At(u[d], q).ready = At(shown[d], q).ready
        BY <1>7, <2>2, <3>2
      <4>2. seat'[q] = seat[q]
        BY <1>3, <3>2
      <4> QED BY <1>1, <2>1, <4>1, <4>2, PictureBefore
    <3> QED BY <3>1, <3>2
  <2>4. u[d].watching = n
    BY <1>8, <1>9, <2>1 DEF OthersSame, TypedAs
  <2>5. u[d].isHost = (state'.host = d)
    <3>1. CASE d = c
      BY <1>0, <1>9, <3>1 DEF TypedAs
    <3>2. CASE d # c
      <4>1. u[d].isHost = shown[d].isHost
        BY <1>7, <1>8, <1>9, <2>1, <3>2 DEF OthersSame, OnlySeats
      <4> QED BY <1>1, <2>1, <4>1, PictureBefore
    <3> QED BY <3>1, <3>2
  <2>6. u[d].slot = IF d \in spectators' THEN WATCHER ELSE EncodePosition(position'[d])
    <3>1. CASE d = c
      <4>1. p # SPECTATOR /\ c \notin spectators'
        BY <1>1, <1>2, SeatFacts
      <4> QED BY <1>2, <1>9, <3>1, <4>1 DEF TypedAs
    <3>2. CASE d # c
      <4>1. u[d].slot = shown[d].slot
        BY <1>7, <1>8, <1>9, <2>1, <3>2 DEF OthersSame, OnlySeats
      <4>2. position'[d] = position[d] /\ (d \in spectators <=> d \in spectators')
        BY <1>1, <1>3, <2>1, <3>2
      <4> QED BY <1>1, <2>1, <4>1, <4>2, PictureBefore
    <3> QED BY <3>1, <3>2
  <2> QED BY <2>3, <2>4, <2>5, <2>6 DEF RoomAfter, n
<1> QED BY <1>9, <1>10

\* A duelist takes the next free seat, or finds none.
LEMMA DuelistMoved ==
    ASSUME Inv, Inv', ViewInv, kicked = {}, NEW c \in Clients,
           ToDuelist(c), position[c] # SPECTATOR,
           NEW u, u = ToDuelistPosts(shown, c)
    PROVE  /\ u \in [Clients -> Views]
           /\ \A d \in Present' : RoomAfter(u[d], d)
<1>0. PICK h \in BOOLEAN : h = (state'.host = c)
  OBVIOUS
<1> DEFINE p == position[c]
           q == position'[c]
           r == ready'[c]
           moved == Post(shown, Present', PlayerMove(p, q))
           changed == Post(moved, Present', PlayerChange(q, r))
<1>1. /\ conn[c] = "open" /\ state.tag = "Waiting"
      /\ UNCHANGED <<state, spectators>>
      /\ p \in Seats /\ seat[p] = c /\ r \in BOOLEAN
  <2>1. /\ conn[c] = "open" /\ state.tag = "Waiting"
        /\ UNCHANGED <<state, spectators>>
    BY DEF ToDuelist, InWaiting
  <2> QED BY <2>1, SitsAtPosition DEF Inv, TypeOK
<1>2. /\ q \in Seats
      /\ q = p \/ seat[q] = NoClient
      /\ seat' = [Vacated(p) EXCEPT ![q] = c]
      /\ position' = [position EXCEPT ![c] = q]
      /\ ready' = [ready EXCEPT ![c] = ready[c] /\ q = p]
  <2> DEFINE to == FreeSeatFrom(Vacated(p), <<p[1], p[2] + 1>>)
  <2>1. /\ seat' = [Vacated(p) EXCEPT ![to] = c]
        /\ position' = [position EXCEPT ![c] = to]
        /\ ready' = [ready EXCEPT ![c] = ready[c] /\ to = p]
    BY DEF ToDuelist, Sit
  <2>2. to \in Seats /\ Vacated(p)[to] = NoClient
    <3>1. p \in FreeSeats(Vacated(p))
      BY <1>1 DEF FreeSeats, Vacated, Inv, TypeOK
    <3> QED BY <3>1, FreeSeatFromIn
  <2> HIDE DEF to
  <2>3. q = to
    BY <2>1 DEF Inv, TypeOK
  <2>4. to = p \/ seat[to] = NoClient
    BY <2>2 DEF Vacated, Inv, TypeOK
  <2> QED BY <2>1, <2>2, <2>3, <2>4
<1>3. /\ \A s \in Seats : seat'[s] = IF s = q THEN c ELSE IF s = p THEN NoClient ELSE seat[s]
      /\ \A d \in Clients \ {c} : position'[d] = position[d] /\ ready'[d] = ready[d]
  <2>1. \A s \in Seats : seat'[s] = IF s = q THEN c ELSE IF s = p THEN NoClient ELSE seat[s]
    BY <1>1, <1>2 DEF Vacated, Inv, TypeOK
  <2>2. \A d \in Clients \ {c} : position'[d] = position[d] /\ ready'[d] = ready[d]
    BY <1>2 DEF Inv, TypeOK
  <2> QED BY <2>1, <2>2
<1>4. c # NoClient /\ c \notin spectators
  BY ClientsAssumption DEF Inv, RosterSound
<1>5. Present' \subseteq Clients /\ Present' \subseteq Present
  BY <1>1, <1>3, <1>4 DEF Present, Seated, Inv, TypeOK
<1>6. shown \in [Clients -> Views]
  BY DEF ViewInv
<1>7. \A s \in Seats : s # p => seat[s] # c
  BY ClientsAssumption DEF Inv, RosterSound
<1>8. CASE q = p
  <2>1. u = shown
    BY <1>8 DEF ToDuelistPosts
  <2>2. \A s \in Seats : seat'[s] = seat[s]
    BY <1>1, <1>3, <1>8
  <2>3. \A d \in Clients : position'[d] = position[d] /\ (ready'[d] <=> ready[d])
    <3>1. ready'[c] <=> ready[c]
      BY <1>2, <1>8 DEF Inv, TypeOK
    <3> QED BY <1>3, <1>8, <3>1
  <2>4. ASSUME NEW d \in Present' PROVE RoomAfter(u[d], d)
    <3>1. d \in Present /\ d \in Clients
      BY <1>5
    <3>2. ASSUME NEW s \in Seats, seat'[s] # NoClient
          PROVE  ready'[seat'[s]] = ready[seat[s]]
      <4>1. seat[s] \in Clients /\ seat'[s] = seat[s]
        BY <2>2, <3>2 DEF Inv, TypeOK
      <4>2. ready'[seat[s]] \in BOOLEAN /\ ready[seat[s]] \in BOOLEAN
        BY <4>1 DEF Inv, TypeOK
      <4> QED BY <2>3, <4>1, <4>2
    <3> QED BY <1>1, <2>1, <2>2, <2>3, <3>1, <3>2, PictureBefore DEF RoomAfter
  <2> QED BY <1>6, <2>1, <2>4
<1>9. CASE q # p
  <2>1. u = Post(changed, {c}, TypeChange(q, h))
    BY <1>0, <1>9 DEF ToDuelistPosts, TypePosts, ToAll
  <2>a. q = position'[c] /\ r = ready'[c]
    OBVIOUS
  <2> HIDE DEF p, q, r
  <2>2. /\ moved \in [Clients -> Views]
        /\ \A d \in Clients \cap Present' :
             /\ OnlySeats(moved[d], shown[d])
             /\ \A s \in Seats :
                   At(moved[d], s).name = IF s = p THEN NoClient
                                          ELSE IF s = q THEN At(shown[d], p).name
                                          ELSE At(shown[d], s).name
             /\ \A s \in Seats \ {p, q} : At(moved[d], s) = At(shown[d], s)
    <3>1. p \in Seats /\ q \in Seats /\ p # q
      BY <1>1, <1>2, <1>9
    <3> QED BY <1>6, <3>1, MovePosted
  <2> HIDE DEF moved
  <2>3. /\ changed \in [Clients -> Views]
        /\ \A d \in Clients \cap Present' :
             /\ OnlySeats(changed[d], moved[d])
             /\ \A s \in Seats :
                   /\ At(changed[d], s).name = At(moved[d], s).name
                   /\ At(changed[d], s).ready = IF s = q THEN r ELSE At(moved[d], s).ready
    <3>1. q \in Seats /\ r \in BOOLEAN /\ moved \in [Clients -> Views]
      BY <1>1, <1>2, <2>2 DEF r
    <3> QED BY <3>1, ChangePosted
  <2> HIDE DEF changed
  <2>4. /\ u \in [Clients -> Views] /\ OthersSame(u, changed, c)
        /\ TypedAs(u[c], changed[c], q, h)
    <3>1. q \in Seats \cup {SPECTATOR} /\ changed \in [Clients -> Views]
      BY <1>2, <2>3
    <3> QED BY <2>1, <3>1, TypePosted
  <2>5. ASSUME NEW d \in Present' PROVE RoomAfter(u[d], d)
    <3>1. d \in Clients \cap Present' /\ d \in Clients /\ d \in Present
      BY <1>5
    <3>2. \A s \in Seats : At(u[d], s) = At(changed[d], s)
      BY <2>4, <3>1 DEF OthersSame, TypedAs, SameSeats
    <3>3. ASSUME NEW s \in Seats
          PROVE  /\ At(u[d], s).name = seat'[s]
                 /\ seat'[s] # NoClient => At(u[d], s).ready = ready'[seat'[s]]
      <4>0. At(shown[d], p).name = seat[p] /\ At(shown[d], s).name = seat[s]
            /\ (seat[s] # NoClient => At(shown[d], s).ready = ready[seat[s]])
        BY <1>1, <3>1, PictureBefore
      <4>1. CASE s = q
        BY <1>1, <1>3, <1>9, <2>2, <2>3, <2>a, <3>1, <3>2, <4>0, <4>1
      <4>2. CASE s = p
        BY <1>3, <1>9, <2>2, <2>3, <3>1, <3>2, <4>2
      <4>3. CASE s # q /\ s # p
        <5>1. /\ At(u[d], s).name = At(shown[d], s).name
              /\ At(u[d], s).ready = At(shown[d], s).ready
          BY <2>2, <2>3, <3>1, <3>2, <4>3
        <5>2. seat'[s] = seat[s] /\ (seat[s] # NoClient => seat[s] \in Clients \ {c})
          BY <1>3, <1>7, <4>3 DEF Inv, TypeOK
        <5>3. seat[s] # NoClient => ready'[seat[s]] = ready[seat[s]]
          BY <1>3, <5>2
        <5> QED BY <4>0, <5>1, <5>2, <5>3
      <4> QED BY <4>1, <4>2, <4>3
    <3>4. u[d].watching = shown[d].watching
      BY <2>2, <2>3, <2>4, <3>1 DEF OthersSame, TypedAs, OnlySeats
    <3>5. u[d].isHost = (state'.host = d)
      <4>1. CASE d = c
        BY <1>0, <2>4, <4>1 DEF TypedAs
      <4>2. CASE d # c
        <5>1. u[d].isHost = shown[d].isHost
          BY <2>2, <2>3, <2>4, <3>1, <4>2 DEF OthersSame, OnlySeats
        <5> QED BY <1>1, <3>1, <5>1, PictureBefore
      <4> QED BY <4>1, <4>2
    <3>6. u[d].slot = IF d \in spectators' THEN WATCHER ELSE EncodePosition(position'[d])
      <4>1. CASE d = c
        <5>1. q # SPECTATOR /\ c \notin spectators'
          BY <1>1, <1>2, <1>4, SeatFacts
        <5> QED BY <2>4, <2>a, <4>1, <5>1 DEF TypedAs
      <4>2. CASE d # c
        <5>1. u[d].slot = shown[d].slot
          BY <2>2, <2>3, <2>4, <3>1, <4>2 DEF OthersSame, OnlySeats
        <5>2. position'[d] = position[d] /\ spectators' = spectators
          BY <1>1, <1>3, <3>1, <4>2
        <5> QED BY <1>1, <3>1, <5>1, <5>2, PictureBefore
      <4> QED BY <4>1, <4>2
    <3> QED BY <1>1, <3>1, <3>3, <3>4, <3>5, <3>6, PictureBefore DEF RoomAfter
  <2> QED BY <2>4, <2>5
<1> QED BY <1>8, <1>9

LEMMA ToDuelistTold ==
    ASSUME Inv, Inv', ViewInv, NEW c \in Clients, ViewToDuelist(c)
    PROVE  ViewInv' /\ PictureStep
<1> DEFINE v == ToDuelistPosts(shown, c)
<1>1. ToDuelist(c) /\ Tell(v) /\ state'.tag = "Waiting" /\ kicked' = kicked
  BY DEF ViewToDuelist, ToDuelist, InWaiting
<1>2. IsFiniteSet(spectators')
  BY <1>1, FS_Subset DEF ToDuelist, ViewInv
<1>3. kicked = {} => v \in [Clients -> Views] /\ \A d \in Present' : RoomAfter(v[d], d)
  BY <1>1, SpectatorSeated, DuelistMoved
<1> HIDE DEF v
<1> QED BY <1>1, <1>2, <1>3, WaitingTold

\* A duelist becomes a spectator; the clients count it themselves.
LEMMA ToObserverTold ==
    ASSUME Inv, Inv', ViewInv, NEW c \in Clients, ViewToObserver(c)
    PROVE  ViewInv' /\ PictureStep
<1>0. PICK h \in BOOLEAN : h = (state'.host = c)
  OBVIOUS
<1> DEFINE p == position[c]
           left == Post(shown, Present', Status(p, "SPECTATE"))
           u == Post(left, {c}, TypeChange(SPECTATOR, h))
<1>1. /\ conn[c] = "open" /\ state.tag = "Waiting" /\ p # SPECTATOR
      /\ seat' = Vacated(p)
      /\ spectators' = spectators \cup {c}
      /\ position' = [position EXCEPT ![c] = SPECTATOR]
      /\ ready' = [ready EXCEPT ![c] = FALSE]
      /\ UNCHANGED <<state, kicked>>
  BY DEF ViewToObserver, ToObserver, InWaiting
<1>2. Tell(u)
  <2>1. position'[c] = SPECTATOR
    BY <1>1 DEF Inv, TypeOK
  <2> QED BY <1>0, <2>1 DEF ViewToObserver, TypePosts, ToAll
<1>3. p \in Seats /\ c \notin spectators
  BY <1>1 DEF Inv, TypeOK, RosterSound
<1>4. /\ IsFiniteSet(spectators')
      /\ Cardinality(spectators') = Cardinality(spectators) + 1
  BY <1>1, <1>3, FS_AddElement DEF ViewInv
<1>5. ASSUME kicked = {}
      PROVE  /\ u \in [Clients -> Views]
             /\ \A d \in Present' : RoomAfter(u[d], d)
  <2>1. seat[p] = c
    BY <1>1, <1>5, SitsAtPosition
  <2>2. /\ \A s \in Seats : seat'[s] = IF s = p THEN NoClient ELSE seat[s]
        /\ \A s \in Seats : s # p => seat[s] # c
        /\ \A d \in Clients \ {c} : position'[d] = position[d] /\ ready'[d] = ready[d]
    <3>1. \A s \in Seats : seat'[s] = IF s = p THEN NoClient ELSE seat[s]
      BY <1>1 DEF Vacated, Inv, TypeOK
    <3>2. \A s \in Seats : s # p => seat[s] # c
      BY ClientsAssumption DEF Inv, RosterSound
    <3>3. \A d \in Clients \ {c} : position'[d] = position[d] /\ ready'[d] = ready[d]
      BY <1>1 DEF Inv, TypeOK
    <3> QED BY <3>1, <3>2, <3>3
  <2>3. Present' \subseteq Clients /\ Present' \subseteq Present
    <3>1. c \in Present
      BY <1>3, <2>1, ClientsAssumption DEF Present, Seated
    <3> QED BY <1>1, <2>2, <3>1 DEF Present, Seated, Inv, TypeOK
  <2>4. shown \in [Clients -> Views]
    BY DEF ViewInv
  <2> HIDE DEF p
  <2>5. /\ left \in [Clients -> Views]
        /\ \A d \in Clients \cap Present' :
             /\ left[d].watching = shown[d].watching + 1 /\ left[d].slot = shown[d].slot
             /\ left[d].isHost = shown[d].isHost
             /\ \A s \in Seats : At(left[d], s) = IF s = p THEN Nobody ELSE At(shown[d], s)
    BY <1>3, <2>4, SpectatePosted
  <2> HIDE DEF left
  <2>6. /\ u \in [Clients -> Views] /\ OthersSame(u, left, c)
        /\ TypedAs(u[c], left[c], SPECTATOR, h)
    BY <2>5, TypePosted
  <2> HIDE DEF u
  <2>7. ASSUME NEW d \in Present' PROVE RoomAfter(u[d], d)
    <3>1. d \in Clients \cap Present' /\ d \in Clients /\ d \in Present
      BY <2>3
    <3>2. \A s \in Seats : At(u[d], s) = At(left[d], s)
      BY <2>6, <3>1 DEF OthersSame, TypedAs, SameSeats
    <3>3. ASSUME NEW s \in Seats
          PROVE  /\ At(u[d], s).name = seat'[s]
                 /\ seat'[s] # NoClient => At(u[d], s).ready = ready'[seat'[s]]
      <4>1. CASE s = p
        BY <2>2, <2>5, <3>1, <3>2, <4>1, EntryType
      <4>2. CASE s # p
        <5>1. At(u[d], s) = At(shown[d], s)
          BY <2>5, <3>1, <3>2, <4>2
        <5>2. /\ At(shown[d], s).name = seat[s]
              /\ seat[s] # NoClient => At(shown[d], s).ready = ready[seat[s]]
          BY <1>1, <1>5, <3>1, PictureBefore
        <5>3. seat'[s] = seat[s] /\ (seat[s] # NoClient => seat[s] \in Clients \ {c})
          BY <2>2, <4>2 DEF Inv, TypeOK
        <5>4. seat[s] # NoClient => ready'[seat[s]] = ready[seat[s]]
          BY <2>2, <5>3
        <5> QED BY <5>1, <5>2, <5>3, <5>4
      <4> QED BY <4>1, <4>2
    <3>4. u[d].watching = Cardinality(spectators')
      <4>1. u[d].watching = shown[d].watching + 1
        BY <2>5, <2>6, <3>1 DEF OthersSame, TypedAs
      <4> QED BY <1>1, <1>4, <1>5, <3>1, <4>1, PictureBefore
    <3>5. u[d].isHost = (state'.host = d)
      <4>1. CASE d = c
        BY <1>0, <2>6, <4>1 DEF TypedAs
      <4>2. CASE d # c
        <5>1. u[d].isHost = shown[d].isHost
          BY <2>5, <2>6, <3>1, <4>2 DEF OthersSame
        <5> QED BY <1>1, <1>5, <3>1, <5>1, PictureBefore
      <4> QED BY <4>1, <4>2
    <3>6. u[d].slot = IF d \in spectators' THEN WATCHER ELSE EncodePosition(position'[d])
      <4>1. CASE d = c
        BY <1>1, <2>6, <4>1 DEF TypedAs
      <4>2. CASE d # c
        <5>1. u[d].slot = shown[d].slot
          BY <2>5, <2>6, <3>1, <4>2 DEF OthersSame
        <5>2. position'[d] = position[d] /\ (d \in spectators <=> d \in spectators')
          BY <1>1, <2>2, <3>1, <4>2
        <5> QED BY <1>1, <1>5, <3>1, <5>1, <5>2, PictureBefore
      <4> QED BY <4>1, <4>2
    <3> QED BY <3>3, <3>4, <3>5, <3>6 DEF RoomAfter
  <2> QED BY <2>6, <2>7
<1> HIDE DEF u
<1> QED BY <1>1, <1>2, <1>4, <1>5, WaitingTold

(***************************************************************************)
(* Tightening the teams of a relay: seats are announced one after the      *)
(* other, and each has its duelist's final place once it has been.         *)
(***************************************************************************)
LEMMA TightenedBelow ==
    ASSUME Inv, NEW p \in Seats
    PROVE  Tightened(p) = <<p[1], Rank(p)>> /\ Rank(p) \in 0..p[2]
<1>1. p[2] \in {0, 1, 2}
  BY SeatFacts
<1> DEFINE n0 == IF seat[<<p[1], 0>>] # NoClient THEN 1 ELSE 0
           n1 == IF seat[<<p[1], 1>>] # NoClient THEN 1 ELSE 0
<1>2. Rank(p) = IF p[2] = 0 THEN 0 ELSE IF p[2] = 1 THEN n0 ELSE n0 + n1
  BY <1>1, RankValue
<1>3. n0 \in {0, 1} /\ n1 \in {0, 1}
  OBVIOUS
<1> HIDE DEF n0, n1
<1>4. Rank(p) \in 0..p[2]
  BY <1>1, <1>2, <1>3
<1> QED BY <1>4 DEF Tightened

TakenSeat(p) == p \in Seats /\ seat[p] # NoClient

\* Two duelists never end up in one seat, whatever their teams.
LEMMA TightenedApart ==
    ASSUME Inv, NEW p, NEW q, TakenSeat(p), TakenSeat(q)
    PROVE  /\ Tightened(p) \in Seats
           /\ Tightened(p) = Tightened(q) => p = q
<1>1. /\ p \in Taken(p[1]) /\ p[1] \in Teams
      /\ q \in Taken(q[1]) /\ q[1] \in Teams
  BY SeatsOfTeams DEF TakenSeat, Taken
<1>2. /\ Tightened(p) \in Seats /\ Tightened(p)[1] = p[1]
      /\ Tightened(q)[1] = q[1]
  BY <1>1, TightenFacts
<1>3. Tightened(p) = Tightened(q) => q \in Taken(p[1])
  BY <1>1, <1>2
<1> QED BY <1>1, <1>2, <1>3, TightenFacts

\* Picture w of client d when the moves of the seats of S have been announced.
Halfway(w, d, S) ==
    /\ \A p \in S : TakenSeat(p) => At(w, Tightened(p)).name = seat[p]
    /\ \A r \in Seats :
         (\A p \in S : TakenSeat(p) => Tightened(p) # r) =>
           At(w, r).name = IF r \in S THEN NoClient ELSE seat[r]
    /\ w.slot = IF d \in spectators THEN WATCHER
                ELSE EncodePosition(IF position[d] \in S THEN Tightened(position[d])
                                                         ELSE position[d])

\* One announced move: everybody present sees the seat change, and the duelist
\* that moves is told its new place.
LEMMA MoveTold ==
    ASSUME NEW v \in [Clients -> Views], NEW p \in Seats, NEW q \in Seats, p # q,
           NEW c \in Clients, NEW h \in BOOLEAN,
           NEW moved, moved = Post(v, Present', PlayerMove(p, q)),
           NEW u, u = Post(moved, {c}, TypeChange(q, h))
    PROVE  /\ u \in [Clients -> Views]
           /\ \A d \in Clients \cap Present' :
                /\ \A s \in Seats :
                      At(u[d], s).name = IF s = p THEN NoClient
                                         ELSE IF s = q THEN At(v[d], p).name
                                         ELSE At(v[d], s).name
                /\ u[d].slot = IF d = c THEN EncodePosition(q) ELSE v[d].slot
<1>1. /\ moved \in [Clients -> Views]
      /\ \A d \in Clients \cap Present' :
           /\ OnlySeats(moved[d], v[d])
           /\ \A s \in Seats :
                 At(moved[d], s).name = IF s = p THEN NoClient
                                        ELSE IF s = q THEN At(v[d], p).name
                                        ELSE At(v[d], s).name
  BY MovePosted
<1>2. /\ u \in [Clients -> Views] /\ OthersSame(u, moved, c)
      /\ TypedAs(u[c], moved[c], q, h)
  <2>1. q \in Seats \cup {SPECTATOR} /\ moved \in [Clients -> Views]
    BY <1>1
  <2> QED BY <2>1, TypePosted
<1>3. ASSUME NEW d \in Clients \cap Present'
      PROVE  /\ \A s \in Seats : At(u[d], s) = At(moved[d], s)
             /\ u[d].slot = IF d = c THEN EncodePosition(q) ELSE moved[d].slot
  BY <1>2, SeatFacts DEF OthersSame, TypedAs, SameSeats
<1>4. \A d \in Clients \cap Present' : moved[d].slot = v[d].slot
  BY <1>1 DEF OnlySeats
<1>5. ASSUME NEW d \in Clients \cap Present', NEW s \in Seats
      PROVE  At(u[d], s).name = IF s = p THEN NoClient
                                ELSE IF s = q THEN At(v[d], p).name
                                ELSE At(v[d], s).name
  <2>1. At(u[d], s).name = At(moved[d], s).name
    BY <1>3
  <2> QED BY <1>1, <2>1
<1>6. ASSUME NEW d \in Clients \cap Present'
      PROVE  u[d].slot = IF d = c THEN EncodePosition(q) ELSE v[d].slot
  BY <1>3, <1>4
<1> QED BY <1>2, <1>5, <1>6

LEMMA HalfwayStep ==
    ASSUME Inv, NEW S, NEW p, p \notin S,
           \A q \in S : TakenSeat(q) => Tightened(q) # p,
           Present' \subseteq Present, Present' \subseteq Clients,
           NEW v \in [Clients -> Views], \A d \in Present' : Halfway(v[d], d, S),
           NEW u, u = TightenMove(v, p)
    PROVE  /\ u \in [Clients -> Views]
           /\ \A d \in Present' : Halfway(u[d], d, S \cup {p})
<1> DEFINE T == Tightened(p)
<1>1. p \in Taken(p[1]) <=> TakenSeat(p)
  BY DEF Taken, TeamSeats, TakenSeat
<1>2. \A d \in Present' \ spectators :
          TakenSeat(position[d]) /\ seat[position[d]] = d
  BY DEF Present, Seated, Inv, RosterSound, TakenSeat
<1>3. CASE ~(TakenSeat(p) /\ T # p)
  <2>1. u = v
    BY <1>1, <1>3 DEF TightenMove
  <2>2. ASSUME NEW d \in Present' PROVE Halfway(u[d], d, S \cup {p})
    <3>1. Halfway(v[d], d, S)
      OBVIOUS
    <3>2. TakenSeat(p) => At(v[d], p).name = seat[p] /\ T = p
      BY <1>3, <3>1 DEF Halfway, TakenSeat
    <3>3. ASSUME NEW r \in Seats, \A q \in S \cup {p} : TakenSeat(q) => Tightened(q) # r
          PROVE  At(v[d], r).name = IF r \in S \cup {p} THEN NoClient ELSE seat[r]
      <4>1. At(v[d], r).name = IF r \in S THEN NoClient ELSE seat[r]
        BY <3>1, <3>3 DEF Halfway
      <4>2. CASE r = p
        <5>1. ~TakenSeat(p)
          BY <1>3, <3>3, <4>2
        <5> QED BY <4>1, <4>2, <5>1 DEF TakenSeat
      <4> QED BY <4>1, <4>2
    <3>4. d \notin spectators /\ position[d] = p => T = p
      BY <1>2, <3>2
    <3>5. v[d].slot = IF d \in spectators THEN WATCHER
                      ELSE EncodePosition(IF position[d] \in S \cup {p}
                                            THEN Tightened(position[d]) ELSE position[d])
      BY <3>1, <3>4 DEF Halfway
    <3>6. \A q \in S \cup {p} : TakenSeat(q) => At(v[d], Tightened(q)).name = seat[q]
      BY <3>1, <3>2 DEF Halfway
    <3> QED BY <2>1, <3>3, <3>5, <3>6 DEF Halfway
  <2> QED BY <2>1, <2>2
<1>4. CASE TakenSeat(p) /\ T # p
  <2>0. PICK h \in BOOLEAN : h = (state.host = seat[p])
    OBVIOUS
  <2> DEFINE c == seat[p]
             moved == Post(v, Present', PlayerMove(p, T))
  <2>1. p \in Seats /\ T \in Seats /\ c \in Clients /\ p # T
    BY <1>4, TightenedApart DEF TakenSeat, Inv, TypeOK
  <2>2. /\ moved = Post(v, Present', PlayerMove(p, T))
        /\ u = Post(moved, {c}, TypeChange(T, h))
    BY <1>1, <1>4, <2>0 DEF TightenMove, ToAll
  <2>3. T = Tightened(p) /\ c = seat[p] /\ position[c] = p /\ c \notin spectators
    BY <1>4, SeatFacts DEF TakenSeat, Inv, RosterSound
  <2> HIDE DEF T, c, moved
  <2>4. /\ u \in [Clients -> Views]
        /\ \A d \in Clients \cap Present' :
             /\ \A s \in Seats :
                   At(u[d], s).name = IF s = p THEN NoClient
                                      ELSE IF s = T THEN At(v[d], p).name
                                      ELSE At(v[d], s).name
             /\ u[d].slot = IF d = c THEN EncodePosition(T) ELSE v[d].slot
    BY <2>1, <2>2, MoveTold
  <2>5. ASSUME NEW d \in Present' PROVE Halfway(u[d], d, S \cup {p})
    <3>1. d \in Clients \cap Present' /\ d \in Clients /\ Halfway(v[d], d, S)
      OBVIOUS
    <3>2. At(v[d], p).name = seat[p]
      BY <2>1, <3>1 DEF Halfway
    <3>3. ASSUME NEW q \in S \cup {p}, TakenSeat(q)
          PROVE  At(u[d], Tightened(q)).name = seat[q]
      <4>1. CASE q = p
        BY <2>1, <2>3, <2>4, <3>1, <3>2, <4>1
      <4>2. CASE q # p
        <5>1. q \in S /\ Tightened(q) # p /\ Tightened(q) # T /\ Tightened(q) \in Seats
          BY <1>4, <2>3, <3>3, <4>2, TightenedApart
        <5>2. At(v[d], Tightened(q)).name = seat[q]
          BY <3>1, <3>3, <5>1 DEF Halfway
        <5> QED BY <2>4, <3>1, <5>1, <5>2
      <4> QED BY <4>1, <4>2
    <3>4. ASSUME NEW r \in Seats, \A q \in S \cup {p} : TakenSeat(q) => Tightened(q) # r
          PROVE  At(u[d], r).name = IF r \in S \cup {p} THEN NoClient ELSE seat[r]
      <4>1. r # T
        BY <1>4, <2>3, <3>4
      <4>2. CASE r = p
        BY <2>4, <3>1, <4>2
      <4>3. CASE r # p
        <5>1. At(v[d], r).name = IF r \in S THEN NoClient ELSE seat[r]
          BY <3>1, <3>4 DEF Halfway
        <5> QED BY <2>4, <3>1, <4>1, <4>3, <5>1
      <4> QED BY <4>2, <4>3
    <3>5. u[d].slot = IF d \in spectators THEN WATCHER
                      ELSE EncodePosition(IF position[d] \in S \cup {p}
                                            THEN Tightened(position[d]) ELSE position[d])
      <4>1. CASE d = c
        <5>1. u[d].slot = EncodePosition(T)
          BY <2>4, <3>1, <4>1
        <5> QED BY <2>3, <4>1, <5>1
      <4>2. CASE d # c
        <5>1. u[d].slot = v[d].slot
          BY <2>4, <3>1, <4>2
        <5>2. d \notin spectators => position[d] # p
          BY <1>2, <2>3, <4>2
        <5> QED BY <3>1, <5>1, <5>2 DEF Halfway
      <4> QED BY <4>1, <4>2
    <3> QED BY <3>3, <3>4, <3>5 DEF Halfway
  <2> QED BY <2>4, <2>5
<1> QED BY <1>3, <1>4

\* Both teams of a relay: everybody's picture is of the tightened room.
LEMMA TightenShown ==
    ASSUME Inv, ViewInv, kicked = {}, state.tag = "Waiting",
           seat' = TightSeating, position' = TightPositions, spectators' = spectators,
           NEW u, u = TightenPosts(TightenPosts(shown, 0), 1)
    PROVE  /\ u \in [Clients -> Views]
           /\ \A d \in Present' :
                 /\ \A r \in Seats : At(u[d], r).name = seat'[r]
                 /\ u[d].slot = IF d \in spectators' THEN WATCHER
                                                     ELSE EncodePosition(position'[d])
<1> DEFINE S0 == {<<0, 0>>, <<1, 0>>}
           S1 == S0 \cup {<<0, 1>>}
           S2 == S1 \cup {<<0, 2>>}
           S3 == S2 \cup {<<1, 1>>}
           S4 == S3 \cup {<<1, 2>>}
           v1 == TightenMove(shown, <<0, 1>>)
           v2 == TightenMove(v1, <<0, 2>>)
           v3 == TightenMove(v2, <<1, 1>>)
<1>1. u = TightenMove(v3, <<1, 2>>)
  BY DEF TightenPosts
<1>2. /\ Present' \subseteq Present /\ Present' \subseteq Clients
      /\ \A r \in Seats : \/ seat'[r] = NoClient
                          \/ \E p \in Taken(r[1]) : seat'[r] = seat[p]
  <2>1. \A r \in Seats : \/ seat'[r] = NoClient
                         \/ \E p \in Taken(r[1]) : seat'[r] = seat[p]
    BY DEF TightSeating
  <2>2. Seated' \subseteq Seated
    BY <2>1 DEF Seated, Taken, TeamSeats
  <2>3. Present \subseteq Clients
    BY DEF Present, Seated, Inv, TypeOK
  <2> QED BY <2>1, <2>2, <2>3 DEF Present
<1>3. \A q : TakenSeat(q) => /\ Tightened(q) = <<q[1], Rank(q)>> /\ Rank(q) \in 0..q[2]
                            /\ q = <<q[1], q[2]>> /\ q[2] \in 0..2
  BY TightenedBelow, SeatFacts DEF TakenSeat
<1>4. shown \in [Clients -> Views] /\ \A d \in Present' : Halfway(shown[d], d, S0)
  <2>1. shown \in [Clients -> Views]
    BY DEF ViewInv
  <2>2. \A q \in S0 : TakenSeat(q) => Tightened(q) = q
    <3> TAKE q \in S0
    <3>1. q[2] = 0 /\ q = <<q[1], q[2]>>
      OBVIOUS
    <3>2. TakenSeat(q) => Rank(q) = 0 /\ Tightened(q) = <<q[1], Rank(q)>>
      BY <1>3, <3>1
    <3> QED BY <3>1, <3>2
  <2> HIDE DEF S0
  <2>3. ASSUME NEW d \in Present' PROVE Halfway(shown[d], d, S0)
    <3>1. d \in Present
      BY <1>2
    <3>2. /\ \A r \in Seats : At(shown[d], r).name = seat[r]
          /\ shown[d].slot = IF d \in spectators THEN WATCHER ELSE EncodePosition(position[d])
      BY <3>1, PictureBefore
    <3>3. \A q \in S0 : TakenSeat(q) => At(shown[d], Tightened(q)).name = seat[q]
      BY <2>2, <3>2 DEF TakenSeat
    <3>4. \A r \in Seats : (\A q \in S0 : TakenSeat(q) => Tightened(q) # r) =>
              At(shown[d], r).name = IF r \in S0 THEN NoClient ELSE seat[r]
      BY <2>2, <3>2 DEF TakenSeat
    <3>5. d \notin spectators => TakenSeat(position[d])
      BY <3>1 DEF Present, Seated, Inv, RosterSound, TakenSeat
    <3> QED BY <2>2, <3>2, <3>3, <3>4, <3>5 DEF Halfway
  <2> QED BY <2>1, <2>3
<1>5. v1 \in [Clients -> Views] /\ \A d \in Present' : Halfway(v1[d], d, S1)
  <2>1. \A q \in S0 : TakenSeat(q) => Tightened(q) # <<0, 1>>
    BY <1>3
  <2>2. <<0, 1>> \notin S0
    OBVIOUS
  <2> HIDE DEF S0
  <2> QED BY <1>2, <1>4, <2>1, <2>2, HalfwayStep
<1>6. v2 \in [Clients -> Views] /\ \A d \in Present' : Halfway(v2[d], d, S2)
  <2>1. \A q \in S1 : TakenSeat(q) => Tightened(q) # <<0, 2>>
    BY <1>3
  <2>2. <<0, 2>> \notin S1
    OBVIOUS
  <2> HIDE DEF S1, v1
  <2> QED BY <1>2, <1>5, <2>1, <2>2, HalfwayStep
<1>7. v3 \in [Clients -> Views] /\ \A d \in Present' : Halfway(v3[d], d, S3)
  <2>1. \A q \in S2 : TakenSeat(q) => Tightened(q) # <<1, 1>>
    BY <1>3
  <2>2. <<1, 1>> \notin S2
    OBVIOUS
  <2> HIDE DEF S2, v2
  <2> QED BY <1>2, <1>6, <2>1, <2>2, HalfwayStep
<1>8. u \in [Clients -> Views] /\ \A d \in Present' : Halfway(u[d], d, S4)
  <2>1. \A q \in S3 : TakenSeat(q) => Tightened(q) # <<1, 2>>
    BY <1>3
  <2>2. <<1, 2>> \notin S3
    OBVIOUS
  <2> HIDE DEF S3, v3
  <2> QED BY <1>1, <1>2, <1>7, <2>1, <2>2, HalfwayStep
<1>9. Seats \subseteq S4
  BY SeatFacts DEF Teams
<1> HIDE DEF S4
<1>10. ASSUME NEW d \in Present', NEW r \in Seats PROVE At(u[d], r).name = seat'[r]
  <2>1. Halfway(u[d], d, S4)
    BY <1>8
  <2>2. CASE \E p \in Taken(r[1]) : Tightened(p) = r
    <3> DEFINE p == CHOOSE p \in Taken(r[1]) : Tightened(p) = r
    <3>1. p \in Taken(r[1]) /\ Tightened(p) = r
      BY <2>2
    <3>2. seat'[r] = seat[p]
      BY <2>2 DEF TightSeating
    <3> HIDE DEF p
    <3>3. p \in S4 /\ TakenSeat(p)
      BY <1>9, <3>1 DEF Taken, TeamSeats, TakenSeat
    <3> QED BY <2>1, <3>1, <3>2, <3>3 DEF Halfway
  <2>3. CASE \A p \in Taken(r[1]) : Tightened(p) # r
    <3>1. seat'[r] = NoClient
      BY <2>3 DEF TightSeating
    <3>2. ASSUME NEW p \in S4, TakenSeat(p) PROVE Tightened(p) # r
      <4>1. Tightened(p)[1] = p[1]
        BY <1>3, <3>2
      <4>2. p \in Taken(p[1])
        BY <3>2 DEF Taken, TeamSeats, TakenSeat
      <4> QED BY <2>3, <4>1, <4>2
    <3> QED BY <1>9, <2>1, <3>1, <3>2 DEF Halfway
  <2> QED BY <2>2, <2>3
<1>11. ASSUME NEW d \in Present'
       PROVE  u[d].slot = IF d \in spectators' THEN WATCHER
                                               ELSE EncodePosition(position'[d])
  <2>1. Halfway(u[d], d, S4) /\ d \in Clients /\ d \in Present
    BY <1>2, <1>8
  <2>2. CASE d \in spectators
    BY <2>1, <2>2 DEF Halfway
  <2>3. CASE d \notin spectators
    <3>1. d \in Seated /\ position[d] \in S4
      BY <1>9, <2>1, <2>3 DEF Present, Seated, Inv, RosterSound
    <3>2. position'[d] = Tightened(position[d])
      BY <2>1, <3>1 DEF TightPositions
    <3> QED BY <2>1, <2>3, <3>1, <3>2 DEF Halfway
  <2> QED BY <2>2, <2>3
<1> QED BY <1>8, <1>10, <1>11

LEMMA TryStartTold ==
    ASSUME Inv, Inv', ViewInv, NEW c \in Clients, ViewTryStart(c)
    PROVE  ViewInv' /\ PictureStep
<1> DEFINE placed == IF Relay THEN TightenPosts(TightenPosts(shown, 0), 1) ELSE shown
           v == EntryPosts(ToAll(placed, Screen("duel")))
<1>1. /\ state.tag = "Waiting" /\ state'.tag = "RockPaperScissor"
      /\ UNCHANGED <<spectators, kicked>>
      /\ IF Relay THEN seat' = TightSeating /\ position' = TightPositions
                  ELSE UNCHANGED <<seat, position>>
  BY InType DEF ViewTryStart, TryStart, InWaiting, Tags
<1>2. Tell(v)
  BY DEF ViewTryStart, DuelStart
<1>3. IsFiniteSet(spectators')
  BY <1>1 DEF ViewInv
<1>4. ASSUME kicked = {}
      PROVE  /\ v \in [Clients -> Views]
             /\ \A d \in Present' : RoomAfter(v[d], d) /\ ScreenAfter(v[d], d)
  <2>1. /\ placed \in [Clients -> Views]
        /\ \A d \in Present' :
             /\ \A r \in Seats : At(placed[d], r).name = seat'[r]
             /\ placed[d].slot = IF d \in spectators' THEN WATCHER
                                                      ELSE EncodePosition(position'[d])
    <3>1. CASE Relay
      BY <1>1, <1>4, <3>1, TightenShown
    <3>2. CASE ~Relay
      <4>1. shown \in [Clients -> Views] /\ Present' = Present
        BY <1>1, <3>2 DEF ViewInv, Present, Seated
      <4> QED BY <1>1, <1>4, <3>2, <4>1, PictureBefore
    <3> QED BY <3>1, <3>2
  <2> HIDE DEF placed
  <2>2. state'.tag \in GameTags
    BY <1>1 DEF GameTags, Tags
  <2>3. /\ v \in [Clients -> Views]
        /\ \A d \in Clients : SameRoom(v[d], placed[d])
        /\ \A d \in Present' : ScreenAfter(v[d], d)
    BY <2>1, <2>2, DuelThenAsks
  <2> HIDE DEF v
  <2>4. \A d \in Present' : RoomAfter(v[d], d)
    <3>1. Present' \subseteq Clients
      BY DEF Present, Seated, Inv, TypeOK
    <3> QED BY <1>1, <2>1, <2>3, <3>1 DEF RoomAfter, SameRoom, SameSeats
  <2> QED BY <2>3, <2>4
<1> HIDE DEF v
<1> QED BY <1>1, <1>2, <1>3, <1>4, ToldRight

-----------------------------------------------------------------------------
\* Every step of the room keeps the clients' pictures.
LEMMA ViewInvStep ==
    Inv /\ Inv' /\ ViewInv /\ [ViewNext]_viewVars => ViewInv' /\ [PictureStep]_viewVars
<1> SUFFICES ASSUME Inv, Inv', ViewInv, [ViewNext]_viewVars
             PROVE  ViewInv' /\ [PictureStep]_viewVars
  OBVIOUS
<1>1. CASE UNCHANGED viewVars
  <2>1. /\ UNCHANGED <<shown, state, kicked, seat, position, spectators, ready, conn>>
        /\ Seated' = Seated /\ Present' = Present
    BY <1>1 DEF viewVars, vars, members, clientData, lobbyVars, Present, Seated
  <2>2. PictureOfRoom' = PictureOfRoom
    <3>1. \A w, d : Depicts(w, d)' = Depicts(w, d)
      BY <2>1 DEF Depicts
    <3> QED BY <2>1, <3>1 DEF PictureOfRoom
  <2>3. AwaitedAreAsked'
    <3>1. Awaited' = Awaited
      BY <2>1 DEF Awaited
    <3> QED BY <2>1, <3>1 DEF AwaitedAreAsked, ViewInv
  <2>4. HandsAsked'
    BY <2>1 DEF HandsAsked, ViewInv
  <2>5. kicked' = {} /\ state'.tag # "Closing" => PictureOfRoom'
    BY <2>1, <2>2 DEF ViewInv
  <2> QED BY <1>1, <2>1, <2>3, <2>4, <2>5 DEF ViewInv
<1>2. ASSUME NEW c \in Clients, NEW valid \in BOOLEAN, ViewUpdateDeck(c, valid)
      PROVE  ViewInv' /\ PictureStep
  BY <1>2, UpdateDeckTold
<1>3. CASE Handlers
  <2>1. CASE \E c \in Clients :
               \/ ViewJoin(c) \/ ViewToDuelist(c) \/ ViewToObserver(c)
               \/ \E v \in BOOLEAN : ViewReady(c, v)
               \/ \E pos \in 0..T0Count + T1Count : ViewTryKick(c, pos)
               \/ ViewTryStart(c)
    BY <2>1, JoinTold, ToDuelistTold, ToObserverTold, ReadyTold, TryKickTold,
       TryStartTold
  <2>2. CASE \E c \in Clients :
               \/ \E v \in 0..3 : ViewChooseRPS(c, v)
               \/ ViewChooseTurn(c) \/ ViewResponse(c) \/ ViewSurrender(c)
               \/ \E v \in BOOLEAN : ViewRematch(c, v)
               \/ ViewSideDeck(c) \/ ViewConnectionLost(c)
    BY <2>2, ChooseRPSTold, ChooseTurnTold, ResponseTold, SurrenderTold, RematchTold,
       SideDeckTold, ConnectionLostTold
  <2>3. CASE \E t \in Teams : ViewTimerExpired(t)
    BY <2>3, TimerExpiredTold
  <2>4. CASE Silent
    BY <2>4, OthersTold
  <2> QED BY <1>3, <2>1, <2>2, <2>3, <2>4 DEF Handlers
<1> QED BY <1>1, <1>2, <1>3 DEF ViewNext

LEMMA ViewInitInv == ViewInit => Inv /\ ViewInv
<1> SUFFICES ASSUME ViewInit PROVE Inv /\ ViewInv
  OBVIOUS
<1>1. Inv
  BY InitInv DEF ViewInit
<1>2. state.tag = "Waiting" /\ spectators = {} /\ Present = {}
  BY InType DEF ViewInit, Init, Tags, Present, Seated
<1>3. shown = [c \in Clients |-> Blank]
  BY DEF ViewInit
<1>4. shown \in [Clients -> Views] /\ \A d \in Clients : shown[d] = Blank
  BY <1>3, BlankView
<1>5. IsFiniteSet(spectators) /\ PictureOfRoom
  BY <1>2, FS_EmptySet DEF PictureOfRoom
<1>6. AwaitedAreAsked /\ HandsAsked
  BY <1>2 DEF AwaitedAreAsked, HandsAsked, GameTags
<1> QED BY <1>1, <1>4, <1>5, <1>6 DEF ViewInv

\* The pictures stay right, whatever happens to the room.
THEOREM ViewInvariance == ViewSpec => [](Inv /\ ViewInv)
<1>1. Inv /\ ViewInv /\ [ViewNext]_viewVars => (Inv /\ ViewInv)'
  BY ViewIsRoom, InvStep, ViewInvStep
<1> QED BY <1>1, ViewInitInv, PTL DEF ViewSpec

\* Nobody waits for an answer that was not asked for, and no spectator is left
\* with a question: the entry handlers of the states and the handlers of Join.
THEOREM QuestionsAsked == ViewSpec => []AwaitedAreAsked
<1>1. ViewInv => AwaitedAreAsked
  BY DEF ViewInv
<1> QED BY <1>1, ViewInvariance, PTL

\* Up to and with the first kick every client sees the room as it is: the
\* increments the handlers of the waiting room send add up.
THEOREM PicturesTrue == ViewSpec => PictureTrue
<1>1. [][PictureStep]_viewVars => PictureTrue
  BY PTL DEF PictureTrue, PictureStep
<1>2. Inv /\ ViewInv /\ [ViewNext]_viewVars => [PictureStep]_viewVars
  BY ViewIsRoom, InvStep, ViewInvStep
<1> QED BY <1>1, <1>2, ViewInvariance, PTL DEF ViewSpec
=============================================================================
