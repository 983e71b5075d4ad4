-------------------------------- MODULE Room --------------------------------
(***************************************************************************)
(* One duel room: the state machine Room::Context runs for the clients     *)
(* that joined it.  Every event of a room (a client's message, the loss of *)
(* its connection, an expired timer, the lobby's request to close) is      *)
(* dispatched on the room's strand under mState, so a dispatch together    *)
(* with the entry handlers it chains to is one action of this module.      *)
(* What interleaves is the order in which the clients' events reach the    *)
(* strand, the endpoint that lets new clients in from other threads, and   *)
(* the lobby that shuts down.                                              *)
(*                                                                         *)
(* What a duel does inside the core is abstracted to its outcomes: the     *)
(* core asks some duelist for an answer, the duel ends with a winner or a  *)
(* draw, or the core fails.  Chat changes no state and is left out, and so *)
(* are isTeam1GoingFirst (it only renumbers teams inside messages) and     *)
(* duelsHad (read only when IsTiebreaking() is false, which it never is).  *)
(***************************************************************************)
EXTENDS Integers, FiniteSets

CONSTANTS
    Clients,      \* the connections that may ever reach the room
    NoClient,     \* the null Client*
    IpOf,         \* the address each client connects from
    T0Count,      \* hostInfo.t0Count, seats of team 0
    T1Count,      \* hostInfo.t1Count, seats of team 1
    Relay,        \* DUEL_RELAY: teams may start with empty seats
    BestOf,       \* hostInfo.bestOf, duels of a match
    TimeLimited   \* hostInfo.timeLimitInSeconds # 0

\* RoomHosting clamps and normalises these options before it makes the room.
ASSUME HostInfoAssumption ==
    /\ T0Count \in 1..3 /\ T1Count \in 1..3
    /\ Relay \in BOOLEAN /\ (Relay => T0Count + T1Count > 2)
    /\ BestOf \in Nat \ {0}
    /\ TimeLimited \in BOOLEAN

ASSUME ClientsAssumption ==
    /\ NoClient \notin Clients
    /\ DOMAIN IpOf = Clients

VARIABLES
    state,       \* the StateVariant: its tag and the fields of the alternatives
    seat,        \* duelists: the client at each position, or NoClient
    spectators,  \* the set of spectators
    position,    \* Client::position of every client
    ready,       \* Client::ready
    deckOk,      \* CheckDeck accepts the client's original deck
    isStarted,   \* Context::isStarted, which other threads read
    wins,        \* duels won by each team
    conn,        \* "idle", "joining" (Join is posted), "open" or "gone"
    shut,        \* Client::Disconnect was called
    kicked,      \* the addresses in Instance::kicked
    listed,      \* the lobby's dictionary has the room
    closing      \* Event::Close is posted on the strand

members == <<seat, spectators, position>>
clientData == <<ready, deckOk>>
lobbyVars == <<listed, closing>>
vars == <<state, seat, spectators, position, ready, deckOk, isStarted, wins,
          conn, shut, kicked, listed, closing>>

-----------------------------------------------------------------------------
Teams == {0, 1}
Seats == ({0} \X (0..T0Count - 1)) \cup ({1} \X (0..T1Count - 1))
SPECTATOR == <<255, 255>>

Tags == {"ChoosingTurn", "Closing", "Dueling", "Rematching",
         "RockPaperScissor", "Sidedecking", "Waiting"}
\* The states of a room that has started and is not over.
GameTags == Tags \ {"Closing", "Waiting"}

\* Entering a state builds its alternative afresh.
In(tag) ==
    [tag |-> tag, host |-> NoClient, turnChooser |-> NoClient, answered |-> {},
     choices |-> [t \in Teams |-> 0], replier |-> NoClient]
ChoosingBy(c) == [In("ChoosingTurn") EXCEPT !.turnChooser = c]
DuelAwaiting(c) == [In("Dueling") EXCEPT !.replier = c]

neededWins == (BestOf \div 2) + (BestOf % 2)

Seated == {seat[p] : p \in Seats} \ {NoClient}
TeamSeats(team) == {p \in Seats : p[1] = team}
Taken(team) == {p \in TeamSeats(team) : seat[p] # NoClient}

-----------------------------------------------------------------------------
(***************************************************************************)
(* TryEmplaceDuelist: the first free seat at or after the hint, wrapping   *)
(* around to the first free seat of all.                                   *)
(***************************************************************************)
AtOrAfter(q, p) == p[1] < q[1] \/ (p[1] = q[1] /\ p[2] <= q[2])
FirstOf(S) == CHOOSE p \in S : \A q \in S : AtOrAfter(q, p)

FreeSeats(s) == {p \in Seats : s[p] = NoClient}
FreeSeatFrom(s, hint) ==
    LET ahead == {p \in FreeSeats(s) : AtOrAfter(p, hint)}
    IN  IF ahead # {} THEN FirstOf(ahead) ELSE FirstOf(FreeSeats(s))

\* c sits down at p, in the seating s.
Sit(s, c, p) ==
    /\ seat' = [s EXCEPT ![p] = c]
    /\ position' = [position EXCEPT ![c] = p]

Vacated(p) == [seat EXCEPT ![p] = NoClient]

\* State::Closing's entry handler: everyone present is disconnected.
EnterClosing ==
    /\ state' = In("Closing")
    /\ shut' = [c \in Clients |-> shut[c] \/ c \in Seated \/ c \in spectators]
    /\ seat' = [p \in Seats |-> NoClient]
    /\ spectators' = {}

-----------------------------------------------------------------------------
(***************************************************************************)
(* Clients arrive.  JOIN_GAME looks the room up, checks the kicked list    *)
(* and posts Event::Join, which the strand dispatches some time later.     *)
(***************************************************************************)
Alive == \E c \in Clients : conn[c] \in {"joining", "open"}

Connect(c) ==
    /\ conn[c] = "idle" /\ listed /\ Alive
    /\ IpOf[c] \notin kicked
    /\ conn' = [conn EXCEPT ![c] = "joining"]
    /\ UNCHANGED <<state, members, clientData, isStarted, wins, shut, kicked,
                   lobbyVars>>

JoinWaiting(c) ==
    /\ state.tag = "Waiting"
    /\ state' = IF state.host = NoClient THEN [state EXCEPT !.host = c]
                                         ELSE state
    /\ \/ /\ FreeSeats(seat) # {}
          /\ Sit(seat, c, FreeSeatFrom(seat, <<0, 0>>))
          /\ UNCHANGED spectators
       \/ /\ FreeSeats(seat) = {}
          /\ spectators' = spectators \cup {c}
          /\ position' = [position EXCEPT ![c] = SPECTATOR]
          /\ UNCHANGED seat
    /\ UNCHANGED shut

JoinStarted(c) ==
    /\ state.tag \in GameTags
    /\ spectators' = spectators \cup {c}
    /\ position' = [position EXCEPT ![c] = SPECTATOR]
    /\ UNCHANGED <<state, seat, shut>>

\* Mutation: State::Closing ignores Join like every other event.
JoinClosingIgnored(c) ==
    /\ state.tag = "Closing"
    /\ UNCHANGED <<state, members, shut>>

JoinClosing(c) ==
    /\ state.tag = "Closing"
    /\ shut' = [shut EXCEPT ![c] = TRUE]
    /\ UNCHANGED <<state, members>>

Join(c) ==
    /\ conn[c] = "joining"
    /\ conn' = [conn EXCEPT ![c] = "open"]
    /\ JoinWaiting(c) \/ JoinStarted(c) \/ JoinClosing(c)
    /\ UNCHANGED <<clientData, isStarted, wins, kicked, lobbyVars>>

-----------------------------------------------------------------------------
(***************************************************************************)
(* State::Waiting.  A client acts from its own position, which the code    *)
(* trusts: it erases whoever the map has there.                            *)
(***************************************************************************)
InWaiting(c) == conn[c] = "open" /\ state.tag = "Waiting"

ToDuelist(c) ==
    /\ InWaiting(c)
    /\ LET p == position[c] IN
       \/ /\ p = SPECTATOR
          /\ FreeSeats(seat) # {}
          /\ Sit(seat, c, FreeSeatFrom(seat, <<0, 0>>))
          /\ spectators' = spectators \ {c}
          /\ UNCHANGED ready
       \/ /\ p # SPECTATOR
          /\ LET q == FreeSeatFrom(Vacated(p), <<p[1], p[2] + 1>>) IN
             /\ Sit(Vacated(p), c, q)
             /\ ready' = [ready EXCEPT ![c] = ready[c] /\ q = p]
          /\ UNCHANGED spectators
    /\ UNCHANGED <<state, deckOk, isStarted, wins, conn, shut, kicked, lobbyVars>>

ToObserver(c) ==
    /\ InWaiting(c) /\ position[c] # SPECTATOR
    /\ seat' = Vacated(position[c])
    /\ spectators' = spectators \cup {c}
    /\ position' = [position EXCEPT ![c] = SPECTATOR]
    /\ ready' = [ready EXCEPT ![c] = FALSE]
    /\ UNCHANGED <<state, deckOk, isStarted, wins, conn, shut, kicked, lobbyVars>>

Ready(c, value) ==
    /\ InWaiting(c) /\ position[c] # SPECTATOR
    /\ ready[c] # value
    /\ ready' = [ready EXCEPT ![c] = value /\ deckOk[c]]
    /\ UNCHANGED <<state, members, deckOk, isStarted, wins, conn, shut, kicked,
                   lobbyVars>>

UpdateDeck(c, valid) ==
    /\ InWaiting(c) /\ position[c] # SPECTATOR
    /\ deckOk' = [deckOk EXCEPT ![c] = valid]
    /\ UNCHANGED <<state, members, ready, isStarted, wins, conn, shut, kicked,
                   lobbyVars>>

DecodePosition(pos) ==
    IF pos >= T0Count THEN <<1, pos - T0Count>> ELSE <<0, pos>>

TryKick(c, pos) ==
    /\ InWaiting(c) /\ state.host = c
    /\ LET p == DecodePosition(pos) IN
       /\ p \in Seats /\ seat[p] \notin {NoClient, c}
       /\ kicked' = kicked \cup {IpOf[seat[p]]}
       /\ shut' = [shut EXCEPT ![seat[p]] = TRUE]
       /\ seat' = Vacated(p)
    /\ UNCHANGED <<state, spectators, position, clientData, isStarted, wins,
                   conn, lobbyVars>>

(***************************************************************************)
(* TightenTeam: each empty seat is filled by the nearest duelist after it, *)
(* so a duelist ends up at the slot that counts the taken seats before it. *)
(***************************************************************************)
Rank(p) == Cardinality({q \in Taken(p[1]) : q[2] < p[2]})
Tightened(p) == <<p[1], Rank(p)>>

TightSeating ==
    [q \in Seats |-> IF \E p \in Taken(q[1]) : Tightened(p) = q
                     THEN seat[CHOOSE p \in Taken(q[1]) : Tightened(p) = q]
                     ELSE NoClient]

\* Every seated client follows its seat (position[d] is d's seat, RosterSound).
TightPositions ==
    [d \in Clients |-> IF d \in Seated THEN Tightened(position[d])
                                       ELSE position[d]]

\* Mutation: one team is enough.
OneTeamValid ==
    IF Relay THEN Taken(0) # {} ELSE TeamSeats(0) = Taken(0)

RosterValid ==
    IF Relay THEN \A t \in Teams : Taken(t) # {} ELSE FreeSeats(seat) = {}

TryStart(c) ==
    /\ InWaiting(c) /\ state.host = c
    /\ \A d \in Seated : ready[d]
    /\ RosterValid
    /\ \/ /\ Relay
          /\ seat' = TightSeating
          /\ position' = TightPositions
       \/ /\ ~Relay
          /\ UNCHANGED <<seat, position>>
    /\ isStarted' = TRUE
    /\ state' = In("RockPaperScissor")
    /\ UNCHANGED <<spectators, clientData, wins, conn, shut, kicked, lobbyVars>>

-----------------------------------------------------------------------------
(***************************************************************************)
(* The game: rock-paper-scissors, the choice of the first turn, the duel,  *)
(* and the rematch or sidedecking between duels.                           *)
(***************************************************************************)
InState(c, tag) == conn[c] = "open" /\ state.tag = tag

SCISSOR == 1
ROCK == 2
PAPER == 3
Beats(a, b) == <<a, b>> \in {<<ROCK, SCISSOR>>, <<PAPER, ROCK>>, <<SCISSOR, PAPER>>}

ChooseRPS(c, value) ==
    /\ InState(c, "RockPaperScissor")
    /\ position[c][2] = 0
    /\ LET choices == [state.choices EXCEPT ![position[c][1]] = value]
           winner == IF Beats(choices[1], choices[0]) THEN 1 ELSE 0
       IN  state' = IF 0 \in {choices[0], choices[1]}
                      THEN [state EXCEPT !.choices = choices]
                    ELSE IF choices[0] = choices[1]
                      THEN In("RockPaperScissor")
                    ELSE ChoosingBy(seat[<<winner, 0>>])
    /\ UNCHANGED <<members, clientData, isStarted, wins, conn, shut, kicked,
                   lobbyVars>>

(***************************************************************************)
(* Finish.  The loser, or duelist <<0, 0>> after a draw or a core failure, *)
(* decides who starts the next duel.  matchKill stands for matchKillReason,*)
(* which any message of the duel may have set.                             *)
(***************************************************************************)
turnDecider(winner) == IF winner = 2 THEN seat[<<0, 0>>] ELSE seat[<<1 - winner, 0>>]

NextDuelState(winner) ==
    [In(IF BestOf = 1 THEN "Rematching" ELSE "Sidedecking")
        EXCEPT !.turnChooser = turnDecider(winner)]

\* The score of a match after this duel; a draw and a single duel leave it.
NewScore(winner, matchKill) ==
    [t \in Teams |-> IF BestOf > 1 /\ t = winner
                     THEN wins[t] + (IF matchKill THEN neededWins ELSE 1)
                     ELSE wins[t]]

Decided(score) == \E t \in Teams : score[t] >= neededWins

FinishScored(winner, matchKill) ==
    LET score == NewScore(winner, matchKill)
    IN  /\ wins' = score
        /\ \/ /\ Decided(score)
              /\ EnterClosing
           \/ /\ ~Decided(score)
              /\ state' = NextDuelState(winner)
              /\ UNCHANGED <<seat, spectators, shut>>

FinishCrashed ==
    /\ state' = NextDuelState(2)
    /\ UNCHANGED <<seat, spectators, shut, wins>>

\* Process runs the core until it needs a duelist's answer or the duel is over.
Process ==
    \/ /\ \E r \in Seated : state' = DuelAwaiting(r)
       /\ UNCHANGED <<seat, spectators, shut, wins>>
    \/ \E winner \in 0..2, matchKill \in BOOLEAN : FinishScored(winner, matchKill)
    \/ FinishCrashed

ChooseTurn(c) ==
    /\ InState(c, "ChoosingTurn") /\ state.turnChooser = c
    /\ Process
    /\ UNCHANGED <<position, clientData, isStarted, conn, kicked, lobbyVars>>

Response(c) ==
    /\ InState(c, "Dueling") /\ state.replier = c
    /\ Process
    /\ UNCHANGED <<position, clientData, isStarted, conn, kicked, lobbyVars>>

Surrender(c) ==
    /\ InState(c, "Dueling")
    /\ \/ /\ position[c] = SPECTATOR
          /\ shut' = [shut EXCEPT ![c] = TRUE]
          /\ spectators' = spectators \ {c}
          /\ UNCHANGED <<state, seat, wins>>
       \/ /\ position[c] # SPECTATOR
          /\ \E matchKill \in BOOLEAN : FinishScored(1 - position[c][1], matchKill)
    /\ UNCHANGED <<position, clientData, isStarted, conn, kicked, lobbyVars>>

\* The timer of a team fires, on time or late (Duel.tla has the timers).
TimerExpired(team) ==
    /\ TimeLimited /\ state.tag = "Dueling"
    /\ \E matchKill \in BOOLEAN : FinishScored(1 - team, matchKill)
    /\ UNCHANGED <<position, clientData, isStarted, conn, kicked, lobbyVars>>

\* A duelist answers the rematch question, or hands in a valid side deck:
\* the next duel needs all of them.
Agree(c) ==
    /\ c \notin state.answered
    /\ LET answered == state.answered \cup {c} IN
       state' = IF Cardinality(answered) = Cardinality(Taken(0) \cup Taken(1))
                  THEN ChoosingBy(state.turnChooser)
                  ELSE [state EXCEPT !.answered = answered]

Rematch(c, answer) ==
    /\ InState(c, "Rematching") /\ position[c] # SPECTATOR
    /\ c \notin state.answered
    /\ \/ /\ answer
          /\ Agree(c)
          /\ UNCHANGED <<seat, spectators, shut>>
       \/ /\ ~answer
          /\ EnterClosing
    /\ UNCHANGED <<position, clientData, isStarted, wins, conn, kicked, lobbyVars>>

\* Mutation: spectators may hand in decks too.
SideDeckByAnyone(c) ==
    /\ InState(c, "Sidedecking")
    /\ Agree(c)
    /\ UNCHANGED <<members, clientData, isStarted, wins, conn, shut, kicked,
                   lobbyVars>>

\* State::Sidedecking's UpdateDeck; a rejected side deck changes nothing.
SideDeck(c) ==
    /\ InState(c, "Sidedecking") /\ position[c] # SPECTATOR
    /\ Agree(c)
    /\ UNCHANGED <<members, clientData, isStarted, wins, conn, shut, kicked,
                   lobbyVars>>

-----------------------------------------------------------------------------
\* Mutation: the host is looked for among the seated only.
LoseSeatedHostOnly(c) ==
    /\ state.tag = "Waiting"
    /\ \/ /\ state.host = c /\ position[c] # SPECTATOR
          /\ EnterClosing
       \/ /\ state.host # c /\ position[c] # SPECTATOR
          /\ seat' = Vacated(position[c])
          /\ UNCHANGED <<state, spectators, shut>>
       \/ /\ position[c] = SPECTATOR
          /\ spectators' = spectators \ {c}
          /\ UNCHANGED <<state, seat, shut>>

(***************************************************************************)
(* A connection ends: the peer leaves, or reads the end of the stream      *)
(* after Disconnect.  The handler works from the client's own position.    *)
(***************************************************************************)
LoseWhileWaiting(c) ==
    /\ state.tag = "Waiting"
    /\ \/ /\ state.host = c
          /\ EnterClosing
       \/ /\ state.host # c /\ position[c] # SPECTATOR
          /\ seat' = Vacated(position[c])
          /\ UNCHANGED <<state, spectators, shut>>
       \/ /\ state.host # c /\ position[c] = SPECTATOR
          /\ spectators' = spectators \ {c}
          /\ UNCHANGED <<state, seat, shut>>

\* Mutation: the set of spectators keeps the lost client.
LoseKeepsSpectator(c) ==
    /\ state.tag \in GameTags
    /\ \/ /\ position[c] = SPECTATOR
          /\ UNCHANGED <<state, seat, spectators, shut>>
       \/ /\ position[c] # SPECTATOR
          /\ EnterClosing

\* Mutation: a duelist that leaves a game is removed like in the waiting room.
LoseVacatesSeat(c) ==
    /\ state.tag \in GameTags
    /\ \/ /\ position[c] = SPECTATOR
          /\ spectators' = spectators \ {c}
          /\ UNCHANGED <<state, seat, shut>>
       \/ /\ position[c] # SPECTATOR
          /\ seat' = Vacated(position[c])
          /\ UNCHANGED <<state, spectators, shut>>

LoseDuringGame(c) ==
    /\ state.tag \in GameTags
    /\ \/ /\ position[c] = SPECTATOR
          /\ spectators' = spectators \ {c}
          /\ UNCHANGED <<state, seat, shut>>
       \/ /\ position[c] # SPECTATOR
          /\ EnterClosing

LoseWhileClosing ==
    /\ state.tag = "Closing"
    /\ UNCHANGED <<state, seat, spectators, shut>>

ConnectionLost(c) ==
    /\ conn[c] = "open"
    /\ conn' = [conn EXCEPT ![c] = "gone"]
    /\ LoseWhileWaiting(c) \/ LoseDuringGame(c) \/ LoseWhileClosing
    /\ UNCHANGED <<position, clientData, isStarted, wins, kicked, lobbyVars>>

(***************************************************************************)
(* Lobby::Close, once, when the server stops: the dictionary is cleared    *)
(* and TryClose posts Event::Close to a room that has not started.         *)
(***************************************************************************)
LobbyClose ==
    /\ listed /\ Alive
    /\ listed' = FALSE
    /\ closing' = ~isStarted
    /\ UNCHANGED <<state, members, clientData, isStarted, wins, conn, shut, kicked>>

\* Mutation: a room with people in it does not close.
CloseWhenEmpty ==
    /\ closing
    /\ closing' = FALSE
    /\ \/ /\ state.tag = "Waiting" /\ Seated = {}
          /\ EnterClosing
       \/ /\ state.tag # "Waiting" \/ Seated # {}
          /\ UNCHANGED <<state, seat, spectators, shut>>
    /\ UNCHANGED <<position, clientData, isStarted, wins, conn, kicked, listed>>

Close ==
    /\ closing
    /\ closing' = FALSE
    /\ \/ /\ state.tag = "Waiting"
          /\ EnterClosing
       \/ /\ state.tag # "Waiting"
          /\ UNCHANGED <<state, seat, spectators, shut>>
    /\ UNCHANGED <<position, clientData, isStarted, wins, conn, kicked, listed>>

-----------------------------------------------------------------------------
\* MakeRoom has just published the room (or not, when the lobby is closed
\* already) and its creator's Join is posted, first or not.
Init ==
    /\ state = In("Waiting")
    /\ seat = [p \in Seats |-> NoClient]
    /\ spectators = {}
    /\ position = [c \in Clients |-> SPECTATOR]
    /\ ready = [c \in Clients |-> FALSE]
    /\ deckOk \in {[c \in Clients |-> v] : v \in BOOLEAN}
    /\ isStarted = FALSE
    /\ wins = [t \in Teams |-> 0]
    /\ \E creator \in Clients :
         conn = [c \in Clients |-> IF c = creator THEN "joining" ELSE "idle"]
    /\ shut = [c \in Clients |-> FALSE]
    /\ kicked = {}
    /\ listed \in BOOLEAN
    /\ closing = FALSE

ClientStep(c) ==
    \/ Connect(c)
    \/ Join(c)
    \/ ToDuelist(c)
    \/ ToObserver(c)
    \/ \E v \in BOOLEAN : Ready(c, v)
    \/ \E v \in BOOLEAN : UpdateDeck(c, v)
    \/ \E pos \in 0..T0Count + T1Count : TryKick(c, pos)
    \/ TryStart(c)
    \/ \E v \in 0..3 : ChooseRPS(c, v)
    \/ ChooseTurn(c)
    \/ Response(c)
    \/ Surrender(c)
    \/ \E v \in BOOLEAN : Rematch(c, v)
    \/ SideDeck(c)
    \/ ConnectionLost(c)

Next ==
    \/ \E c \in Clients : ClientStep(c)
    \/ \E t \in Teams : TimerExpired(t)
    \/ LobbyClose
    \/ Close

Spec == Init /\ [][Next]_vars

\* What is posted on the strand runs, and a client that was told to
\* disconnect is lost in the end.  No client has to act.
Fairness ==
    /\ WF_vars(Close)
    /\ \A c \in Clients : WF_vars(Join(c))
                          /\ WF_vars(shut[c] /\ ConnectionLost(c))

FairSpec == Spec /\ Fairness

-----------------------------------------------------------------------------
(***************************************************************************)
(* Properties.                                                             *)
(***************************************************************************)
States ==
    [tag : Tags, host : Clients \cup {NoClient},
     turnChooser : Clients \cup {NoClient}, answered : SUBSET Clients,
     choices : [Teams -> 0..3], replier : Clients \cup {NoClient}]

\* The variables have their types.
TypeOK ==
    /\ state \in States
    /\ seat \in [Seats -> Clients \cup {NoClient}]
    /\ spectators \in SUBSET Clients
    /\ position \in [Clients -> Seats \cup {SPECTATOR}]
    /\ ready \in [Clients -> BOOLEAN]
    /\ deckOk \in [Clients -> BOOLEAN]
    /\ isStarted \in BOOLEAN
    /\ wins \in [Teams -> Nat]
    /\ conn \in [Clients -> {"idle", "joining", "open", "gone"}]
    /\ shut \in [Clients -> BOOLEAN]
    /\ kicked \in SUBSET {IpOf[c] : c \in Clients}
    /\ listed \in BOOLEAN
    /\ closing \in BOOLEAN

\* The raw Client pointers the room keeps never outlive the connection, and
\* the roster agrees with what every client believes: a seated client has
\* that position, a spectator has none (Context::duelists, spectators and
\* Client::position, updated apart in every handler).
RosterSound ==
    /\ \A p \in Seats : seat[p] # NoClient =>
           conn[seat[p]] = "open" /\ position[seat[p]] = p
    /\ \A c \in spectators : conn[c] = "open" /\ position[c] = SPECTATOR

\* Someone in the waiting room can always start or kick: as long as a client
\* is connected the host is one of the connected (State::Waiting::host is a
\* raw pointer set by the first Join and never handed over).
HostPresent ==
    state.tag = "Waiting" /\ (\E c \in Clients : conn[c] = "open") =>
        state.host # NoClient /\ conn[state.host] = "open"

\* A game has the line-up its code indexes without looking: every seat is
\* taken, or with DUEL_RELAY the first seats of both teams without a hole,
\* and the client whose turn choice or answer the game waits for is one of
\* the duelists (duelists[{t, 0}], GetCurrentTeamClient, turnChooser, replier).
LineupComplete ==
    state.tag \in GameTags =>
        /\ \A t \in Teams :
             /\ seat[<<t, 0>>] # NoClient
             /\ \A p, q \in TeamSeats(t) :
                    p[2] < q[2] /\ seat[q] # NoClient => seat[p] # NoClient
             /\ ~Relay => Taken(t) = TeamSeats(t)
        /\ state.tag \in {"ChoosingTurn", "Rematching", "Sidedecking"} =>
             state.turnChooser \in Seated
        /\ state.tag = "Dueling" => state.replier \in Seated

\* A match goes on only while neither team has the wins it needs, and a
\* single duel never keeps score (Finish).
MatchUndecided ==
    state.tag \in GameTags => \A t \in Teams : wins[t] < neededWins

\* While nobody has been kicked, every connected client of a room that is
\* not closing is a duelist, a spectator, or has been told to disconnect:
\* nobody holds a connection the room has forgotten.
NobodyStranded ==
    kicked = {} /\ state.tag # "Closing" =>
        \A c \in Clients : conn[c] = "open" =>
            c \in Seated \/ c \in spectators \/ shut[c]

\* The next duel of a match or a rematch starts with the consent of every
\* duelist, the last one being given in this very step (Rematch, UpdateDeck;
\* the code compares the sizes of two sets).  Nobody has been kicked: see the
\* stale position of a kicked client in the README.
UnanimousConsent ==
    [][state.tag \in {"Rematching", "Sidedecking"} /\ state'.tag = "ChoosingTurn"
       /\ kicked = {} =>
         \E c \in Clients : state.answered \cup {c} = Seated]_vars

\* A client that changes its position in the waiting room has to get ready
\* again: readiness is never carried to a seat it was not given for.
ReadyIsEarned ==
    [][\A c \in Clients :
         position'[c] # position[c] /\ state'.tag = "Waiting" => ~ready'[c]]_vars

\* Once the room closes, every client that was let in is gone in the end:
\* Closing's entry handler or Join disconnects all of them.  Nobody has been
\* kicked: a client evicted by a kicked one is never told to disconnect.
ClosingDrains ==
    \A c \in Clients :
        (state.tag = "Closing" /\ conn[c] \in {"joining", "open"} /\ kicked = {})
            ~> conn[c] = "gone"

\* A room TryClose signalled does not stay in the waiting room.
CloseIsHonoured == closing ~> state.tag # "Waiting"

(***************************************************************************)
(* The room keeps its promise: see RoomPromise.tla.                        *)
(***************************************************************************)
roomPhase == CASE state.tag = "Waiting" -> "gathering"
               [] state.tag = "Closing" -> "over"
               [] OTHER -> "playing"
roomLineup == IF state.tag \in GameTags THEN seat
                                        ELSE [p \in Seats |-> NoClient]

Promise == INSTANCE RoomPromise WITH
    Players <- Clients, Nobody <- NoClient, Places <- Seats,
    WinsNeeded <- neededWins,
    phase <- roomPhase, lineup <- roomLineup, score <- wins

\* A room gathers, plays one match with a fixed and legal line-up, and ends.
KeepsPromise == Promise!PSpec

(***************************************************************************)
(* Statements of the repository that the code does not keep.               *)
(***************************************************************************)
\* Sidedecking.cpp: "Assuming client original deck is always valid here."
OriginalDeckValid ==
    state.tag = "Sidedecking" => \A c \in Seated : deckOk[c]

\* Client.hpp, MarkKicked(): "Set this client as kicked from the room its in,
\* preventing its IP from joining in the future."
KickedIpNeverJoins ==
    [][\A c \in Clients : conn[c] = "joining" /\ IpOf[c] \in kicked
         => c \notin Seated' \cup spectators']_vars
=============================================================================
