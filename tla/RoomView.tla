------------------------------ MODULE RoomView ------------------------------
(***************************************************************************)
(* What the clients of a room are shown.  The room sends increments (a     *)
(* player entered, moved, got ready, left; so many are watching; you are   *)
(* this one; answer this), never a whole picture, and each handler has its *)
(* own audience.  Here every step of Room posts the messages its handler   *)
(* posts, in their order, and each recipient folds them into its picture.  *)
(* A connection delivers its messages in order (ClientIO.tla), so the      *)
(* picture is the one the client has once it has read everything.          *)
(*                                                                         *)
(* The program at the other end is not part of the repository: Shows is    *)
(* what the messages' fields say, and a player that turns spectator is     *)
(* counted by the clients themselves, because no WATCH_CHANGE follows.     *)
(***************************************************************************)
EXTENDS Room

VARIABLE
    shown     \* what each client has been told

viewVars == <<vars, shown>>

Present == Seated \cup spectators

-----------------------------------------------------------------------------
(***************************************************************************)
(* The messages.  The factory numbers the seats of both teams in one row.  *)
(***************************************************************************)
Slots == 0..T0Count + T1Count - 1
WATCHER == 7

\* Mutation: the second team's seats are numbered from its own size.
NumberedFromT1(pos) == pos[1] * T1Count + pos[2]

EncodePosition(pos) == pos[1] * T0Count + pos[2]

PlayerEnter(c, pos) ==
    [type |-> "PLAYER_ENTER", slot |-> EncodePosition(pos), name |-> c]
Status(pos, status) ==
    [type |-> "PLAYER_CHANGE", slot |-> EncodePosition(pos), status |-> status]
PlayerChange(pos, isReady) ==
    Status(pos, IF isReady THEN "READY" ELSE "NOT_READY")
PlayerMove(p1, p2) ==
    [type |-> "PLAYER_MOVE", slot |-> EncodePosition(p1), to |-> EncodePosition(p2)]
WatchChange(count) == [type |-> "WATCH_CHANGE", count |-> count]
TypeChange(pos, isHost) ==
    [type |-> "TYPE_CHANGE", isHost |-> isHost,
     slot |-> IF pos = SPECTATOR THEN WATCHER ELSE EncodePosition(pos)]

\* The messages without a picture: they put something else on the screen.
Screen(what) == [type |-> "SCREEN", what |-> what]
DuelStart == Screen("duel")
GameMsg == Screen("duel")
RPSResult == Screen("duel")
AskRPS == Screen("choose a hand")
AskIfGoingFirst == Screen("choose the turn")
AskIfRematch == Screen("answer")
AskSidedeck == Screen("sidedeck")
RematchWait == Screen("wait")
SidedeckWait == Screen("wait")

Nobody == [name |-> NoClient, ready |-> FALSE]
Blank == [seats |-> [s \in Slots |-> Nobody], watching |-> 0, slot |-> WATCHER,
          isHost |-> FALSE, screen |-> "room"]

\* A recipient's picture after one message.
Shows(view, msg) ==
    CASE msg.type = "PLAYER_ENTER" ->
           [view EXCEPT !.seats[msg.slot] = [name |-> msg.name, ready |-> FALSE]]
      [] msg.type = "PLAYER_MOVE" ->
           [view EXCEPT !.seats[msg.to] = [view.seats[msg.slot] EXCEPT !.ready = FALSE],
                        !.seats[msg.slot] = Nobody]
      [] msg.type = "PLAYER_CHANGE" /\ msg.status \in {"READY", "NOT_READY"} ->
           [view EXCEPT !.seats[msg.slot].ready = msg.status = "READY"]
      [] msg.type = "PLAYER_CHANGE" /\ msg.status = "LEAVE" ->
           [view EXCEPT !.seats[msg.slot] = Nobody]
      [] msg.type = "PLAYER_CHANGE" /\ msg.status = "SPECTATE" ->
           [view EXCEPT !.seats[msg.slot] = Nobody, !.watching = @ + 1]
      [] msg.type = "WATCH_CHANGE" -> [view EXCEPT !.watching = msg.count]
      [] msg.type = "TYPE_CHANGE" ->
           [view EXCEPT !.slot = msg.slot, !.isHost = msg.isHost]
      [] msg.type = "SCREEN" -> [view EXCEPT !.screen = msg.what]

(***************************************************************************)
(* Posting.  A handler is written as what becomes of the clients' pictures *)
(* v: each of its posts changes those of its audience, in turn.            *)
(***************************************************************************)
Post(v, to, msg) ==
    [d \in Clients |-> IF d \in to THEN Shows(v[d], msg) ELSE v[d]]
ToAll(v, msg) == Post(v, Present', msg)

\* The pictures after a dispatch.  They are followed as long as somebody looks:
\* not in a closing room, over a lost connection, or after the first kick (the
\* kick's own posts are the last; see PictureTrue).
Tell(v) ==
    shown' = [d \in Clients |->
                IF conn'[d] = "open" /\ state'.tag # "Closing" /\ kicked = {}
                  THEN v[d] ELSE Blank]

\* SendDuelistsInfo: everybody who is seated, except the client itself.  The
\* two messages about a duelist touch its own slot only, so each slot is shown
\* as they leave it.
DuelistsInfo(v, c) ==
    LET Told(p) == Shows(Shows(v[c], PlayerEnter(seat'[p], p)),
                         PlayerChange(p, ready'[seat'[p]]))
    IN  [v EXCEPT ![c].seats =
            [s \in Slots |->
                LET p == DecodePosition(s)
                IN  IF seat'[p] \in {NoClient, c} THEN v[c].seats[s]
                                                  ELSE Told(p).seats[s]]]

SetupAsSpectator(v, c) ==
    DuelistsInfo(Post(v, {c}, TypeChange(SPECTATOR, FALSE)), c)

-----------------------------------------------------------------------------
(***************************************************************************)
(* The waiting room.                                                       *)
(***************************************************************************)
NewDuelistPosts(v, c) ==
    ToAll(ToAll(v, PlayerEnter(c, position'[c])),
          PlayerChange(position'[c], ready'[c]))

WatchPosts(v) == ToAll(v, WatchChange(Cardinality(spectators')))

\* A client is told where it is now, and whether it is the host.
TypePosts(v, c) == Post(v, {c}, TypeChange(position'[c], state'.host = c))

JoinWaitingPosts(v, c) ==
    IF c \in Seated'
      THEN LET typed == TypePosts(NewDuelistPosts(v, c), c)
               counted == Post(typed, {c}, WatchChange(Cardinality(spectators')))
           IN  DuelistsInfo(IF spectators' # {} THEN counted ELSE typed, c)
      ELSE WatchPosts(SetupAsSpectator(v, c))

\* A late spectator is told what the others are looking at.
JoinStartedPosts(v, c) ==
    LET started == Post(SetupAsSpectator(v, c), {c}, DuelStart)
    IN  CASE state.tag = "Rematching" -> Post(started, {c}, RematchWait)
          [] state.tag = "Sidedecking" -> Post(started, {c}, SidedeckWait)
          [] state.tag = "Dueling" -> Post(started, {c}, GameMsg)
          [] OTHER -> started

ViewJoin(c) ==
    /\ Join(c)
    /\ Tell(CASE state.tag = "Waiting" -> JoinWaitingPosts(shown, c)
              [] state.tag \in GameTags -> JoinStartedPosts(shown, c)
              [] state.tag = "Closing" -> shown)

ToDuelistPosts(v, c) ==
    LET moved == ToAll(v, PlayerMove(position[c], position'[c]))
    IN  IF position[c] = SPECTATOR
          THEN TypePosts(WatchPosts(NewDuelistPosts(v, c)), c)
        ELSE IF position'[c] # position[c]
          THEN TypePosts(ToAll(moved, PlayerChange(position'[c], ready'[c])), c)
        ELSE v

ViewToDuelist(c) ==
    /\ ToDuelist(c)
    /\ Tell(ToDuelistPosts(shown, c))

ViewToObserver(c) ==
    /\ ToObserver(c)
    /\ Tell(TypePosts(ToAll(shown, Status(position[c], "SPECTATE")), c))

ViewReady(c, value) ==
    /\ Ready(c, value)
    /\ Tell(ToAll(shown, PlayerChange(position[c], ready'[c])))

ViewTryKick(c, pos) ==
    /\ TryKick(c, pos)
    /\ Tell(ToAll(shown, Status(position[seat[DecodePosition(pos)]], "LEAVE")))

\* Mutation: the entry handler asks only once, before the first hand.
AskedOnce == IF state.tag = "Waiting" THEN {seat'[<<0, 0>>], seat'[<<1, 0>>]} ELSE {}

\* SendRPS: the first duelist of each team chooses a hand.
HandPlayers == {seat'[<<0, 0>>], seat'[<<1, 0>>]}

\* What the entry handler of the new state posts.
EntryPosts(v) ==
    CASE state'.tag = "RockPaperScissor" -> Post(v, HandPlayers, AskRPS)
      [] state'.tag = "ChoosingTurn" -> Post(v, {state'.turnChooser}, AskIfGoingFirst)
      [] state'.tag = "Rematching" -> Post(ToAll(v, RematchWait), Seated', AskIfRematch)
      [] state'.tag = "Sidedecking" ->
           Post(Post(v, Seated', AskSidedeck), spectators', SidedeckWait)
      [] state'.tag \in {"Dueling", "Closing"} -> v

\* TightenTeam announces every move, the lower positions first.  A team has at
\* most three seats, and who has the first one stays.
TightenMove(v, p) ==
    LET moved == ToAll(v, PlayerMove(p, Tightened(p)))
    IN  IF p \in Taken(p[1]) /\ Tightened(p) # p
          THEN Post(moved, {seat[p]}, TypeChange(Tightened(p), state.host = seat[p]))
          ELSE v
TightenPosts(v, team) == TightenMove(TightenMove(v, <<team, 1>>), <<team, 2>>)

ViewTryStart(c) ==
    /\ TryStart(c)
    /\ LET placed == IF Relay THEN TightenPosts(TightenPosts(shown, 0), 1) ELSE shown
       IN  Tell(EntryPosts(ToAll(placed, DuelStart)))

-----------------------------------------------------------------------------
(***************************************************************************)
(* The game.  Everything the core has to say is a message of the duel.     *)
(***************************************************************************)
ViewChooseRPS(c, value) ==
    /\ ChooseRPS(c, value)
    /\ Tell(IF 0 \in {value, state.choices[1 - position[c][1]]} THEN shown
            ELSE EntryPosts(ToAll(shown, RPSResult)))

\* A message of the duel, or its last one and the questions that follow.
GamePosts == EntryPosts(ToAll(shown, GameMsg))

ViewChooseTurn(c) == ChooseTurn(c) /\ Tell(GamePosts)
ViewResponse(c) == Response(c) /\ Tell(GamePosts)
ViewTimerExpired(team) == TimerExpired(team) /\ Tell(GamePosts)

ViewSurrender(c) ==
    /\ Surrender(c)
    /\ Tell(IF position[c] = SPECTATOR THEN shown ELSE GamePosts)

NextDuel == state'.tag = "ChoosingTurn"

ViewRematch(c, answer) ==
    /\ Rematch(c, answer)
    /\ Tell(IF NextDuel THEN EntryPosts(ToAll(shown, DuelStart)) ELSE shown)

ViewSideDeck(c) ==
    /\ SideDeck(c)
    /\ LET started == Post(shown, {c}, DuelStart)
       IN  Tell(IF NextDuel THEN EntryPosts(Post(started, spectators', DuelStart))
                            ELSE started)

LeavePosts(v, c) ==
    IF state.tag # "Waiting" THEN v
    ELSE IF position[c] = SPECTATOR THEN WatchPosts(v)
    ELSE ToAll(v, Status(position[c], "LEAVE"))

ViewConnectionLost(c) ==
    /\ ConnectionLost(c)
    /\ Tell(LeavePosts(shown, c))

\* These handlers post nothing.
ViewUpdateDeck(c, valid) == UpdateDeck(c, valid) /\ Tell(shown)
Silent == (LobbyClose \/ Close \/ \E c \in Clients : Connect(c)) /\ Tell(shown)

-----------------------------------------------------------------------------
ViewInit == Init /\ shown = [c \in Clients |-> Blank]

Handlers ==
    \/ \E c \in Clients :
         \/ ViewJoin(c)
         \/ ViewToDuelist(c)
         \/ ViewToObserver(c)
         \/ \E v \in BOOLEAN : ViewReady(c, v)
         \/ \E pos \in 0..T0Count + T1Count : ViewTryKick(c, pos)
         \/ ViewTryStart(c)
         \/ \E v \in 0..3 : ViewChooseRPS(c, v)
         \/ ViewChooseTurn(c)
         \/ ViewResponse(c)
         \/ ViewSurrender(c)
         \/ \E v \in BOOLEAN : ViewRematch(c, v)
         \/ ViewSideDeck(c)
         \/ ViewConnectionLost(c)
    \/ \E t \in Teams : ViewTimerExpired(t)
    \/ Silent

ViewNext ==
    \/ Handlers
    \/ \E c \in Clients, v \in BOOLEAN : ViewUpdateDeck(c, v)

ViewSpec == ViewInit /\ [][ViewNext]_viewVars

-----------------------------------------------------------------------------
(***************************************************************************)
(* Properties.                                                             *)
(***************************************************************************)
\* The picture w of client c is the room it is in.
Depicts(w, c) ==
    /\ \A p \in Seats :
         /\ w.seats[EncodePosition(p)].name = seat[p]
         /\ state.tag = "Waiting" /\ seat[p] # NoClient =>
              w.seats[EncodePosition(p)].ready = ready[seat[p]]
    /\ w.slot = IF c \in spectators THEN WATCHER ELSE EncodePosition(position[c])
    /\ state.tag = "Waiting" =>
         w.isHost = (state.host = c) /\ w.watching = Cardinality(spectators)

PictureOfRoom == \A c \in Present : Depicts(shown[c], c)

\* Up to and with the first kick, whoever is in the room sees it as it is: who
\* sits where and is ready, which place is one's own, who is host and how many
\* watch.  Every handler keeps the clients' pictures with increments of its
\* own, sent before or after it moves the client.  (A kicked client that is
\* still connected acts from a seat it has lost, and its READY is shown there.)
PictureTrue ==
    [][kicked = {} /\ state'.tag # "Closing" => PictureOfRoom']_viewVars

\* The duelists whose answer the room waits for before it goes on.
Awaited ==
    CASE state.tag = "RockPaperScissor" ->
           {seat[<<t, 0>>] : t \in {u \in Teams : state.choices[u] = 0}}
      [] state.tag = "ChoosingTurn" -> {state.turnChooser}
      [] state.tag \in {"Rematching", "Sidedecking"} -> Seated \ state.answered
      [] OTHER -> {}

Question ==
    [RockPaperScissor |-> "choose a hand", ChoosingTurn |-> "choose the turn",
     Rematching |-> "answer", Sidedecking |-> "sidedeck"]

\* Nobody waits for an answer that was not asked for: whoever the room awaits
\* has the question on its screen, and no spectator, however late it came, is
\* left with a question or in the waiting room of a room that plays (the
\* entry handlers, the handlers of Join and the DUEL_STARTs in between).
AwaitedAreAsked ==
    kicked = {} /\ state.tag \in GameTags =>
        /\ \A c \in Awaited : shown[c].screen = Question[state.tag]
        /\ \A c \in spectators :
             shown[c].screen = IF state.tag \in {"Rematching", "Sidedecking"}
                                 THEN "wait" ELSE "duel"
=============================================================================
