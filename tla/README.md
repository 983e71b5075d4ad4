# Multirole in TLA+

A verification project for [Multirole](../src/README.md), the duel server for
EDOPro. Paths below are relative to `src/src/Multirole/` unless they begin with
`src/`.

- [The system](#the-system): components, state, operations, interactions
- [What has to be right](#what-has-to-be-right): the hard behaviours
- [Modules and runs](#modules-and-runs): what is where, at a glance
- [The room](#the-room), [the lobby](#the-lobby), [a connection](#a-connection),
  [the duel](#the-duel), [who learns what](#who-learns-what), [decks](#decks),
  [replays](#replays), [the core in a process](#the-core-in-a-process),
  [the core in the server](#the-core-in-the-server), [updates](#updates): for each
  the model, the run, the proofs
- [What disagrees](#what-disagrees): the finding, and what else was seen
- [What is proved](#what-is-proved)
- [Not modelled](#not-modelled)

## The system

One process serves many rooms. Two `io_context`s carry all the work
(`Instance.cpp`): `lIoCtx`, run by a pool of threads, handles the lobby, the
endpoints and the rooms; `auxIoCtx`, run by one thread, handles the webhooks
that update the git repositories. Each duel runs in the core, a native library
that is loaded directly (`DLWrapper`) or in a child process per duel
(`HornetWrapper` and `src/src/Hornet/main.cpp`).

| component | state | operations | talks to |
|---|---|---|---|
| **Room** (`Room/Context.cpp`, `Room/State/*`, `Room/Instance.cpp`) | the state variant, `duelists`, `spectators`, `isStarted`, `wins`, `kicked`; `position`, `ready` and decks of each client | one handler per state and event, dispatched on the room's strand | clients (`Send`, `Disconnect`), timers, the core, replays |
| **Duel processing** (`Room/State/Dueling.cpp`, `Room/TimerAggregator.cpp`, `YGOPro/CoreUtils.cpp`) | replier, retry counts, current duelist per team, remaining times, spectator cache, replay | `Process`, `Response`, `TimerExpired`, `Finish` | core, clients, `ReplayManager` |
| **Client** (`Room/Client.cpp`) | socket, `outgoing` queue, `connectionLost`, `disconnecting` | read loop on the strand, write chain off the strand, `Disconnect` | room (`Dispatch`), lobby (connection counts) |
| **Lobby** (`Lobby.cpp`) | slots of weak references, `closed`, connection counts per address | `MakeRoom`, `GetRoomById`, `CollectRooms`, `Close`, `HasMaxConnections`, `Increment`/`DecrementConnectionCount` | rooms (`TryClose`, read access) |
| **Room hosting** (`Endpoint/RoomHosting.cpp`) | one `Connection` per handshake: `ip`, `name` | `PLAYER_INFO`, `CREATE_GAME`, `JOIN_GAME` | lobby, rooms |
| **Lobby listing** (`Endpoint/LobbyListing.cpp`) | the serialized list | a timer that collects rooms every two seconds | lobby |
| **Core wrapper in the server** (`Core/DLWrapper.cpp`) | the library, `ssdList` and `ssdMap` of script suppliers | `CreateDuel`, `DestroyDuel`, callbacks | core, rooms |
| **Core wrapper and Hornet** (`Core/HornetWrapper.cpp`, `src/src/Hornet/main.cpp`) | the shared segment: mutex, condition variable, `act`, `bytes`; the child process | `NotifyAndWait` per call, callbacks the other way, launch and exit | core, suppliers of cards and scripts |
| **Core provider** (`Service/CoreProvider.cpp`) | path of the current core, files to delete | `OnAdd`, `OnDiff` (both `OnGitUpdate`), `GetCore` | git repositories, wrappers |
| **Replays** (`Service/ReplayManager.cpp`, `YGOPro/Replay.cpp`) | the file `lastId` and its lock | `NewId`, `Save` | rooms, other server processes |
| **Data, scripts, banlists** (`Service/*Provider.cpp`) | a shared pointer to the current data | `OnAdd`, `OnDiff`, readers | git repositories, rooms |
| **Git repositories** (`GitRepo.cpp`, `Endpoint/Webhook.cpp`) | the working copy | clone, fetch and reset on a webhook | providers |
| **Process** (`Instance.cpp`, `src/util/area-zero.sh`) | running contexts, number of signals received | start, first signal (stop listening, close rooms), second signal | all of the above |
| **Decks** (`Room/Context.cpp` `LoadDeck`/`CheckDeck`, `Room/State/Sidedecking.cpp`, `YGOPro/Banlist*.cpp`) | none | pure checks | room |
| **Logging** (`Service/LogHandler*`) | sinks, their strands | log lines to files, Discord | everything |

How a client gets into a room: `RoomHosting` accepts a socket and reads
`PLAYER_INFO`, then `CREATE_GAME` (the lobby makes a room) or `JOIN_GAME` (the
lobby finds one; password and kicked list are checked). It then makes a
`Room::Client`, which holds a shared pointer to the room, and posts
`Event::Join` on the room's strand. The room keeps raw pointers to its clients;
a client is removed from them when its connection is lost, which is an event
like any other. The lobby keeps a weak pointer to the room, so a room lives as
long as one of its clients.

## What has to be right

The hazards are listed with their lines in `PROJECT.json`, each with the
properties that would catch it going wrong. In short:

- **Order of events.** Joins, messages, losses, timers and the server's stop
  reach a room's strand in any order. Every handler works from what earlier
  handlers left in three places: the room's maps, the client's own fields, the
  raw pointers of the current state. What the clients see of it is kept with
  increments that each handler sends to an audience of its own.
- **Work that crosses the strand.** The endpoint and the lobby look at a room
  from other threads and post what they decided; it runs later. Writes complete
  beside the strand.
- **Who may know what.** The core tells everything; which copy of a message goes
  to whom, and which query is answered for whom, is decided message by message
  after the core has run ahead.
- **Two processes, one segment.** Server and Hornet take turns by a flag under
  an interprocess mutex; either may be late, dead or silent, and a wrapper is
  used again after a failure.
- **Replacement under use.** Cores, databases, scripts and banlists are replaced
  while rooms are in the middle of their duels, and one step of a replacement may
  fail.
- **Ends that must come.** A closing room has to lose all of its clients before
  its memory and its slot come back; a stopping server waits for its rooms.
- **Shared files.** Two server processes overlap during an update and number
  their replays from one file; either may die at any step,
  and the file may fail to be opened, read or written.

## Modules and runs

| part | modules | proofs | run |
|---|---|---|---|
| a room | `Room`, `RoomPromise`, `RoomView` | `RoomProofs` | `room_match`, `room_live` |
| the lobby | `Lobby` | `LobbyProofs` | `lobby_rooms` |
| a connection | `ClientIO` | `ClientIOProofs` | `client_io` |
| a duel | `Duel` | `DuelProofs` | `duel_clocks` |
| a duel's messages | `CoreUtils`, `Queries`, `Broadcast`, `Wire` | `BroadcastProofs` | `broadcast` |
| decks and rules | `Decks` | `CardsProofs` | `decks`, `sidedeck` |
| replays | `ReplayIds`, `Replay`, `Wire` | `ReplayIdsProofs` | `replays` |
| the core in a process | `Hornet` | `CoreProofs` | `hornet_calls` |
| the core in the server | `Wrapper` | `CoreProofs` | `wrapper` |
| updates | `Updates`, `Banlists` | `CardsProofs` | `updates` |

How they fit together: `RoomView` extends `Room` with the messages its handlers
send, and `Room` implements `RoomPromise`, which is what `Lobby` takes of a room.
`Room` takes of a duel that it asks, ends or fails; `Duel` has whom it asks and
for how long, `Broadcast` what it tells whom. `ClientIO` has the order in which one
connection's messages and events arrive, which `Room` and `RoomView` rely on:
`Join` first, nothing after the loss, messages in order. `Broadcast` extends
`CoreUtils`, the functions on single messages, and so does `Queries`, the buffers.
`Updates` and `Wrapper` share the core provider: the first has what happens to its
fields when a step fails, the second the lifetime of what rooms took from it.

`MC*.tla` are the instances for TLC. Each run gives the whole instance of one
question: a type invariant is in every module and proved where there are proofs;
it is not among the properties of the runs. Every run that passes checks
deadlock, but for the systems that may stop: rooms without clients, connections
that are gone, processes that have ended, decks that were played.

In a module of the model some operators are marked as a mutation. They are not
part of the specification: each is a definition as a plausible bug would have it,
and putting it in place of the real one makes TLC find the property in
`PROJECT.json` ("mutants") violated.

## The room

`Room.tla` models one room. A variable stands for each field the handlers read
or write:

| TLA+ | code |
|---|---|
| `state` | `Instance::state`; the tag is the alternative, the other fields are those of the alternatives in `Room/State.hpp` (`host`, `turnChooser`, `answered` also for `sidedecked`, `choices`, `replier`) |
| `seat`, `spectators` | `Context::duelists`, `Context::spectators` |
| `position`, `ready` | `Client::position`, `Client::ready` |
| `deckOk` | what `CheckDeck` would say of `Client::originalDeck` |
| `isStarted`, `wins` | `Context::isStarted`, `Context::wins` |
| `conn` | where the connection is: not arrived, `Join` posted, dispatched, lost |
| `shut` | `Client::Disconnect` was called |
| `kicked` | `Instance::kicked` |
| `listed`, `closing` | the lobby's dictionary has the room; `Event::Close` is posted |

`Instance::Dispatch` runs a handler and the entry handlers it chains to under
`mState`, on the strand, so each handler is one action, and a transition to
`Closing`, whose entry handler empties the room, is part of the action that
causes it (`EnterClosing`). What the code does in two steps is two actions:
`Connect` checks the kicked list and posts, `Join` is dispatched later;
`LobbyClose` reads `isStarted` and posts, `Close` is dispatched later. A kicked
client keeps its position and goes on sending until its connection is lost,
which the model does too: `TryKick` changes the map and leaves `position[c]`
and `conn[c]` alone.

What a duel does inside the core is abstracted to its outcomes (`Process`): a
duelist is asked, the duel ends with a winner or a draw, or the core fails; [the
duel](#the-duel) has a module of its own.
`Finish` is modelled in full. Left out because nothing else depends on it: chat,
`isTeam1GoingFirst` (it renumbers teams in messages), `duelsHad` (read only if
`IsTiebreaking()` were false), the contents of messages. A rejected side deck
changes nothing, so it is no step. `GetCore` failing in `ChooseTurn` is not
modelled here: the exception leaves a `noexcept` function and ends the process
(see [updates](#updates)).

`RoomPromise.tla` says what a room promises to the outside: it gathers people,
plays one match with a fixed line-up in which everybody plays once and both
teams have a first player, scores duels for one team at a time, and is over as
soon as a team has the wins it needs or somebody gives up. `Room` implements it
under the mapping at the end of `Room.tla` (`KeepsPromise`).

`RoomView.tla` adds what the clients are shown. Every step of `Room` becomes the
same step with the messages its handler posts, in their order and to its own
audience: a handler is written as what becomes of the pictures (`shown`), each post
(`Post`, `ToAll`) changing those of its audience in turn. A picture holds names and
readiness by seat, its client's own place, the host, how many watch, and what is on the
screen. The numbering of seats is `STOCMsgFactory`'s. `SendDuelistsInfo`, whose two
messages about a duelist touch that duelist's slot only, is written slot by slot, and
`TightenTeam`'s loop as the moves of the second and the third seat, as no team has
more (`HostInfoAssumption`) and who has the first one stays. The program that reads
the messages is not in the repository; a picture is what the fields of the messages
say.

### Runs

Three clients are the smallest number with a host, an opponent and a third that
joins late, watches, or takes a seat somebody left or was kicked from; every
pairwise race of the hazards needs at most three. No counter has to be bounded:
`wins` stays below twice `neededWins`, and a connection goes through its four
stages once. `CHECK_DEADLOCK FALSE` because a room that has lost all of its clients
stops.

| run | instance | shows |
|---|---|---|
| `room_match` | 3 clients, 2v1 relay, best of three, time limit, symmetric clients | roster and clients agree (`RosterSound`); the host is there (`HostPresent`); a running game has the line-up its code indexes, after moves between seats and the tightening of teams (`LineupComplete`); everybody's picture is the room (`PictureTrue`); who is awaited was asked, and no spectator is left with a question (`AwaitedAreAsked`); a rematch needs everybody (`UnanimousConsent`); the promise (`KeepsPromise`) |
| `room_live` | 3 clients, 1v1, fairness, no symmetry | a closing room drains (`ClosingDrains`); a posted close is honoured (`CloseIsHonoured`) |

Fairness: a handler posted on the strand runs (`Join`, `Close`; the `io_context` is
run until it has no work), and a client whose socket was shut down reads the end of
the stream and is lost (`shut[c] /\ ConnectionLost(c)`; `ClientIO` has why). No
client ever has to send anything or to leave.

`UnanimousConsent`, `ClosingDrains`, `AwaitedAreAsked` and `PictureTrue` are stated
for rooms in which nobody was kicked (`PictureTrue` up to and with the first kick).
With a kick they fail, by the stale position of the kicked client: it may evict
another client from its seat, whose connection then belongs to no list of the room
and is not closed by `Closing`; its answers count in a rematch; its `READY` is shown
on whoever has the seat. The other properties hold with kicks.

### Proofs

In `RoomProofs.tla`, for any set of clients, any numbers of seats the endpoint admits, and any
`bestOf`. The assumptions are `HostInfoAssumption`, what `RoomHosting` clamps
the options to, and `ClientsAssumption`, that the null client is no client.

- `Inv` is inductive (`InvStep`, one lemma per action) and
  implies `TypeOK`, `RosterSound`, `HostPresent`, `LineupComplete`,
  `MatchUndecided` and `NobodyStranded`. The strengthening says what handlers
  rely on silently: a client whose `Join` has not run has left no trace
  (`Unseen`); the host exists from the first `Join` on (`HostInv`, without
  which the loss of a client could leave the room without one); the score stays
  below the target in *every* state but `Closing`; as long as nobody was kicked
  only spectators that surrendered have been told to disconnect (`ShutInv`); a
  closed room is empty. Two facts about data are lemmas of their own:
  `FreeSeatFromIn` (the search for a seat finds a free one if there is one) and
  `TightenFacts` (tightening a team is a bijection onto its first slots).
- `ConsentSafety` needs that equal sizes mean equal sets: answers come from
  duelists only (`AnsweredInv`) and nobody sits twice (`SeatedCount`).
- `KeepsPromise`: every step of `Room` is a `Begin`, `Score` or `GiveUp` of
  `RoomPromise` or leaves phase, line-up and score alone.
- `ReadyIsEarned`, with the invariant that observers of a
  waiting room are not ready; that nothing leads back to `Waiting` is taken
  from the refinement.

Of `RoomView`, under the same assumptions: `QuestionsAsked` (`AwaitedAreAsked`) and
`PicturesTrue` (`PictureTrue`), from `ViewInvariance`. `ViewSpec` implements `Spec`
(`ViewIsRoom`), so `Inv` is at hand, and `ViewInv` is added to it:

- until the first kick the pictures of everybody present are the room
  (`PictureOfRoom`): a handler sends increments, so it leaves the picture true only if
  the picture was true before;
- `AwaitedAreAsked`, and `HandsAsked`, without which it is not inductive: the question
  for a hand stays on the screens of *both* hand players until the state ends, so that
  it is there for one who has chosen and takes it back (a choice of 0 is no hand);
- a client that is not connected has an empty picture, from which `Join` starts, and
  finitely many watch, so that their number goes up and down by one.

One lemma says what each message does to a picture (`Views` and the lemmas on
`Shows`), one what it does to everybody's when it is posted (`NewDuelistPosted`,
`MovePosted`, `TypePosted`...), and one per handler (`...Told`) that after its posts
each client present has the picture of the new room (`RoomAfter`) and its question
(`ScreenAfter`); from that, `ToldRight` concludes. The tightening of a relay's
teams passes through pictures of no room: `Halfway` says what a picture shows when
some of the moves have been announced, `HalfwayStep` that a move to a seat that was
given up already, or never taken, adds itself to them, and `TightenShown` that the
last one completes them, for both teams.

Model-checked only: the liveness properties (`ClosingDrains`,
`CloseIsHonoured`), which are outside the prover's reach.

## The lobby

`Lobby.tla` models what all rooms share: the dictionary of rooms, the count of
connections per address, the handshake that leads into a room, the timer that
lists the rooms, and the server's stop. None of it runs on a strand: the
threads of `lIoCtx` interleave, and only the lobby's two locks order them. A
step is therefore one holding of a lock or the stretch between two of them.

| TLA+ | code |
|---|---|
| `stage`, `hold` | the handshake (`RoomHosting::Connection`, then `Room::Client`) and the shared pointer to a room it has |
| `slots` | `Lobby::rooms`: a slot keeps a weak pointer, so it may hold a room that has died |
| `idOf`, `phase`, `started` | a room's id, its state as `RoomPromise` shows it, `Context::isStarted` |
| `count` | `Lobby::connections` |
| `server` | `"up"`; `"deaf"`: acceptors and timer stopped; `"closed"`: `Lobby::closed` |
| `closeSent` | `Event::Close` is posted, and holds the room alive |
| `timer`, `fresh`, `listing` | `LobbyListing`'s timer, the rooms its handler has just collected, and `serialized` |

A room is alive (`Alive`) as long as a connection, a client or a posted close has
a shared pointer to it; `weak_ptr::lock` succeeds exactly then. Memory is freed
by the last of them, which is no step of its own. The handlers are split where
another thread can come in between: `PlayerInfo` checks the limit, `BecomeClient`
counts; `CollectRooms` frees the slots of dead rooms, `StoreListing` replaces the
list later; `StopListening` and `CloseLobby` are the two halves of
`Instance::Stop`. What a room does inside is `Room.tla`'s business: here it
starts and ends whenever somebody is in it.

| run | instance | shows |
|---|---|---|
| `lobby_rooms` | 2 connections of one address, 2 rooms, 2 slots, limit 1, fairness | live rooms have their own ids (`UniqueIds`); an id from the list leads to the room that was listed or to none (`ListingHonest`); counts are the clients there are (`CountsExact`); slots come back (`SlotsComeBack`); rooms that wait are closed by the stop (`WaitingRoomsClose`) |

Two rooms and two slots are the least with which a slot is freed and taken again
while another is in use, or while an old list still shows the id; two connections
of one address are the least that can pass the limit of 1 together, and can keep
rooms alive in turn. Nothing bounds the length of a history: a connection that has
gone stands for the next one, and a room nobody refers to any more (`Unused`:
neither alive nor in a slot nor listed) for the next room. The dictionary of the
code has no limit; a model whose slots are taken makes no room (`MaxId`). The
proofs below are for any number of each. No symmetry is used, as the run checks
liveness too.

Fairness: what is queued runs, timers fire, and `Stop` goes on between its halves.

What holds only with a condition: `UniqueIds` is stated until the lobby closes,
because a closed lobby gives every room the id 1 and lists none. `ListingHonest`
excludes the moment between `CollectRooms` and the store, in which a freed id may
already have been taken while the old list is still given out. A room that starts
between the look at `isStarted` and the dispatch of `Close` is neither closed nor
counted among the remaining rooms; `WaitingRoomsClose` accepts it, since it does
not wait.

Proved in `LobbyProofs.tla`, for any connections, addresses, rooms, slots and
limit: `TypeOK`, `UniqueIds`, `ListingHonest`, `CountsExact`. `UniqueIds` is
inductive once it is known that no close is posted, and so no room held by one,
before the lobby is closed (`ClosedInv`). `ListingHonest` needs that what a list
shows is still in its slot, dead or alive (`StillListed`): only a collection
frees slots, and a room is made in a free one.
`CountsExact` is a statement about cardinalities, so each step that makes or
ends a client adds or removes one element of a finite set. Model-checked only:
`SlotsComeBack`, `WaitingRoomsClose`.

## A connection

`ClientIO.tla` models one connection from the accepted socket to the destruction of
the client: the handshake of `RoomHosting::Connection`, which drops it, refuses it
with a message that is still written, or moves its socket into a `Room::Client`; and
the client's reads, writes and end.

| TLA+ | code |
|---|---|
| `hosting`, `named` | the `Connection` and its `name`, then `Client::Start`: `Join` is posted, the first read begins |
| `strand`, `running` | handlers queued on the room's strand, the one it runs |
| `reading` | the read under way, `"end"` for `Connection::DoReadEnd` |
| `outgoing`, `disconnecting`, `connectionLost` | the fields of `Client` (and of `Connection`) |
| `writes` | writes under way, or completed with a handler that has not run |
| `shut` | the socket was shut down |
| `joined`, `inRoom` | the room has heard of the client; it has a pointer to it |
| `inbox`, `closed`, `broken`, `wire` | the peer and the network |

Handlers of reads and the room's handlers exclude each other; handlers of writes
run at any time beside them, because they are not bound to the strand. They share
the queue under `mOutgoing`, so a holding of that lock is one step. `Alive` says
what keeps the object: an operation, its handler, or the event the handler
dispatches; no list of the room does.

| run | instance | shows |
|---|---|---|
| `client_io` | 3 messages out, 4 in, fairness | one write at a time and every message once, in order (`WritesInOrder`); no room has a pointer to a client that is gone (`NoDanglingClient`); a client is shut down when all it was sent is written (`FlushedFirst`); whoever is refused, disconnected, or lost is gone in the end (`ClientsEnd`) |

Three messages out are a write, one behind it, and one that comes when the first
handler has run; four in are a name, a handshake and two events, or a bad message
after any of them. Fairness: threads run what is ready (strongly for the strand,
which other handlers take now and then), reads end when there is something to
read, handlers of a room come to their end, and writes end. Neither side has to send
or to close.

A refused connection reads and ignores what else comes until the peer has closed or
its own side was shut down. A failed write leaves its message in the queue, so that
the client is no longer written to and `Disconnect` waits for the read to fail as
well, which it does: `ClientsEnd` holds.

Proved in `ClientIOProofs.tla`, for any number of messages: types, `WritesInOrder`,
`NoDanglingClient`, `FlushedFirst`, and `EventsInOrder` (a room hears of `Join`
first, of the loss last and once). The variables fall into two groups that hardly
touch. Of the queue: a message's number is told by its place (`Numbered`), and there
is one write, of the front (`OneWrite`). Of the strand: between `Start` and the loss
there is exactly one read, handler of a read, or event (`OneChain`), which is what
keeps the client alive; and `Join` is in front of everything until it has run
(`JoinFirst`). Model-checked only: `ClientsEnd`.

## The duel

`Duel.tla` opens the state `Dueling`, which `Room.tla` reduces to being asked
and ending: whom the core asks, what the two clocks do meanwhile, what the replay
and late spectators get. The line-up is fixed, as it is during a duel, and a
duelist is a position of a team. Several duels follow each other, with either team
going first, because timers belong to the room and outlive a duel.

| TLA+ | code |
|---|---|
| `phase` | `"running"`: `Context::Process` is in its loop and keeps the strand; `"asked"`: it has returned; `"over"`: `Finish` ran |
| `currentPos`, `retryCount`, `replier`, `timeRemaining` | the fields of `State::Dueling` |
| `armed`, `left`, `queued` | the timers of `TimerAggregator`: a wait is under way, its expiry from now, and handlers of completed waits that the strand has not run |
| `responses`, `cache`, `seen` | `Replay`'s responses, the size of `spectatorCache`, what each spectator has been sent of it |
| `core` | the core: whose deck has which index and which is in play, the answers given and those it took |

Each message of the core is a step of `Process`. No other handler runs between
two of them, which the guards on `phase` say, but timers expire. The core's own
part (`CoreAccepts`, `SwapInCore`, `Decks`) is outside of the source: after an
answer it says `MSG_RETRY` or goes on, a swap puts the next deck of the team into
play, and a relay does not swap past its last deck. Left out: contents of messages
and queries ([who learns what](#who-learns-what)), names in the replay
([replays](#replays)). `GetCore` failing is
not modelled, as in `Room`; a core that fails while the duel is made behaves as
one that fails at its first message.

Time passes in ticks of which a second has `TicksPerSec`; `Tick` moves the
expiry of the team that is asked, the only one anybody reads. That a duelist is
charged for what the core computes before a repeated question is covered by
ticks after it.

| run | instance | shows |
|---|---|---|
| `duel_clocks` | a team of 2 against 1, limit 1 s and grace 1 s in half seconds, 2 duels, 1 spectator, fairness | only the clock of who is asked runs (`ClockOfAsked`); the current duelist plays the deck in play (`DeckInPlay`); the replay has the accepted answers (`ReplayFaithful`); questions end (`QuestionsEnd`) |

Bounds: `MaxMsgs` 3 public messages (a turn and a swap after the start), so that
a swap comes before and after a question; `MaxAnswers` 2, so that a second retry
follows a first or an accepted answer; `MaxDuels` 2, so that a handler queued in
one duel runs in the next; `Late` 2 ticks, a second behind an expiry, after which
a clock is only "late". A room's seats may be empty in a relay; that instance
needs no run, since `DeckInPlay` is proved for every one.

Fairness: time passes, due waits complete, queued handlers run. Nothing is assumed
of duelists or of the core.

What holds with a condition: `QuestionsEnd` excludes a repeated question. After
`MSG_RETRY` no timer is started, so the duelist has all the time there is,
although what was taken is deducted at the answer. `ClockNeverGains` allows no gain
but not that every answer costs: the rest is rounded up to seconds, and who
answers within a second loses nothing.

Proved in `DuelProofs.tla`, for teams of up to three, any limit, grace and grain
of time, any spectators and bounds: `TypeOK`, `ClockOfAsked`, `DeckInPlay`,
`ReplayFaithful`, `CatchUpComplete`, `ClockNeverGains`. The invariant has three
ideas of its own. The core's decks of a team are its seats rotated by a constant,
0 or 1 for the whole duel and 0 in a relay (`DecksRotated`), from which
`DeckInPlay` follows by arithmetic modulo the team. Between an answer and its
judgement the replay is exactly one answer ahead (`OneAhead`). No expiry lies
further away than the time that remains, and none than limit and grace
(`TimeBounded`), so rounding up cannot give more than there was (`RoundedUp`).
Model-checked only: `QuestionsEnd`.

## Who learns what

`Broadcast.tla` follows cards through the state the core has (`board`), the messages
with which the core tells of it, and `Context::Process`, which distributes one after
the other. To send a card's code is to reveal the card.

| TLA+ | code |
|---|---|
| `board` | the core's cards: controller, location, place, position, revealed by an effect or not |
| `batch`, `processing` | messages that `Process` has got from the core and not distributed; it is in the middle of them |
| `isTeam1GoingFirst`, `currentPos` | the fields of the room and the duel; `Swapped` is `GetSwappedTeam` |
| `request` | `lastRequest` and the replier |
| `revealed` | whose code each recipient was sent, in messages and queries |
| `shown` | which cards each recipient was entitled to see at some time, by the rules of the game alone |
| `repeated` | codes that came with a question that was asked again |

`CoreUtils.tla` has the functions that decide: who gets a message, which codes are
taken out of whose copy, which queries a message calls for before and after it is
distributed, which fields of a query are kept from others. The core moves on while a
batch is distributed, so a query answers for the board after the batch. The core
itself is outside of the source: of what it does the model has the moves that matter
here (`Moves`, `Announcements`), with the one assumption that messages which are
passed on as they are name public cards only.

`Queries.tla` has the buffers: the core's messages split apart, its queries read
field by field with the widths of the members, and written again in two loops, one
that counts and one that writes. `Wire.tla` is a buffer as a sequence of fields with
their widths: whoever reads another width than was written is lost.

| run | instance | shows |
|---|---|---|
| `broadcast` | 1 card, a team of 2 against 1, six kinds of places, batches of 2 | nobody is sent a card without having been entitled to it, but for repeated questions (`NothingLeaks`); every open card is known to everybody once a batch is processed (`OpenCardsKnown`); all queries the server makes read back, for their owner and for others, and fill exactly what was allocated (`QueriesReadBack`) |

One card suffices, since each card of a message is looked at by itself: cards that
are not followed come to its place (`MoveOther`) or exchange with it (`Exchange`).
Two messages are the least with which the board has moved on when the first is
distributed. Queries are read back for every request of the server, public or not,
hidden or not, face up or down.

Proved in `BroadcastProofs.tla`, for any cards, seats, places and length of batches:
`NothingLeaks` and `OpenCardsKnown`. Only `BroadcastAssumption` is used: a code of 0 is
no card, teams have one to three seats, places in a location are numbers. Neither
property says anything of a message that is still in the batch, so the invariant
`BInv` does:

- `Safe`: what any recipient would get of any message that is left is something it was
  shown by the time the message was *said*. Nobody forgets, so it does not matter how
  far the core has run ahead; and queries, which tell of the board as it is now, tell
  of cards that are to be seen now (`AnswersAreSafe`, with `BoardShown`).
- `NotRelieved`: a message for the duelist whose turn it is depends on whose turn it is
  when it is *distributed*. No such message that names a card is behind a `TAG_SWAP` in
  its batch: questions end a batch, and cards of the deck are shown before the swap.
- `KnownOrTold`: every open card is known to everybody or named, in everybody's copy,
  by a message that is left. There is one more case, `SWAP_GRAVE_DECK`, which names no
  card: everybody gets its grave by the query after it (`GravesAreTold`).

That each of the core's moves keeps it is one lemma per move; what stripping takes out
of a copy is said once (`Copy`, `StrippedCodes`, `CopiesAreSafe`). Model-checked only:
`QueriesReadBack`, whose reader and writers are loops over buffers.

## Decks

`Decks.tla` has the deck of a duelist through a match: the clamping of the host's
options (`FixOptions`), `LoadDeck`, `CheckDeck`, the merged whitelist or banlist, and
`Sidedecking`'s own comparison with the original deck. Piles are bags of codes; the
card database is a constant.

| run | instance | shows |
|---|---|---|
| `decks` | 7 cards (copies in other artwork within and out of range, a fusion, a skill, a legend, a token), 2 unknown codes, 4 sets of rules | no card of the original deck is lost by siding (`NoCardLost`); siding leads from a checked deck to one that `CheckDeck` would accept (`SidedDeckLegal`) |
| `sidedeck` | the same | the finding below |

The decks are all of up to two cards and those that have a case of their own: four
of a kind under two names, doubles and a skill, an unknown code in front. The rules
are a list, a whitelist with pre-releases, forbidden types, and sizes only.
`NoCardLost` excludes the one case in which `std::equal` reads past the end of the
shorter map (`Overreads`): what it finds there is undefined. `SidedDeckLegal` names
the one exception: skills are not counted in the main deck, so that one which leaves it
may overfill the side deck, and one which enters it may leave fewer cards in the side
deck than the rules ask for. The second half came to light in the proof: no instance
had a least size of the side deck, and one of the four sets of rules has one now.

Proved in `CardsProofs.tla`, for any codes, database, rules and lists: `NoCardLost` and
`SidedDeckLegal`. The invariant, `DeckInv`, says what `Sidedecking` relies on and cannot
see: the deck it compares with is the one that was checked, under the rules the room
still has, because both are fixed once a match has begun. The rest is about bags: a comparison
that stays inside both maps finds each card of the original (`CompareFinds`), which is
`NoCardLost`; if no card was added either, the bags are equal, main and extra deck have
kept their sizes but for skills, and so has the side deck (`StaysLegal`).

## Replays

`ReplayIds.tla` models the numbering: processes that `src/util/area-zero.sh` launches,
signals and replaces while their rooms go on, the file `lastId` with its lock, and
each process's mutex.

| TLA+ | code |
|---|---|
| `multirole_pid`, `signaled` | the script's variable; it has signalled that process and will launch the next |
| `phase` | a process in `ReplayManager`'s constructor, up, ending, or gone |
| `file`, `lastId` | the file: absent, truncated, or whole, and its number |
| `holder`, `mLastId` | the lock on the file, which belongs to a process, and the mutex of each process |
| `newId`, `id` | how far each room's thread is in `NewId`, and its number |
| `saved`, `overwritten` | the replays there are, and those that another was written over |
| `torn` | `lastId` was truncated and then not written: its process died, or the write failed |
| `unopened` | how often `NewId` could not open `lastId`: never, once, more often |
| `misread` | a number could not be read from a file that is whole |

Opening a file for writing truncates it: `TruncateLastId` and `WriteId` are two steps,
between which a process may die (`Crash`), as it may between any two others. A lock is
given back by the system when its process dies. A file may fail at any time. `NewId`
gives 0 when it cannot open `lastId`, to read or to write (`CannotOpen`), and leaves the
file as it is; what fails after that is not looked at: a number that is not read is 0
(`ReadId`), one that is not written leaves the file short (`Write`).

`Replay.tla` has the contents: what `RecordMsg` leaves out, which deck and name each
of the core's duelists gets when a team does not begin with its first seat
(`CoreDuelist`), both formats with their sizes counted apart from the writes, and
`SendReplay`'s limit. They are read by a reader written from the formats alone.

| run | instance | shows |
|---|---|---|
| `replays` | 2 places for processes, 2 rooms each, 3 numbers; replays of teams of up to 3 | as long as every number is read, no replay is written over another but those under 0, once `lastId` was left empty by a death or a failed write, or could not be opened twice (`ReplaysKept`); what is saved and sent reads back: names by seat, decks in the order their players come to play, messages, all answers (`ReplayReadsBack`) |

Two places are enough for a process that plays on and its successor, and are used
again; two threads are the least that the mutex has to keep apart. The run goes no further
once a number was not read, as nothing is said from then on (`Promised`).

Proved in `ReplayIdsProofs.tla`, for any processes, rooms and numbers: types,
`ReplaysKept`, and `IdsGrow` (the number never goes back, although the first one is
written without the file lock, as long as every number is read). The argument has three
parts. `Supervised`: the script has at most one process that is not about to end, and
those that are were up once, so `lastId` was there: whoever creates it is alone.
`Locked`: between taking the file lock and giving it back there is one thread of all
processes, by the lock and the mutex together. `Given`: so a number is given once, unless it is the 0 given when
`lastId` is not whole, for which it must have been torn, or when it cannot be opened. Of
the latter the first is the only replay under 0, so it takes two. Nothing is said after
a failed read: 1 is written then, and the numbers start again.

## The core in a process

`Hornet.tla` models the protocol of `HornetWrapper` and the Hornet process over
the shared segment. The two take turns by the field `act`: whoever sets it
notifies and waits until the other has changed it. The bytes beside it carry
arguments, results, requests and answers and are used *without* the mutex.

| TLA+ | code |
|---|---|
| `act`, `bytes` | `SharedSegment::act` and `::bytes`; of the bytes, what they are and which call they belong to |
| `srv`, `sent`, `loops` | where the server's thread is in constructor, call or destructor; `act` and `loopCount` of `NotifyAndWait` |
| `call`, `failed` | the number of the current call; the calls in which a `NotifyAndWait` has thrown |
| `hor`, `job` | where the process is in `main`, `MainLoop` or a callback; the call it works on |

A step is one holding of the interprocess mutex or one use of bytes or `act`
outside of it; in particular `MainLoop` reads `act` again after it has released
the mutex (`Dispatch`). All `OCG_` calls are one kind of call and all `CB_`
requests one kind of request, since the protocol treats them alike. The wrapper's
own mutex lets one call in at a time. A wait may time out at any moment
(`Crashed`, `Unresponsive`, `ExitTimeout`): nothing relates two seconds to what
the process needs. The process dies in the core's code (`Crash`) or by the
wrapper's hand. Not modelled: death from outside while it holds the mutex, which
is not robust, and what destroying a condition variable does to a waiter.

| run | instance | shows |
|---|---|---|
| `hornet_calls` | 3 calls, 3 rounds, a common wrapper, fairness | until a call follows one that failed, answers and requests belong to the call they are read for (`OwnAnswer`), and the core is given each call once (`CoreGivenOnce`); calls and destructor end (`CallsReturn`, `DestructorEnds`) |

Three rounds allow two callbacks in a call, so that a late answer can meet a
first call, a callback and a second call; three calls allow a call before, during
and after a failure. Fairness: a thread that is not blocked goes on and waits
are timed. Nothing is assumed of the core: `Request`, `Finish` and `Crash` have no
fairness, so a computation may last for ever.

After a failure nobody calls a wrapper of the room's own (`loadPerCall`) again, and what
it has left behind in the segment is its last call's. A wrapper that rooms share stays
in use. A process that was given up on may answer late then, and the
next call takes that answer for its own; a process that has not looked at the action yet
may be given a call a second time, with what is in the bytes by then for its arguments.
So `TurnsAlternate` (neither side uses the bytes while the other does) is stated until a
call fails, `OwnAnswer` and `CoreGivenOnce` until a call is made after one that failed.
In every case `CallsReturn` and `DestructorEnds` hold, and the part of `CoreGivenOnce`
that nothing is given to the core once the destructor has said `EXIT`, although
the process may overwrite it: the destructor then says it again.

Proved in `CoreProofs.tla`, for any number of calls and rounds: `TypeOK`,
`TurnsAlternate`, `OwnAnswer`, `CoreGivenOnce`. The inductive invariant
says for each place of the server where the process may be and what `act` and
`bytes` hold, as long as nothing has failed: `TurnOfLaunch` until the first
`NO_WORK`, `TurnOfCall` from then on, `JobOfCall` for which call the process has last
been given. From a failure to the next call `Dropped` says what may still be lying in the
segment, and `Leaving` that once `EXIT` was said there is no call and no data in it.
Model-checked only: `CallsReturn`, `DestructorEnds`.

## The core in the server

`Wrapper.tla` models `DLWrapper` and what becomes of it when `CoreProvider` replaces
it: the library, the list `ssdList` whose entries the core's script callback is given,
the map `ssdMap` from a duel to its entry, the mutex around both, and the rooms that
make and destroy duels on threads of their own. Wrappers are owned by those who use
them; the core's duels are objects at addresses that are used again, by any library.

| run | instance | shows |
|---|---|---|
| `wrapper` | 3 rooms, 2 good libraries and one that lacks a function, 4 wrappers, 2 addresses, 3 entries | every duel's library is open, its wrapper exists and has the entry its callbacks use (`CallbacksReach`); a record is its duel's own from the making to the end, whatever address comes back (`RecordsKept`) |

Three rooms and two addresses: one room can make a duel at the address that another
is giving back while a third holds the wrapper. Four wrappers are one for each
room and the provider's. `DestroyDuel` erases the record before it destroys the
duel; the mutation that does it the other way round breaks `RecordsKept`.

Proved in `CoreProofs.tla`, for any rooms, libraries, wrappers, addresses and entries:
`CallbacksReach` and `RecordsKept`. A record is erased by the address of a duel, and an
address says nothing of whose duel it is, so the invariant (`DLInv`) goes from the
libraries up to the rooms: the system counts a library as opened exactly as often as
there are wrappers of it (`Counted`, a statement about cardinalities); who points at a
wrapper keeps it (`Owned`); rooms have entries and duels of their own (`Apart`); the
core's duel was given the entry its room has (`Given`); and there is no duel that is no
room's (`NoOtherDuel`).

## Updates

`Updates.tla` models the repositories and the four providers that observe them, from
the start of the server: the webhooks listen, the repositories are fetched, the
providers are told of all files, and later, for each push that is announced, fetch,
reset, and one call of `OnDiff` per observer in the order in which they registered.
All of it runs on one thread; rooms take databases, scripts and cores from others.

| TLA+ | code |
|---|---|
| `remote`, `pushes` | the repositories' remotes: a file for each provider, reduced to a number |
| `announced`, `hook`, `missed` | calls of the webhook that wait, where its connection is, whether the last came to nothing |
| `fetchHead`, `head` | what was fetched, what the files are reset to |
| `calls` | observers that have not been called |
| `paths`, `db` | `DataProvider`'s paths, and the database merged from them in their order |
| `scripts`, `banlists` | `ScriptProvider` by file name, with the repository each came from; `BanlistProvider` by hash |
| `coreLoc`, `core`, `shouldTest`, `loadPerCall` | `CoreProvider` |
| `escaped` | an exception left `OnGitUpdate` |
| `room` | a room's stage and what it took |

A core may be copied or not, loaded or not, and fail its test. An exception ends a
server that starts, and is logged by `GitRepo::Callback` later, which then calls no
further observer. `Banlists.tla` is the parser, with its state that outlives lists, and
what a file says, looked at as a whole (`AddsLists`): a list reaches from one head to the
next, as far as the file can be read, and has its own lines' cards, last counts and kind.

| run | instance | shows |
|---|---|---|
| `updates` | 2 repositories, 3 pushes, 1 room, files of banlists of up to five lines | when all is told, database and banlists are those a restart would load, and of scripts with one name one is loaded, as it is or was when it was removed (`UpdatesTaken`); a push that was announced is taken (`AnnouncedTaken`); rooms get tested cores (`CoreTested`); a room's cards keep their scripts (`ScriptsOutlive`); a list has what its own lines say, whatever is wrong in another (`BanlistsParsed`) |

The one repository has databases, scripts and banlists, the other databases, scripts and
the core. Both scripts have the same name. Databases of two repositories with the same
card show the order of merging, and an exception of the core's provider meets observers
before it. Three pushes are an addition, a change and a removal, or two that come while a
fetch is under way. The banlist comes and goes and does not change: what its changes lead
to is proved (`UpdatesAreTaken`).

`ScriptProvider::LoadScripts` keys scripts by `fn.filename()`, without directory and
repository. Of those with one name the one that was told of last is loaded, and stays
when it is removed, whatever a restart would load: which of them it is `UpdatesTaken`
does not say. The model has one script for each repository; two of one name in
directories of one repository behave like those of two. Where names differ each script
is loaded as it is in its repository: that is proved (`OwnScriptsAreCurrent`).

An exception that is not a `Core::Exception` leaves `OnGitUpdate` with `coreLoc` changed.
Where rooms share the core it stays the one that was tested, and `CoreTested` holds all
the same; where each room loads its own (`loadPerCall`) `CoreTested` excludes what
follows. Whether a core can be loaded depends on its file only.

Proved in `CardsProofs.tla`, for any repositories, observers, pushes and rooms:
`AnnouncedTaken`, `CoreTested`, `ScriptsOutlive`, that `GetCore` does not throw as long
as `CoreTested` speaks of it (`CoreIsGiven`), and `UpdatesTaken`: the part about
databases and scripts as it is (`CardsAreCurrent`), from which each script whose name no
other repository uses is loaded as it is in its own (`OwnScriptsAreCurrent`); the part
about banlists unless two
repositories have lists that differ and have one hash (`HashesTellApart`, which the
instance of the run meets with its one repository of banlists); the list that is loaded
last is found for both then, whichever of the two has changed since. The
assumption, `UpdatesAssumption`, is that observers register with repositories there are,
each of which has its place in the order of paths, and that the contents of files are
told apart by numbers, of which 1 is what the first files hold.

The invariant, `UInv`: one repository is
updated at a time (`OneAtATime`); the calls that are left tell of the files that are
there, and the core's provider is called last (`CallsTrue`), which is why its exception
keeps nobody else from hearing of the update; what a provider does not hold yet
is in a call that is left (`ScriptsTold`, `PathsTold`); what an announcement has led to
when it is no longer there (`Followed`); and which core is given out (`CoresGood`).
`ProvidersInv` adds to it that files are those that somebody has put there
(`FilesKnown`), that the database is merged from what is there when no call to its
provider is left (`MergedTold`), and that a banlist that is not loaded is in a call
(`BanlistsTold`). `MergeAll` merges along the paths: that after `i` of them a card has
the row of the last repository with one (`MergedUpTo`) is proved for each `i` by the
least number for which it would fail (`LeastNumber`, `Counting`, from the library's
theorems about well-founded relations), which needs no operator as a parameter.

`FilesAddLists` says of every file, and all lists that were there before it, what
`BanlistsParsed` checks of the files of up to five lines: the parser's result is
`AddsLists`. The argument is a relation between what has been read after `i` lines and
what these lines say as a whole (`ReadTo`), which each kind of line keeps (`LineRead`),
and again the least number of lines for which it would fail.

## What disagrees

One run expects a violation:

- `sidedeck` (`SameCards`): `Room/State/Sidedecking.cpp:101` says a side deck is valid
  if "the number of cards in each deck is equal to the original's" and line 102 "the
  sum of card codes is equal to the original's". `std::equal` at line 109 goes by the
  length of the original's map, and only main and extra deck are compared in size: a
  side deck with further cards, whose codes are higher, is accepted.

Further configurations, not among the runs, have counterexamples to what a comment or
the README says; `tlc -config <cfg> <module>` shows them:

| configuration | module | what the code does, and where another is said |
|---|---|---|
| `Room_deck.cfg` | `MCRoomView` | a ready duelist may replace the deck and stays ready, so a deck is played that was never checked (`Room/State/Sidedecking.cpp:80` takes it for valid) |
| `Room_kicked.cfg` | `MCRoomView` | a kick between `CheckKicked` and the dispatch of `Join` does not keep the address out (`Room/Client.hpp:43`) |
| `Lobby_limit.cfg` | `MCLobby` | the limit per address is checked when a connection names itself and counted when it enters a room: two that name themselves first both enter (`src/README.md:62`) |
| `Lobby_exit.cfg` | `MCLobby` | `LobbyListing::Stop` cancels its timer once; a handler that is queued or running arms it again, and `lIoCtx` never runs out of work (`Instance.cpp:124`) |
| `Duel_cancel.cfg` | `MCDuel` | `TimerAggregator::Cancel` cannot cancel a wait that has completed: if its handler is queued behind an answer, the duel ends although the answer was accepted (`Room/TimerAggregator.hpp:20`) |
| `Hornet_launch.cfg` | `Hornet` | if the heartbeat times out, the constructor waits for the end of a process it never told to end; one that was merely slow waits for work, and both wait for ever (`Core/HornetWrapper.cpp:86`) |
| `Broadcast_retry.cfg` | `MCBroadcast` | a question that is asked again is sent from `lastRequest`, saved before codes were taken out (`Room/State/Dueling.cpp:329`; `YGOPro/CoreUtils.hpp:106`) |

Seen while modelling, and worth a look by whoever changes the code:

- Rooms: `lastHint` (`Room/State/Dueling.cpp:335`) is never cleared.
- Replays: `RecordMsg`'s filter of questions lacks `MSG_ANNOUNCE_CARD_FILTER`; an
  answer of 256 bytes or more does not fit the byte for its length in the old
  format; only replays are checked against the longest message (65,532 bytes).
  Once `lastId` was left empty every later duel gets 0. So does one that cannot open
  `lastId`, with the file whole; writes of it are not looked at, so that a full disk
  leaves it empty (`Service/ReplayManager.cpp:37`); a number that cannot be read counts
  as 0, and the numbers start again from 1.
- Queries: the comment of `SplitToMsgs` (`YGOPro/CoreUtils.hpp:95`) says a length has
  two bytes, it has four; fields that are lists are sized by one element too, which
  no request of the server asks for; extra decks go to their own team in full.
- Connections: the webhook answers before and whatever the token says, and looks for
  it in the first read only; the listing is empty for the first two seconds.
- Cores: an exception other than `Core::Exception` leaves a core that fails in `coreLoc`;
  where each room loads its own the next one's `GetCore` then throws out of a `noexcept` handler
  (`Room/State/ChoosingTurn.cpp:38`) and ends the server. A repository without a core at
  the start leaves a null core. `DLWrapper` never erases entries of `ssdList`, although
  `Core/DLWrapper.hpp:49` says they are erased with the duel. `HornetWrapper`'s
  destructor may signal a process that `IsRunning` has already reaped
  (`Core/HornetWrapper.cpp:112`). On a process that rooms share, what a call that timed
  out has left in the segment may be taken for the answer to the next, or be run
  (`Core/HornetWrapper.cpp:340`).
- Updates: scripts and banlists that are removed stay until the restart; scripts with
  the same file name overwrite each other, across repositories and directories, so that
  an update or a removal of one leaves another loaded than a restart would
  (`Service/ScriptProvider.cpp:63`); a room made
  between the calls of two providers has the new database with old scripts; a fetch
  or reset that fails is not tried again before the next push; on the stop
  `Instance.cpp:125` clears the repositories while a `Callback` may run.
- Decks: an unknown code 0 that comes last hides the error; unknown codes are dropped
  silently in sidedecking.
- Banlists: a whitelist and a banlist of the same cards have one hash, a line that
  comes twice cancels itself in it, and counts outside of 0 to 4 shift out of range.

## What is proved

Eight modules hold proofs; all theorems are for every value of the constants.

| module | theorems | assumptions |
|---|---|---|
| `RoomProofs` | types, `RosterSound`, `HostPresent`, `LineupComplete`, `MatchUndecided`, `NobodyStranded`, `UnanimousConsent`, `ReadyIsEarned`, and the refinement `KeepsPromise`; of `RoomView`: `AwaitedAreAsked`, `PictureTrue` | `HostInfoAssumption`, `ClientsAssumption` |
| `LobbyProofs` | types, `UniqueIds`, `ListingHonest`, `CountsExact` | `LobbyAssumption` |
| `ClientIOProofs` | types, `WritesInOrder`, `NoDanglingClient`, `EventsInOrder`, `FlushedFirst` | `ClientIOAssumption` |
| `DuelProofs` | types, `ClockOfAsked`, `DeckInPlay`, `ReplayFaithful`, `CatchUpComplete`, `ClockNeverGains` | `DuelAssumption` |
| `BroadcastProofs` | `NothingLeaks`, `OpenCardsKnown` | `BroadcastAssumption` |
| `CardsProofs` | of `Updates`: `AnnouncedTaken`, `CoreTested`, `ScriptsOutlive`, `CoreIsGiven`, `UpdatesTaken`, `OwnScripts`; of `Decks`: `NoCardLost`, `SidedDeckLegal`; of `Banlists`: `AddsLists` (`FilesAddLists`) | `UpdatesAssumption`, `DecksAssumption`; `HashesTellApart` for `UpdatesTaken` |
| `ReplayIdsProofs` | types, `ReplaysKept`, `IdsGrow` | `ReplayIdsAssumption` |
| `CoreProofs` | of `Hornet`: types, `TurnsAlternate`, `OwnAnswer`, `CoreGivenOnce`; of `Wrapper`: `CallbacksReach`, `RecordsKept` | `HornetAssumption`, `WrapperAssumption` |

Each follows the same way: an inductive invariant whose parts are named, one lemma per
action that says the step keeps it, one per fact about data, and temporal steps by
PTL. The strengthenings are described with their components.

Model-checked only:

- the liveness properties (`ClosingDrains`, `CloseIsHonoured`, `SlotsComeBack`,
  `WaitingRoomsClose`, `QuestionsEnd`, `CallsReturn`, `DestructorEnds`, `ClientsEnd`),
  which are outside the prover's reach;
- what is read back from a sequence of bytes, whose functions recurse over sequences:
  `QueriesReadBack`, `ReplayReadsBack`. `BanlistsParsed` is a bounded instance of
  `FilesAddLists`.

## Not modelled

- **LZMA** (`YGOPro/LZMA/`, a third of the repository's lines): vendored; a compressor
  whose output only other programs read. The replay's formats are modelled before it.
- **Logging** (`Service/LogHandler*`): output only; nothing depends on it.
- **Formatting**: JSON of the listing, texts, the layout of structures in
  `YGOPro/STOCMsg.hpp` and `YGOPro/CTOSMsg.hpp` beyond what is said above, the reading
  of the configuration, SQL, git's transport and credentials.
- **Chat**, which no state depends on, and the answers to HTTP clients of the listing.
- **Collisions** of banlists' hashes, taken for sets of cards.
- **Death of Hornet from outside** while it holds the mutex of the segment, which is not
  robust, and what destroying a condition variable does to a waiter.
- That `Duel` and `Broadcast` are what `Room` reduces a duel to is argued above and not
  checked; their composition is out of reach for TLC.

The components of `PROJECT.json` give the status of each part.
