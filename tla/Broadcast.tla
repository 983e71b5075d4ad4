------------------------------ MODULE Broadcast ------------------------------
(***************************************************************************)
(* Who learns which cards in a duel.  The core moves cards and says so in  *)
(* batches of messages; Context::Process distributes one message after the *)
(* other, and asks the core for the state of cards in between: for the     *)
(* state after the whole batch, since the core has run ahead.              *)
(*                                                                         *)
(* A card stands for its code: to send the code is to reveal the card.     *)
(* The core is outside of the source.  Of what it does the model has the   *)
(* moves that matter here, with the messages the server expects of it:     *)
(* messages the server passes on as they are name public cards only.       *)
(*                                                                         *)
(* Spectators are sent the same messages; those that come late get them    *)
(* from the cache (Duel.tla).  The replay gets everything.                 *)
(***************************************************************************)
EXTENDS CoreUtils, FiniteSets

CONSTANTS
    Cards,        \* the cards that are followed, among others; a card is its code
    Seats,        \* the duelists of each team, by the room's teams
    Starts,       \* bound: values of isTeam1GoingFirst
    Places,       \* the locations used
    Seqs,         \* bound: places in a location
    Darkened,     \* locations in which the core reports face-down cards as hidden
    MaxBatch      \* bound: messages of one batch

Teams == {0, 1}
Duelists == {d \in Teams \X (0..2) : d[2] < Seats[d[1]]}
Watching == <<2, 0>>
Recipients == Duelists \cup {Watching}

ASSUME BroadcastAssumption ==
    /\ NoCode \notin Cards /\ IsFiniteSet(Cards)
    /\ Seats \in [Teams -> 1..3]
    /\ Starts \subseteq {0, 1} /\ Seqs \subseteq Nat
    /\ MaxBatch \in Nat \ {0}

VARIABLES
    board,        \* where each card is, by the core's teams
    batch,        \* messages that are not processed yet
    processing,   \* Process is in the loop over a batch: some are processed
    isTeam1GoingFirst,
    currentPos,   \* the current duelist of each team, by the room's teams
    request,      \* the codes in lastRequest and the replier, while it is open
    revealed,     \* cards whose codes each recipient was sent
    shown,        \* cards each recipient was entitled to see at some time
    repeated      \* cards each duelist was sent in a question asked again

core == <<board, batch, processing>>
table == <<currentPos, request>>
vars == <<core, isTeam1GoingFirst, table, revealed, shown, repeated>>

NoRequest == [codes |-> {}, replier |-> Watching]

\* Mutation: core and room number the teams alike.
Unswapped(team) == team

\* GetSwappedTeam.
Swapped(team) == (isTeam1GoingFirst + team) % 2

-----------------------------------------------------------------------------
(***************************************************************************)
(* The table: who may see what.  This says nothing of messages.            *)
(***************************************************************************)
\* Everybody sees a card that is face up, in a grave, under another card, or
\* revealed by an effect.
Visible(where) ==
    \/ where.pos = "faceup" \/ where.public
    \/ where.loc \cap {"grave", "overlay"} # {}

\* The core's first team is the one that goes first.
TeamInCore(team) == IF (team = 1) = (isTeam1GoingFirst = 1) THEN 0 ELSE 1

\* A duelist sees the cards the own team has, besides.
MaySee(r, where) == Visible(where) \/ (r \in Duelists /\ where.con = TeamInCore(r[1]))

Entitled(r, table1) == {c \in Cards : MaySee(r, table1[c])}

Where == [con : Teams, loc : Places, seq : Seqs, pos : Positions, public : BOOLEAN]

\* The positions cards have in a location.
PosIn(loc) ==
    CASE loc \in {{"mzone"}, {"szone"}, {"removed"}} -> {"faceup", "facedown"}
      [] loc = {"grave"}                   -> {"faceup"}
      [] "overlay" \in loc                 -> {"none"}
      [] OTHER                             -> {"facedown"}

\* No two cards are in one place.
Apart(table1) ==
    \A c, d \in Cards : c # d =>
        <<table1[c].con, table1[c].loc, table1[c].seq>>
            # <<table1[d].con, table1[d].loc, table1[d].seq>>

\* The core puts the cards into new places; who may see them there, remembers.
Rearrange(board1) ==
    /\ Apart(board1) /\ board' = board1
    /\ shown' = [r \in Recipients |-> shown[r] \cup Entitled(r, board1)]

-----------------------------------------------------------------------------
(***************************************************************************)
(* The core moves, and says so.                                            *)
(***************************************************************************)
Named(c, where) ==
    [code |-> c, con |-> where.con, loc |-> where.loc, seq |-> where.seq, pos |-> where.pos]

Message(type, team, cards) ==
    [type |-> type, team |-> team, kind |-> 0, cards |-> cards,
     from |-> [con |-> 0, loc |-> {}, pos |-> "none"]]
MessageFrom(type, c, from, to) ==
    [Message(type, from.con, <<Named(c, to)>>) EXCEPT
        !.from = [con |-> from.con, loc |-> from.loc, pos |-> from.pos]]

\* Between the messages of a batch no one is asked: a question ends it.
EndsBatch == batch # <<>> /\ DoesMessageRequireAnswer(batch[Len(batch)].type)

Says(msg) ==
    /\ ~ processing /\ Len(batch) < MaxBatch /\ ~ EndsBatch
    /\ batch' = Append(batch, msg)
    /\ request' = NoRequest
    /\ UNCHANGED <<processing, isTeam1GoingFirst, currentPos, revealed, repeated>>

SaysOnly(msg) == Says(msg) /\ UNCHANGED <<board, shown>>

Move(c, to) ==
    /\ <<to.con, to.loc>> # <<board[c].con, board[c].loc>>
    /\ to.pos \in PosIn(to.loc) /\ ~ to.public
    /\ Rearrange([board EXCEPT ![c] = to])
    /\ Says(MessageFrom("MOVE", c, board[c], to))

\* A card that is not followed comes to a place, where one that is may be when the
\* server asks for it; its position makes no difference.
MoveOther(con, loc, seq) ==
    LET elsewhere == [con |-> 1 - con, loc |-> {}, pos |-> "none"]
        to == [con |-> con, loc |-> loc, seq |-> seq, pos |-> CHOOSE pos \in PosIn(loc) : TRUE] IN
    SaysOnly(MessageFrom("MOVE", NoCode, elsewhere, to))

Draw(c, seq) ==
    LET to == [board[c] EXCEPT !.loc = {"hand"}, !.public = FALSE, !.seq = seq] IN
    /\ board[c].loc = {"deck"}
    /\ Rearrange([board EXCEPT ![c] = to])
    /\ Says(Message("DRAW", to.con, <<Named(c, to)>>))

Turn(c) ==
    LET to == [board[c] EXCEPT !.pos = IF @ = "faceup" THEN "facedown" ELSE "faceup"] IN
    /\ board[c].loc = {"mzone"}
    /\ Rearrange([board EXCEPT ![c] = to])
    /\ Says(MessageFrom("POS_CHANGE", c, board[c], to))

FlipSummon(c) ==
    LET to == [board[c] EXCEPT !.pos = "faceup"] IN
    /\ board[c].loc = {"mzone"} /\ board[c].pos = "facedown"
    /\ Rearrange([board EXCEPT ![c] = to])
    /\ Says(Message("FLIPSUMMONING", to.con, <<Named(c, to)>>))

\* Two players exchange the control of a card and one that is not followed;
\* face-down cards are not named.
Exchange(c, seq) ==
    LET to == [board[c] EXCEPT !.con = 1 - @, !.seq = seq]
        name == [Named(c, to) EXCEPT !.code = IF Visible(board[c]) THEN c ELSE NoCode] IN
    /\ board[c].loc = {"mzone"}
    /\ Rearrange([board EXCEPT ![c] = to])
    /\ Says(Message("SWAP", 0, <<name, Named(NoCode, board[c])>>))

\* An effect reveals a card in the hand; nothing is said.
Reveal(c) ==
    /\ ~ processing /\ board[c].loc = {"hand"} /\ ~ board[c].public
    /\ Rearrange([board EXCEPT ![c].public = TRUE])
    /\ UNCHANGED <<batch, processing, isTeam1GoingFirst, table, revealed, repeated>>

\* Deck and grave of a player change places.
SwapGraveDeck(team) ==
    LET to(w) == CASE w.loc = {"deck"}     -> [w EXCEPT !.loc = {"grave"}, !.pos = "faceup"]
                   [] w.loc = {"grave"}    -> [w EXCEPT !.loc = {"deck"}, !.pos = "facedown"]
                   [] OTHER                -> w IN
    /\ Rearrange([c \in Cards |-> IF board[c].con = team THEN to(board[c]) ELSE board[c]])
    /\ Says(Message("SWAP_GRAVE_DECK", team, <<>>))

CardsAt(team, bit) == {c \in Cards : board[c].con = team /\ bit \in board[c].loc}
\* As a sequence, in any order: the functions look at each card for itself.
InARow(cs) ==
    CHOOSE s \in [1..Cardinality(cs) -> {Named(c, board[c]) : c \in cs}] :
        \A c \in cs : \E i \in DOMAIN s : s[i] = Named(c, board[c])

\* A card is set face down, or summoned: it has been moved by a message before.
Announce(type, c) ==
    board[c].loc = {"mzone"} /\ SaysOnly(Message(type, board[c].con, <<Named(c, board[c])>>))
Set(c) == board[c].pos = "facedown" /\ Announce("SET", c)
SpSummon(c) == Announce("SPSUMMONING", c)

Shuffle(team, bit) ==
    CardsAt(team, bit) # {} /\ SaysOnly(Message(
        IF bit = "hand" THEN "SHUFFLE_HAND" ELSE "SHUFFLE_EXTRA", team,
        InARow(CardsAt(team, bit))))

\* The next duelist of a team takes over, with a hand and an extra deck.
SwapTag(team) ==
    SaysOnly(Message("TAG_SWAP", team, InARow(CardsAt(team, "hand") \cup CardsAt(team, "extra"))))

\* Messages that only call for queries.
RefreshTypes == {"NEW_PHASE", "SELECT_IDLECMD", "RELOAD_FIELD"}
Refresh(type) == SaysOnly(Message(type, 0, <<>>))

\* Cards are shown to one player, if they come from the deck, or to all.
Confirm(team, c) ==
    LET msg == Message("CONFIRM_CARDS", team, <<Named(c, board[c])>>)
        to == IF board[c].loc = {"deck"}
              THEN {r \in Duelists : team = TeamInCore(r[1]) /\ r[2] = currentPos[r[1]]}
              ELSE Recipients IN
    /\ \A i \in DOMAIN batch : batch[i].type # "TAG_SWAP"
    /\ Says(msg) /\ UNCHANGED board
    /\ shown' = [r \in Recipients |-> shown[r] \cup (IF r \in to THEN {c} ELSE {})]

\* A question about cards of any player, which are in no deck of the other one's.
Ask(team, cs) ==
    /\ \A c \in cs : board[c].con = team \/ board[c].loc \notin {{"deck"}, {"extra"}}
    /\ SaysOnly(Message("SELECT_CARD", team, InARow(cs)))

\* The answer was wrong.
Retry ==
    /\ request # NoRequest /\ batch = <<>>
    /\ batch' = <<Message("RETRY", 0, <<>>)>>
    /\ UNCHANGED <<board, shown, processing, isTeam1GoingFirst, table, revealed, repeated>>

-----------------------------------------------------------------------------
(***************************************************************************)
(* Context::Process.                                                       *)
(***************************************************************************)
Codes(msg) == {msg.cards[i].code : i \in DOMAIN msg.cards} \ {NoCode}

Nothing == [r \in Recipients |-> {}]
\* SendToTeam and SendToSpectators, SendToAll, SendToAllExcept.
To(rs, cs) == [r \in Recipients |-> IF r \in rs THEN cs ELSE {}]
Both(f, g) == [r \in Recipients |-> f[r] \cup g[r]]
TeamOf(team) == {r \in Duelists : r[1] = team}
CurrentOf(team) == <<team, currentPos[team]>>

\* Spectators get what is left when both teams' knowledge is taken out.
SpectatorsCopy(msg) == StripMessageForTeam(1, StripMessageForTeam(0, msg))

\* DistributeMsg: what each recipient gets of a message.
Distributed(msg) ==
    LET type == GetMessageDistributionType(msg)
        team == Swapped(msg.team)
        strip(t) == StripMessageForTeam(t, msg) IN
    CASE type = "duelist_stripped" -> To({<<team, currentPos'[team]>>}, Codes(strip(msg.team)))
      [] type = "duelist" -> To({<<team, currentPos'[team]>>}, Codes(msg))
      [] type = "team" -> To(TeamOf(team), Codes(msg))
      [] type = "everyone_but_duelist" -> To(Recipients \ {<<team, currentPos'[team]>>}, Codes(msg))
      [] type = "everyone_stripped" ->
            [r \in Recipients |->
                IF r = Watching THEN Codes(SpectatorsCopy(msg))
                ELSE IF r \in TeamOf(Swapped(0)) THEN Codes(strip(0)) ELSE Codes(strip(1))]
      [] type = "everyone" -> To(Recipients, Codes(msg))

\* The core's answer to a query, as DeserializeOneQuery reads it.
Query(c, flags) ==
    [flags |-> flags, pos |-> board[c].pos, isPublic |-> board[c].public,
     isHidden |-> board[c].loc \in Darkened /\ board[c].pos # "faceup"]
Queried(req) ==
    {c \in Cards : /\ board[c].con = req.con /\ board[c].loc = req.loc
                   /\ board[c].seq \in req.seqs}
Serialized(req, stripped) ==
    {c \in Queried(req) : IsWritten(Query(c, req.flags), "CODE", stripped)}

\* ProcessQueryRequests: decks go into the replay only, extra decks to their owner
\* as they are.
Answered(req) ==
    LET team == Swapped(req.con) IN
    CASE req.loc = {"deck"} -> Nothing
      [] req.loc = {"extra"} -> To(TeamOf(team), Queried(req))
      [] OTHER -> Both(To(TeamOf(team), Serialized(req, FALSE)),
                       To(Recipients \ TeamOf(team), Serialized(req, TRUE)))

AllAnswered(reqs) ==
    [r \in Recipients |-> UNION {Answered(reqs[i])[r] : i \in DOMAIN reqs}]

Reveals(f) == revealed' = Both(revealed, f)

NextMessage ==
    /\ batch' = Tail(batch)
    /\ processing' = (Tail(batch) # <<>>)
    /\ UNCHANGED <<board, isTeam1GoingFirst, shown>>

\* The next duelist of a team, after a tag swap.
NextOf(team) == (currentPos[team] + 1) % Seats[team]

\* PreAnalyzeMsg, for a message that is not MSG_RETRY.
Analyze(msg) ==
    LET team == Swapped(msg.team) IN
    /\ currentPos' = IF msg.type = "TAG_SWAP"
                     THEN [currentPos EXCEPT ![team] = NextOf(team)] ELSE currentPos
    /\ IF DoesMessageRequireAnswer(msg.type)
       THEN request' = [codes |-> Codes(msg), replier |-> CurrentOf(team)]
       ELSE UNCHANGED request

\* ProcessSingleMsg.
ProcessSingleMsg ==
    LET msg == Head(batch) IN
    /\ batch # <<>> /\ msg.type # "RETRY"
    /\ NextMessage
    /\ Analyze(msg)
    /\ Reveals(Both(AllAnswered(GetPreDistQueryRequests(msg)),
                    Both(Distributed(msg), AllAnswered(GetPostDistQueryRequests(msg)))))
    /\ UNCHANGED repeated

\* ... and for MSG_RETRY: the replier is sent the question again, as it came.
RepeatQuestion ==
    LET again == To({request.replier}, request.codes) IN
    /\ batch # <<>> /\ Head(batch).type = "RETRY"
    /\ NextMessage
    /\ Reveals(again)
    /\ repeated' = Both(repeated, again)
    /\ UNCHANGED table

-----------------------------------------------------------------------------
\* Decks and extra decks are loaded, and the owners of these are sent them.
Start(where) == where.loc \in {{"deck"}, {"extra"}} /\ where.pos = "facedown" /\ ~ where.public

Init ==
    /\ board \in [Cards -> {w \in Where : Start(w)}] /\ Apart(board)
    /\ batch = <<>> /\ processing = FALSE
    /\ isTeam1GoingFirst \in Starts
    /\ currentPos = [t \in Teams |-> IF t = isTeam1GoingFirst THEN 0 ELSE Seats[t] - 1]
    /\ request = NoRequest
    /\ revealed = [r \in Recipients |->
            {c \in Cards : r \in Duelists /\ board[c].con = TeamInCore(r[1])
                           /\ board[c].loc = {"extra"}}]
    /\ shown = [r \in Recipients |-> Entitled(r, board)]
    /\ repeated = Nothing

Moves ==
    \/ \E c \in Cards, to \in Where : Move(c, to)
    \/ \E c \in Cards, seq \in Seqs : Draw(c, seq) \/ Exchange(c, seq)
    \/ \E c \in Cards : Turn(c) \/ FlipSummon(c) \/ Reveal(c)
    \/ \E team \in Teams : SwapGraveDeck(team)

Announcements ==
    \/ \E con \in {0, 1}, loc \in Places, seq \in Seqs : MoveOther(con, loc, seq)
    \/ \E c \in Cards : Set(c) \/ SpSummon(c)
    \/ \E team \in Teams, bit \in {"hand", "extra"} : Shuffle(team, bit)
    \/ \E team \in Teams : SwapTag(team)
    \/ \E type \in RefreshTypes : Refresh(type)
    \/ \E team \in Teams, c \in Cards : Confirm(team, c)
    \/ \E team \in Teams, cs \in (SUBSET Cards) \ {{}} : Ask(team, cs)
    \/ Retry

Next == Moves \/ Announcements \/ ProcessSingleMsg \/ RepeatQuestion

Spec == Init /\ [][Next]_vars

-----------------------------------------------------------------------------
\* Types; a batch never holds more than the bound, and questions have an addressee.
TypeOK ==
    /\ board \in [Cards -> Where]
    /\ Len(batch) <= MaxBatch /\ processing \in BOOLEAN
    /\ isTeam1GoingFirst \in {0, 1}
    /\ currentPos \in [Teams -> 0..2] /\ \A t \in Teams : CurrentOf(t) \in Duelists
    /\ request = NoRequest \/ request.replier \in Duelists
    /\ revealed \in [Recipients -> SUBSET Cards]
    /\ shown \in [Recipients -> SUBSET Cards]
    /\ repeated \in [Recipients -> SUBSET Cards]

\* Nobody is sent the code of a card without having been entitled to see the card,
\* except in a question that is asked again.
NothingLeaks == \A r \in Recipients : revealed[r] \subseteq shown[r] \cup repeated[r]

\* ... and no question makes an exception.
QuestionsStripped == \A r \in Recipients : revealed[r] \subseteq shown[r]

\* When the messages of a batch are processed, everybody has been sent every card
\* that lies open on the field or in a grave, whatever else happened in the batch.
OpenCardsKnown ==
    batch = <<>> =>
        \A r \in Recipients, c \in Cards :
            \/ /\ board[c].pos = "faceup"
               /\ board[c].loc \in {{"mzone"}, {"szone"}, {"removed"}, {"grave"}}
            \/ "overlay" \in board[c].loc
            => c \in revealed[r]

\* Spectators are sent no card that not every duelist was sent.
SpectatorsKnowLeast == \A r \in Duelists : revealed[Watching] \subseteq revealed[r]

=============================================================================
