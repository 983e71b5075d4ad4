--------------------------- MODULE BroadcastProofs ---------------------------
(***************************************************************************)
(* Theorems about who learns which cards, for any cards, places and seats  *)
(* and batches of any length: nobody is sent a card without having been    *)
(* entitled to see it, and open cards are known to all.                    *)
(***************************************************************************)
EXTENDS Broadcast, FunctionTheorems, SequenceTheorems, FiniteSetTheorems, TLAPS

\* The places cards get to, and what a message says of one.
Locs == Places \cup {{}, {"deck"}, {"hand"}, {"grave"}}
Spot == [con : Teams, loc : Locs, seq : Seqs, pos : Positions, public : BOOLEAN]
Entry == [code : Cards \cup {NoCode}, con : Teams, loc : Locs, seq : Seqs, pos : Positions]
Spoken == {"MOVE", "DRAW", "POS_CHANGE", "FLIPSUMMONING", "SWAP", "SWAP_GRAVE_DECK", "SET",
           "SPSUMMONING", "SHUFFLE_HAND", "SHUFFLE_EXTRA", "TAG_SWAP", "CONFIRM_CARDS",
           "SELECT_CARD", "RETRY"} \cup RefreshTypes
Msgs == [type : Spoken, team : Teams, kind : {0}, cards : Seq(Entry),
         from : [con : Teams, loc : Locs, pos : Positions]]

BTypes ==
    /\ board \in [Cards -> Spot]
    /\ \A c \in Cards : board[c].pos \in PosIn(board[c].loc)
    /\ batch \in Seq(Msgs)
    /\ \A i \in DOMAIN batch : batch[i].type = "RETRY" => batch[i].cards = <<>>
    /\ isTeam1GoingFirst \in {0, 1}
    /\ DOMAIN currentPos = Teams
    /\ revealed = [r \in Recipients |-> revealed[r]]
    /\ shown = [r \in Recipients |-> shown[r]]
    /\ repeated = [r \in Recipients |-> repeated[r]]

\* The codes of a message that its copies for r hold, if it goes to more than one.
ForAll(msg, r) ==
    CASE GetMessageDistributionType(msg) = "everyone" -> Codes(msg)
      [] GetMessageDistributionType(msg) = "everyone_stripped" ->
            IF r = Watching THEN Codes(SpectatorsCopy(msg))
            ELSE IF r[1] = Swapped(0) THEN Codes(StripMessageForTeam(0, msg))
            ELSE Codes(StripMessageForTeam(1, msg))
      [] OTHER -> {}

\* ... and those that r may be sent, when it goes to the team's duelist of then.
ForOne(msg, r) ==
    CASE GetMessageDistributionType(msg) = "duelist_stripped" ->
            IF r[1] = Swapped(msg.team) THEN Codes(StripMessageForTeam(msg.team, msg)) ELSE {}
      [] GetMessageDistributionType(msg) = "duelist" ->
            IF r = CurrentOf(Swapped(msg.team)) THEN Codes(msg) ELSE {}
      [] OTHER -> {}

\* Nothing that is left to be distributed tells anybody more than he was shown.
Safe == \A i \in DOMAIN batch : \A r \in Recipients :
    ForAll(batch[i], r) \cup ForOne(batch[i], r) \subseteq shown[r]

\* Cards are shown to the duelist whose turn it is before he is relieved.
NotRelieved == \A i, j \in DOMAIN batch :
    /\ GetMessageDistributionType(batch[i]) = "duelist" /\ Codes(batch[i]) # {}
    /\ batch[j].type = "TAG_SWAP"
    => i < j

BoardShown == \A r \in Recipients : Entitled(r, board) \subseteq shown[r]

\* Cards that lie open, and what is still to tell everybody so.
OpenAt(where) ==
    \/ where.pos = "faceup" /\ where.loc \in {{"mzone"}, {"szone"}, {"removed"}, {"grave"}}
    \/ "overlay" \in where.loc
Tells(msg, c) ==
    \/ \A r \in Recipients : c \in ForAll(msg, r)
    \/ /\ msg.type = "SWAP_GRAVE_DECK" /\ board[c].loc = {"grave"}
       /\ board[c].pos = "faceup" /\ msg.team = board[c].con
KnownOrTold == \A c \in Cards : OpenAt(board[c]) =>
    \/ \A r \in Recipients : c \in revealed[r]
    \/ \E i \in DOMAIN batch : Tells(batch[i], c)

BInv == BTypes /\ Safe /\ NotRelieved /\ BoardShown /\ NothingLeaks /\ KnownOrTold

-----------------------------------------------------------------------------
LEMMA Constants ==
    /\ NoCode \notin Cards /\ IsFiniteSet(Cards)
    /\ Seats \in [Teams -> 1..3] /\ Starts \subseteq {0, 1} /\ Seqs \subseteq Nat
BY BroadcastAssumption

LEMMA WhoIsThere ==
    /\ Watching \in Recipients /\ Watching \notin Duelists
    /\ \A r \in Recipients : r = Watching \/ r \in Duelists
    /\ \A r \in Duelists : r \in Recipients /\ r[1] \in Teams /\ r = <<r[1], r[2]>>
BY DEF Watching, Recipients, Duelists, Teams

LEMMA TeamsSwap ==
    ASSUME isTeam1GoingFirst \in {0, 1}
    PROVE  /\ Swapped(0) \in Teams /\ Swapped(1) \in Teams /\ Swapped(0) # Swapped(1)
           /\ \A team \in Teams : team = Swapped(0) \/ team = Swapped(1)
           /\ \A t \in Teams : TeamInCore(Swapped(t)) = t
<1>1. CASE isTeam1GoingFirst = 0
  BY <1>1 DEF Swapped, Teams, TeamInCore
<1>2. CASE isTeam1GoingFirst = 1
  BY <1>2 DEF Swapped, Teams, TeamInCore
<1> QED BY <1>1, <1>2

\* What the copies of a message name.
LEMMA CodesAre ==
    ASSUME NEW msg
    PROVE  \A c : c \in Codes(msg) <=> c # NoCode /\ \E i \in DOMAIN msg.cards : msg.cards[i].code = c
BY DEF Codes

LEMMA Copy ==
    ASSUME NEW msg \in Msgs, NEW team
    PROVE  /\ StripMessageForTeam(team, msg) \in Msgs
           /\ StripMessageForTeam(team, msg).type = msg.type
           /\ StripMessageForTeam(team, msg).team = msg.team
           /\ DOMAIN StripMessageForTeam(team, msg).cards = DOMAIN msg.cards
           /\ \A i \in DOMAIN msg.cards :
                LET card == StripMessageForTeam(team, msg).cards[i] IN
                /\ card.code = IF IsCleared(team, msg, msg.cards[i]) THEN NoCode
                               ELSE msg.cards[i].code
                /\ card.con = msg.cards[i].con /\ card.loc = msg.cards[i].loc
                /\ card.pos = msg.cards[i].pos
<1> DEFINE cards == [i \in DOMAIN msg.cards |->
                        IF IsCleared(team, msg, msg.cards[i])
                        THEN [msg.cards[i] EXCEPT !.code = NoCode] ELSE msg.cards[i]]
<1>1. StripMessageForTeam(team, msg) = [msg EXCEPT !.cards = cards]
  BY DEF StripMessageForTeam
<1>2. msg.cards \in Seq(Entry)
  BY DEF Msgs
<1>3. /\ Len(msg.cards) \in Nat /\ DOMAIN msg.cards = 1..Len(msg.cards)
      /\ \A i \in DOMAIN msg.cards : msg.cards[i] \in Entry
  BY <1>2
<1>4. \A i \in DOMAIN msg.cards :
        /\ cards[i] \in Entry
        /\ cards[i].code = IF IsCleared(team, msg, msg.cards[i]) THEN NoCode ELSE msg.cards[i].code
        /\ cards[i].con = msg.cards[i].con /\ cards[i].loc = msg.cards[i].loc
        /\ cards[i].pos = msg.cards[i].pos
  <2> SUFFICES ASSUME NEW i \in DOMAIN msg.cards
               PROVE  /\ cards[i] \in Entry
                      /\ cards[i].code = IF IsCleared(team, msg, msg.cards[i])
                                         THEN NoCode ELSE msg.cards[i].code
                      /\ cards[i].con = msg.cards[i].con /\ cards[i].loc = msg.cards[i].loc
                      /\ cards[i].pos = msg.cards[i].pos
    OBVIOUS
  <2>1. msg.cards[i] \in Entry
    BY <1>3
  <2>2. CASE IsCleared(team, msg, msg.cards[i])
    <3>1. cards[i] = [msg.cards[i] EXCEPT !.code = NoCode]
      BY <2>2
    <3> HIDE DEF cards
    <3> QED BY <2>1, <2>2, <3>1 DEF Entry
  <2>3. CASE ~ IsCleared(team, msg, msg.cards[i])
    <3>1. cards[i] = msg.cards[i]
      BY <2>3
    <3> HIDE DEF cards
    <3> QED BY <2>1, <2>3, <3>1
  <2> QED BY <2>2, <2>3
<1>5. DOMAIN cards = DOMAIN msg.cards
  OBVIOUS
<1>6. cards \in Seq(Entry)
  <2>1. cards \in [1..Len(msg.cards) -> Entry]
    BY <1>3, <1>4
  <2>2. Len(msg.cards) \in Nat
    BY <1>3
  <2> HIDE DEF cards
  <2> QED BY <2>1, <2>2, SeqDef
<1> HIDE DEF cards
<1>7. [msg EXCEPT !.cards = cards] \in Msgs
  BY <1>6 DEF Msgs
<1>8. /\ [msg EXCEPT !.cards = cards].cards = cards
      /\ [msg EXCEPT !.cards = cards].type = msg.type
      /\ [msg EXCEPT !.cards = cards].team = msg.team
  BY DEF Msgs
<1> QED BY <1>1, <1>4, <1>5, <1>7, <1>8

LEMMA StrippedCodes ==
    ASSUME NEW msg \in Msgs, NEW team
    PROVE  \A c : c \in Codes(StripMessageForTeam(team, msg)) <=>
                /\ c # NoCode
                /\ \E i \in DOMAIN msg.cards :
                        msg.cards[i].code = c /\ ~ IsCleared(team, msg, msg.cards[i])
BY Copy, CodesAre

LEMMA SpectatorsCodes ==
    ASSUME NEW msg \in Msgs
    PROVE  \A c : c \in Codes(SpectatorsCopy(msg)) <=>
                /\ c # NoCode
                /\ \E i \in DOMAIN msg.cards :
                        /\ msg.cards[i].code = c
                        /\ ~ IsCleared(0, msg, msg.cards[i]) /\ ~ IsCleared(1, msg, msg.cards[i])
<1>1. PICK m : m = StripMessageForTeam(0, msg)
  OBVIOUS
<1>2. /\ m \in Msgs /\ m.type = msg.type /\ m.team = msg.team /\ DOMAIN m.cards = DOMAIN msg.cards
      /\ \A i \in DOMAIN msg.cards :
            /\ m.cards[i].code = IF IsCleared(0, msg, msg.cards[i]) THEN NoCode
                                 ELSE msg.cards[i].code
            /\ m.cards[i].con = msg.cards[i].con /\ m.cards[i].loc = msg.cards[i].loc
            /\ m.cards[i].pos = msg.cards[i].pos
  BY <1>1, Copy
<1>3. \A i \in DOMAIN msg.cards : IsCleared(1, m, m.cards[i]) <=> IsCleared(1, msg, msg.cards[i])
  BY <1>2 DEF IsCleared, IsLocInfoPublic
<1>4. SpectatorsCopy(msg) = StripMessageForTeam(1, m)
  BY <1>1 DEF SpectatorsCopy
<1>5. \A c : c \in Codes(StripMessageForTeam(1, m)) <=>
        /\ c # NoCode
        /\ \E i \in DOMAIN m.cards : m.cards[i].code = c /\ ~ IsCleared(1, m, m.cards[i])
  BY <1>2, StrippedCodes
<1> QED BY <1>2, <1>3, <1>4, <1>5

\* The cards of a place as a sequence.
LEMMA InARowIs ==
    ASSUME NEW cs \in SUBSET Cards
    PROVE  /\ Cardinality(cs) \in Nat /\ DOMAIN InARow(cs) = 1..Cardinality(cs)
           /\ InARow(cs) \in [1..Cardinality(cs) -> {Named(c, board[c]) : c \in cs}]
           /\ \A i \in DOMAIN InARow(cs) : \E c \in cs : InARow(cs)[i] = Named(c, board[c])
<1>1. IsFiniteSet(cs)
  BY Constants, FS_Subset
<1>2. Cardinality(cs) \in Nat /\ ExistsBijection(1..Cardinality(cs), cs)
  BY <1>1, FS_CardinalityType
<1>3. PICK f : f \in Bijection(1..Cardinality(cs), cs)
  BY <1>2 DEF ExistsBijection
<1>4. /\ f \in [1..Cardinality(cs) -> cs]
      /\ \A c \in cs : \E i \in 1..Cardinality(cs) : f[i] = c
  BY <1>3 DEF Bijection, Injection, Surjection
<1> DEFINE all == {Named(c, board[c]) : c \in cs}
           row == [i \in 1..Cardinality(cs) |-> Named(f[i], board[f[i]])]
           Right(s) == \A c \in cs : \E i \in DOMAIN s : s[i] = Named(c, board[c])
<1>5. row \in [1..Cardinality(cs) -> all] /\ Right(row)
  <2>1. \A i \in 1..Cardinality(cs) : row[i] \in all
    BY <1>4
  <2>2. ASSUME NEW c \in cs PROVE \E i \in DOMAIN row : row[i] = Named(c, board[c])
    BY <1>4
  <2> QED BY <2>1, <2>2
<1>6. InARow(cs) = CHOOSE s \in [1..Cardinality(cs) -> all] : Right(s)
  BY DEF InARow
<1>7. InARow(cs) \in [1..Cardinality(cs) -> all]
  <2> HIDE DEF Right, all, row
  <2> QED BY <1>5, <1>6
<1> QED BY <1>2, <1>7

\* A copy names cards of the team it is for, or cards that everybody sees.
Discreet(msg, b) ==
    \A i \in DOMAIN msg.cards :
        LET c == msg.cards[i].code IN
        \/ c = NoCode
        \/ /\ c \in Cards
           /\ \A t \in Teams :
                ~ IsCleared(t, msg, msg.cards[i]) => b[c].con = t \/ Visible(b[c])

LEMMA CopiesAreSafe ==
    ASSUME isTeam1GoingFirst \in {0, 1}, NEW msg \in Msgs, NEW b, Discreet(msg, b),
           GetMessageDistributionType(msg) \in {"everyone_stripped", "duelist_stripped"},
           NEW r \in Recipients
    PROVE  ForAll(msg, r) \cup ForOne(msg, r) \subseteq Entitled(r, b)
<1>1. ASSUME NEW t \in Teams, r \in Duelists, r[1] = Swapped(t),
             NEW c \in Codes(StripMessageForTeam(t, msg))
      PROVE  c \in Entitled(r, b)
  <2>1. PICK i \in DOMAIN msg.cards :
            msg.cards[i].code = c /\ c # NoCode /\ ~ IsCleared(t, msg, msg.cards[i])
    BY StrippedCodes
  <2>2. c \in Cards /\ (b[c].con = t \/ Visible(b[c]))
    BY <2>1 DEF Discreet
  <2>3. TeamInCore(r[1]) = t
    BY <1>1, TeamsSwap
  <2> QED BY <1>1, <2>2, <2>3 DEF Entitled, MaySee
<1>2. ASSUME NEW c \in Codes(SpectatorsCopy(msg)) PROVE c \in Entitled(r, b)
  <2>1. PICK i \in DOMAIN msg.cards :
            /\ msg.cards[i].code = c /\ c # NoCode
            /\ ~ IsCleared(0, msg, msg.cards[i]) /\ ~ IsCleared(1, msg, msg.cards[i])
    BY SpectatorsCodes
  <2>2. c \in Cards /\ \A t \in {0, 1} : b[c].con = t \/ Visible(b[c])
    BY <2>1 DEF Discreet, Teams
  <2>3. c \in Cards /\ Visible(b[c])
    BY <2>2
  <2> QED BY <2>3 DEF Entitled, MaySee
<1>3. r = Watching \/ r \in Duelists
  BY WhoIsThere
<1>4. r \in Duelists => r # Watching /\ r[1] \in Teams
  BY WhoIsThere
<1>5. 0 \in Teams /\ 1 \in Teams /\ msg.team \in Teams
  BY DEF Teams, Msgs
<1>6. ForAll(msg, r) \subseteq Entitled(r, b)
  <2>1. CASE GetMessageDistributionType(msg) = "everyone_stripped"
    <3>1. CASE r = Watching
      BY <1>2, <2>1, <3>1 DEF ForAll
    <3>2. CASE r \in Duelists /\ r[1] = Swapped(0)
      BY <1>1, <1>4, <1>5, <2>1, <3>2 DEF ForAll
    <3>3. CASE r \in Duelists /\ r[1] # Swapped(0)
      <4>1. r[1] = Swapped(1)
        BY <1>4, <3>3, TeamsSwap
      <4> QED BY <1>1, <1>4, <1>5, <2>1, <3>3, <4>1 DEF ForAll
    <3> QED BY <1>3, <3>1, <3>2, <3>3
  <2>2. CASE GetMessageDistributionType(msg) = "duelist_stripped"
    BY <2>2 DEF ForAll
  <2> QED BY <2>1, <2>2
<1>7. ForOne(msg, r) \subseteq Entitled(r, b)
  <2>1. CASE GetMessageDistributionType(msg) = "everyone_stripped"
    BY <2>1 DEF ForOne
  <2>2. CASE GetMessageDistributionType(msg) = "duelist_stripped"
    <3>1. CASE r[1] = Swapped(msg.team)
      <4>1. Swapped(msg.team) \in Teams
        BY <1>5, TeamsSwap DEF Teams
      <4>2. r \in Duelists
        BY <1>3, <3>1, <4>1 DEF Watching, Teams
      <4> QED BY <1>1, <1>5, <2>2, <3>1, <4>2 DEF ForOne
    <3>2. CASE r[1] # Swapped(msg.team)
      BY <2>2, <3>2 DEF ForOne
    <3> QED BY <3>1, <3>2
  <2> QED BY <2>1, <2>2
<1> QED BY <1>6, <1>7

\* Whatever the core is asked for, its answers tell of cards that are to be seen now.
LEMMA AnswersAreSafe ==
    ASSUME BTypes, NEW req, NEW r \in Recipients
    PROVE  Answered(req)[r] \subseteq Entitled(r, board)
<1>1. ASSUME NEW c \in Queried(req), r \in TeamOf(Swapped(req.con))
      PROVE  c \in Entitled(r, board)
  <2>1. c \in Cards /\ board[c].con = req.con
    BY DEF Queried
  <2>2. req.con \in Teams
    BY <2>1 DEF BTypes, Spot
  <2>3. r \in Duelists /\ r[1] = Swapped(req.con)
    BY <1>1 DEF TeamOf
  <2>4. TeamInCore(r[1]) = req.con
    BY <2>2, <2>3, TeamsSwap DEF BTypes
  <2> QED BY <2>1, <2>3, <2>4 DEF Entitled, MaySee
<1>2. ASSUME NEW c \in Serialized(req, TRUE) PROVE c \in Entitled(r, board)
  <2>1. c \in Cards /\ IsWritten(Query(c, req.flags), "CODE", TRUE)
    BY DEF Serialized, Queried
  <2>2. IsPublic(Query(c, req.flags), "CODE")
    BY <2>1 DEF IsWritten
  <2>3. board[c].public = TRUE \/ board[c].pos = "faceup"
    BY <2>1, <2>2 DEF IsPublic, Query, Private, BTypes, Spot
  <2> QED BY <2>1, <2>3 DEF Entitled, MaySee, Visible
<1>3. \A stripped : Serialized(req, stripped) \subseteq Queried(req)
  BY DEF Serialized
<1>4. CASE req.loc = {"deck"}
  BY <1>4 DEF Answered, Nothing
<1>5. CASE req.loc = {"extra"}
  <2>1. Answered(req) = To(TeamOf(Swapped(req.con)), Queried(req))
    BY <1>5 DEF Answered
  <2> QED BY <1>1, <2>1 DEF To
<1>6. CASE req.loc # {"deck"} /\ req.loc # {"extra"}
  <2>1. Answered(req) = Both(To(TeamOf(Swapped(req.con)), Serialized(req, FALSE)),
                             To(Recipients \ TeamOf(Swapped(req.con)), Serialized(req, TRUE)))
    BY <1>6 DEF Answered
  <2> QED BY <1>1, <1>2, <1>3, <2>1 DEF To, Both
<1> QED BY <1>4, <1>5, <1>6

LEMMA AllAnswersAreSafe ==
    ASSUME BTypes, NEW reqs, NEW r \in Recipients
    PROVE  AllAnswered(reqs)[r] \subseteq Entitled(r, board)
BY AnswersAreSafe DEF AllAnswered

LEMMA Kinds ==
    ASSUME NEW msg \in Msgs
    PROVE  GetMessageDistributionType(msg) \in
                {"duelist_stripped", "duelist", "everyone_stripped", "everyone"}
<1>1. msg.type # "HINT"
  BY DEF Msgs, Spoken, RefreshTypes
<1> QED BY <1>1 DEF GetMessageDistributionType

\* What is distributed is what everybody gets, and what the duelist gets whose turn
\* it is then.
LEMMA DistributedIs ==
    ASSUME isTeam1GoingFirst \in {0, 1}, NEW msg \in Msgs, NEW r \in Recipients,
           \/ currentPos' = currentPos
           \/ GetMessageDistributionType(msg) # "duelist" \/ Codes(msg) = {}
    PROVE  /\ Distributed(msg)[r] \subseteq ForAll(msg, r) \cup ForOne(msg, r)
           /\ ForAll(msg, r) \subseteq Distributed(msg)[r]
<1>1. CASE GetMessageDistributionType(msg) = "duelist_stripped"
  <2>1. Distributed(msg) = To({<<Swapped(msg.team), currentPos'[Swapped(msg.team)]>>},
                              Codes(StripMessageForTeam(msg.team, msg)))
    BY <1>1 DEF Distributed
  <2>2. r = <<Swapped(msg.team), currentPos'[Swapped(msg.team)]>> => r[1] = Swapped(msg.team)
    OBVIOUS
  <2> QED BY <1>1, <2>1, <2>2 DEF To, ForAll, ForOne
<1>2. CASE GetMessageDistributionType(msg) = "duelist"
  <2>1. Distributed(msg) = To({<<Swapped(msg.team), currentPos'[Swapped(msg.team)]>>}, Codes(msg))
    BY <1>2 DEF Distributed
  <2> QED BY <1>2, <2>1 DEF To, ForAll, ForOne, CurrentOf
<1>3. CASE GetMessageDistributionType(msg) = "everyone"
  <2>1. Distributed(msg) = To(Recipients, Codes(msg))
    BY <1>3 DEF Distributed
  <2> QED BY <1>3, <2>1 DEF To, ForAll, ForOne
<1>4. CASE GetMessageDistributionType(msg) = "everyone_stripped"
  <2>1. Distributed(msg)[r] = IF r = Watching THEN Codes(SpectatorsCopy(msg))
                ELSE IF r \in TeamOf(Swapped(0)) THEN Codes(StripMessageForTeam(0, msg))
                ELSE Codes(StripMessageForTeam(1, msg))
    BY <1>4 DEF Distributed
  <2>2. r # Watching => (r \in TeamOf(Swapped(0)) <=> r[1] = Swapped(0))
    BY WhoIsThere DEF TeamOf
  <2> QED BY <1>4, <2>1, <2>2 DEF ForAll
<1> QED BY <1>1, <1>2, <1>3, <1>4, Kinds

-----------------------------------------------------------------------------
\* What a message tells depends on who goes first, and on whose turn it is.
LEMMA ToldAsBefore ==
    ASSUME isTeam1GoingFirst' = isTeam1GoingFirst, NEW msg, NEW r
    PROVE  /\ ForAll(msg, r)' = ForAll(msg, r)
           /\ currentPos' = currentPos => ForOne(msg, r)' = ForOne(msg, r)
           /\ GetMessageDistributionType(msg) # "duelist" \/ Codes(msg) = {} =>
                ForOne(msg, r)' = ForOne(msg, r)
<1>1. ForAll(msg, r)' = ForAll(msg, r)
  BY DEF ForAll, Swapped
<1>2. ASSUME currentPos' = currentPos PROVE ForOne(msg, r)' = ForOne(msg, r)
  BY <1>2 DEF ForOne, Swapped, CurrentOf
<1>3. ASSUME GetMessageDistributionType(msg) # "duelist" \/ Codes(msg) = {}
      PROVE  ForOne(msg, r)' = ForOne(msg, r)
  <2>1. CASE GetMessageDistributionType(msg) = "duelist_stripped"
    BY <2>1 DEF ForOne, Swapped
  <2>2. CASE GetMessageDistributionType(msg) = "duelist" /\ Codes(msg) = {}
    BY <2>2 DEF ForOne, Swapped, CurrentOf
  <2>3. CASE GetMessageDistributionType(msg) \notin {"duelist_stripped", "duelist"}
    BY <2>3 DEF ForOne
  <2> QED BY <1>3, <2>1, <2>2, <2>3
<1> QED BY <1>1, <1>2, <1>3

\* A message may be said of a board that everybody was shown who will be told of it.
LEMMA SaidInv ==
    ASSUME BInv, NEW msg \in Msgs, Says(msg), msg.type # "RETRY",
           board' \in [Cards -> Spot], \A c \in Cards : board'[c].pos \in PosIn(board'[c].loc),
           shown' = [r \in Recipients |-> shown'[r]],
           \A r \in Recipients : shown[r] \subseteq shown'[r],
           \A r \in Recipients : Entitled(r, board') \subseteq shown'[r],
           \A r \in Recipients : ForAll(msg, r) \cup ForOne(msg, r) \subseteq shown'[r],
           GetMessageDistributionType(msg) = "duelist" /\ Codes(msg) # {} =>
                \A j \in DOMAIN batch : batch[j].type # "TAG_SWAP",
           \A c \in Cards : OpenAt(board'[c]) =>
                \/ \A r \in Recipients : c \in ForAll(msg, r)
                \/ /\ msg.type = "SWAP_GRAVE_DECK" /\ board'[c].loc = {"grave"}
                   /\ board'[c].pos = "faceup" /\ msg.team = board'[c].con
                \/ OpenAt(board[c]) /\ (board'[c] = board[c] \/ board[c].loc # {"grave"})
    PROVE  BInv'
<1>1. /\ batch' = Append(batch, msg)
      /\ UNCHANGED <<isTeam1GoingFirst, currentPos, revealed, repeated>>
  BY DEF Says
<1>2. BTypes /\ Safe /\ NotRelieved /\ NothingLeaks /\ KnownOrTold
  BY DEF BInv
<1>3. batch \in Seq(Msgs)
  BY <1>2 DEF BTypes
<1>4. /\ batch' \in Seq(Msgs) /\ Len(batch) \in Nat /\ DOMAIN batch = 1..Len(batch)
      /\ DOMAIN batch' = 1..Len(batch) + 1
      /\ \A i \in DOMAIN batch : batch'[i] = batch[i]
      /\ batch'[Len(batch) + 1] = msg
  BY <1>1, <1>3
<1>5. \A i \in DOMAIN batch' : \/ i \in DOMAIN batch /\ batch'[i] = batch[i]
                               \/ i = Len(batch) + 1 /\ batch'[i] = msg
  <2> SUFFICES ASSUME NEW i \in DOMAIN batch'
               PROVE  \/ i \in DOMAIN batch /\ batch'[i] = batch[i]
                      \/ i = Len(batch) + 1 /\ batch'[i] = msg
    OBVIOUS
  <2>1. i \in DOMAIN batch \/ i = Len(batch) + 1
    BY <1>4
  <2> QED BY <1>4, <2>1
<1>6. BTypes'
  BY <1>1, <1>2, <1>4, <1>5 DEF BTypes
<1>7. ASSUME NEW m, NEW r
      PROVE  ForAll(m, r)' = ForAll(m, r) /\ ForOne(m, r)' = ForOne(m, r)
  BY <1>1, ToldAsBefore
<1>8. Safe'
  <2> SUFFICES ASSUME NEW i \in DOMAIN batch', NEW r \in Recipients
               PROVE  (ForAll(batch[i], r) \cup ForOne(batch[i], r))' \subseteq shown'[r]
    BY DEF Safe
  <2>1. PICK m : m = batch'[i]
    OBVIOUS
  <2>2. (ForAll(batch[i], r) \cup ForOne(batch[i], r))' = ForAll(m, r) \cup ForOne(m, r)
    <3>1. ForAll(batch[i], r)' = ForAll(m, r) /\ ForOne(batch[i], r)' = ForOne(m, r)
      BY <1>1, <2>1 DEF ForAll, ForOne, Swapped, CurrentOf
    <3> QED BY <3>1
  <2>3. ForAll(m, r) \cup ForOne(m, r) \subseteq shown'[r]
    BY <1>2, <1>5, <2>1 DEF Safe
  <2> QED BY <2>2, <2>3
<1>9. NotRelieved'
  <2> SUFFICES ASSUME NEW i \in DOMAIN batch', NEW j \in DOMAIN batch',
                      GetMessageDistributionType(batch'[i]) = "duelist", Codes(batch'[i]) # {},
                      batch'[j].type = "TAG_SWAP"
               PROVE  i < j
    BY DEF NotRelieved
  <2>1. CASE i \in DOMAIN batch /\ j \in DOMAIN batch
    BY <1>2, <1>4, <2>1 DEF NotRelieved
  <2>2. CASE i \in DOMAIN batch /\ j = Len(batch) + 1
    BY <1>4, <2>2
  <2>3. CASE i = Len(batch) + 1 /\ j \in DOMAIN batch
    BY <1>4, <2>3
  <2>4. CASE i = Len(batch) + 1 /\ j = Len(batch) + 1
    <3>1. msg.type = "TAG_SWAP" /\ GetMessageDistributionType(msg) = "duelist"
      BY <1>4, <2>4
    <3>2. FALSE
      BY <3>1 DEF GetMessageDistributionType, SelectCards, PlainQuestions
    <3> QED BY <3>2
  <2> QED BY <1>5, <2>1, <2>2, <2>3, <2>4
<1>10. BoardShown'
  <2>1. \A r \in Recipients : Entitled(r, board)' = Entitled(r, board')
    BY <1>1 DEF Entitled, MaySee, TeamInCore
  <2> QED BY <2>1 DEF BoardShown
<1>11. NothingLeaks'
  BY <1>1, <1>2 DEF NothingLeaks
<1>12. KnownOrTold'
  <2> SUFFICES ASSUME NEW c \in Cards, OpenAt(board'[c])
               PROVE  \/ \A r \in Recipients : c \in revealed'[r]
                      \/ \E i \in DOMAIN batch' : Tells(batch[i], c)'
    BY DEF KnownOrTold, OpenAt
  <2>1. ASSUME NEW i \in DOMAIN batch', NEW m, m = batch'[i],
               \/ \A r \in Recipients : c \in ForAll(m, r)
               \/ /\ m.type = "SWAP_GRAVE_DECK" /\ board'[c].loc = {"grave"}
                  /\ board'[c].pos = "faceup" /\ m.team = board'[c].con
        PROVE  Tells(batch[i], c)'
    <3>1. \A r \in Recipients : ForAll(batch[i], r)' = ForAll(m, r)
      BY <1>1, <2>1 DEF ForAll, Swapped
    <3> QED BY <2>1, <3>1 DEF Tells
  <2>2. CASE OpenAt(board[c]) /\ (board'[c] = board[c] \/ board[c].loc # {"grave"})
    <3>1. \/ \A r \in Recipients : c \in revealed[r]
          \/ \E i \in DOMAIN batch : Tells(batch[i], c)
      BY <1>2, <2>2 DEF KnownOrTold
    <3>2. ASSUME NEW i \in DOMAIN batch, Tells(batch[i], c) PROVE Tells(batch[i], c)'
      <4>1. i \in DOMAIN batch' /\ batch'[i] = batch[i]
        BY <1>4
      <4>2. PICK m : m = batch[i]
        OBVIOUS
      <4>3. \/ \A r \in Recipients : c \in ForAll(m, r)
            \/ /\ m.type = "SWAP_GRAVE_DECK" /\ board'[c].loc = {"grave"}
               /\ board'[c].pos = "faceup" /\ m.team = board'[c].con
        BY <2>2, <3>2, <4>2 DEF Tells
      <4> QED BY <2>1, <4>1, <4>2, <4>3
    <3>3. \A i \in DOMAIN batch : i \in DOMAIN batch'
      BY <1>4
    <3> QED BY <1>1, <3>1, <3>2, <3>3
  <2>3. CASE \/ \A r \in Recipients : c \in ForAll(msg, r)
             \/ /\ msg.type = "SWAP_GRAVE_DECK" /\ board'[c].loc = {"grave"}
                /\ board'[c].pos = "faceup" /\ msg.team = board'[c].con
    <3>1. PICK n : n = Len(batch) + 1
      OBVIOUS
    <3>2. n \in DOMAIN batch' /\ msg = batch'[n]
      BY <1>4, <3>1
    <3>3. Tells(batch[n], c)'
      BY <2>1, <2>3, <3>2
    <3> QED BY <3>2, <3>3
  <2> QED BY <2>2, <2>3
<1> QED BY <1>6, <1>8, <1>9, <1>10, <1>11, <1>12 DEF BInv

-----------------------------------------------------------------------------
LEMMA Typed ==
    /\ \A c \in Cards \cup {NoCode} : \A w :
            w.con \in Teams /\ w.loc \in Locs /\ w.seq \in Seqs /\ w.pos \in Positions =>
                Named(c, w) \in Entry
    /\ \A type \in Spoken, team \in Teams, cards \in Seq(Entry) :
            Message(type, team, cards) \in Msgs
    /\ \A type \in Spoken : \A c, from, to :
            /\ from.con \in Teams /\ from.loc \in Locs /\ from.pos \in Positions
            /\ Named(c, to) \in Entry
            => MessageFrom(type, c, from, to) \in Msgs
<1>1. \A c \in Cards \cup {NoCode} : \A w :
        w.con \in Teams /\ w.loc \in Locs /\ w.seq \in Seqs /\ w.pos \in Positions =>
            Named(c, w) \in Entry
  BY DEF Named, Entry
<1>2. [con |-> 0, loc |-> {}, pos |-> "none"] \in [con : Teams, loc : Locs, pos : Positions]
  BY DEF Teams, Locs, Positions
<1>3. ASSUME NEW type \in Spoken, NEW team \in Teams, NEW cards \in Seq(Entry)
      PROVE  Message(type, team, cards) \in Msgs
  BY <1>2 DEF Message, Msgs
<1>4. ASSUME NEW type \in Spoken, NEW c, NEW from, NEW to,
             from.con \in Teams, from.loc \in Locs, from.pos \in Positions, Named(c, to) \in Entry
      PROVE  MessageFrom(type, c, from, to) \in Msgs
  <2>1. <<Named(c, to)>> \in Seq(Entry)
    BY <1>4
  <2>2. Message(type, from.con, <<Named(c, to)>>) \in Msgs
    BY <1>3, <1>4, <2>1
  <2>3. [con |-> from.con, loc |-> from.loc, pos |-> from.pos]
            \in [con : Teams, loc : Locs, pos : Positions]
    BY <1>4
  <2> QED BY <2>2, <2>3 DEF MessageFrom, Msgs
<1> QED BY <1>1, <1>3, <1>4

\* A message about one card.
LEMMA OneCard ==
    ASSUME NEW type, NEW c, NEW from, NEW to
    PROVE  LET msg == MessageFrom(type, c, from, to) IN
           /\ msg.type = type /\ msg.team = from.con
           /\ msg.cards = <<Named(c, to)>> /\ DOMAIN msg.cards = {1}
           /\ msg.cards[1].code = c /\ msg.cards[1].con = to.con /\ msg.cards[1].loc = to.loc
           /\ msg.cards[1].pos = to.pos /\ msg.cards[1].seq = to.seq
           /\ msg.from.pos = from.pos /\ msg.from.con = from.con /\ msg.from.loc = from.loc
BY DEF MessageFrom, Message, Named

LEMMA CardsOf ==
    ASSUME NEW type, NEW team, NEW cards
    PROVE  LET msg == Message(type, team, cards) IN
           msg.type = type /\ msg.team = team /\ msg.cards = cards
BY DEF Message

LEMMA Rearranged ==
    ASSUME BInv, NEW b, Rearrange(b)
    PROVE  /\ board' = b /\ shown' = [r \in Recipients |-> shown'[r]]
           /\ \A r \in Recipients : shown[r] \subseteq shown'[r]
           /\ \A r \in Recipients : Entitled(r, board') \subseteq shown'[r]
           /\ \A r \in Recipients : Entitled(r, board) \subseteq shown'[r]
<1>1. \A r \in Recipients : Entitled(r, board) \subseteq shown[r]
  BY DEF BInv, BoardShown
<1> QED BY <1>1 DEF Rearrange

LEMMA OnBoard ==
    ASSUME BInv, NEW c \in Cards
    PROVE  /\ board[c] \in Spot /\ board[c].pos \in PosIn(board[c].loc)
           /\ board[c].con \in Teams /\ board[c].loc \in Locs /\ board[c].seq \in Seqs
           /\ board[c].pos \in Positions /\ board[c].public \in BOOLEAN
           /\ isTeam1GoingFirst \in {0, 1} /\ BTypes
BY DEF BInv, BTypes, Spot

\* A card that is at no place that calls for a face-down one is seen by everybody.
LEMMA PositionsAre ==
    ASSUME NEW loc, NEW pos \in PosIn(loc)
    PROVE  /\ pos \in Positions
           /\ pos = "none" => "overlay" \in loc
           /\ loc = {"mzone"} => pos \in {"faceup", "facedown"}
           /\ loc \in {{"hand"}, {"deck"}} => pos = "facedown"
           /\ loc = {"grave"} => pos = "faceup"
<1>1. CASE loc \in {{"mzone"}, {"szone"}, {"removed"}}
  BY <1>1 DEF PosIn, Positions
<1>2. CASE loc = {"grave"}
  <2>1. loc \notin {{"mzone"}, {"szone"}, {"removed"}} /\ "overlay" \notin loc
    BY <1>2
  <2> QED BY <1>2, <2>1 DEF PosIn, Positions
<1>3. CASE "overlay" \in loc
  <2>1. loc \notin {{"mzone"}, {"szone"}, {"removed"}, {"grave"}, {"hand"}, {"deck"}}
    BY <1>3
  <2> QED BY <1>3, <2>1 DEF PosIn, Positions
<1>4. CASE loc \notin {{"mzone"}, {"szone"}, {"removed"}} /\ loc # {"grave"} /\ "overlay" \notin loc
  BY <1>4 DEF PosIn, Positions
<1> QED BY <1>1, <1>2, <1>3, <1>4

LEMMA MoveInv ==
    ASSUME BInv, NEW c \in Cards, NEW to \in Where, Move(c, to)
    PROVE  BInv'
<1> DEFINE msg == MessageFrom("MOVE", c, board[c], to)
           b == [board EXCEPT ![c] = to]
<1>1. Rearrange(b) /\ Says(msg) /\ to.pos \in PosIn(to.loc)
  BY DEF Move
<1>2. to \in Spot /\ to.con \in Teams /\ to.loc \in Locs /\ to.seq \in Seqs /\ to.pos \in Positions
  BY DEF Where, Spot, Locs
<1>3. /\ board[c].con \in Teams /\ board[c].loc \in Locs /\ board[c].pos \in Positions
      /\ isTeam1GoingFirst \in {0, 1} /\ BTypes
  BY OnBoard
<1>4. "MOVE" \in Spoken
  BY DEF Spoken
<1>5. msg \in Msgs
  BY <1>2, <1>3, <1>4, Typed
<1>6. /\ msg.type = "MOVE" /\ DOMAIN msg.cards = {1}
      /\ msg.cards[1].code = c /\ msg.cards[1].con = to.con /\ msg.cards[1].loc = to.loc
      /\ msg.cards[1].pos = to.pos
  BY OneCard
<1>7. b \in [Cards -> Spot] /\ b[c] = to /\ \A d \in Cards \ {c} : b[d] = board[d]
  BY <1>2, <1>3 DEF BTypes
<1>8. /\ board' = b /\ shown' = [r \in Recipients |-> shown'[r]]
      /\ \A r \in Recipients : shown[r] \subseteq shown'[r]
      /\ \A r \in Recipients : Entitled(r, board') \subseteq shown'[r]
  BY <1>1, Rearranged
<1> HIDE DEF msg, b
<1>9. \A d \in Cards : board'[d].pos \in PosIn(board'[d].loc)
  BY <1>1, <1>3, <1>7, <1>8 DEF BTypes
<1>10. GetMessageDistributionType(msg) = "everyone_stripped"
  BY <1>6 DEF GetMessageDistributionType, SelectCards, PlainQuestions
<1>11. \A t : IsCleared(t, msg, msg.cards[1]) <=>
                to.con # t /\ ~ IsLocInfoPublic(msg.cards[1])
  BY <1>6 DEF IsCleared, SelectCards
<1>12. IsLocInfoPublic(msg.cards[1]) => Visible(to)
  BY <1>1, <1>2, <1>6, PositionsAre DEF IsLocInfoPublic, Visible, Positions
<1>13. Discreet(msg, b)
  BY <1>6, <1>7, <1>11, <1>12 DEF Discreet
<1>14. \A r \in Recipients : ForAll(msg, r) \cup ForOne(msg, r) \subseteq shown'[r]
  BY <1>3, <1>5, <1>8, <1>10, <1>13, CopiesAreSafe
<1>15. OpenAt(to) => \A r \in Recipients : c \in ForAll(msg, r)
  <2> SUFFICES ASSUME OpenAt(to), NEW r \in Recipients PROVE c \in ForAll(msg, r)
    OBVIOUS
  <2>1. to.pos # "facedown"
    <3>1. CASE to.pos = "faceup"
      BY <3>1
    <3>2. CASE "overlay" \in to.loc
      <4>1. to.loc \notin {{"mzone"}, {"szone"}, {"removed"}, {"grave"}}
        BY <3>2
      <4>2. to.pos = "none"
        BY <1>1, <3>2, <4>1 DEF PosIn
      <4> QED BY <4>2
    <3> QED BY <3>1, <3>2 DEF OpenAt
  <2>2. \A t : ~ IsCleared(t, msg, msg.cards[1])
    BY <1>6, <1>11, <2>1 DEF IsLocInfoPublic
  <2>3. c # NoCode
    BY Constants
  <2>4. /\ c \in Codes(StripMessageForTeam(0, msg)) /\ c \in Codes(StripMessageForTeam(1, msg))
        /\ c \in Codes(SpectatorsCopy(msg))
    BY <1>5, <1>6, <2>2, <2>3, StrippedCodes, SpectatorsCodes
  <2> QED BY <1>10, <2>4 DEF ForAll
<1>16. \A d \in Cards : OpenAt(board'[d]) =>
            \/ \A r \in Recipients : d \in ForAll(msg, r)
            \/ /\ msg.type = "SWAP_GRAVE_DECK" /\ board'[d].loc = {"grave"}
               /\ board'[d].pos = "faceup" /\ msg.team = board'[d].con
            \/ OpenAt(board[d]) /\ (board'[d] = board[d] \/ board[d].loc # {"grave"})
  <2> SUFFICES ASSUME NEW d \in Cards, OpenAt(board'[d])
               PROVE  \/ \A r \in Recipients : d \in ForAll(msg, r)
                      \/ OpenAt(board[d]) /\ board'[d] = board[d]
    OBVIOUS
  <2>1. CASE d = c
    BY <1>7, <1>8, <1>15, <2>1
  <2>2. CASE d # c
    BY <1>7, <1>8, <2>2
  <2> QED BY <2>1, <2>2
<1>17. msg.type # "RETRY" /\ GetMessageDistributionType(msg) # "duelist"
  BY <1>6, <1>10
<1>18. board' \in [Cards -> Spot]
  BY <1>7, <1>8
<1> QED BY <1>1, <1>5, <1>8, <1>9, <1>14, <1>16, <1>17, <1>18, SaidInv

-----------------------------------------------------------------------------
\* One card comes to another place.
LEMMA OneRearranged ==
    ASSUME BInv, NEW c \in Cards, NEW to \in Spot, to.pos \in PosIn(to.loc),
           Rearrange([board EXCEPT ![c] = to])
    PROVE  /\ board' \in [Cards -> Spot] /\ \A d \in Cards : board'[d].pos \in PosIn(board'[d].loc)
           /\ board'[c] = to /\ \A d \in Cards \ {c} : board'[d] = board[d]
           /\ shown' = [r \in Recipients |-> shown'[r]]
           /\ \A r \in Recipients : shown[r] \subseteq shown'[r]
           /\ \A r \in Recipients : Entitled(r, board') \subseteq shown'[r]
           /\ \A r \in Recipients : Visible(to) \/ Visible(board[c]) => c \in shown'[r]
<1> DEFINE b == [board EXCEPT ![c] = to]
<1>1. BTypes
  BY DEF BInv
<1>2. b \in [Cards -> Spot] /\ b[c] = to /\ \A d \in Cards \ {c} : b[d] = board[d]
  BY <1>1 DEF BTypes
<1>3. /\ board' = b /\ shown' = [r \in Recipients |-> shown'[r]]
      /\ \A r \in Recipients : shown[r] \subseteq shown'[r]
      /\ \A r \in Recipients : Entitled(r, board') \subseteq shown'[r]
      /\ \A r \in Recipients : Entitled(r, board) \subseteq shown'[r]
  BY Rearranged
<1> HIDE DEF b
<1>4. \A d \in Cards : b[d].pos \in PosIn(b[d].loc)
  BY <1>1, <1>2 DEF BTypes
<1>5. \A r \in Recipients : Visible(to) \/ Visible(board[c]) => c \in shown'[r]
  BY <1>2, <1>3 DEF Entitled, MaySee
<1> QED BY <1>2, <1>3, <1>4, <1>5

\* A message that everybody gets as it is names cards that everybody was shown.
LEMMA ToEveryone ==
    ASSUME NEW msg, GetMessageDistributionType(msg) = "everyone", NEW r
    PROVE  ForAll(msg, r) = Codes(msg) /\ ForOne(msg, r) = {}
BY DEF ForAll, ForOne

LEMMA DrawInv ==
    ASSUME BInv, NEW c \in Cards, NEW seq \in Seqs, Draw(c, seq)
    PROVE  BInv'
<1> DEFINE to == [board[c] EXCEPT !.loc = {"hand"}, !.public = FALSE, !.seq = seq]
           cards == <<Named(c, to)>>
           msg == Message("DRAW", to.con, cards)
<1>1. board[c].loc = {"deck"} /\ Rearrange([board EXCEPT ![c] = to]) /\ Says(msg)
  BY DEF Draw
<1>2. /\ board[c] \in Spot /\ board[c].con \in Teams /\ board[c].pos \in Positions
      /\ isTeam1GoingFirst \in {0, 1} /\ board[c].pos \in PosIn(board[c].loc)
  BY OnBoard
<1>3. board[c].pos = "facedown"
  BY <1>1, <1>2, PositionsAre
<1>4. to \in Spot
  BY <1>2 DEF Spot, Locs
<1>5. to.con = board[c].con /\ to.pos = "facedown" /\ to.loc = {"hand"} /\ to.seq = seq
  BY <1>2, <1>3 DEF Spot
<1>6. to.pos \in PosIn(to.loc)
  BY <1>5 DEF PosIn
<1>7. Named(c, to) \in Entry
  BY <1>2, <1>5, Typed DEF Locs, Positions
<1>8. cards \in Seq(Entry) /\ cards # <<>> /\ DOMAIN cards = {1} /\ cards[1] = Named(c, to)
  BY <1>7
<1>9. /\ cards[1].code = c /\ cards[1].pos = "facedown"
  BY <1>5 DEF Named
<1> HIDE DEF to, cards
<1>10. msg \in Msgs
  BY <1>2, <1>5, <1>8, Typed DEF Spoken
<1>11. msg.type = "DRAW" /\ msg.team = board[c].con /\ msg.cards = cards
  BY <1>5, CardsOf
<1> HIDE DEF msg
<1>12. /\ board' \in [Cards -> Spot] /\ \A d \in Cards : board'[d].pos \in PosIn(board'[d].loc)
       /\ board'[c] = to /\ \A d \in Cards \ {c} : board'[d] = board[d]
       /\ shown' = [r \in Recipients |-> shown'[r]]
       /\ \A r \in Recipients : shown[r] \subseteq shown'[r]
       /\ \A r \in Recipients : Entitled(r, board') \subseteq shown'[r]
  BY <1>1, <1>4, <1>6, OneRearranged
<1>13. GetMessageDistributionType(msg) = "everyone_stripped"
  BY <1>11 DEF GetMessageDistributionType, SelectCards, PlainQuestions
<1>14. \A t \in Teams : ~ IsCleared(t, msg, msg.cards[1]) => board[c].con = t
  BY <1>9, <1>11 DEF IsCleared
<1>15. Discreet(msg, board')
  BY <1>5, <1>8, <1>9, <1>11, <1>12, <1>14 DEF Discreet
<1>16. \A r \in Recipients : ForAll(msg, r) \cup ForOne(msg, r) \subseteq shown'[r]
  BY <1>2, <1>10, <1>12, <1>13, <1>15, CopiesAreSafe
<1>17. ~ OpenAt(to)
  BY <1>5 DEF OpenAt
<1>18. \A d \in Cards : OpenAt(board'[d]) => OpenAt(board[d]) /\ board'[d] = board[d]
  BY <1>12, <1>17
<1>19. msg.type # "RETRY" /\ GetMessageDistributionType(msg) # "duelist"
  BY <1>11, <1>13
<1> QED BY <1>1, <1>10, <1>12, <1>16, <1>18, <1>19, SaidInv

LEMMA TurnInv ==
    ASSUME BInv, NEW c \in Cards, Turn(c)
    PROVE  BInv'
<1> DEFINE to == [board[c] EXCEPT !.pos = IF @ = "faceup" THEN "facedown" ELSE "faceup"]
           msg == MessageFrom("POS_CHANGE", c, board[c], to)
<1>1. board[c].loc = {"mzone"} /\ Rearrange([board EXCEPT ![c] = to]) /\ Says(msg)
  BY DEF Turn
<1>2. /\ board[c] \in Spot /\ board[c].con \in Teams /\ board[c].pos \in Positions
      /\ board[c].loc \in Locs /\ board[c].seq \in Seqs
  BY OnBoard
<1>3. to \in Spot
  BY <1>2 DEF Spot, Positions
<1>4. /\ to.con = board[c].con /\ to.loc = {"mzone"} /\ to.seq = board[c].seq
      /\ to.pos = IF board[c].pos = "faceup" THEN "facedown" ELSE "faceup"
  BY <1>1, <1>2 DEF Spot
<1>5. to.pos \in PosIn(to.loc)
  BY <1>4 DEF PosIn
<1>6. Visible(to) \/ Visible(board[c])
  BY <1>4 DEF Visible
<1> HIDE DEF to
<1>7. Named(c, to) \in Entry
  BY <1>2, <1>3, Typed DEF Spot
<1>8. msg \in Msgs
  BY <1>2, <1>7, Typed DEF Spoken
<1>9. /\ msg.type = "POS_CHANGE" /\ DOMAIN msg.cards = {1} /\ msg.cards[1].code = c
  BY OneCard
<1> HIDE DEF msg
<1>10. /\ board' \in [Cards -> Spot] /\ \A d \in Cards : board'[d].pos \in PosIn(board'[d].loc)
       /\ board'[c] = to /\ \A d \in Cards \ {c} : board'[d] = board[d]
       /\ shown' = [r \in Recipients |-> shown'[r]]
       /\ \A r \in Recipients : shown[r] \subseteq shown'[r]
       /\ \A r \in Recipients : Entitled(r, board') \subseteq shown'[r]
       /\ \A r \in Recipients : c \in shown'[r]
  BY <1>1, <1>3, <1>5, <1>6, OneRearranged
<1>11. GetMessageDistributionType(msg) = "everyone"
  BY <1>9 DEF GetMessageDistributionType, SelectCards, PlainQuestions
<1>12. Codes(msg) = {c}
  BY <1>9, Constants DEF Codes
<1>13. \A r \in Recipients : ForAll(msg, r) = {c} /\ ForOne(msg, r) = {}
  BY <1>11, <1>12, ToEveryone
<1>14. \A r \in Recipients : ForAll(msg, r) \cup ForOne(msg, r) \subseteq shown'[r]
  BY <1>10, <1>13
<1>15. \A d \in Cards : OpenAt(board'[d]) =>
            \/ \A r \in Recipients : d \in ForAll(msg, r)
            \/ OpenAt(board[d]) /\ board'[d] = board[d]
  BY <1>10, <1>13
<1>16. msg.type # "RETRY" /\ GetMessageDistributionType(msg) # "duelist"
  BY <1>9, <1>11
<1> QED BY <1>1, <1>8, <1>10, <1>14, <1>15, <1>16, SaidInv

LEMMA FlipSummonInv ==
    ASSUME BInv, NEW c \in Cards, FlipSummon(c)
    PROVE  BInv'
<1> DEFINE to == [board[c] EXCEPT !.pos = "faceup"]
           cards == <<Named(c, to)>>
           msg == Message("FLIPSUMMONING", to.con, cards)
<1>1. board[c].loc = {"mzone"} /\ Rearrange([board EXCEPT ![c] = to]) /\ Says(msg)
  BY DEF FlipSummon
<1>2. /\ board[c] \in Spot /\ board[c].con \in Teams
      /\ board[c].loc \in Locs /\ board[c].seq \in Seqs
  BY OnBoard
<1>3. to \in Spot
  BY <1>2 DEF Spot, Positions
<1>4. to.con = board[c].con /\ to.loc = {"mzone"} /\ to.seq = board[c].seq /\ to.pos = "faceup"
  BY <1>1, <1>2 DEF Spot
<1>5. to.pos \in PosIn(to.loc) /\ Visible(to)
  BY <1>4 DEF PosIn, Visible
<1> HIDE DEF to
<1>6. Named(c, to) \in Entry
  BY <1>2, <1>3, Typed DEF Spot
<1>7. /\ cards \in Seq(Entry) /\ DOMAIN cards = {1} /\ cards[1].code = c
  BY <1>6 DEF Named
<1> HIDE DEF cards
<1>8. msg \in Msgs
  BY <1>2, <1>4, <1>7, Typed DEF Spoken
<1>9. msg.type = "FLIPSUMMONING" /\ msg.cards = cards
  BY CardsOf
<1> HIDE DEF msg
<1>10. /\ board' \in [Cards -> Spot] /\ \A d \in Cards : board'[d].pos \in PosIn(board'[d].loc)
       /\ board'[c] = to /\ \A d \in Cards \ {c} : board'[d] = board[d]
       /\ shown' = [r \in Recipients |-> shown'[r]]
       /\ \A r \in Recipients : shown[r] \subseteq shown'[r]
       /\ \A r \in Recipients : Entitled(r, board') \subseteq shown'[r]
       /\ \A r \in Recipients : c \in shown'[r]
  BY <1>1, <1>3, <1>5, OneRearranged
<1>11. GetMessageDistributionType(msg) = "everyone"
  BY <1>9 DEF GetMessageDistributionType, SelectCards, PlainQuestions
<1>12. Codes(msg) = {c}
  BY <1>7, <1>9, Constants DEF Codes
<1>13. \A r \in Recipients : ForAll(msg, r) = {c} /\ ForOne(msg, r) = {}
  BY <1>11, <1>12, ToEveryone
<1>14. \A r \in Recipients : ForAll(msg, r) \cup ForOne(msg, r) \subseteq shown'[r]
  BY <1>10, <1>13
<1>15. \A d \in Cards : OpenAt(board'[d]) =>
            \/ \A r \in Recipients : d \in ForAll(msg, r)
            \/ OpenAt(board[d]) /\ board'[d] = board[d]
  BY <1>10, <1>13
<1>16. msg.type # "RETRY" /\ GetMessageDistributionType(msg) # "duelist"
  BY <1>9, <1>11
<1> QED BY <1>1, <1>8, <1>10, <1>14, <1>15, <1>16, SaidInv

LEMMA ExchangeInv ==
    ASSUME BInv, NEW c \in Cards, NEW seq \in Seqs, Exchange(c, seq)
    PROVE  BInv'
<1> DEFINE to == [board[c] EXCEPT !.con = 1 - @, !.seq = seq]
           name == [Named(c, to) EXCEPT !.code = IF Visible(board[c]) THEN c ELSE NoCode]
           other == Named(NoCode, board[c])
           cards == <<name, other>>
           msg == Message("SWAP", 0, cards)
<1>1. board[c].loc = {"mzone"} /\ Rearrange([board EXCEPT ![c] = to]) /\ Says(msg)
  BY DEF Exchange
<1>2. /\ board[c] \in Spot /\ board[c].con \in Teams /\ board[c].pos \in PosIn(board[c].loc)
      /\ board[c].loc \in Locs /\ board[c].seq \in Seqs /\ board[c].pos \in Positions
  BY OnBoard
<1>3. to \in Spot
  <2>1. 1 - board[c].con \in Teams
    BY <1>2 DEF Teams
  <2>2. PICK con : con = 1 - board[c].con
    OBVIOUS
  <2>3. to = [board[c] EXCEPT !.con = con, !.seq = seq]
    BY <2>2
  <2> HIDE DEF to
  <2> QED BY <1>2, <2>1, <2>2, <2>3 DEF Spot
<1>4. to.loc = {"mzone"} /\ to.pos = board[c].pos
  BY <1>1, <1>2 DEF Spot
<1>5. to.pos \in PosIn(to.loc)
  BY <1>1, <1>2, <1>4
<1>6. OpenAt(to) => OpenAt(board[c])
  BY <1>1, <1>4 DEF OpenAt
<1> HIDE DEF to
<1>7. Named(c, to) \in Entry /\ other \in Entry
  BY <1>2, <1>3, Typed DEF Spot
<1>8. name \in Entry /\ name.code = (IF Visible(board[c]) THEN c ELSE NoCode)
  BY <1>7 DEF Entry
<1>9. other.code = NoCode
  BY DEF Named
<1> HIDE DEF name, other
<1>10. cards \in Seq(Entry) /\ DOMAIN cards = {1, 2} /\ cards[1] = name /\ cards[2] = other
  BY <1>7, <1>8
<1> HIDE DEF cards
<1>11. msg \in Msgs
  BY <1>10, Typed DEF Spoken, Teams
<1>12. msg.type = "SWAP" /\ msg.cards = cards
  BY CardsOf
<1> HIDE DEF msg
<1>13. /\ board' \in [Cards -> Spot] /\ \A d \in Cards : board'[d].pos \in PosIn(board'[d].loc)
       /\ board'[c] = to /\ \A d \in Cards \ {c} : board'[d] = board[d]
       /\ shown' = [r \in Recipients |-> shown'[r]]
       /\ \A r \in Recipients : shown[r] \subseteq shown'[r]
       /\ \A r \in Recipients : Entitled(r, board') \subseteq shown'[r]
       /\ \A r \in Recipients : Visible(board[c]) => c \in shown'[r]
  BY <1>1, <1>3, <1>5, OneRearranged
<1>14. GetMessageDistributionType(msg) = "everyone"
  BY <1>12 DEF GetMessageDistributionType, SelectCards, PlainQuestions
<1>15. \A d \in Codes(msg) : d = c /\ Visible(board[c])
  BY <1>8, <1>9, <1>10, <1>12 DEF Codes
<1>16. \A r \in Recipients : ForAll(msg, r) \cup ForOne(msg, r) \subseteq shown'[r]
  BY <1>13, <1>14, <1>15, ToEveryone
<1>17. \A d \in Cards : OpenAt(board'[d]) =>
            OpenAt(board[d]) /\ (board'[d] = board[d] \/ board[d].loc # {"grave"})
  BY <1>1, <1>6, <1>13
<1>18. msg.type # "RETRY" /\ GetMessageDistributionType(msg) # "duelist"
  BY <1>12, <1>14
<1> QED BY <1>1, <1>11, <1>13, <1>16, <1>17, <1>18, SaidInv

LEMMA SwapGraveDeckInv ==
    ASSUME BInv, NEW team \in Teams, SwapGraveDeck(team)
    PROVE  BInv'
<1> DEFINE change(w) == CASE w.loc = {"deck"}     -> [w EXCEPT !.loc = {"grave"}, !.pos = "faceup"]
                          [] w.loc = {"grave"}    -> [w EXCEPT !.loc = {"deck"}, !.pos = "facedown"]
                          [] OTHER                -> w
           to(w) == IF w.con = team THEN change(w) ELSE w
           b == [c \in Cards |-> to(board[c])]
           msg == Message("SWAP_GRAVE_DECK", team, <<>>)
<1>1. Rearrange(b) /\ Says(msg)
  BY DEF SwapGraveDeck
<1>2. /\ board' = b /\ shown' = [r \in Recipients |-> shown'[r]]
      /\ \A r \in Recipients : shown[r] \subseteq shown'[r]
      /\ \A r \in Recipients : Entitled(r, board') \subseteq shown'[r]
  BY <1>1, Rearranged
<1>3. ASSUME NEW w \in Spot, w.pos \in PosIn(w.loc)
      PROVE  /\ to(w) \in Spot /\ to(w).pos \in PosIn(to(w).loc)
             /\ OpenAt(to(w)) =>
                    \/ OpenAt(w) /\ to(w) = w
                    \/ to(w).loc = {"grave"} /\ to(w).pos = "faceup" /\ team = to(w).con
  <2>1. CASE w.con # team
    BY <1>3, <2>1
  <2>2. CASE w.con = team /\ w.loc = {"deck"}
    <3>1. PICK v : v = [w EXCEPT !.loc = {"grave"}, !.pos = "faceup"]
      OBVIOUS
    <3>2. v \in Spot /\ v.con = team /\ v.loc = {"grave"} /\ v.pos = "faceup"
      BY <1>3, <2>2, <3>1 DEF Spot, Locs, Positions
    <3>3. v.pos \in PosIn(v.loc)
      BY <3>2 DEF PosIn
    <3>4. to(w) = v
      BY <2>2, <3>1
    <3> HIDE DEF to, change
    <3> QED BY <3>2, <3>3, <3>4
  <2>3. CASE w.con = team /\ w.loc = {"grave"}
    <3>1. PICK v : v = [w EXCEPT !.loc = {"deck"}, !.pos = "facedown"]
      OBVIOUS
    <3>2. v \in Spot /\ v.con = team /\ v.loc = {"deck"} /\ v.pos = "facedown"
      BY <1>3, <2>3, <3>1 DEF Spot, Locs, Positions
    <3>3. v.pos \in PosIn(v.loc) /\ ~ OpenAt(v)
      BY <3>2 DEF PosIn, OpenAt
    <3>4. to(w) = v
      <4>1. w.loc # {"deck"}
        BY <2>3
      <4> QED BY <2>3, <3>1, <4>1
    <3> HIDE DEF to, change
    <3> QED BY <3>2, <3>3, <3>4
  <2>4. CASE w.con = team /\ w.loc # {"deck"} /\ w.loc # {"grave"}
    BY <1>3, <2>4
  <2> QED BY <2>1, <2>2, <2>3, <2>4
<1> HIDE DEF to, change
<1>4. \A c \in Cards : board[c] \in Spot /\ board[c].pos \in PosIn(board[c].loc)
  BY OnBoard
<1>5. /\ board' \in [Cards -> Spot] /\ \A c \in Cards : board'[c].pos \in PosIn(board'[c].loc)
      /\ \A c \in Cards : OpenAt(board'[c]) =>
            \/ OpenAt(board[c]) /\ board'[c] = board[c]
            \/ /\ board'[c].loc = {"grave"} /\ board'[c].pos = "faceup" /\ team = board'[c].con
  BY <1>2, <1>3, <1>4
<1>6. <<>> \in Seq(Entry)
  OBVIOUS
<1>7. msg \in Msgs
  BY <1>6, Typed DEF Spoken
<1>8. msg.type = "SWAP_GRAVE_DECK" /\ msg.team = team /\ msg.cards = <<>>
  BY CardsOf
<1> HIDE DEF msg, b
<1>9. GetMessageDistributionType(msg) = "everyone"
  BY <1>8 DEF GetMessageDistributionType, SelectCards, PlainQuestions
<1>10. Codes(msg) = {}
  BY <1>8 DEF Codes
<1>11. \A r \in Recipients : ForAll(msg, r) \cup ForOne(msg, r) \subseteq shown'[r]
  BY <1>9, <1>10, ToEveryone
<1>12. msg.type # "RETRY" /\ GetMessageDistributionType(msg) # "duelist"
  BY <1>8, <1>9
<1> QED BY <1>1, <1>2, <1>5, <1>7, <1>8, <1>11, <1>12, SaidInv

\* Nothing is said when an effect reveals a card.
LEMMA RevealInv ==
    ASSUME BInv, NEW c \in Cards, Reveal(c)
    PROVE  BInv'
<1> DEFINE to == [board[c] EXCEPT !.public = TRUE]
<1>1. /\ board[c].loc = {"hand"} /\ Rearrange([board EXCEPT ![c].public = TRUE])
      /\ UNCHANGED <<batch, isTeam1GoingFirst, currentPos, revealed, repeated>>
  BY DEF Reveal, table
<1>2. /\ board[c] \in Spot /\ board[c].pos \in PosIn(board[c].loc)
  BY OnBoard
<1>3. to \in Spot /\ to.loc = board[c].loc /\ to.pos = board[c].pos /\ to.con = board[c].con
  BY <1>2 DEF Spot
<1>4. [board EXCEPT ![c].public = TRUE] = [board EXCEPT ![c] = to]
  OBVIOUS
<1> HIDE DEF to
<1>5. /\ board' \in [Cards -> Spot] /\ \A d \in Cards : board'[d].pos \in PosIn(board'[d].loc)
      /\ board'[c] = to /\ \A d \in Cards \ {c} : board'[d] = board[d]
      /\ shown' = [r \in Recipients |-> shown'[r]]
      /\ \A r \in Recipients : shown[r] \subseteq shown'[r]
      /\ \A r \in Recipients : Entitled(r, board') \subseteq shown'[r]
  BY <1>1, <1>2, <1>3, <1>4, OneRearranged
<1>6. \A d \in Cards : /\ board'[d].loc = board[d].loc /\ board'[d].pos = board[d].pos
                       /\ board'[d].con = board[d].con
  BY <1>3, <1>5
<1>7. BTypes /\ Safe /\ NotRelieved /\ NothingLeaks /\ KnownOrTold
  BY DEF BInv
<1>8. BTypes'
  BY <1>1, <1>5, <1>7 DEF BTypes
<1>9. \A m, r : ForAll(m, r)' = ForAll(m, r) /\ ForOne(m, r)' = ForOne(m, r)
  BY <1>1, ToldAsBefore
<1>10. Safe'
  BY <1>1, <1>5, <1>7, <1>9 DEF Safe, ForAll, ForOne, Swapped, CurrentOf
<1>11. NotRelieved'
  BY <1>1, <1>7 DEF NotRelieved
<1>12. BoardShown'
  <2>1. \A r \in Recipients : Entitled(r, board)' = Entitled(r, board')
    BY <1>1 DEF Entitled, MaySee, TeamInCore
  <2> QED BY <1>5, <2>1 DEF BoardShown
<1>13. NothingLeaks'
  BY <1>1, <1>5, <1>7 DEF NothingLeaks
<1>14. KnownOrTold'
  <2> SUFFICES ASSUME NEW d \in Cards, OpenAt(board'[d])
               PROVE  \/ \A r \in Recipients : d \in revealed'[r]
                      \/ \E i \in DOMAIN batch' : Tells(batch[i], d)'
    BY DEF KnownOrTold, OpenAt
  <2>1. OpenAt(board[d])
    BY <1>6 DEF OpenAt
  <2>2. \/ \A r \in Recipients : d \in revealed[r]
        \/ \E i \in DOMAIN batch : Tells(batch[i], d)
    BY <1>7, <2>1 DEF KnownOrTold
  <2>3. ASSUME NEW i \in DOMAIN batch, Tells(batch[i], d) PROVE Tells(batch[i], d)'
    BY <1>1, <1>6, <2>3 DEF Tells, ForAll, Swapped
  <2> QED BY <1>1, <2>2, <2>3
<1> QED BY <1>8, <1>10, <1>11, <1>12, <1>13, <1>14 DEF BInv

-----------------------------------------------------------------------------
\* What is said of a board that stays as it is.
LEMMA SaidOnlyInv ==
    ASSUME BInv, NEW msg \in Msgs, SaysOnly(msg), msg.type # "RETRY",
           \A r \in Recipients : ForAll(msg, r) \cup ForOne(msg, r) \subseteq shown[r],
           GetMessageDistributionType(msg) # "duelist" \/ Codes(msg) = {}
    PROVE  BInv'
<1>1. Says(msg) /\ board' = board /\ shown' = shown
  BY DEF SaysOnly
<1>2. BTypes /\ BoardShown
  BY DEF BInv
<1>3. /\ board' \in [Cards -> Spot] /\ \A c \in Cards : board'[c].pos \in PosIn(board'[c].loc)
      /\ shown' = [r \in Recipients |-> shown'[r]]
  BY <1>1, <1>2 DEF BTypes
<1>4. \A r \in Recipients : Entitled(r, board') \subseteq shown'[r]
  BY <1>1, <1>2 DEF BoardShown
<1> QED BY <1>1, <1>3, <1>4, SaidInv

LEMMA SaidStrippedInv ==
    ASSUME BInv, NEW msg \in Msgs, SaysOnly(msg), msg.type # "RETRY", Discreet(msg, board),
           GetMessageDistributionType(msg) \in {"everyone_stripped", "duelist_stripped"}
    PROVE  BInv'
<1>1. isTeam1GoingFirst \in {0, 1} /\ BoardShown
  BY DEF BInv, BTypes
<1>2. \A r \in Recipients : ForAll(msg, r) \cup ForOne(msg, r) \subseteq Entitled(r, board)
  BY <1>1, CopiesAreSafe
<1>3. \A r \in Recipients : ForAll(msg, r) \cup ForOne(msg, r) \subseteq shown[r]
  BY <1>1, <1>2 DEF BoardShown
<1> QED BY <1>3, SaidOnlyInv

LEMMA PositionThere ==
    ASSUME NEW loc
    PROVE  (CHOOSE pos \in PosIn(loc) : TRUE) \in Positions
<1>1. PosIn(loc) \subseteq Positions
  BY PositionsAre
<1>2. \E pos : pos \in PosIn(loc)
  BY DEF PosIn
<1> QED BY <1>1, <1>2

LEMMA MoveOtherInv ==
    ASSUME BInv, NEW con \in Teams, NEW loc \in Places, NEW seq \in Seqs, MoveOther(con, loc, seq)
    PROVE  BInv'
<1> DEFINE elsewhere == [con |-> 1 - con, loc |-> {}, pos |-> "none"]
           to == [con |-> con, loc |-> loc, seq |-> seq, pos |-> CHOOSE pos \in PosIn(loc) : TRUE]
           msg == MessageFrom("MOVE", NoCode, elsewhere, to)
<1>1. SaysOnly(msg)
  BY DEF MoveOther
<1>2. 1 - con \in Teams
  BY DEF Teams
<1>3. elsewhere.con \in Teams /\ elsewhere.loc \in Locs /\ elsewhere.pos \in Positions
  BY <1>2 DEF Locs, Positions
<1>4. to.con \in Teams /\ to.loc \in Locs /\ to.seq \in Seqs /\ to.pos \in Positions
  BY PositionThere DEF Locs
<1> HIDE DEF elsewhere, to
<1>5. msg \in Msgs
  BY <1>3, <1>4, Typed DEF Spoken
<1>6. /\ msg.type = "MOVE" /\ DOMAIN msg.cards = {1} /\ msg.cards[1].code = NoCode
  BY OneCard
<1> HIDE DEF msg
<1>7. GetMessageDistributionType(msg) = "everyone_stripped"
  BY <1>6 DEF GetMessageDistributionType, SelectCards, PlainQuestions
<1>8. Discreet(msg, board)
  BY <1>6 DEF Discreet
<1> QED BY <1>1, <1>5, <1>6, <1>7, <1>8, SaidStrippedInv

LEMMA AnnounceInv ==
    ASSUME BInv, NEW c \in Cards, NEW type \in {"SET", "SPSUMMONING"}, Announce(type, c)
    PROVE  BInv'
<1> DEFINE cards == <<Named(c, board[c])>>
           msg == Message(type, board[c].con, cards)
<1>1. board[c].loc = {"mzone"} /\ SaysOnly(msg)
  BY DEF Announce
<1>2. /\ board[c] \in Spot /\ board[c].con \in Teams /\ board[c].pos \in PosIn(board[c].loc)
      /\ board[c].loc \in Locs /\ board[c].seq \in Seqs /\ board[c].pos \in Positions
  BY OnBoard
<1>3. Named(c, board[c]) \in Entry
  BY <1>2, Typed
<1>4. /\ cards \in Seq(Entry) /\ DOMAIN cards = {1} /\ cards[1].code = c
      /\ cards[1].con = board[c].con /\ cards[1].pos = board[c].pos
  BY <1>3 DEF Named
<1> HIDE DEF cards
<1>5. msg \in Msgs
  BY <1>2, <1>4, Typed DEF Spoken
<1>6. msg.type = type /\ msg.cards = cards
  BY CardsOf
<1> HIDE DEF msg
<1>7. GetMessageDistributionType(msg) = "everyone_stripped"
  BY <1>6 DEF GetMessageDistributionType, SelectCards, PlainQuestions
<1>8. board[c].pos = "facedown" \/ Visible(board[c])
  BY <1>1, <1>2, PositionsAre DEF Visible
<1>9. \A t \in Teams : ~ IsCleared(t, msg, msg.cards[1]) => board[c].con = t \/ Visible(board[c])
  <2>1. CASE type = "SET"
    BY <1>6, <2>1 DEF IsCleared
  <2>2. CASE type = "SPSUMMONING"
    BY <1>4, <1>6, <1>8, <2>2 DEF IsCleared
  <2> QED BY <2>1, <2>2
<1>10. Discreet(msg, board)
  BY <1>4, <1>6, <1>9 DEF Discreet
<1>11. msg.type # "RETRY"
  BY <1>6
<1> QED BY <1>1, <1>5, <1>7, <1>10, <1>11, SaidStrippedInv

LEMMA RowIs ==
    ASSUME BInv, NEW cs \in SUBSET Cards
    PROVE  /\ InARow(cs) \in Seq(Entry)
           /\ \A i \in DOMAIN InARow(cs) : \E c \in cs :
                /\ InARow(cs)[i].code = c /\ InARow(cs)[i].con = board[c].con
                /\ InARow(cs)[i].pos = board[c].pos
<1>1. PICK row : row = InARow(cs)
  OBVIOUS
<1>2. PICK n \in Nat : DOMAIN row = 1..n /\ \A i \in DOMAIN row : \E c \in cs : row[i] = Named(c, board[c])
  BY <1>1, InARowIs
<1>3. \A c \in cs : Named(c, board[c]) \in Entry
  BY OnBoard, Typed
<1>4. ASSUME NEW i \in DOMAIN row PROVE row[i] \in Entry
  BY <1>2, <1>3
<1>5. row = [i \in 1..n |-> row[i]]
  <2> DEFINE all == {Named(c, board[c]) : c \in cs}
  <2>1. InARow(cs) \in [1..Cardinality(cs) -> all]
    BY InARowIs
  <2> QED BY <1>1, <1>2, <2>1
<1>6. row \in [1..n -> Entry]
  BY <1>2, <1>4, <1>5
<1>7. row \in Seq(Entry)
  BY <1>6, SeqDef
<1>8. \A i \in DOMAIN row : \E c \in cs :
        row[i].code = c /\ row[i].con = board[c].con /\ row[i].pos = board[c].pos
  BY <1>2 DEF Named
<1> QED BY <1>1, <1>7, <1>8

LEMMA ShuffleInv ==
    ASSUME BInv, NEW team \in Teams, NEW bit \in {"hand", "extra"}, Shuffle(team, bit)
    PROVE  BInv'
<1> DEFINE cs == CardsAt(team, bit)
           type == IF bit = "hand" THEN "SHUFFLE_HAND" ELSE "SHUFFLE_EXTRA"
           cards == InARow(cs)
           msg == Message(type, team, cards)
<1>1. SaysOnly(msg)
  BY DEF Shuffle
<1>2. cs \in SUBSET Cards /\ \A c \in cs : board[c].con = team
  BY DEF CardsAt
<1> HIDE DEF cs
<1>3. /\ cards \in Seq(Entry)
      /\ \A i \in DOMAIN cards : \E c \in cs : cards[i].code = c
  BY <1>2, RowIs
<1>4. type \in {"SHUFFLE_HAND", "SHUFFLE_EXTRA"}
  OBVIOUS
<1> HIDE DEF type, cards
<1>5. msg \in Msgs
  BY <1>3, <1>4, Typed DEF Spoken
<1>6. msg.type = type /\ msg.team = team /\ msg.cards = cards
  BY CardsOf
<1> HIDE DEF msg
<1>7. GetMessageDistributionType(msg) = "everyone_stripped" /\ msg.type # "RETRY"
  BY <1>4, <1>6 DEF GetMessageDistributionType, SelectCards, PlainQuestions
<1>8. \A i \in DOMAIN msg.cards, t \in Teams : ~ IsCleared(t, msg, msg.cards[i]) => t = team
  BY <1>4, <1>6 DEF IsCleared
<1>9. Discreet(msg, board)
  BY <1>2, <1>3, <1>6, <1>8 DEF Discreet
<1> QED BY <1>1, <1>5, <1>7, <1>9, SaidStrippedInv

LEMMA SwapTagInv ==
    ASSUME BInv, NEW team \in Teams, SwapTag(team)
    PROVE  BInv'
<1> DEFINE cs == CardsAt(team, "hand") \cup CardsAt(team, "extra")
           cards == InARow(cs)
           msg == Message("TAG_SWAP", team, cards)
<1>1. SaysOnly(msg)
  BY DEF SwapTag
<1>2. cs \in SUBSET Cards /\ \A c \in cs : board[c].con = team
  BY DEF CardsAt
<1> HIDE DEF cs
<1>3. /\ cards \in Seq(Entry)
      /\ \A i \in DOMAIN cards : \E c \in cs : cards[i].code = c
  BY <1>2, RowIs
<1> HIDE DEF cards
<1>4. msg \in Msgs
  BY <1>3, Typed DEF Spoken
<1>5. msg.type = "TAG_SWAP" /\ msg.team = team /\ msg.cards = cards
  BY CardsOf
<1> HIDE DEF msg
<1>6. GetMessageDistributionType(msg) = "everyone_stripped" /\ msg.type # "RETRY"
  BY <1>5 DEF GetMessageDistributionType, SelectCards, PlainQuestions
<1>7. ASSUME NEW i \in DOMAIN msg.cards
      PROVE  \/ msg.cards[i].code = NoCode
             \/ /\ msg.cards[i].code \in Cards
                /\ \A t \in Teams : ~ IsCleared(t, msg, msg.cards[i]) =>
                    \/ board[msg.cards[i].code].con = t
                    \/ Visible(board[msg.cards[i].code])
  <2>1. \E c \in cs : cards[i].code = c /\ cards[i].pos = board[c].pos
    BY <1>2, <1>5, <1>7, RowIs DEF cards
  <2>2. PICK c \in cs : cards[i].code = c /\ cards[i].pos = board[c].pos
    BY <2>1
  <2>3. ASSUME NEW t \in Teams, ~ IsCleared(t, msg, msg.cards[i]), t # team
        PROVE  Visible(board[c])
    <3>1. cards[i].pos = "faceup"
      BY <1>5, <2>3 DEF IsCleared
    <3> QED BY <2>2, <3>1 DEF Visible
  <2> QED BY <1>2, <1>5, <2>2, <2>3
<1>8. Discreet(msg, board)
  BY <1>7 DEF Discreet
<1> QED BY <1>1, <1>4, <1>6, <1>8, SaidStrippedInv

LEMMA RefreshInv ==
    ASSUME BInv, NEW type \in RefreshTypes, Refresh(type)
    PROVE  BInv'
<1> DEFINE msg == Message(type, 0, <<>>)
<1>1. SaysOnly(msg)
  BY DEF Refresh
<1>2. msg \in Msgs
  <2>1. <<>> \in Seq(Entry) /\ 0 \in Teams /\ type \in Spoken
    BY DEF Teams, Spoken
  <2> QED BY <2>1, Typed
<1>3. msg.type = type /\ msg.cards = <<>>
  BY CardsOf
<1> HIDE DEF msg
<1>4. Codes(msg) = {}
  BY <1>3 DEF Codes
<1>5. GetMessageDistributionType(msg) \in {"duelist", "everyone"}
  BY <1>3 DEF GetMessageDistributionType, SelectCards, PlainQuestions, RefreshTypes
<1>6. \A r \in Recipients : ForAll(msg, r) \cup ForOne(msg, r) \subseteq shown[r]
  BY <1>4, <1>5 DEF ForAll, ForOne
<1>7. msg.type # "RETRY"
  BY <1>3 DEF RefreshTypes
<1> QED BY <1>1, <1>2, <1>4, <1>6, <1>7, SaidOnlyInv

LEMMA ConfirmInv ==
    ASSUME BInv, NEW team \in Teams, NEW c \in Cards, Confirm(team, c)
    PROVE  BInv'
<1> DEFINE cards == <<Named(c, board[c])>>
           msg == Message("CONFIRM_CARDS", team, cards)
           to == IF board[c].loc = {"deck"}
                 THEN {r \in Duelists : team = TeamInCore(r[1]) /\ r[2] = currentPos[r[1]]}
                 ELSE Recipients
<1>1. /\ \A i \in DOMAIN batch : batch[i].type # "TAG_SWAP"
      /\ Says(msg) /\ board' = board
      /\ shown' = [r \in Recipients |-> shown[r] \cup (IF r \in to THEN {c} ELSE {})]
  BY DEF Confirm
<1>2. /\ board[c] \in Spot /\ board[c].con \in Teams /\ board[c].loc \in Locs
      /\ board[c].seq \in Seqs /\ board[c].pos \in Positions /\ isTeam1GoingFirst \in {0, 1}
  BY OnBoard
<1>3. Named(c, board[c]) \in Entry
  BY <1>2, Typed
<1>4. /\ cards \in Seq(Entry) /\ cards # <<>> /\ DOMAIN cards = {1} /\ cards[1].code = c
      /\ cards[1].loc = board[c].loc
  BY <1>3 DEF Named
<1> HIDE DEF cards
<1>5. msg \in Msgs
  BY <1>4, Typed DEF Spoken
<1>6. msg.type = "CONFIRM_CARDS" /\ msg.team = team /\ msg.cards = cards
  BY CardsOf
<1> HIDE DEF msg
<1>7. GetMessageDistributionType(msg) =
        IF board[c].loc = {"deck"} THEN "duelist" ELSE "everyone"
  BY <1>4, <1>6 DEF GetMessageDistributionType, SelectCards, PlainQuestions
<1>8. Codes(msg) = {c}
  BY <1>4, <1>6, Constants DEF Codes
<1>9. ASSUME NEW r \in Recipients
      PROVE  ForAll(msg, r) \cup ForOne(msg, r) \subseteq shown'[r]
  <2>1. CASE board[c].loc = {"deck"}
    <3>1. GetMessageDistributionType(msg) = "duelist"
      BY <1>7, <2>1
    <3>2. /\ ForAll(msg, r) = {}
          /\ ForOne(msg, r) = IF r = CurrentOf(Swapped(team)) THEN {c} ELSE {}
      BY <1>6, <1>8, <3>1 DEF ForAll, ForOne
    <3>3. ASSUME r = CurrentOf(Swapped(team)) PROVE c \in shown'[r]
      <4>1. r[1] = Swapped(team) /\ r[2] = currentPos[r[1]]
        BY <3>3 DEF CurrentOf
      <4>2. Swapped(team) \in Teams /\ TeamInCore(r[1]) = team
        BY <1>2, <4>1, TeamsSwap DEF Teams
      <4>3. r # Watching
        BY <4>1, <4>2 DEF Watching, Teams
      <4>4. r \in Duelists
        BY <4>3, WhoIsThere
      <4> QED BY <1>1, <2>1, <4>1, <4>2, <4>4
    <3> QED BY <3>2, <3>3
  <2>2. CASE board[c].loc # {"deck"}
    <3>1. ForAll(msg, r) = {c} /\ ForOne(msg, r) = {}
      BY <1>7, <1>8, <2>2, ToEveryone
    <3> QED BY <1>1, <2>2, <3>1
  <2> QED BY <2>1, <2>2
<1>10. BTypes /\ BoardShown
  BY DEF BInv
<1>11. /\ \A r \in Recipients : shown[r] \subseteq shown'[r]
       /\ shown' = [r \in Recipients |-> shown'[r]]
  BY <1>1
<1>12. /\ board' \in [Cards -> Spot] /\ \A d \in Cards : board'[d].pos \in PosIn(board'[d].loc)
       /\ \A r \in Recipients : Entitled(r, board') \subseteq shown'[r]
  BY <1>1, <1>10, <1>11 DEF BTypes, BoardShown
<1>13. msg.type # "RETRY"
  BY <1>6
<1> QED BY <1>1, <1>5, <1>9, <1>11, <1>12, <1>13, SaidInv

LEMMA AskInv ==
    ASSUME BInv, NEW team \in Teams, NEW cs \in SUBSET Cards, Ask(team, cs)
    PROVE  BInv'
<1> DEFINE cards == InARow(cs)
           msg == Message("SELECT_CARD", team, cards)
<1>1. SaysOnly(msg)
  BY DEF Ask
<1>2. /\ cards \in Seq(Entry)
      /\ \A i \in DOMAIN cards : \E c \in cs : cards[i].code = c /\ cards[i].con = board[c].con
  BY RowIs
<1> HIDE DEF cards
<1>3. msg \in Msgs
  BY <1>2, Typed DEF Spoken
<1>4. msg.type = "SELECT_CARD" /\ msg.team = team /\ msg.cards = cards
  BY CardsOf
<1> HIDE DEF msg
<1>5. GetMessageDistributionType(msg) = "duelist_stripped" /\ msg.type # "RETRY"
  BY <1>4 DEF GetMessageDistributionType, SelectCards, PlainQuestions
<1>6. \A i \in DOMAIN msg.cards, t \in Teams :
        ~ IsCleared(t, msg, msg.cards[i]) => t = msg.cards[i].con
  BY <1>4 DEF IsCleared, SelectCards
<1>7. Discreet(msg, board)
  BY <1>2, <1>4, <1>6 DEF Discreet
<1> QED BY <1>1, <1>3, <1>5, <1>7, SaidStrippedInv

LEMMA RetryInv ==
    ASSUME BInv, Retry
    PROVE  BInv'
<1> DEFINE msg == Message("RETRY", 0, <<>>)
<1>1. /\ batch = <<>> /\ batch' = <<msg>>
      /\ UNCHANGED <<board, shown, isTeam1GoingFirst, currentPos, request, revealed, repeated>>
  BY DEF Retry, table
<1>2. msg \in Msgs
  <2>1. <<>> \in Seq(Entry) /\ 0 \in Teams /\ "RETRY" \in Spoken
    BY DEF Teams, Spoken
  <2> QED BY <2>1, Typed
<1>3. msg.type = "RETRY" /\ msg.cards = <<>>
  BY CardsOf
<1> HIDE DEF msg
<1>4. /\ batch' \in Seq(Msgs) /\ DOMAIN batch' = {1} /\ batch'[1] = msg /\ DOMAIN batch = {}
  BY <1>1, <1>2
<1>5. Codes(msg) = {} /\ GetMessageDistributionType(msg) = "everyone"
  BY <1>3 DEF Codes, GetMessageDistributionType, SelectCards, PlainQuestions
<1>6. BTypes /\ BoardShown /\ NothingLeaks /\ KnownOrTold
  BY DEF BInv
<1>7. BTypes'
  BY <1>1, <1>3, <1>4, <1>6 DEF BTypes
<1>8. Safe'
  <2> SUFFICES ASSUME NEW i \in DOMAIN batch', NEW r \in Recipients
               PROVE  ForAll(batch[i], r)' = {} /\ ForOne(batch[i], r)' = {}
    BY DEF Safe
  <2>1. batch'[i] = msg
    BY <1>4
  <2> QED BY <1>5, <2>1 DEF ForAll, ForOne
<1>9. NotRelieved'
  BY <1>3, <1>4 DEF NotRelieved
<1>10. BoardShown' /\ NothingLeaks'
  BY <1>1, <1>6 DEF BoardShown, NothingLeaks, Entitled, MaySee, TeamInCore
<1>11. KnownOrTold'
  BY <1>1, <1>4, <1>6 DEF KnownOrTold
<1> QED BY <1>7, <1>8, <1>9, <1>10, <1>11 DEF BInv

-----------------------------------------------------------------------------
LEMMA RestOfBatch ==
    ASSUME batch \in Seq(Msgs), batch # <<>>
    PROVE  /\ Head(batch) = batch[1] /\ 1 \in DOMAIN batch /\ batch[1] \in Msgs
           /\ Tail(batch) \in Seq(Msgs)
           /\ \A i \in DOMAIN Tail(batch) :
                i \in Nat /\ i + 1 \in DOMAIN batch /\ Tail(batch)[i] = batch[i + 1]
           /\ \A j \in DOMAIN batch : j = 1 \/ \E i \in DOMAIN Tail(batch) : j = i + 1
           /\ \A j \in DOMAIN batch : j \in Nat /\ j >= 1
<1>1. /\ Len(batch) \in Nat /\ Len(batch) >= 1 /\ DOMAIN batch = 1..Len(batch)
      /\ Head(batch) = batch[1] /\ Tail(batch) \in Seq(Msgs)
  BY EmptySeq, HeadTailProperties
<1>2. /\ Len(Tail(batch)) = Len(batch) - 1 /\ DOMAIN Tail(batch) = 1..Len(batch) - 1
      /\ \A i \in 1..Len(batch) - 1 : Tail(batch)[i] = batch[i + 1]
  BY <1>1
<1>3. \A i \in 1..Len(batch) - 1 : i \in Nat /\ i + 1 \in 1..Len(batch)
  BY <1>1
<1>4. \A j \in 1..Len(batch) : j = 1 \/ \E i \in 1..Len(batch) - 1 : j = i + 1
  <2> SUFFICES ASSUME NEW j \in 1..Len(batch), j # 1
               PROVE  \E i \in 1..Len(batch) - 1 : j = i + 1
    OBVIOUS
  <2>1. j - 1 \in 1..Len(batch) - 1 /\ j = (j - 1) + 1
    BY <1>1
  <2> QED BY <2>1
<1>5. batch[1] \in Msgs /\ 1 \in DOMAIN batch
  BY <1>1
<1>6. \A j \in 1..Len(batch) : j \in Nat /\ j >= 1
  BY <1>1
<1>7. \A i \in DOMAIN Tail(batch) :
        i \in Nat /\ i + 1 \in DOMAIN batch /\ Tail(batch)[i] = batch[i + 1]
  BY <1>1, <1>2, <1>3
<1>8. \A j \in DOMAIN batch : j = 1 \/ \E i \in DOMAIN Tail(batch) : j = i + 1
  BY <1>1, <1>2, <1>4
<1> QED BY <1>1, <1>5, <1>6, <1>7, <1>8

\* A message is taken from the batch; it is enough to look at this one.
LEMMA TakenInv ==
    ASSUME BInv, batch # <<>>, NextMessage, DOMAIN currentPos' = Teams,
           currentPos' = currentPos \/
                \A i \in DOMAIN batch :
                    GetMessageDistributionType(batch[i]) # "duelist" \/ Codes(batch[i]) = {},
           revealed' = [r \in Recipients |-> revealed'[r]],
           repeated' = [r \in Recipients |-> repeated'[r]],
           \A r \in Recipients : revealed[r] \subseteq revealed'[r],
           \A r \in Recipients : revealed'[r] \subseteq shown[r] \cup repeated'[r],
           \A c \in Cards : OpenAt(board[c]) /\ Tells(batch[1], c) =>
                \A r \in Recipients : c \in revealed'[r]
    PROVE  BInv'
<1>1. batch' = Tail(batch) /\ UNCHANGED <<board, isTeam1GoingFirst, shown>>
  BY DEF NextMessage
<1>2. BTypes /\ Safe /\ NotRelieved /\ BoardShown /\ KnownOrTold
  BY DEF BInv
<1>3. batch \in Seq(Msgs)
  BY <1>2 DEF BTypes
<1>4. /\ 1 \in DOMAIN batch /\ batch[1] \in Msgs /\ batch' \in Seq(Msgs)
      /\ \A i \in DOMAIN batch' : i \in Nat /\ i + 1 \in DOMAIN batch /\ batch'[i] = batch[i + 1]
      /\ \A j \in DOMAIN batch : j = 1 \/ \E i \in DOMAIN batch' : j = i + 1
  BY <1>1, <1>3, RestOfBatch
<1>5. BTypes'
  BY <1>1, <1>2, <1>4 DEF BTypes
<1>6. Safe'
  <2> SUFFICES ASSUME NEW i \in DOMAIN batch', NEW r \in Recipients
               PROVE  (ForAll(batch[i], r) \cup ForOne(batch[i], r))' \subseteq shown'[r]
    BY DEF Safe
  <2>1. PICK m : m = batch'[i]
    OBVIOUS
  <2>2. i + 1 \in DOMAIN batch /\ m = batch[i + 1]
    BY <1>4, <2>1
  <2>3. /\ ForAll(m, r) \cup ForOne(m, r) \subseteq shown[r]
        /\ \/ currentPos' = currentPos
           \/ GetMessageDistributionType(m) # "duelist" \/ Codes(m) = {}
    BY <1>2, <2>2 DEF Safe
  <2>4. ForAll(m, r)' = ForAll(m, r) /\ ForOne(m, r)' = ForOne(m, r)
    BY <1>1, <2>3, ToldAsBefore
  <2>5. ForAll(batch[i], r)' = ForAll(m, r)
    BY <1>1, <2>1 DEF ForAll, Swapped
  <2>6. ForOne(batch[i], r)' = ForOne(m, r)
    <3>1. ForOne(batch[i], r)' =
            CASE GetMessageDistributionType(m) = "duelist_stripped" ->
                    IF r[1] = Swapped(m.team) THEN Codes(StripMessageForTeam(m.team, m)) ELSE {}
              [] GetMessageDistributionType(m) = "duelist" ->
                    IF r = <<Swapped(m.team), currentPos'[Swapped(m.team)]>> THEN Codes(m) ELSE {}
              [] OTHER -> {}
      BY <1>1, <2>1 DEF ForOne, Swapped, CurrentOf
    <3>2. ForOne(m, r)' =
            CASE GetMessageDistributionType(m) = "duelist_stripped" ->
                    IF r[1] = Swapped(m.team) THEN Codes(StripMessageForTeam(m.team, m)) ELSE {}
              [] GetMessageDistributionType(m) = "duelist" ->
                    IF r = <<Swapped(m.team), currentPos'[Swapped(m.team)]>> THEN Codes(m) ELSE {}
              [] OTHER -> {}
      BY <1>1 DEF ForOne, Swapped, CurrentOf
    <3> QED BY <2>4, <3>1, <3>2
  <2> QED BY <1>1, <2>3, <2>5, <2>6
<1>7. NotRelieved'
  <2> SUFFICES ASSUME NEW i \in DOMAIN batch', NEW j \in DOMAIN batch',
                      GetMessageDistributionType(batch'[i]) = "duelist", Codes(batch'[i]) # {},
                      batch'[j].type = "TAG_SWAP"
               PROVE  i < j
    BY DEF NotRelieved
  <2>1. /\ i \in Nat /\ i + 1 \in DOMAIN batch /\ batch'[i] = batch[i + 1]
        /\ j \in Nat /\ j + 1 \in DOMAIN batch /\ batch'[j] = batch[j + 1]
    BY <1>4
  <2>2. i + 1 < j + 1
    BY <1>2, <2>1 DEF NotRelieved
  <2> QED BY <2>1, <2>2
<1>8. BoardShown'
  BY <1>1, <1>2 DEF BoardShown, Entitled, MaySee, TeamInCore
<1>9. NothingLeaks'
  BY <1>1 DEF NothingLeaks
<1>10. KnownOrTold'
  <2> SUFFICES ASSUME NEW c \in Cards, OpenAt(board[c])
               PROVE  \/ \A r \in Recipients : c \in revealed'[r]
                      \/ \E i \in DOMAIN batch' : Tells(batch[i], c)'
    BY <1>1 DEF KnownOrTold, OpenAt
  <2>1. \/ \A r \in Recipients : c \in revealed[r]
        \/ \E j \in DOMAIN batch : Tells(batch[j], c)
    BY <1>2 DEF KnownOrTold
  <2>2. CASE \A r \in Recipients : c \in revealed[r]
    BY <2>2
  <2>3. CASE \E j \in DOMAIN batch : Tells(batch[j], c)
    <3>1. PICK j \in DOMAIN batch : Tells(batch[j], c)
      BY <2>3
    <3>2. CASE j = 1
      BY <3>1, <3>2
    <3>3. CASE j # 1
      <4>1. PICK i \in DOMAIN batch' : j = i + 1
        BY <1>4, <3>3
      <4>2. PICK m : m = batch[j]
        OBVIOUS
      <4>3. batch'[i] = m
        BY <1>4, <4>1, <4>2
      <4>4. Tells(m, c)
        BY <3>1, <4>2
      <4>5. Tells(batch[i], c)'
        BY <1>1, <4>3, <4>4 DEF Tells, ForAll, Swapped
      <4> QED BY <4>5
    <3> QED BY <3>2, <3>3
  <2> QED BY <2>1, <2>2, <2>3
<1> QED BY <1>5, <1>6, <1>7, <1>8, <1>9, <1>10 DEF BInv

\* After a grave has come from a deck, everybody is sent the cards in it.
LEMMA GravesAreTold ==
    ASSUME BInv, NEW msg \in Msgs, msg.type = "SWAP_GRAVE_DECK", NEW c \in Cards,
           board[c].loc = {"grave"}, board[c].pos = "faceup", board[c].con = msg.team,
           NEW r \in Recipients
    PROVE  c \in AllAnswered(GetPostDistQueryRequests(msg))[r]
<1> DEFINE req == QueryLocation(msg.team, "grave", PileFlags)
<1>1. GetPostDistQueryRequests(msg) = <<req>>
  BY DEF GetPostDistQueryRequests
<1>2. /\ req.con = msg.team /\ req.loc = {"grave"} /\ req.seqs = Nat /\ req.flags = PileFlags
  BY DEF QueryLocation
<1> HIDE DEF req
<1>3. board[c].seq \in Nat
  BY OnBoard, Constants
<1>4. c \in Queried(req)
  BY <1>2, <1>3 DEF Queried
<1>5. "CODE" \in PileFlags /\ "POSITION" \in PileFlags /\ "IS_HIDDEN" \notin PileFlags
  BY DEF PileFlags, FieldFlags
<1>6. IsPublic(Query(c, req.flags), "CODE")
  BY <1>2, <1>5 DEF IsPublic, Query
<1>7. \A stripped \in BOOLEAN : IsWritten(Query(c, req.flags), "CODE", stripped)
  BY <1>2, <1>5, <1>6 DEF IsWritten, Query
<1>8. \A stripped \in BOOLEAN : c \in Serialized(req, stripped)
  BY <1>4, <1>7 DEF Serialized
<1>9. Answered(req) = Both(To(TeamOf(Swapped(req.con)), Serialized(req, FALSE)),
                           To(Recipients \ TeamOf(Swapped(req.con)), Serialized(req, TRUE)))
  BY <1>2 DEF Answered
<1>10. c \in Answered(req)[r]
  BY <1>8, <1>9 DEF Both, To
<1>11. AllAnswered(<<req>>)[r] = UNION {Answered(<<req>>[i])[r] : i \in DOMAIN <<req>>}
  BY DEF AllAnswered
<1>12. 1 \in DOMAIN <<req>> /\ <<req>>[1] = req
  OBVIOUS
<1> QED BY <1>1, <1>10, <1>11, <1>12

LEMMA ProcessInv ==
    ASSUME BInv, ProcessSingleMsg
    PROVE  BInv'
<1>1. PICK msg : msg = Head(batch)
  OBVIOUS
<1> DEFINE pre == AllAnswered(GetPreDistQueryRequests(msg))
           post == AllAnswered(GetPostDistQueryRequests(msg))
           told == Distributed(msg)
<1>2. /\ batch # <<>> /\ msg.type # "RETRY" /\ NextMessage /\ Analyze(msg)
      /\ revealed' = Both(revealed, Both(pre, Both(told, post)))
      /\ repeated' = repeated
  BY <1>1 DEF ProcessSingleMsg, Reveals
<1>3. BTypes /\ Safe /\ NotRelieved /\ BoardShown /\ NothingLeaks
  BY DEF BInv
<1>4. /\ msg = batch[1] /\ 1 \in DOMAIN batch /\ msg \in Msgs
      /\ \A j \in DOMAIN batch : j \in Nat /\ j >= 1
  BY <1>1, <1>2, <1>3, RestOfBatch DEF BTypes
<1> HIDE DEF pre, post, told
<1>5. /\ revealed' = [r \in Recipients |-> revealed'[r]]
      /\ \A r \in Recipients : revealed'[r] = revealed[r] \cup (pre[r] \cup (told[r] \cup post[r]))
  BY <1>2 DEF Both
<1>6. /\ msg.type = "TAG_SWAP" \/ currentPos' = currentPos
      /\ DOMAIN currentPos' = Teams
  BY <1>2, <1>3 DEF Analyze, BTypes
<1>7. \/ currentPos' = currentPos
      \/ \A i \in DOMAIN batch :
            GetMessageDistributionType(batch[i]) # "duelist" \/ Codes(batch[i]) = {}
  <2> SUFFICES ASSUME msg.type = "TAG_SWAP", NEW i \in DOMAIN batch,
                      GetMessageDistributionType(batch[i]) = "duelist", Codes(batch[i]) # {}
               PROVE  FALSE
    BY <1>6
  <2>1. i < 1
    BY <1>3, <1>4 DEF NotRelieved
  <2> QED BY <1>4, <2>1
<1>8. \A r \in Recipients : told[r] \subseteq shown[r] /\ ForAll(msg, r) \subseteq told[r]
  <2> SUFFICES ASSUME NEW r \in Recipients
               PROVE  told[r] \subseteq shown[r] /\ ForAll(msg, r) \subseteq told[r]
    OBVIOUS
  <2>1. \/ currentPos' = currentPos
        \/ GetMessageDistributionType(msg) # "duelist" \/ Codes(msg) = {}
    BY <1>4, <1>7
  <2>2. isTeam1GoingFirst \in {0, 1}
    BY <1>3 DEF BTypes
  <2>3. told[r] \subseteq ForAll(msg, r) \cup ForOne(msg, r) /\ ForAll(msg, r) \subseteq told[r]
    BY <1>4, <2>1, <2>2, DistributedIs DEF told
  <2>4. ForAll(msg, r) \cup ForOne(msg, r) \subseteq shown[r]
    BY <1>3, <1>4 DEF Safe
  <2> QED BY <2>3, <2>4
<1>9. \A r \in Recipients : pre[r] \subseteq shown[r] /\ post[r] \subseteq shown[r]
  BY <1>3, AllAnswersAreSafe DEF BoardShown, pre, post
<1>10. \A r \in Recipients : revealed'[r] \subseteq shown[r] \cup repeated'[r]
  <2> SUFFICES ASSUME NEW r \in Recipients
               PROVE  revealed'[r] \subseteq shown[r] \cup repeated'[r]
    OBVIOUS
  <2>1. revealed[r] \subseteq shown[r] \cup repeated[r]
    BY <1>3 DEF NothingLeaks
  <2> QED BY <1>2, <1>5, <1>8, <1>9, <2>1
<1>11. ASSUME NEW c \in Cards, Tells(batch[1], c), NEW r \in Recipients
       PROVE  c \in revealed'[r]
  <2>1. CASE c \in ForAll(msg, r)
    BY <1>5, <1>8, <2>1
  <2>2. CASE /\ msg.type = "SWAP_GRAVE_DECK" /\ board[c].loc = {"grave"}
             /\ board[c].pos = "faceup" /\ msg.team = board[c].con
    <3>1. c \in post[r]
      BY <1>4, <2>2, GravesAreTold DEF post
    <3> QED BY <1>5, <3>1
  <2> QED BY <1>4, <1>11, <2>1, <2>2 DEF Tells
<1>12. \A r \in Recipients : revealed[r] \subseteq revealed'[r]
  BY <1>5
<1>13. repeated' = [r \in Recipients |-> repeated'[r]]
  BY <1>2, <1>3 DEF BTypes
<1> QED BY <1>2, <1>5, <1>6, <1>7, <1>10, <1>11, <1>12, <1>13, TakenInv

LEMMA RepeatInv ==
    ASSUME BInv, RepeatQuestion
    PROVE  BInv'
<1> DEFINE again == To({request.replier}, request.codes)
<1>1. /\ batch # <<>> /\ Head(batch).type = "RETRY" /\ NextMessage
      /\ revealed' = Both(revealed, again) /\ repeated' = Both(repeated, again)
      /\ currentPos' = currentPos
  BY DEF RepeatQuestion, Reveals, table
<1> HIDE DEF again
<1>2. BTypes /\ NothingLeaks
  BY DEF BInv
<1>3. PICK msg : msg = batch[1]
  OBVIOUS
<1>4. msg \in Msgs /\ msg.type = "RETRY" /\ msg.cards = <<>>
  <2>1. batch \in Seq(Msgs)
    BY <1>2 DEF BTypes
  <2>2. Head(batch) = batch[1] /\ 1 \in DOMAIN batch /\ batch[1] \in Msgs
    BY <1>1, <2>1, RestOfBatch
  <2> QED BY <1>1, <1>2, <1>3, <2>2 DEF BTypes
<1>5. Codes(msg) = {} /\ GetMessageDistributionType(msg) = "everyone"
  BY <1>4 DEF Codes, GetMessageDistributionType, SelectCards, PlainQuestions
<1>6. \A c \in Cards : ~ Tells(batch[1], c)
  BY <1>3, <1>4, <1>5, WhoIsThere DEF Tells, ForAll
<1>7. /\ revealed' = [r \in Recipients |-> revealed'[r]]
      /\ repeated' = [r \in Recipients |-> repeated'[r]]
      /\ \A r \in Recipients : revealed'[r] = revealed[r] \cup again[r]
      /\ \A r \in Recipients : repeated'[r] = repeated[r] \cup again[r]
  BY <1>1 DEF Both
<1>8. \A r \in Recipients : revealed'[r] \subseteq shown[r] \cup repeated'[r]
  BY <1>2, <1>7 DEF NothingLeaks
<1>9. DOMAIN currentPos' = Teams
  BY <1>1, <1>2 DEF BTypes
<1> QED BY <1>1, <1>6, <1>7, <1>8, <1>9, TakenInv

-----------------------------------------------------------------------------
LEMMA InitInv ==
    ASSUME Init
    PROVE  BInv
<1>1. /\ board \in [Cards -> {w \in Where : Start(w)}] /\ batch = <<>>
      /\ isTeam1GoingFirst \in Starts /\ DOMAIN currentPos = Teams
      /\ revealed = [r \in Recipients |->
            {c \in Cards : r \in Duelists /\ board[c].con = TeamInCore(r[1])
                           /\ board[c].loc = {"extra"}}]
      /\ shown = [r \in Recipients |-> Entitled(r, board)]
      /\ repeated = Nothing
  BY DEF Init
<1>2. Where \subseteq Spot
  BY DEF Where, Spot, Locs
<1>3. \A c \in Cards : /\ board[c] \in Spot /\ board[c].pos = "facedown"
                       /\ board[c].loc \in {{"deck"}, {"extra"}}
  BY <1>1, <1>2 DEF Start
<1>4. \A c \in Cards : board[c].pos \in PosIn(board[c].loc) /\ ~ OpenAt(board[c])
  <2> SUFFICES ASSUME NEW c \in Cards
               PROVE  board[c].pos \in PosIn(board[c].loc) /\ ~ OpenAt(board[c])
    OBVIOUS
  <2>1. CASE board[c].loc = {"deck"}
    BY <1>3, <2>1 DEF PosIn, OpenAt
  <2>2. CASE board[c].loc = {"extra"}
    BY <1>3, <2>2 DEF PosIn, OpenAt
  <2> QED BY <1>3, <2>1, <2>2
<1>5. batch \in Seq(Msgs) /\ DOMAIN batch = {}
  BY <1>1
<1>6. BTypes
  <2>1. board \in [Cards -> Spot]
    BY <1>1, <1>3
  <2>2. isTeam1GoingFirst \in {0, 1}
    BY <1>1, Constants
  <2>3. repeated = [r \in Recipients |-> repeated[r]]
    BY <1>1 DEF Nothing
  <2>4. revealed = [r \in Recipients |-> revealed[r]] /\ shown = [r \in Recipients |-> shown[r]]
    BY <1>1
  <2> QED BY <1>1, <1>4, <1>5, <2>1, <2>2, <2>3, <2>4 DEF BTypes
<1>7. Safe /\ NotRelieved
  BY <1>5 DEF Safe, NotRelieved
<1>8. BoardShown
  BY <1>1 DEF BoardShown
<1>9. NothingLeaks
  BY <1>1 DEF NothingLeaks, Entitled, MaySee
<1>10. KnownOrTold
  BY <1>4 DEF KnownOrTold
<1> QED BY <1>6, <1>7, <1>8, <1>9, <1>10 DEF BInv

LEMMA StutterInv ==
    ASSUME BInv, UNCHANGED vars
    PROVE  BInv'
<1>1. UNCHANGED <<board, batch, isTeam1GoingFirst, currentPos, revealed, shown, repeated>>
  BY DEF vars, core, table
<1> QED BY <1>1 DEF BInv, BTypes, Safe, NotRelieved, BoardShown, NothingLeaks, KnownOrTold, Tells,
           ForAll, ForOne, Swapped, CurrentOf, Entitled, MaySee, TeamInCore

LEMMA StepInv ==
    ASSUME BInv, [Next]_vars
    PROVE  BInv'
<1>1. ASSUME NEW c \in Cards, NEW to \in Where, Move(c, to) PROVE BInv'
  BY <1>1, MoveInv
<1>2. ASSUME NEW c \in Cards, NEW seq \in Seqs, Draw(c, seq) \/ Exchange(c, seq) PROVE BInv'
  BY <1>2, DrawInv, ExchangeInv
<1>3. ASSUME NEW c \in Cards, Turn(c) \/ FlipSummon(c) \/ Reveal(c) PROVE BInv'
  BY <1>3, TurnInv, FlipSummonInv, RevealInv
<1>4. ASSUME NEW team \in Teams, SwapGraveDeck(team) PROVE BInv'
  BY <1>4, SwapGraveDeckInv
<1>5. ASSUME NEW con \in {0, 1}, NEW loc \in Places, NEW seq \in Seqs, MoveOther(con, loc, seq)
      PROVE  BInv'
  BY <1>5, MoveOtherInv DEF Teams
<1>6. ASSUME NEW c \in Cards, Set(c) \/ SpSummon(c) PROVE BInv'
  BY <1>6, AnnounceInv DEF Set, SpSummon
<1>7. ASSUME NEW team \in Teams, NEW bit \in {"hand", "extra"}, Shuffle(team, bit) PROVE BInv'
  BY <1>7, ShuffleInv
<1>8. ASSUME NEW team \in Teams, SwapTag(team) PROVE BInv'
  BY <1>8, SwapTagInv
<1>9. ASSUME NEW type \in RefreshTypes, Refresh(type) PROVE BInv'
  BY <1>9, RefreshInv
<1>10. ASSUME NEW team \in Teams, NEW c \in Cards, Confirm(team, c) PROVE BInv'
  BY <1>10, ConfirmInv
<1>11. ASSUME NEW team \in Teams, NEW cs \in (SUBSET Cards) \ {{}}, Ask(team, cs) PROVE BInv'
  BY <1>11, AskInv
<1>12. CASE Moves
  BY <1>1, <1>2, <1>3, <1>4, <1>12 DEF Moves
<1>13. CASE Announcements
  BY <1>5, <1>6, <1>7, <1>8, <1>9, <1>10, <1>11, <1>13, RetryInv DEF Announcements
<1>14. CASE ProcessSingleMsg \/ RepeatQuestion
  BY <1>14, ProcessInv, RepeatInv
<1>15. CASE UNCHANGED vars
  BY <1>15, StutterInv
<1> QED BY <1>12, <1>13, <1>14, <1>15 DEF Next

\* Through any duel, however long its batches are: what is left to be distributed
\* is safe to tell, cards are shown to a duelist before he is relieved, and open
\* cards are known to all or told in what is left.
THEOREM BroadcastInvariance == Spec => []BInv
<1>1. Init => BInv
  BY InitInv
<1>2. BInv /\ [Next]_vars => BInv'
  BY StepInv
<1> QED BY <1>1, <1>2, PTL DEF Spec

\* Nobody is sent the code of a card without having been entitled to see the card,
\* except in a question that is asked again: DistributeMsg strips what it has to,
\* and ProcessQueryRequests keeps back what is not public, although the core has
\* run ahead of the messages.
THEOREM NoLeaks == Spec => []NothingLeaks
<1>1. BInv => NothingLeaks
  BY DEF BInv
<1> QED BY <1>1, BroadcastInvariance, PTL

\* When the messages of a batch are processed, everybody has been sent every card
\* that lies open on the field or in a grave: stripping never takes out the code of
\* a card that has come to lie open, and SWAP_GRAVE_DECK, which names no card, is
\* followed by a query for the grave.
THEOREM OpenCardsAreKnown == Spec => []OpenCardsKnown
<1>1. BInv => OpenCardsKnown
  <2> SUFFICES ASSUME BInv, batch = <<>>, NEW r \in Recipients, NEW c \in Cards,
                      \/ /\ board[c].pos = "faceup"
                         /\ board[c].loc \in {{"mzone"}, {"szone"}, {"removed"}, {"grave"}}
                      \/ "overlay" \in board[c].loc
               PROVE  c \in revealed[r]
    BY DEF OpenCardsKnown
  <2>1. OpenAt(board[c]) /\ KnownOrTold /\ DOMAIN batch = {}
    BY DEF OpenAt, BInv
  <2> QED BY <2>1 DEF KnownOrTold
<1> QED BY <1>1, BroadcastInvariance, PTL

=============================================================================
