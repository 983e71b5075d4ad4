------------------------------ MODULE CoreUtils ------------------------------
(***************************************************************************)
(* What the server knows of the messages of the core: who is to get one,   *)
(* which card codes have to be taken out of it for whom, which queries it  *)
(* calls for, and what of a queried card is kept back.                     *)
(*                                                                         *)
(* A message is its type, the team it names (by the core's numbers), the   *)
(* kind of a hint, and the cards it names in places the functions look at; *)
(* a card in a message is its code and what the message says of its place. *)
(* A location is the set of its LOCATION_ bits and a position is face up   *)
(* or down, or neither for no place at all.  Everything else a message     *)
(* carries passes through as it is and is left out.                        *)
(***************************************************************************)
EXTENDS Naturals, Sequences

NoCode == 0     \* the code that is written over one that is taken out

Positions == {"faceup", "facedown", "none"}

SelectCards == {"SELECT_CARD", "SELECT_TRIBUTE", "SELECT_UNSELECT_CARD"}

PlainQuestions ==
    {"SELECT_BATTLECMD", "SELECT_IDLECMD", "SELECT_EFFECTYN", "SELECT_YESNO",
     "SELECT_OPTION", "SELECT_CHAIN", "SELECT_PLACE", "SELECT_DISFIELD",
     "SELECT_POSITION", "SORT_CARD", "SORT_CHAIN", "SELECT_COUNTER", "SELECT_SUM",
     "ROCK_PAPER_SCISSORS", "ANNOUNCE_RACE", "ANNOUNCE_ATTRIB", "ANNOUNCE_CARD",
     "ANNOUNCE_NUMBER", "ANNOUNCE_CARD_FILTER"}

DoesMessageRequireAnswer(type) == type \in SelectCards \cup PlainQuestions

-----------------------------------------------------------------------------
(***************************************************************************)
(* Distribution.                                                           *)
(***************************************************************************)
HintDistribution(kind) ==
    CASE kind \in {1, 2, 3, 5}          -> "duelist"
      [] kind = 200                     -> "team"
      [] kind \in {4, 6, 7, 8, 9, 11}   -> "everyone_but_duelist"
      [] OTHER                          -> "everyone"

GetMessageDistributionType(msg) ==
    CASE msg.type \in SelectCards                        -> "duelist_stripped"
      [] msg.type \in PlainQuestions \cup {"MISSED_EFFECT"} -> "duelist"
      [] msg.type = "HINT"                               -> HintDistribution(msg.kind)
      [] /\ msg.type = "CONFIRM_CARDS"
         /\ msg.cards # <<>> /\ msg.cards[1].loc = {"deck"} -> "duelist"
      [] msg.type \in {"SHUFFLE_HAND", "SHUFFLE_EXTRA", "SET", "MOVE", "SPSUMMONING",
                       "DRAW", "TAG_SWAP"}               -> "everyone_stripped"
      [] OTHER                                           -> "everyone"

IsLocInfoPublic(info) ==
    \/ /\ info.loc \cap {"grave", "overlay"} # {}
       /\ info.loc \cap {"deck", "hand"} = {}
    \/ info.pos # "facedown"

\* The code of a card is written over in the copy of a message for a team.
IsCleared(team, msg, info) ==
    \/ msg.type = "SET"
    \/ msg.type \in {"SHUFFLE_HAND", "SHUFFLE_EXTRA"} /\ msg.team # team
    \/ msg.type = "MOVE" /\ info.con # team /\ ~ IsLocInfoPublic(info)
    \/ msg.type = "SPSUMMONING" /\ info.con # team /\ info.pos = "facedown"
    \/ msg.type \in {"DRAW", "TAG_SWAP"} /\ msg.team # team /\ info.pos # "faceup"
    \/ msg.type \in SelectCards /\ info.con # team

StripMessageForTeam(team, msg) ==
    [msg EXCEPT !.cards =
        [i \in DOMAIN msg.cards |->
            IF IsCleared(team, msg, msg.cards[i])
            THEN [msg.cards[i] EXCEPT !.code = NoCode] ELSE msg.cards[i]]]

-----------------------------------------------------------------------------
(***************************************************************************)
(* Queries.  A request is for the card at a place or for a whole location; *)
(* of its flags, those that decide what is shown.                          *)
(***************************************************************************)
\* The flags of the requests: all ask for the code, the position and whether the
\* card is public; those for extra decks and graves not for QUERY_IS_HIDDEN.
FieldFlags == {"CODE", "POSITION", "IS_PUBLIC", "IS_HIDDEN"}
PileFlags == FieldFlags \ {"IS_HIDDEN"}

QuerySingle(info) ==
    [con |-> info.con, loc |-> info.loc, seqs |-> {info.seq}, flags |-> FieldFlags]
QueryLocation(con, bit, flags) ==
    [con |-> con, loc |-> {bit}, seqs |-> Nat, flags |-> flags]

RefreshAll(bit) == <<QueryLocation(0, bit, FieldFlags), QueryLocation(1, bit, FieldFlags)>>
RefreshField == RefreshAll("mzone") \o RefreshAll("szone")

GetPreDistQueryRequests(msg) ==
    CASE msg.type \in {"SELECT_BATTLECMD", "SELECT_IDLECMD"} -> RefreshAll("hand") \o RefreshField
      [] msg.type \in {"SELECT_CHAIN", "NEW_TURN"} -> RefreshField
      [] msg.type = "FLIPSUMMONING" -> <<QuerySingle(msg.cards[1])>>
      [] OTHER -> <<>>

\* The card has come to another player or location that is no overlay.
HasMoved(msg) ==
    LET previous == msg.from  current == msg.cards[1] IN
    /\ previous.con # current.con \/ previous.loc # current.loc
    /\ current.loc # {} /\ "overlay" \notin current.loc

GetPostDistQueryRequests(msg) ==
    CASE msg.type \in {"SHUFFLE_HAND", "DRAW"} -> <<QueryLocation(msg.team, "hand", FieldFlags)>>
      [] msg.type = "SHUFFLE_EXTRA" -> <<QueryLocation(msg.team, "extra", PileFlags)>>
      [] msg.type = "SWAP_GRAVE_DECK" -> <<QueryLocation(msg.team, "grave", PileFlags)>>
      [] msg.type = "REVERSE_DECK" -> RefreshAll("deck")
      [] msg.type = "SHUFFLE_SET_CARD" -> RefreshAll(CHOOSE bit \in msg.cards[1].loc : TRUE)
      [] msg.type \in {"DAMAGE_STEP_START", "DAMAGE_STEP_END"} -> RefreshAll("mzone")
      [] msg.type \in {"SUMMONED", "SPSUMMONED", "FLIPSUMMONED"} -> RefreshField
      [] msg.type \in {"NEW_PHASE", "CHAINED"} -> RefreshField \o RefreshAll("hand")
      [] msg.type = "CHAIN_END" -> RefreshAll("deck") \o RefreshField \o RefreshAll("hand")
      [] msg.type = "MOVE" -> IF HasMoved(msg) THEN <<QuerySingle(msg.cards[1])>> ELSE <<>>
      [] msg.type = "POS_CHANGE" ->
            IF msg.from.pos = "facedown" /\ msg.cards[1].pos = "faceup"
            THEN <<QuerySingle(msg.cards[1])>> ELSE <<>>
      [] msg.type = "SWAP" -> <<QuerySingle(msg.cards[1]), QuerySingle(msg.cards[2])>>
      [] msg.type = "TAG_SWAP" ->
            <<QueryLocation(msg.team, "deck", FieldFlags),
              QueryLocation(msg.team, "extra", PileFlags),
              QueryLocation(msg.team, "hand", FieldFlags)>> \o RefreshField
      [] msg.type = "RELOAD_FIELD" ->
            <<QueryLocation(0, "extra", PileFlags), QueryLocation(1, "extra", PileFlags)>>
      [] OTHER -> <<>>

\* The fields of a query that are kept back if the card is not public.
Private == {"CODE", "ALIAS", "TYPE", "LEVEL", "RANK", "ATTRIBUTE", "RACE", "ATTACK",
            "DEFENSE", "BASE_ATTACK", "BASE_DEFENSE", "STATUS", "LSCALE", "RSCALE", "LINK"}

\* Mutation: only an effect makes a card public.
IsRevealed(q, field) == ("IS_PUBLIC" \in q.flags /\ q.isPublic) \/ field \notin Private

IsPublic(q, field) ==
    \/ "IS_PUBLIC" \in q.flags /\ q.isPublic
    \/ "POSITION" \in q.flags /\ q.pos = "faceup"
    \/ field \notin Private

\* SerializeSingleQuery writes a field of the query, which asked for it.
IsWritten(q, field, stripped) ==
    /\ field \in q.flags
    /\ ~ ("IS_HIDDEN" \in q.flags /\ q.isHidden /\ ~ IsPublic(q, field))
    /\ ~ (stripped /\ ~ IsPublic(q, field))

=============================================================================
