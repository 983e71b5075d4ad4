------------------------------- MODULE Replay -------------------------------
(***************************************************************************)
(* The replay of a duel, as it is recorded and written.  A replay is two   *)
(* files in one: YRPX, the messages of the core in their order, whose last *)
(* message is YRP, from which the duel can be played again: decks, extra   *)
(* cards and the answers that were given.                                  *)
(*                                                                         *)
(* The headers' constant fields and the compression of YRPX are left out,  *)
(* names, codes and the contents of messages are whatever they are.        *)
(***************************************************************************)
EXTENDS Wire
LOCAL INSTANCE SequencesExt

Teams == {0, 1}

-----------------------------------------------------------------------------
(***************************************************************************)
(* Recording.                                                              *)
(***************************************************************************)
\* Questions, and hints for one player, are not recorded.
Useless(msg) ==
    \/ msg.type = "HINT" /\ msg.kind \in {1, 2, 3, 5}
    \/ msg.type \in
        {"SELECT_BATTLECMD", "SELECT_IDLECMD", "SELECT_EFFECTYN", "SELECT_YESNO",
         "SELECT_OPTION", "SELECT_CHAIN", "SELECT_PLACE", "SELECT_DISFIELD",
         "SELECT_POSITION", "SELECT_COUNTER", "SELECT_SUM", "SORT_CARD", "SORT_CHAIN",
         "ROCK_PAPER_SCISSORS", "ANNOUNCE_RACE", "ANNOUNCE_ATTRIB", "ANNOUNCE_CARD",
         "ANNOUNCE_NUMBER", "SELECT_CARD", "SELECT_TRIBUTE", "SELECT_UNSELECT_CARD"}

RecordMsg(messages, msg) == IF Useless(msg) THEN messages ELSE Append(messages, msg)

\* Teams are by the numbers of the core.  A lineup is how many duelists each team
\* has and who of each is first in turn (currentPos).  The core numbers the duelists
\* of a team from that one on.
\* Mutation: the numbers do not wrap around.
NumberedOn(lineup, t, pos) ==
    pos + IF lineup[t].currentPos = 0 THEN 0 ELSE 1

CoreDuelist(lineup, t, pos) ==
    (pos + IF lineup[t].currentPos = 0 THEN 0 ELSE 1) % lineup[t].count

\* What AddDuelist has in the map of a team when every seat has been added: the
\* deck of the seat the core has under the number, the name of the seat that has
\* the number for its place.
Duelists(lineup, t) ==
    LET seats == 0..lineup[t].count - 1 IN
    [n \in {CoreDuelist(lineup, t, pos) : pos \in seats} |->
        [name |-> <<"name", t, n>>,
         deck |-> <<"deck", t, CHOOSE pos \in seats : CoreDuelist(lineup, t, pos) = n>>]]

-----------------------------------------------------------------------------
(***************************************************************************)
(* Writing.                                                                *)
(***************************************************************************)
\* The map of a team, in its order.
InOrder(map) == LET keys == SetToSortSeq(DOMAIN map, <) IN [i \in DOMAIN keys |-> map[keys[i]]]

WriteDuelists(r) ==
    ForEach(<<0, 1>>, LAMBDA t :
        LET ds == InOrder(r.duelists[t])
        IN  UInt32(Len(ds)) \o ForEach(ds, LAMBDA d : Field(40, d.name)))

WriteCodeVector(codes) == UInt32(Len(codes)) \o ForEach(codes, UInt32)

WriteDecks(d) == WriteCodeVector(d.main) \o WriteCodeVector(d.extra)

WriteResponse(response) == UInt8(response.size) \o Data(response)

EveryDuelist(r) == InOrder(r.duelists[0]) \o InOrder(r.duelists[1])

YRPPastHeaderSize(r) ==
    8 + 8 + 12
    + SumOf(EveryDuelist(r), LAMBDA d : 40 + 8 + 4 * Len(r.deckOf[d.deck].main)
                                               + 4 * Len(r.deckOf[d.deck].extra))
    + 4 + 4 * Len(r.extraCards)
    + SumOf(r.responses, LAMBDA response : response.size + 1)

YRPXPastHeaderSize(r, messages) ==
    8 + 8 + 40 * Len(EveryDuelist(r)) + SumOf(messages, LAMBDA msg : msg.size + 4)

ExtendedReplayHeader == 72

Past(r) ==
    WriteDuelists(r)
    \o UInt32(r.options.lp) \o UInt32(r.options.draws) \o UInt32(r.options.perTurn)
    \o UInt64(r.options.flags)
    \o ForEach(EveryDuelist(r), LAMBDA d : WriteDecks(r.deckOf[d.deck]))
    \o WriteCodeVector(r.extraCards)
    \o ForEach(r.responses, WriteResponse)

\* YRP as a message of the core.
OldReplay(r) ==
    LET past == Past(r)
    IN  [type |-> "OLD_REPLAY", size |-> 1 + ExtendedReplayHeader + YRPPastHeaderSize(r),
         fields |-> Field(ExtendedReplayHeader, YRPPastHeaderSize(r)) \o past]

WriteMessage(msg) ==
    Field(1, msg.type) \o UInt32(msg.size - 1) \o Data([msg EXCEPT !.size = msg.size - 1])

\* What is compressed and written: all messages, the YRP one last.  It is taken
\* from the list again afterwards.
Serialize(r) ==
    LET messages == Append(r.messages, OldReplay(r))
    IN  [size |-> YRPXPastHeaderSize(r, messages),
         fields |-> WriteDuelists(r) \o UInt64(r.options.flags)
                    \o ForEach(messages, WriteMessage)]

-----------------------------------------------------------------------------
(***************************************************************************)
(* Sending.  The length of a message to a client has two bytes and counts  *)
(* its type.                                                               *)
(***************************************************************************)
MAX_PAYLOAD_SIZE == 65535 - 2 - 1

STOCMsg(size) == [length |-> (1 + size) % 65536, size |-> size]

SendReplay(size) ==
    IF size > MAX_PAYLOAD_SIZE THEN {} ELSE {STOCMsg(size)}

-----------------------------------------------------------------------------
(***************************************************************************)
(* Reading, by the formats at the top of Replay.cpp.  A reader of the      *)
(* format takes so many fields as the counts before them say.              *)
(***************************************************************************)
Values(fields, from, n) == [i \in 1..n |-> fields[from + i - 1].is]

\* One counted vector from the front of the fields.
Vector(fields) == Values(fields, 2, fields[1].is)
PastVector(fields) == Rest(fields, 1 + fields[1].is)

ReadNames(fields) == <<Vector(fields), Vector(PastVector(fields))>>
PastNames(fields) == PastVector(PastVector(fields))

RECURSIVE PastDecks(_, _), ReadDecks(_, _), ReadData(_)
PastDecks(fields, n) ==
    IF n = 0 THEN fields ELSE PastDecks(PastVector(PastVector(fields)), n - 1)
ReadDecks(fields, n) ==
    IF n = 0 THEN <<>>
    ELSE <<[main |-> Vector(fields), extra |-> Vector(PastVector(fields))]>>
         \o ReadDecks(PastVector(PastVector(fields)), n - 1)

\* A length and as many bytes; where the length is not that of what was written
\* the reader is lost.
ReadData(fields) ==
    IF fields = <<>> THEN <<>>
    ELSE IF fields[1].is # fields[2].bytes THEN <<"lost">>
    ELSE <<fields[2].is>> \o ReadData(Rest(fields, 2))

ReadYRP(fields) ==
    LET names == ReadNames(fields)
        options == PastNames(fields)
        duelistCount == Len(names[1]) + Len(names[2])
        extra == PastDecks(Rest(options, 4), duelistCount)
    IN  [names |-> names, options |-> Values(options, 1, 4),
         decks |-> ReadDecks(Rest(options, 4), duelistCount),
         extraCards |-> Vector(extra), responses |-> ReadData(PastVector(extra))]

RECURSIVE ReadMessages(_)
ReadMessages(fields) ==
    IF fields = <<>> THEN <<>>
    ELSE IF fields[2].is # fields[3].bytes THEN <<"lost">>
    ELSE <<[fields[3].is EXCEPT !.size = @ + 1]>> \o ReadMessages(Rest(fields, 3))

ReadYRPX(fields) ==
    [names |-> ReadNames(fields), flags |-> PastNames(fields)[1].is,
     messages |-> ReadMessages(Rest(PastNames(fields), 1))]
=============================================================================
