------------------------------- MODULE Queries -------------------------------
(***************************************************************************)
(* The buffers of the core, how the server takes them apart, and those it  *)
(* makes of them for the clients: messages, and queries of cards.          *)
(*                                                                         *)
(* A query is the set of the fields it has and their values: the position, *)
(* whether the card is public or hidden by name, the others in is.  A      *)
(* query that was not answered, of a place without a card, has no fields;  *)
(* every other one has at least QUERY_END.                                 *)
(***************************************************************************)
EXTENDS CoreUtils, Wire

\* The flags from the lowest bit to the highest.
Order == <<"CODE", "POSITION", "ALIAS", "TYPE", "LEVEL", "RANK", "ATTRIBUTE", "RACE",
           "ATTACK", "DEFENSE", "BASE_ATTACK", "BASE_DEFENSE", "REASON", "REASON_CARD",
           "EQUIP_CARD", "TARGET_CARD", "OVERLAY_CARD", "COUNTERS", "OWNER", "STATUS",
           "IS_PUBLIC", "LSCALE", "RSCALE", "LINK", "IS_HIDDEN", "COVER", "END">>

Lists == {"TARGET_CARD", "OVERLAY_CARD", "COUNTERS"}
NoQuery == [flags |-> {}, pos |-> "none", isPublic |-> FALSE, isHidden |-> FALSE, is |-> <<>>]

ValueOf(q, flag) ==
    CASE flag = "POSITION"  -> q.pos
      [] flag = "IS_PUBLIC" -> q.isPublic
      [] flag = "IS_HIDDEN" -> q.isHidden
      [] OTHER              -> q.is[flag]

-----------------------------------------------------------------------------
(***************************************************************************)
(* Messages of the core.                                                   *)
(***************************************************************************)
\* Messages come one after the other, each after its length.  The fields of a
\* buffer are a length and the message, again and again.
SplitToMsgs(buffer) ==
    [i \in 1..(Len(buffer) \div 2) |->
        IF buffer[2 * i - 1].is = buffer[2 * i].bytes THEN buffer[2 * i].is ELSE "lost"]

\* A message here is its bytes.
GetMessageType(msg) == msg[1]
GetMessageReceivingTeam(msg) == IF GetMessageType(msg) = "HINT" THEN msg[3] ELSE msg[2]

MakeStartMsg(info) ==
    Field(1, "START") \o UInt8(0) \o UInt32(info.lp) \o UInt32(info.lp)
    \o UInt16(info.t0DSz) \o UInt16(info.t0EdSz)
    \o UInt16(info.t1DSz) \o UInt16(info.t1EdSz)

MakeUpdateCardMsg(con, loc, seq, qb) ==
    Field(1, "UPDATE_CARD") \o UInt8(con) \o UInt8(loc) \o UInt8(seq) \o qb
MakeUpdateDataMsg(con, loc, qb) ==
    Field(1, "UPDATE_DATA") \o UInt8(con) \o UInt8(loc) \o qb

-----------------------------------------------------------------------------
(***************************************************************************)
(* The members of Query and how wide their types are.                      *)
(***************************************************************************)
Widths(flag) ==
    CASE flag \in {"OWNER", "IS_PUBLIC", "IS_HIDDEN"}    -> <<1>>
      [] flag = "RACE"                                   -> <<8>>
      [] flag = "LINK"                                   -> <<4, 4>>
      [] flag \in {"REASON_CARD", "EQUIP_CARD"}          -> <<1, 1, 4, 4>>
      [] flag = "END"                                    -> <<>>
      [] OTHER                                           -> <<4>>

\* The bytes that are counted for a field.  An element of targets is counted as
\* it is in memory.
\* Mutation: races are counted as they were when 32 bits held them.
OldRaces(q, flag) == SumOf(Widths(IF flag = "RACE" THEN "CODE" ELSE flag), LAMBDA w : w)

ComputeQuerySize(q, flag) ==
    IF flag \in Lists
    THEN 4 + Len(q.is[flag]) * (IF flag = "TARGET_CARD" THEN 12 ELSE 4)
    ELSE SumOf(Widths(flag), LAMBDA w : w)

\* The bytes that are written for it, a field for each member.
Insert(q, flag) ==
    IF flag \in Lists
    THEN UInt16(Len(q.is[flag]))
         \o ForEach(q.is[flag],
                    LAMBDA elem : Field(IF flag = "TARGET_CARD" THEN 10 ELSE 4, elem))
    ELSE ForEach([i \in DOMAIN Widths(flag) |-> i],
                 LAMBDA i : Field(Widths(flag)[i], ValueOf(q, flag)))

\* The fields of a query that are to be in a buffer: reasons and equipped cards
\* that are nowhere are none.
IsInserted(q, stripped, flag) ==
    /\ IsWritten(q, flag, stripped)
    /\ ~ (flag \in {"REASON_CARD", "EQUIP_CARD"} /\ q.is[flag] = "nowhere")

FlagsOf(q, stripped) == SelectSeq(Order, LAMBDA flag : IsInserted(q, stripped, flag))

\* The size that is allocated, and what is written there.
TotalQuerySize(q, stripped) ==
    IF q = NoQuery THEN 2
    ELSE SumOf(FlagsOf(q, stripped), LAMBDA flag : 2 + 4 + ComputeQuerySize(q, flag))

SerializeSingleQuery(q, stripped) ==
    IF q = NoQuery THEN UInt16(0)
    ELSE ForEach(FlagsOf(q, stripped),
                 LAMBDA flag : UInt16(ComputeQuerySize(q, flag) + 4)
                               \o Field(4, flag) \o Insert(q, flag))

SerializeLocationQuery(qs, stripped) ==
    LET queries == ForEach(qs, LAMBDA q : SerializeSingleQuery(q, stripped))
    IN  UInt32(Bytes(queries)) \o queries

-----------------------------------------------------------------------------
(***************************************************************************)
(* Reading, by the server from the core and by the clients.  Of the flags  *)
(* of the requests none is a list; a list is not read here.                *)
(***************************************************************************)
\* The member of a field, if it can be read from the fields after its flag: as
\* many of the widths of its type.
ReadMember(fields, flag) ==
    LET n == Len(Widths(flag)) IN
    IF n > Len(fields) \/ \E i \in 1..n : fields[i].bytes # Widths(flag)[i] THEN "lost"
    ELSE IF n = 0 THEN "end" ELSE fields[1].is

With(q, flag, value) ==
    LET read == [q EXCEPT !.flags = @ \cup {flag}] IN
    CASE flag = "POSITION"  -> [read EXCEPT !.pos = value]
      [] flag = "IS_PUBLIC" -> [read EXCEPT !.isPublic = value]
      [] flag = "IS_HIDDEN" -> [read EXCEPT !.isHidden = value]
      [] OTHER -> [read EXCEPT !.is = [f \in DOMAIN @ \cup {flag} |->
                                          IF f = flag THEN value ELSE @[f]]]

\* One query from the front of the fields and what is left of them.
RECURSIVE ReadMembers(_, _)
ReadMembers(fields, q) ==
    LET flag == fields[2].is
        past == Rest(fields, 2)
        read == With(q, flag, ReadMember(past, flag))
    IN  IF flag = "END" THEN [query |-> read, rest |-> past]
        ELSE ReadMembers(Rest(past, Len(Widths(flag))), read)

DeserializeOneQuery(fields) ==
    IF fields[1].is = 0 THEN [query |-> NoQuery, rest |-> Rest(fields, 1)]
    ELSE ReadMembers(fields, NoQuery)

DeserializeSingleQueryBuffer(qb) == DeserializeOneQuery(qb).query

\* As many queries as there are bytes for.
RECURSIVE ReadQueries(_, _)
ReadQueries(fields, size) ==
    IF size = 0 THEN <<>>
    ELSE LET one == DeserializeOneQuery(fields)
         IN  <<one.query>> \o ReadQueries(one.rest, size - Bytes(fields) + Bytes(one.rest))

DeserializeLocationQueryBuffer(qb) == ReadQueries(Rest(qb, 1), qb[1].is)
=============================================================================
