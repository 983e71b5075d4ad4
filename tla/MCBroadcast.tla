----------------------------- MODULE MCBroadcast -----------------------------
(***************************************************************************)
(* Instances of Broadcast and Queries for TLC.                             *)
(***************************************************************************)
EXTENDS Broadcast

Q == INSTANCE Queries

TagTeam == [t \in Teams |-> IF t = 0 THEN 2 ELSE 1]
Field == {{"mzone"}}
AllPlaces == {{"deck"}, {"hand"}, {"mzone"}, {"grave"}, {"extra"},
              {"mzone", "overlay"}}

-----------------------------------------------------------------------------
(***************************************************************************)
(* The fields of the six kinds of requests the server makes of the core,   *)
(* and the answers to them.                                                *)
(***************************************************************************)
Always == {Q!Order[i] : i \in 1..13} \cup {"STATUS", "IS_PUBLIC"}
Requests ==
    {Always \cup more :
        more \in {{"IS_HIDDEN"}, {"LSCALE"}, {"IS_HIDDEN", "COVER"},
                  {"LSCALE", "RSCALE", "IS_HIDDEN", "COVER"},
                  {"LINK", "IS_HIDDEN", "COVER"},
                  {"LSCALE", "RSCALE", "LINK", "IS_HIDDEN", "COVER"}}}

\* What the core writes for a request: every field it was asked for.
Answer(flags, pos, isPublic, isHidden) ==
    [flags |-> flags \cup {"END"}, pos |-> pos, isPublic |-> isPublic,
     isHidden |-> isHidden /\ "IS_HIDDEN" \in flags,
     is |-> [f \in (flags \cup {"END"}) \ {"POSITION", "IS_PUBLIC", "IS_HIDDEN"} |->
                IF f = "END" THEN "end" ELSE f]]

Answers(asked) ==
    {Answer(asked, pos, isPublic, isHidden) :
        pos \in {"faceup", "facedown"}, isPublic \in BOOLEAN, isHidden \in BOOLEAN}

CoreQuery(q) ==
    IF q = Q!NoQuery THEN Q!UInt16(0)
    ELSE Q!ForEach(SelectSeq(Q!Order, LAMBDA f : f \in q.flags),
                   LAMBDA f : Q!UInt16(4 + Q!Bytes(Q!Insert(q, f)))
                              \o Q!Field(4, f) \o Q!Insert(q, f))
CoreQueries(qs) ==
    LET queries == Q!ForEach(qs, CoreQuery) IN Q!UInt32(Q!Bytes(queries)) \o queries

\* What is to be seen of a card: everything if it lies open, nothing that tells
\* what it is if it is hidden or for others than its owner.
Seen(q, others) ==
    LET open == q.pos = "faceup" \/ q.isPublic
        kept == q.flags \ {"CODE", "ALIAS", "TYPE", "LEVEL", "RANK", "ATTRIBUTE", "RACE",
                           "ATTACK", "DEFENSE", "BASE_ATTACK", "BASE_DEFENSE", "STATUS",
                           "LSCALE", "RSCALE", "LINK"}
    IN  IF open \/ ~ (q.isHidden \/ others) THEN q
        ELSE [q EXCEPT !.flags = kept, !.is = [f \in DOMAIN @ \cap kept |-> @[f]]]

\* A query that goes through the server, for its owner or for the others.
CardReadsBack ==
    \A asked \in Requests : \A q \in Answers(asked) \cup {Q!NoQuery}, others \in BOOLEAN :
        LET read == Q!DeserializeSingleQueryBuffer(CoreQuery(q))
            qb == Q!SerializeSingleQuery(read, others)
        IN  /\ read = q
            /\ Q!TotalQuerySize(read, others) = Q!Bytes(qb)
            /\ Q!DeserializeSingleQueryBuffer(qb) = Seen(q, others)

\* The same of a location, whose places may be empty.
LocationReadsBack ==
    LET asked == Always \cup {"LSCALE", "RSCALE", "LINK", "IS_HIDDEN", "COVER"}
        open == Answer(asked, "faceup", FALSE, FALSE)
        set == Answer(asked, "facedown", FALSE, TRUE)
    IN  \A qs \in {<<>>, <<open>>, <<Q!NoQuery, set>>, <<set, Q!NoQuery, open>>},
           others \in BOOLEAN :
            Q!DeserializeLocationQueryBuffer(
                Q!SerializeLocationQuery(Q!DeserializeLocationQueryBuffer(CoreQueries(qs)), others))
            = [i \in DOMAIN qs |-> Seen(qs[i], others)]

\* Messages come out of the core's buffer one by one, and find their team.
Hint == <<"HINT", 3, 1>>
Win == <<"DRAW", 0, 2>>
MessagesSplit ==
    \A msgs \in {<<>>, <<Hint>>, <<Win, Hint>>} :
        LET split == Q!SplitToMsgs(
                Q!ForEach(msgs, LAMBDA msg : Q!UInt32(Len(msg)) \o Q!Field(Len(msg), msg)))
        IN  split = msgs /\ \A i \in DOMAIN split :
                Q!GetMessageReceivingTeam(split[i]) = (IF split[i] = Hint THEN 1 ELSE 0)

\* The messages the server makes have the sizes it allocates for them.
MadeToMeasure ==
    /\ \A size \in {0, 40, 60} :
          Q!Bytes(Q!MakeStartMsg([lp |-> 8000, t0DSz |-> size, t0EdSz |-> 15,
                                  t1DSz |-> 40, t1EdSz |-> size])) = 18
    /\ Q!Bytes(Q!MakeUpdateCardMsg(1, 4, 2, Q!UInt16(0))) = 1 + 1 + 1 + 1 + 2
    /\ Q!Bytes(Q!MakeUpdateDataMsg(1, 4, Q!UInt32(0))) = 1 + 1 + 1 + 4

\* Once anything was shown to anybody: whatever the server is answered about cards
\* its clients read as it was, without the fields that are kept back from them, and
\* nothing is written past what was allocated (SerializeSingleQuery counts and writes
\* in two loops, DeserializeOneQuery goes by the widths of the members).
QueriesReadBack ==
    (\E r \in Recipients : revealed[r] # {}) =>
        CardReadsBack /\ LocationReadsBack /\ MessagesSplit /\ MadeToMeasure
=============================================================================
