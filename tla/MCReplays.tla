----------------------------- MODULE MCReplays ------------------------------
(***************************************************************************)
(* Instances of ReplayIds and Replay for TLC.                              *)
(***************************************************************************)
EXTENDS ReplayIds, FiniteSets, Sequences, TLC

R == INSTANCE Replay

\* Processes are alike, and so are the rooms of them.
Alike == Permutations(Processes) \cup Permutations(Rooms)

\* Bound: once a number was not read nothing is promised, and nothing is looked at.
Promised == ~ misread

-----------------------------------------------------------------------------
(***************************************************************************)
(* Replays of teams of up to three, the first of the team or, with two or  *)
(* more, the last of it being first in turn, with decks of two sizes, and  *)
(* answers up to the longest a byte can tell.                              *)
(***************************************************************************)
TeamLineups == {[count |-> n, currentPos |-> first] : n \in 1..3, first \in 0..2}
Lineups ==
    {l \in [R!Teams -> TeamLineups] :
        \A t \in R!Teams : l[t].currentPos \in {0, l[t].count - 1}}

\* Team 0's cards differ from team 1's, and the last of a team has no extra deck.
DeckOf(l) ==
    [d \in {<<"deck", t, pos>> : t \in R!Teams, pos \in 0..2} |->
        [main |-> <<10 * d[2] + d[3], 7>>,
         extra |-> IF d[3] = l[d[2]].count - 1 THEN <<>> ELSE <<9>>]]

Messages == <<[type |-> "START", size |-> 18, kind |-> 0],
              [type |-> "HINT", size |-> 11, kind |-> 3],
              [type |-> "SELECT_CARD", size |-> 70000, kind |-> 0],
              [type |-> "UPDATE_DATA", size |-> 70000, kind |-> 0],
              [type |-> "WIN", size |-> 3, kind |-> 0]>>

RECURSIVE Recorded(_)
Recorded(n) == IF n = 0 THEN <<>> ELSE R!RecordMsg(Recorded(n - 1), Messages[n])

Answer(size, what) == [size |-> size, what |-> what]
Answers == {<<>>, <<Answer(1, "a"), Answer(255, "b")>>, <<Answer(0, "a"), Answer(64, "b")>>}

ReplayOf(l, n, answers) ==
    [duelists |-> [t \in R!Teams |-> R!Duelists(l, t)], deckOf |-> DeckOf(l),
     options |-> [lp |-> 8000, draws |-> 5, perTurn |-> 1, flags |-> 2],
     extraCards |-> IF n = 0 THEN <<>> ELSE <<5, 6>>,
     messages |-> Recorded(n), responses |-> answers]

\* The seats of a team in the order they come to play, the current one first.
InTurn(l, t) == [i \in 1..l[t].count |-> (l[t].currentPos + i - 1) % l[t].count]

NamesOf(l) == [i \in 1..2 |-> [k \in 1..l[i - 1].count |-> <<"name", i - 1, k - 1>>]]
DecksOf(l) ==
    LET of(t) == [i \in 1..l[t].count |-> DeckOf(l)[<<"deck", t, InTurn(l, t)[i]>>]]
    IN  of(0) \o of(1)

\* Both formats of any of these replays read back as they were played: every
\* duelist of both teams by seat, the decks in the order their players come to
\* play, the recorded messages and all answers in order, and as many bytes as
\* the sizes counted apart from the writes.
ReadsBack ==
    \A l \in Lineups, n \in {0, Len(Messages)}, answers \in Answers :
        LET r == ReplayOf(l, n, answers)
            written == R!Serialize(r)
            yrpx == R!ReadYRPX(written.fields)
            old == yrpx.messages[Len(yrpx.messages)]
            yrp == R!ReadYRP(Tail(old.fields))
        IN  /\ written.size = R!Bytes(written.fields)
            /\ old.size = 1 + R!Bytes(old.fields)
            /\ yrpx.names = NamesOf(l) /\ yrp.names = NamesOf(l)
            /\ SubSeq(yrpx.messages, 1, Len(yrpx.messages) - 1) = Recorded(n)
            /\ yrp.decks = DecksOf(l)
            /\ yrp.extraCards = r.extraCards
            /\ yrp.responses = answers

\* A replay that is sent arrives whole: its message's length never wraps.
SentWhole ==
    \A size \in 65525..65545 : \A msg \in R!SendReplay(size) : msg.length = 1 + msg.size

\* Whoever opens a saved replay, or the copy the players were sent, finds the
\* duel in it (AddDuelist, which would overwrite; Serialize; SendReplay).
ReplayReadsBack == saved # {} => ReadsBack /\ SentWhole
=============================================================================
