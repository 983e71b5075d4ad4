---------------------------- MODULE ClientIOProofs ----------------------------
(***************************************************************************)
(* What holds of a connection for any number of messages.                  *)
(*                                                                         *)
(* The variables fall into two groups.  MsgInv is about the queue of       *)
(* messages and their writes, which go on beside the strand.  ReadInv is   *)
(* about the one thing that keeps a client alive: before Start it is the   *)
(* endpoint, afterwards a read, its handler, or the event that the handler *)
(* dispatches, until the connection is lost; there is exactly one of them  *)
(* at a time, and Join comes before all of them.                           *)
(***************************************************************************)
EXTENDS ClientIO, SequenceTheorems, FiniteSetTheorems, TLAPS

-----------------------------------------------------------------------------
(***************************************************************************)
(* Messages and writes.                                                    *)
(***************************************************************************)
MsgTypes ==
    /\ outgoing \in Seq(1..MaxOut) /\ sent \in 0..MaxOut
    /\ writes \subseteq [msg : 1..MaxOut, state : {"writing", "done", "failed"}]
    /\ wire \in Seq(1..MaxOut)

\* A completed write is on the wire while its message is still in the queue.
Done == \E w \in writes : w.state = "done"

\* The place of a message tells its number.
Numbered ==
    /\ sent + (IF Done THEN 1 ELSE 0) = Len(wire) + Len(outgoing)
    /\ \A i \in 1..Len(wire) : wire[i] = i
    /\ \A i \in 1..Len(outgoing) : outgoing[i] = sent - Len(outgoing) + i

OneWrite ==
    /\ \A w \in writes : outgoing # <<>> /\ w.msg = outgoing[1]
    /\ \A v \in writes, w \in writes : v = w

Unused ==
    hosting = "hello" => sent = 0 /\ outgoing = <<>> /\ wire = <<>> /\ writes = {}

MsgInv == MsgTypes /\ Numbered /\ OneWrite /\ Unused

msgVars == <<outgoing, writes, sent, wire>>

LEMMA SameMessages ==
    ASSUME MsgInv, UNCHANGED msgVars, hosting' = "hello" => hosting = "hello"
    PROVE  MsgInv'
BY DEF MsgInv, MsgTypes, Numbered, Done, OneWrite, Unused, msgVars

-----------------------------------------------------------------------------
(***************************************************************************)
(* The strand and the reads.                                               *)
(***************************************************************************)
ReadTypes ==
    /\ hosting \in {"hello", "dropped", "refused", "created", "posted", "started"}
    /\ running \in {Nowhere, "join", "event", "lost", "other"}
    /\ reading \in {Nowhere, "header", "body", "end"}
    /\ strand \in Seq(Handlers)
    /\ connectionLost \in BOOLEAN /\ joined \in BOOLEAN /\ inRoom \in BOOLEAN
    /\ inbox \in Seq(Messages)

\* The places the chain of reads can be in.
IsRead == reading \in {"header", "body"}
IsHandled == \E i \in 1..Len(strand) : strand[i] # Join
IsEvent == running = "event"

\* Nothing has happened on the strand before Join is posted.
Untouched ==
    hosting \in {"hello", "dropped", "refused", "created"} =>
        /\ strand = <<>> /\ running = Nowhere
        /\ ~ joined /\ ~ inRoom /\ ~ connectionLost /\ ~ IsRead

\* After that Join runs once, before everything else.
JoinFirst ==
    /\ \A i \in 1..Len(strand) : strand[i] = Join => i = 1 /\ ~ joined
    /\ hosting \in {"posted", "started"} /\ ~ joined =>
           /\ strand # <<>> /\ strand[1] = Join
           /\ running = Nowhere /\ ~ inRoom /\ ~ connectionLost

\* From Start on there is one read, one handler of a read or one event, or the
\* connection is lost.
OneChain ==
    /\ hosting = "posted" => ~ (IsRead \/ IsHandled \/ IsEvent \/ connectionLost)
    /\ hosting = "started" => IsRead \/ IsHandled \/ IsEvent \/ connectionLost
    /\ \A i \in 1..Len(strand) : strand[i] # Join => i = Len(strand)
    /\ IsRead => ~ IsHandled /\ ~ IsEvent /\ ~ connectionLost
    /\ IsHandled => ~ IsEvent /\ ~ connectionLost
    /\ IsEvent => ~ connectionLost
    /\ running = "lost" => connectionLost

\* A room that hears of the loss forgets the client in the same handler.
Forgotten == connectionLost /\ inRoom => running = "lost"

\* Only the reads take from the inbox, a header when there is a message, and the
\* connections that are refused.
InInbox ==
    /\ reading = "body" => inbox # <<>>
    /\ \A i \in 1..Len(strand) : strand[i] = <<"header", "ok">> => inbox # <<>>
    /\ reading = "end" => hosting = "refused"

ReadInv == ReadTypes /\ Untouched /\ JoinFirst /\ OneChain /\ Forgotten /\ InInbox

readVars == <<hosting, running, reading, strand, connectionLost, joined, inRoom>>

LEMMA SameReads ==
    ASSUME ReadInv, UNCHANGED <<readVars, inbox>> PROVE ReadInv'
BY DEF ReadInv, ReadTypes, Untouched, JoinFirst, OneChain, Forgotten, InInbox, readVars,
       IsRead, IsHandled, IsEvent

-----------------------------------------------------------------------------
(***************************************************************************)
(* Every step keeps MsgInv.                                                *)
(***************************************************************************)
LEMMA RefuseMessages ==
    ASSUME MsgInv, NEW n \in {1, 2}, n <= MaxOut, Refuse(n) PROVE MsgInv'
<1> USE ClientIOAssumption DEF ClientIOAssumption
<1>1. outgoing' = [i \in 1..n |-> i] /\ sent' = n /\ hosting' = "refused"
  BY DEF Refuse
<1>2. writes' = {[msg |-> 1, state |-> "writing"]} /\ wire' = wire
  BY DEF Refuse
<1>3. wire = <<>> /\ n \in 1..MaxOut /\ n \in Nat \ {0}
  BY DEF Refuse, Receives, MsgInv, Unused
<1>4. outgoing' \in Seq(1..MaxOut) /\ Len(outgoing') = n
  BY <1>1, <1>3
<1>5. ~ Done'
  BY <1>2 DEF Done
<1>6. MsgTypes'
  BY <1>1, <1>2, <1>3, <1>4 DEF MsgInv, MsgTypes
<1>7. Numbered'
  BY <1>1, <1>2, <1>3, <1>4, <1>5 DEF Numbered
<1>8. OneWrite'
  BY <1>1, <1>2, <1>3, <1>4 DEF OneWrite
<1> QED BY <1>1, <1>6, <1>7, <1>8 DEF MsgInv, Unused

LEMMA SendMessages ==
    ASSUME MsgInv, Untouched, Send PROVE MsgInv'
<1> USE ClientIOAssumption DEF ClientIOAssumption
<1>1. sent < MaxOut /\ sent' = sent + 1 /\ outgoing' = Append(outgoing, sent + 1)
  BY DEF Send
<1>2. writes' = IF outgoing = <<>> THEN writes \cup {Writing(sent + 1)} ELSE writes
  BY DEF Send
<1>3. wire' = wire /\ hosting' = hosting /\ hosting # "hello"
  BY DEF Send, Untouched
<1>4. /\ outgoing \in Seq(1..MaxOut) /\ sent \in 0..MaxOut /\ wire \in Seq(1..MaxOut)
      /\ writes \subseteq [msg : 1..MaxOut, state : {"writing", "done", "failed"}]
  BY DEF MsgInv, MsgTypes
<1>5. Writing(sent + 1) \in [msg : 1..MaxOut, state : {"writing", "done", "failed"}]
  BY <1>1, <1>4 DEF Writing
<1>6. MsgTypes'
  <2>1. outgoing' \in Seq(1..MaxOut) /\ sent' \in 0..MaxOut
    BY <1>1, <1>4
  <2>2. writes' \subseteq [msg : 1..MaxOut, state : {"writing", "done", "failed"}]
    BY <1>2, <1>4, <1>5
  <2> QED BY <1>3, <1>4, <2>1, <2>2 DEF MsgTypes
<1>7. Done' <=> Done
  BY <1>2 DEF Done, Writing
<1>8. /\ Len(outgoing') = Len(outgoing) + 1 /\ outgoing'[Len(outgoing) + 1] = sent + 1
      /\ \A i \in 1..Len(outgoing) : outgoing'[i] = outgoing[i]
  BY <1>1, <1>4
<1>9. Numbered'
  <2>1. sent' + (IF Done' THEN 1 ELSE 0) = Len(wire') + Len(outgoing')
    BY <1>1, <1>3, <1>4, <1>7, <1>8 DEF MsgInv, Numbered
  <2>2. \A i \in 1..Len(wire') : wire'[i] = i
    BY <1>3 DEF MsgInv, Numbered
  <2>3. \A i \in 1..Len(outgoing') : outgoing'[i] = sent' - Len(outgoing') + i
    BY <1>1, <1>4, <1>8 DEF MsgInv, Numbered
  <2> QED BY <2>1, <2>2, <2>3 DEF Numbered
<1>10. OneWrite'
  <2>1. CASE outgoing = <<>>
    <3>1. writes = {} /\ writes' = {Writing(sent + 1)}
      BY <1>2, <2>1 DEF MsgInv, OneWrite
    <3>2. outgoing' # <<>> /\ outgoing'[1] = sent + 1
      <4>1. Len(outgoing) = 0
        BY <2>1
      <4>2. Len(outgoing') = 1 /\ outgoing'[1] = sent + 1
        BY <1>8, <4>1
      <4> QED BY <4>2
    <3> QED BY <3>1, <3>2 DEF OneWrite, Writing
  <2>2. CASE outgoing # <<>>
    <3>1. outgoing' # <<>> /\ outgoing'[1] = outgoing[1]
      BY <1>4, <1>8, <2>2
    <3> QED BY <1>2, <2>2, <3>1 DEF MsgInv, OneWrite
  <2> QED BY <2>1, <2>2
<1> QED BY <1>3, <1>6, <1>9, <1>10 DEF MsgInv, Unused

\* The one write, and its message, which is the first of the queue.
LEMMA TheWrite ==
    ASSUME MsgInv, NEW w \in writes
    PROVE  /\ writes = {w}
           /\ Len(outgoing) \in Nat \ {0} /\ w.msg = outgoing[1]
           /\ w.msg = sent - Len(outgoing) + 1 /\ w.msg \in 1..MaxOut
           /\ Done <=> w.state = "done"
           /\ hosting # "hello"
<1>1. writes = {w} /\ outgoing # <<>> /\ w.msg = outgoing[1]
  BY DEF MsgInv, OneWrite
<1>2. Len(outgoing) \in Nat \ {0}
  BY <1>1 DEF MsgInv, MsgTypes
<1>3. outgoing[1] = sent - Len(outgoing) + 1
  BY <1>2 DEF MsgInv, Numbered
<1>4. w.msg \in 1..MaxOut
  BY DEF MsgInv, MsgTypes
<1> QED BY <1>1, <1>2, <1>3, <1>4 DEF Done, MsgInv, Unused

LEMMA WriteEndsMessages ==
    ASSUME MsgInv, WriteEnds PROVE MsgInv'
<1>1. PICK w \in writes : Written(w) \/ WriteFails(w)
  BY DEF WriteEnds
<1>2. /\ writes = {w} /\ Len(outgoing) \in Nat \ {0} /\ w.msg = outgoing[1]
      /\ w.msg = sent - Len(outgoing) + 1 /\ w.msg \in 1..MaxOut
      /\ (Done <=> w.state = "done") /\ hosting # "hello"
  BY TheWrite
<1>3. w \in [msg : 1..MaxOut, state : {"writing", "done", "failed"}]
  BY DEF MsgInv, MsgTypes
<1>4. /\ outgoing' = outgoing /\ sent' = sent /\ hosting' = hosting
      /\ w.state = "writing"
  BY <1>1 DEF Written, WriteFails
<1>5. ~ Done
  BY <1>2, <1>4
<1>6. outgoing \in Seq(1..MaxOut) /\ sent \in 0..MaxOut /\ wire \in Seq(1..MaxOut)
  BY DEF MsgInv, MsgTypes
<1>7. sent = Len(wire) + Len(outgoing)
  BY <1>5, <1>6 DEF MsgInv, Numbered
<1>8. CASE Written(w)
  <2> DEFINE v == [w EXCEPT !.state = "done"]
  <2>1. writes' = {v} /\ wire' = Append(wire, w.msg)
    BY <1>2, <1>8 DEF Written
  <2>2. v \in [msg : 1..MaxOut, state : {"writing", "done", "failed"}]
        /\ v.msg = w.msg /\ v.state = "done"
    BY <1>3
  <2> HIDE DEF v
  <2>3. Done'
    BY <2>1, <2>2 DEF Done
  <2>4. MsgTypes'
    BY <1>2, <1>4, <1>6, <2>1, <2>2 DEF MsgTypes
  <2>5. Numbered'
    <3>1. Len(wire') = Len(wire) + 1 /\ wire'[Len(wire) + 1] = w.msg
          /\ \A i \in 1..Len(wire) : wire'[i] = wire[i]
      BY <1>2, <1>6, <2>1
    <3>2. w.msg = Len(wire) + 1
      BY <1>2, <1>6, <1>7
    <3>3. \A i \in 1..Len(wire') : wire'[i] = i
      BY <1>6, <3>1, <3>2 DEF MsgInv, Numbered
    <3>4. sent' + 1 = Len(wire') + Len(outgoing')
      BY <1>4, <1>6, <1>7, <3>1
    <3>5. \A i \in 1..Len(outgoing') : outgoing'[i] = sent' - Len(outgoing') + i
      BY <1>4 DEF MsgInv, Numbered
    <3> QED BY <2>3, <3>3, <3>4, <3>5 DEF Numbered
  <2>6. OneWrite'
    BY <1>2, <1>4, <2>1, <2>2 DEF MsgInv, OneWrite
  <2> QED BY <1>2, <1>4, <2>4, <2>5, <2>6 DEF MsgInv, Unused
<1>9. CASE WriteFails(w)
  <2> DEFINE v == [w EXCEPT !.state = "failed"]
  <2>1. writes' = {v} /\ wire' = wire
    BY <1>2, <1>9 DEF WriteFails
  <2>2. v \in [msg : 1..MaxOut, state : {"writing", "done", "failed"}]
        /\ v.msg = w.msg /\ v.state = "failed"
    BY <1>3
  <2> HIDE DEF v
  <2>3. ~ Done'
    BY <2>1, <2>2 DEF Done
  <2>4. MsgTypes'
    BY <1>4, <1>6, <2>1, <2>2 DEF MsgTypes
  <2>5. Numbered'
    BY <1>4, <1>5, <2>1, <2>3 DEF MsgInv, Numbered
  <2>6. OneWrite'
    BY <1>2, <1>4, <2>1, <2>2 DEF MsgInv, OneWrite
  <2> QED BY <1>2, <1>4, <2>4, <2>5, <2>6 DEF MsgInv, Unused
<1> QED BY <1>1, <1>8, <1>9

LEMMA WriteHandledMessages ==
    ASSUME MsgInv, WriteHandled PROVE MsgInv'
<1>1. PICK w \in writes : HandleWritten(w) \/ HandleFailed(w)
  BY DEF WriteHandled
<1>2. /\ writes = {w} /\ Len(outgoing) \in Nat \ {0} /\ w.msg = outgoing[1]
      /\ w.msg = sent - Len(outgoing) + 1 /\ w.msg \in 1..MaxOut
      /\ (Done <=> w.state = "done") /\ hosting # "hello"
  BY TheWrite
<1>3. outgoing \in Seq(1..MaxOut) /\ sent \in 0..MaxOut /\ wire \in Seq(1..MaxOut)
  BY DEF MsgInv, MsgTypes
<1>4. CASE HandleWritten(w)
  <2>1. /\ outgoing' = Tail(outgoing) /\ wire' = wire /\ sent' = sent
        /\ hosting' = hosting /\ Done
        /\ writes' = IF Len(outgoing) > 1 THEN {Writing(outgoing[2])} ELSE {}
    BY <1>2, <1>4 DEF HandleWritten
  <2>2. /\ outgoing' \in Seq(1..MaxOut) /\ Len(outgoing') = Len(outgoing) - 1
        /\ \A i \in 1..Len(outgoing') : outgoing'[i] = outgoing[i + 1]
    <3>1. outgoing # <<>>
      BY <1>2
    <3> QED BY <1>2, <1>3, <2>1, <3>1
  <2>3. ~ Done'
    BY <2>1 DEF Done, Writing
  <2>4. \A v \in writes' : /\ Len(outgoing) > 1 /\ v = Writing(outgoing[2])
                            /\ outgoing[2] \in 1..MaxOut
    <3>1. ASSUME Len(outgoing) > 1 PROVE outgoing[2] \in 1..MaxOut
      <4>1. 2 \in 1..Len(outgoing)
        BY <1>2, <3>1
      <4> QED BY <1>3, <4>1, ElementOfSeq
    <3> QED BY <2>1, <3>1
  <2>5. MsgTypes'
    BY <1>3, <2>1, <2>2, <2>4 DEF MsgTypes, Writing
  <2>6. Numbered'
    <3>1. sent' = Len(wire') + Len(outgoing')
      BY <1>2, <1>3, <2>1, <2>2 DEF MsgInv, Numbered
    <3>2. \A i \in 1..Len(wire') : wire'[i] = i
      BY <2>1 DEF MsgInv, Numbered
    <3>3. \A i \in 1..Len(outgoing') : outgoing'[i] = sent' - Len(outgoing') + i
      BY <1>2, <1>3, <2>1, <2>2 DEF MsgInv, Numbered
    <3> QED BY <1>3, <2>1, <2>2, <2>3, <3>1, <3>2, <3>3 DEF Numbered
  <2>7. OneWrite'
    BY <1>2, <2>2, <2>4 DEF OneWrite, Writing
  <2> QED BY <1>2, <2>1, <2>5, <2>6, <2>7 DEF MsgInv, Unused
<1>5. CASE HandleFailed(w)
  <2>1. /\ UNCHANGED <<outgoing, sent, wire, hosting>>
        /\ writes' = {} /\ w.state = "failed"
    BY <1>2, <1>5 DEF HandleFailed
  <2>2. ~ Done /\ ~ Done'
    BY <1>2, <2>1 DEF Done
  <2> QED BY <1>2, <2>1, <2>2 DEF MsgInv, MsgTypes, Numbered, OneWrite, Unused
<1> QED BY <1>1, <1>4, <1>5

-----------------------------------------------------------------------------
(***************************************************************************)
(* Every step keeps ReadInv.                                               *)
(***************************************************************************)
LEMMA HandshakeReads ==
    ASSUME ReadInv, Handshake \/ DoReadEnd PROVE ReadInv'
<1>1. /\ hosting \in {"hello", "refused"} /\ strand = <<>> /\ running = Nowhere
      /\ ~ joined /\ ~ inRoom /\ ~ connectionLost /\ ~ IsRead
  BY DEF Handshake, TakeName, BecomeClient, Refuse, Drop, Receives, DoReadEnd,
         ReadInv, Untouched, InInbox
<1>2. /\ strand' = strand /\ running' = running /\ joined' = joined
      /\ inRoom' = inRoom /\ connectionLost' = connectionLost
  BY DEF Handshake, TakeName, BecomeClient, Refuse, Drop, Receives, DoReadEnd, room, reads
<1>3. hosting' \in {"hello", "created", "refused", "dropped"}
  BY <1>1 DEF Handshake, TakeName, BecomeClient, Refuse, Drop, Receives, DoReadEnd
<1>4. reading' \in {Nowhere, "end"} /\ (reading' = "end" => hosting' = "refused")
  <2>1. reading \in {Nowhere, "end"} /\ (reading = "end" => hosting = "refused")
    BY <1>1 DEF ReadInv, ReadTypes, InInbox, IsRead
  <2> QED BY <2>1 DEF Handshake, TakeName, BecomeClient, Refuse, Drop, Receives,
                      DoReadEnd, reads
<1>5. inbox' \in Seq(Messages)
  <2>1. inbox' = inbox \/ (inbox # <<>> /\ inbox' = Tail(inbox))
    BY DEF Handshake, TakeName, BecomeClient, Refuse, Drop, Receives, DoReadEnd
  <2> QED BY <2>1, HeadTailProperties DEF ReadInv, ReadTypes
<1>6. ~ IsRead' /\ ~ IsHandled' /\ ~ IsEvent'
  BY <1>1, <1>2, <1>4 DEF IsRead, IsHandled, IsEvent, Nowhere
<1> QED BY <1>1, <1>2, <1>3, <1>4, <1>5, <1>6
        DEF ReadInv, ReadTypes, Untouched, JoinFirst, OneChain, Forgotten, InInbox, Nowhere

LEMMA StartReads ==
    ASSUME ReadInv, Start PROVE ReadInv'
<1>1. /\ running' = running /\ joined' = joined /\ inRoom' = inRoom
      /\ connectionLost' = connectionLost /\ inbox' = inbox
  BY DEF Start, room
<1>2. CASE hosting = "created"
  <2>1. /\ hosting' = "posted" /\ strand' = Append(strand, Join) /\ reading' = reading
        /\ strand = <<>> /\ running = Nowhere
        /\ ~ joined /\ ~ inRoom /\ ~ connectionLost /\ ~ IsRead
    BY <1>2 DEF Start, StartSteps, ReadInv, Untouched
  <2>2. strand' = <<Join>>
    BY <2>1
  <2>3. ~ IsRead' /\ ~ IsHandled' /\ ~ IsEvent'
    BY <1>1, <2>1, <2>2 DEF IsRead, IsHandled, IsEvent, Nowhere
  <2>4. Join # <<"header", "ok">> /\ strand' \in Seq(Handlers)
    BY <2>2 DEF Join, Handlers
  <2>5. reading # "end" /\ reading # "body"
    BY <1>2, <2>1 DEF ReadInv, InInbox, IsRead
  <2>6. Len(strand') = 1 /\ strand'[1] = Join /\ strand' # <<>>
    BY <2>2
  <2>7. ReadTypes'
    BY <1>1, <2>1, <2>4 DEF ReadInv, ReadTypes
  <2>8. Untouched' /\ Forgotten'
    BY <1>1, <2>1 DEF Untouched, Forgotten
  <2>9. JoinFirst'
    BY <1>1, <2>1, <2>6 DEF JoinFirst
  <2>10. OneChain'
    BY <1>1, <2>1, <2>3, <2>6 DEF OneChain, Nowhere
  <2>11. InInbox'
    BY <1>1, <2>1, <2>4, <2>5, <2>6 DEF InInbox
  <2> QED BY <2>7, <2>8, <2>9, <2>10, <2>11 DEF ReadInv
<1>3. CASE hosting = "posted"
  <2>1. /\ hosting' = "started" /\ reading' = "header" /\ strand' = strand
        /\ ~ IsHandled /\ ~ IsEvent /\ ~ connectionLost
    BY <1>3 DEF Start, StartSteps, ReadInv, OneChain
  <2>2. IsRead' /\ ~ IsHandled' /\ ~ IsEvent'
    BY <1>1, <2>1 DEF IsRead, IsHandled, IsEvent
  <2> QED BY <1>1, <1>3, <2>1, <2>2
          DEF ReadInv, ReadTypes, Untouched, JoinFirst, OneChain, Forgotten, InInbox
<1> QED BY <1>2, <1>3 DEF Start, StartSteps

\* A read or a handler of a read, so Join has run and the connection is a client's.
LEMMA Reached ==
    ASSUME ReadInv, IsRead \/ IsHandled \/ IsEvent \/ connectionLost
    PROVE  hosting = "started"
BY DEF ReadInv, ReadTypes, Untouched, OneChain, IsRead, IsHandled, IsEvent, Nowhere

\* A read ends: its handler is the last on the strand.
LEMMA ReadReads ==
    ASSUME ReadInv, Read PROVE ReadInv'
<1>1. PICK result \in Messages \cup {"ok", "invalid", "error"} :
         /\ ReadEnds(result)
         /\ result = "ok" => reading = "header" /\ inbox # <<>> /\ inbox' = inbox
  <2>1. CASE HeaderRead BY <2>1 DEF HeaderRead
  <2>2. CASE BodyRead
    <3>1. Head(inbox) \in Messages
      BY <2>2 DEF BodyRead, ReadInv, ReadTypes, InInbox
    <3>2. Head(inbox) # "ok"
      BY <3>1 DEF Messages
    <3> QED BY <2>2, <3>1, <3>2 DEF BodyRead
  <2>3. CASE ReadFails BY <2>3 DEF ReadFails
  <2> QED BY <2>1, <2>2, <2>3 DEF Read
<1> DEFINE h == <<reading, result>>
<1>2. /\ reading \in {"header", "body"} /\ reading' = Nowhere /\ strand' = Append(strand, h)
      /\ hosting' = hosting /\ running' = running /\ joined' = joined /\ inRoom' = inRoom
      /\ connectionLost' = connectionLost
  BY <1>1 DEF ReadEnds, room
<1>3. /\ h \in Handlers /\ h # Join
      /\ h = <<"header", "ok">> => inbox # <<>> /\ inbox' = inbox
  BY <1>1, <1>2 DEF Handlers, Join
<1>4. IsRead /\ hosting = "started"
  BY <1>2, Reached DEF IsRead
<1>5. ~ IsHandled /\ ~ IsEvent /\ ~ connectionLost
  BY <1>4 DEF ReadInv, OneChain
<1>6. strand \in Seq(Handlers) /\ inbox' \in Seq(Messages)
  <2>1. inbox \in Seq(Messages)
    BY DEF ReadInv, ReadTypes
  <2>2. inbox' = inbox \/ (inbox # <<>> /\ inbox' = Tail(inbox))
    BY DEF Read, HeaderRead, BodyRead, ReadFails, ReadInv, InInbox
  <2> QED BY <2>1, <2>2, HeadTailProperties DEF ReadInv, ReadTypes
<1> HIDE DEF h
<1>7. /\ strand' \in Seq(Handlers) /\ strand' # <<>>
      /\ Len(strand') = Len(strand) + 1 /\ strand'[Len(strand) + 1] = h
      /\ \A i \in 1..Len(strand) : strand'[i] = strand[i]
      /\ Len(strand) \in Nat
  BY <1>2, <1>3, <1>6, AppendProperties, LenProperties
<1>8. \A i \in 1..Len(strand) : strand[i] = Join
  BY <1>5 DEF IsHandled
<1>9. \A i \in 1..Len(strand') : strand'[i] = Join \/ (i = Len(strand') /\ strand'[i] = h)
  BY <1>7, <1>8
<1>10. IsHandled' /\ ~ IsRead' /\ ~ IsEvent'
  BY <1>2, <1>3, <1>5, <1>7 DEF IsHandled, IsRead, IsEvent, Nowhere
<1>11. ReadTypes'
  BY <1>2, <1>6, <1>7 DEF ReadInv, ReadTypes
<1>12. Untouched' /\ Forgotten'
  BY <1>2, <1>4 DEF ReadInv, Untouched, Forgotten
<1>13. JoinFirst'
  <2>1. \A i \in 1..Len(strand') : strand'[i] = Join => i = 1 /\ ~ joined'
    BY <1>2, <1>3, <1>7 DEF ReadInv, JoinFirst
  <2>2. ~ joined => strand # <<>> /\ strand[1] = Join /\ running = Nowhere /\ ~ inRoom
    BY <1>4 DEF ReadInv, JoinFirst
  <2>3. strand # <<>> => Len(strand) \in Nat \ {0}
    BY <1>6, EmptySeq
  <2>4. ~ joined => strand'[1] = Join
    BY <1>7, <2>2, <2>3
  <2> QED BY <1>2, <1>5, <1>7, <2>1, <2>2, <2>4 DEF JoinFirst
<1>14. OneChain'
  BY <1>2, <1>4, <1>5, <1>9, <1>10 DEF ReadInv, OneChain
<1>15. InInbox'
  <2>1. reading' # "body" /\ reading' # "end"
    BY <1>2 DEF Nowhere
  <2>2. Join # <<"header", "ok">>
    BY DEF Join
  <2>3. \A i \in 1..Len(strand') : strand'[i] = <<"header", "ok">> => inbox' # <<>>
    BY <1>3, <1>9, <2>2
  <2> QED BY <2>1, <2>3 DEF InInbox
<1> QED BY <1>11, <1>12, <1>13, <1>14, <1>15 DEF ReadInv

\* The strand takes a handler off its front.
LEMMA Taken ==
    ASSUME ReadInv, strand # <<>>, strand' = Tail(strand)
    PROVE  /\ strand' \in Seq(Handlers) /\ Len(strand) \in Nat \ {0}
           /\ Len(strand') = Len(strand) - 1
           /\ \A i \in 1..Len(strand') : strand'[i] = strand[i + 1]
           /\ \A i \in 1..Len(strand') : strand'[i] # Join
           /\ Head(strand) # Join => strand' = <<>>
<1>1. /\ strand' \in Seq(Handlers) /\ Len(strand) \in Nat \ {0}
      /\ Len(strand') = Len(strand) - 1
      /\ \A i \in 1..Len(strand') : strand'[i] = strand[i + 1]
  BY HeadTailProperties, EmptySeq DEF ReadInv, ReadTypes
<1>2. \A i \in 1..Len(strand') : strand'[i] # Join
  <2> SUFFICES ASSUME NEW i \in 1..Len(strand') PROVE strand[i + 1] # Join
    BY <1>1
  <2>1. i + 1 \in 1..Len(strand) /\ i + 1 # 1
    BY <1>1
  <2> QED BY <2>1 DEF ReadInv, JoinFirst
<1>3. ASSUME Head(strand) # Join PROVE strand' = <<>>
  <2>1. 1 \in 1..Len(strand) /\ strand[1] # Join
    BY <1>1, <1>3
  <2>2. Len(strand) = 1
    BY <1>1, <2>1 DEF ReadInv, OneChain
  <2> QED BY <1>1, <2>2, EmptySeq
<1> QED BY <1>1, <1>2, <1>3

LEMMA RunJoinReads ==
    ASSUME ReadInv, RunJoin PROVE ReadInv'
<1>1. /\ running = Nowhere /\ strand # <<>> /\ strand[1] = Join /\ strand' = Tail(strand)
      /\ running' = "join" /\ joined' = TRUE /\ inRoom' \in BOOLEAN
      /\ UNCHANGED <<hosting, reading, connectionLost, inbox>>
  BY DEF RunJoin, reads
<1>2. /\ strand' \in Seq(Handlers) /\ Len(strand) \in Nat \ {0}
      /\ Len(strand') = Len(strand) - 1
      /\ \A i \in 1..Len(strand') : strand'[i] = strand[i + 1]
      /\ \A i \in 1..Len(strand') : strand'[i] # Join
  BY <1>1, Taken
<1>3. 1 \in 1..Len(strand)
  BY <1>2
<1>4. ~ joined /\ hosting \in {"posted", "started"}
  BY <1>1, <1>3 DEF ReadInv, ReadTypes, JoinFirst, Untouched
<1>5. ~ connectionLost
  BY <1>4 DEF ReadInv, JoinFirst
<1>6. ReadTypes'
  BY <1>1, <1>2 DEF ReadInv, ReadTypes
<1>7. Untouched' /\ Forgotten' /\ JoinFirst'
  BY <1>1, <1>2, <1>4, <1>5 DEF Untouched, Forgotten, JoinFirst
<1>8. /\ IsRead' <=> IsRead
      /\ ~ IsEvent /\ ~ IsEvent'
  BY <1>1 DEF IsRead, IsEvent, Nowhere
<1>9. IsHandled' <=> IsHandled
  <2>1. ASSUME IsHandled PROVE IsHandled'
    <3>1. PICK i \in 1..Len(strand) : strand[i] # Join
      BY <2>1 DEF IsHandled
    <3>2. i - 1 \in 1..Len(strand') /\ strand'[i - 1] = strand[i]
      BY <1>1, <1>2, <3>1
    <3> QED BY <3>1, <3>2 DEF IsHandled
  <2>2. ASSUME IsHandled' PROVE IsHandled
    <3>1. PICK i \in 1..Len(strand') : strand'[i] # Join
      BY <2>2 DEF IsHandled
    <3>2. i + 1 \in 1..Len(strand) /\ strand[i + 1] # Join
      BY <1>2, <3>1
    <3> QED BY <3>2 DEF IsHandled
  <2> QED BY <2>1, <2>2
<1>10. \A i \in 1..Len(strand') : strand'[i] # Join => i = Len(strand')
  <2> SUFFICES ASSUME NEW i \in 1..Len(strand'), strand'[i] # Join
               PROVE  i = Len(strand')
    OBVIOUS
  <2>1. i + 1 \in 1..Len(strand) /\ strand[i + 1] # Join
    BY <1>2
  <2>2. i + 1 = Len(strand)
    BY <2>1 DEF ReadInv, OneChain
  <2> QED BY <1>2, <2>2
<1>11. OneChain'
  <2>1. running' # "lost" /\ connectionLost' = connectionLost /\ hosting' = hosting
    BY <1>1
  <2> QED BY <1>5, <1>8, <1>9, <1>10, <2>1 DEF ReadInv, OneChain
<1>12. InInbox'
  <2>1. ASSUME NEW i \in 1..Len(strand'), strand'[i] = <<"header", "ok">>
        PROVE  inbox' # <<>>
    <3>1. i + 1 \in 1..Len(strand) /\ strand[i + 1] = <<"header", "ok">>
      BY <1>2, <2>1
    <3> QED BY <1>1, <3>1 DEF ReadInv, InInbox
  <2> QED BY <1>1, <2>1 DEF ReadInv, InInbox
<1> QED BY <1>6, <1>7, <1>11, <1>12 DEF ReadInv

\* A handler of a read runs: it reads on, dispatches an event, or the connection is lost.
LEMMA RunReadReads ==
    ASSUME ReadInv, RunHeader \/ RunBody \/ RunLost PROVE ReadInv'
<1>1. /\ running = Nowhere /\ strand # <<>> /\ strand[1] # Join /\ Head(strand) # Join
      /\ strand' = Tail(strand)
      /\ UNCHANGED <<hosting, joined, inRoom, inbox>>
  BY DEF RunHeader, RunBody, RunLost, Join, room
<1>2. Len(strand) \in Nat \ {0} /\ strand' = <<>> /\ strand' \in Seq(Handlers)
  BY <1>1, Taken
<1>3. 1 \in 1..Len(strand) /\ IsHandled
  BY <1>1, <1>2 DEF IsHandled
<1>4. ~ IsRead /\ ~ IsEvent /\ ~ connectionLost /\ hosting = "started"
  BY <1>3, Reached DEF ReadInv, OneChain
<1>5. joined
  BY <1>1, <1>4 DEF ReadInv, ReadTypes, JoinFirst
<1>6. reading = Nowhere
  BY <1>4 DEF ReadInv, ReadTypes, InInbox, IsRead
<1>7. \/ /\ reading' \in {"header", "body"} /\ running' = Nowhere
         /\ connectionLost' = connectionLost /\ (reading' = "body" => inbox # <<>>)
      \/ reading' = Nowhere /\ running' = "event" /\ connectionLost' = connectionLost
      \/ reading' = Nowhere /\ running' = "lost" /\ connectionLost' = TRUE
  <2>1. CASE RunHeader
    <3>1. strand[1] = <<"header", "ok">>
      BY <1>1, <2>1 DEF RunHeader
    <3>2. inbox # <<>>
      BY <1>3, <3>1 DEF ReadInv, InInbox
    <3> QED BY <1>1, <2>1, <3>2 DEF RunHeader, room
  <2>2. CASE RunBody BY <2>2 DEF RunBody, Nowhere
  <2>3. CASE RunLost BY <1>6, <2>3 DEF RunLost
  <2> QED BY <2>1, <2>2, <2>3
<1>8. ~ IsHandled' /\ Len(strand') = 0
  BY <1>2 DEF IsHandled
<1>9. /\ IsRead' <=> reading' \in {"header", "body"}
      /\ IsEvent' <=> running' = "event"
  BY DEF IsRead, IsEvent
<1>10. ReadTypes'
  BY <1>1, <1>2, <1>7 DEF ReadInv, ReadTypes
<1>11. Untouched' /\ JoinFirst' /\ InInbox'
  <2>1. \A i \in 1..Len(strand') : FALSE
    BY <1>8
  <2>2. reading' # "end" /\ (reading' = "body" => inbox' # <<>>)
    BY <1>1, <1>7 DEF Nowhere
  <2> QED BY <1>1, <1>4, <1>5, <2>1, <2>2 DEF Untouched, JoinFirst, InInbox
<1>12. Forgotten'
  BY <1>4, <1>7 DEF Forgotten
<1>13. OneChain'
  <2>1. \A i \in 1..Len(strand') : FALSE
    BY <1>8
  <2>2. hosting' = "started"
    BY <1>1, <1>4
  <2> QED BY <1>4, <1>7, <1>8, <1>9, <2>1, <2>2 DEF OneChain, Nowhere
<1> QED BY <1>10, <1>11, <1>12, <1>13 DEF ReadInv

LEMMA RoomReads ==
    ASSUME ReadInv, RunOther \/ Forget PROVE ReadInv'
<1>1. /\ inRoom /\ UNCHANGED <<hosting, reading, strand, connectionLost, joined, inbox>>
      /\ \/ running = Nowhere /\ running' = "other" /\ inRoom' = inRoom
         \/ running # Nowhere /\ running' = running /\ inRoom' = FALSE
  BY DEF RunOther, Forget, reads
<1>2. hosting \in {"posted", "started"} /\ joined
  BY <1>1 DEF ReadInv, ReadTypes, Untouched, JoinFirst
<1>3. /\ IsRead' <=> IsRead
      /\ IsHandled' <=> IsHandled
      /\ IsEvent' <=> IsEvent
  BY <1>1 DEF IsRead, IsHandled, IsEvent, Nowhere
<1>4. ReadTypes'
  BY <1>1 DEF ReadInv, ReadTypes
<1>5. Untouched' /\ JoinFirst' /\ InInbox'
  BY <1>1, <1>2 DEF ReadInv, Untouched, JoinFirst, InInbox
<1>6. Forgotten'
  BY <1>1 DEF ReadInv, Forgotten, Nowhere
<1>7. OneChain'
  BY <1>1, <1>3 DEF ReadInv, OneChain, Nowhere
<1> QED BY <1>4, <1>5, <1>6, <1>7 DEF ReadInv

LEMMA EndHandlerReads ==
    ASSUME ReadInv, EndHandler PROVE ReadInv'
<1>1. /\ running # Nowhere /\ running' = Nowhere /\ (running = "lost" => ~ inRoom)
      /\ reading' = IF running = "event" THEN "header" ELSE reading
      /\ UNCHANGED <<hosting, strand, connectionLost, joined, inRoom, inbox>>
  BY DEF EndHandler
<1>2. hosting \in {"posted", "started"} /\ joined
  BY <1>1 DEF ReadInv, ReadTypes, Untouched, JoinFirst
<1>3. /\ IsRead' <=> IsRead \/ IsEvent
      /\ IsHandled' <=> IsHandled
      /\ ~ IsEvent'
  BY <1>1 DEF IsRead, IsHandled, IsEvent, Nowhere
<1>4. ReadTypes'
  BY <1>1 DEF ReadInv, ReadTypes
<1>5. Untouched' /\ JoinFirst' /\ InInbox'
  BY <1>1, <1>2 DEF ReadInv, Untouched, JoinFirst, InInbox
<1>6. Forgotten'
  BY <1>1 DEF ReadInv, Forgotten
<1>7. OneChain'
  BY <1>1, <1>3 DEF ReadInv, OneChain, Nowhere
<1> QED BY <1>4, <1>5, <1>6, <1>7 DEF ReadInv

LEMMA PeerReads ==
    ASSUME ReadInv, Peer PROVE ReadInv'
<1>1. /\ UNCHANGED readVars
      /\ \/ inbox' = inbox
         \/ \E m \in Messages : inbox' = Append(inbox, m)
  BY DEF Peer, PeerSends, PeerCloses, Breaks, readVars, room, reads, Messages
<1>2. inbox' \in Seq(Messages) /\ (inbox # <<>> => inbox' # <<>>)
  BY <1>1, AppendProperties DEF ReadInv, ReadTypes
<1> QED BY <1>1, <1>2 DEF ReadInv, ReadTypes, Untouched, JoinFirst, OneChain, Forgotten,
           InInbox, readVars, IsRead, IsHandled, IsEvent

-----------------------------------------------------------------------------
(***************************************************************************)
(* The invariant of a connection.                                          *)
(***************************************************************************)
PlainTypes ==
    /\ named \in BOOLEAN /\ asked \in BOOLEAN
    /\ disconnecting \in BOOLEAN /\ shut \in BOOLEAN
    /\ heard \in 0..MaxIn /\ closed \in BOOLEAN /\ broken \in BOOLEAN

Inv == MsgInv /\ ReadInv /\ PlainTypes

LEMMA InitInv ==
    ASSUME Init PROVE Inv
<1>1. MsgInv
  BY ClientIOAssumption DEF Init, MsgInv, MsgTypes, Numbered, Done, OneWrite, Unused
<1>2. ReadInv
  <2>1. /\ hosting = "hello" /\ strand = <<>> /\ running = Nowhere /\ reading = Nowhere
        /\ ~ connectionLost /\ ~ joined /\ ~ inRoom /\ inbox = <<>>
    BY DEF Init
  <2>2. connectionLost \in BOOLEAN /\ joined \in BOOLEAN /\ inRoom \in BOOLEAN
    BY Zenon DEF Init
  <2>3. ReadTypes
    BY <2>1, <2>2 DEF ReadTypes
  <2>4. ~ IsRead /\ ~ IsHandled /\ ~ IsEvent
    BY <2>1 DEF IsRead, IsHandled, IsEvent, Nowhere
  <2>5. \A i \in 1..Len(strand) : FALSE
    BY <2>1
  <2> QED BY <2>1, <2>3, <2>4, <2>5
          DEF ReadInv, Untouched, JoinFirst, OneChain, Forgotten, InInbox, Nowhere
<1>3. PlainTypes
  <2>1. heard \in 0..MaxIn
    BY ClientIOAssumption DEF Init
  <2> QED BY <2>1, Zenon DEF Init, PlainTypes
<1> QED BY <1>1, <1>2, <1>3 DEF Inv

LEMMA NextMessages ==
    ASSUME MsgInv, Untouched, [Next]_vars PROVE MsgInv'
<1>1. CASE Handshake
  <2>1. CASE \E n \in {1, 2} : n <= MaxOut /\ Refuse(n)
    BY <2>1, RefuseMessages
  <2>2. CASE TakeName \/ BecomeClient \/ Drop
    BY <2>2, SameMessages DEF TakeName, BecomeClient, Drop, queue, msgVars
  <2> QED BY <1>1, <2>1, <2>2 DEF Handshake
<1>2. CASE DoReadEnd \/ Start \/ RunOther \/ EndHandler \/ Forget
  BY <1>2, SameMessages
     DEF DoReadEnd, Start, StartSteps, RunOther, EndHandler, Forget, queue, msgVars
<1>3. CASE Read
  BY <1>3, SameMessages DEF Read, HeaderRead, BodyRead, ReadFails, ReadEnds, queue, msgVars
<1>4. CASE StrandRuns
  BY <1>4, SameMessages DEF StrandRuns, RunJoin, RunHeader, RunBody, RunLost, queue, msgVars
<1>5. CASE Send
  BY <1>5, SendMessages
<1>6. CASE Disconnect
  BY <1>6, SameMessages DEF Disconnect, msgVars
<1>7. CASE WriteEnds
  BY <1>7, WriteEndsMessages
<1>8. CASE WriteHandled
  BY <1>8, WriteHandledMessages
<1>9. CASE Peer
  BY <1>9, SameMessages DEF Peer, PeerSends, PeerCloses, Breaks, queue, msgVars
<1>10. CASE UNCHANGED vars
  BY <1>10, SameMessages DEF vars, queue, msgVars
<1> QED BY <1>1, <1>2, <1>3, <1>4, <1>5, <1>6, <1>7, <1>8, <1>9, <1>10 DEF Next, RoomCalls

LEMMA NextReads ==
    ASSUME ReadInv, [Next]_vars PROVE ReadInv'
<1>1. CASE Handshake \/ DoReadEnd
  BY <1>1, HandshakeReads
<1>2. CASE Start
  BY <1>2, StartReads
<1>3. CASE Read
  BY <1>3, ReadReads
<1>4. CASE StrandRuns
  BY <1>4, RunJoinReads, RunReadReads DEF StrandRuns
<1>5. CASE RunOther \/ Forget
  BY <1>5, RoomReads
<1>6. CASE EndHandler
  BY <1>6, EndHandlerReads
<1>7. CASE Send \/ Disconnect
  BY <1>7, SameReads DEF Send, Disconnect, room, reads, readVars
<1>8. CASE WriteEnds
  BY <1>8, SameReads DEF WriteEnds, Written, WriteFails, room, reads, readVars
<1>9. CASE WriteHandled
  BY <1>9, SameReads DEF WriteHandled, HandleWritten, HandleFailed, room, reads, readVars
<1>10. CASE Peer
  BY <1>10, PeerReads
<1>11. CASE UNCHANGED vars
  BY <1>11, SameReads DEF vars, room, reads, readVars
<1> QED BY <1>1, <1>2, <1>3, <1>4, <1>5, <1>6, <1>7, <1>8, <1>9, <1>10, <1>11
        DEF Next, RoomCalls

LEMMA NextPlain ==
    ASSUME PlainTypes, [Next]_vars PROVE PlainTypes'
<1> USE DEF PlainTypes
<1>1. CASE Handshake \/ DoReadEnd \/ Start
  BY <1>1, Zenon DEF Handshake, TakeName, BecomeClient, Refuse, Drop, Receives, DoReadEnd,
                     Start, room, queue, peer
<1>2. CASE Read \/ StrandRuns
  BY <1>2, Zenon DEF Read, HeaderRead, BodyRead, ReadFails, ReadEnds, StrandRuns, RunJoin,
                     RunHeader, RunBody, RunLost, room, queue, peer
<1>3. CASE RunOther \/ EndHandler \/ RoomCalls
  BY <1>3, Zenon DEF RunOther, EndHandler, RoomCalls, Send, Disconnect, Forget, queue, peer, room
<1>4. CASE WriteEnds \/ WriteHandled
  BY <1>4, Zenon DEF WriteEnds, WriteHandled, Written, WriteFails, HandleWritten,
                     HandleFailed, room, peer
<1>5. CASE Peer
  <2>1. UNCHANGED <<named, asked, disconnecting, shut>>
    BY <1>5 DEF Peer, PeerSends, PeerCloses, Breaks, room, queue
  <2>2. heard' \in 0..MaxIn
    BY <1>5, ClientIOAssumption DEF Peer, PeerSends, PeerCloses, Breaks
  <2>3. closed' \in BOOLEAN /\ broken' \in BOOLEAN
    BY <1>5, Zenon DEF Peer, PeerSends, PeerCloses, Breaks
  <2> QED BY <2>1, <2>2, <2>3
<1>6. CASE UNCHANGED vars
  BY <1>6, Zenon DEF vars, room, queue, peer
<1> QED BY <1>1, <1>2, <1>3, <1>4, <1>5, <1>6 DEF Next

\* The two groups of facts together are inductive.
THEOREM ConnectionInvariant == Spec => []Inv
<1>1. Inv /\ [Next]_vars => Inv'
  BY NextMessages, NextReads, NextPlain DEF Inv, ReadInv
<1> QED BY InitInv, <1>1, PTL DEF Spec

\* The variables of a connection keep their types (Client, RoomHosting::Connection).
THEOREM ConnectionTypes == Spec => []TypeOK
<1>1. Inv => TypeOK
  BY DEF Inv, MsgInv, MsgTypes, ReadInv, ReadTypes, PlainTypes, TypeOK
<1> QED BY <1>1, ConnectionInvariant, PTL

-----------------------------------------------------------------------------
(***************************************************************************)
(* What follows from it.                                                   *)
(***************************************************************************)
LEMMA Numbers ==
    ASSUME NEW n \in Nat
    PROVE  /\ [i \in 1..n |-> i] \in Seq(Nat) /\ Len([i \in 1..n |-> i]) = n
           /\ \A i \in 1..n : [j \in 1..n |-> j][i] = i
OBVIOUS

LEMMA OrderFromNumbers ==
    ASSUME MsgInv PROVE WritesInOrder
<1> DEFINE rest == IF Done THEN Tail(outgoing) ELSE outgoing
<1>1. /\ outgoing \in Seq(Nat) /\ wire \in Seq(Nat) /\ sent \in Nat
  <2>1. \A q \in Seq(1..MaxOut) : q \in Seq(Nat)
    BY SeqMonotonic, ClientIOAssumption
  <2> QED BY <2>1, ClientIOAssumption DEF MsgInv, MsgTypes
<1>2. \A w \in writes : outgoing # <<>> /\ w.msg = Head(outgoing)
  BY DEF MsgInv, OneWrite
<1>3. Cardinality(writes) <= 1
  <2>1. CASE writes = {}
    BY <2>1, FS_EmptySet
  <2>2. CASE writes # {}
    <3>1. PICK w \in writes : TRUE
      BY <2>2
    <3>2. writes = {w}
      BY <3>1 DEF MsgInv, OneWrite
    <3>3. Cardinality({w}) = 1
      BY FS_Singleton
    <3> QED BY <3>2, <3>3
  <2> QED BY <2>1, <2>2
<1>4. /\ rest \in Seq(Nat) /\ Len(wire) + Len(rest) = sent
      /\ \A i \in 1..Len(rest) : rest[i] = Len(wire) + i
  <2>1. CASE Done
    <3>1. outgoing # <<>>
      BY <1>2, <2>1 DEF Done
    <3>2. /\ rest \in Seq(Nat) /\ Len(rest) = Len(outgoing) - 1
          /\ \A i \in 1..Len(rest) : rest[i] = outgoing[i + 1]
      BY <1>1, <2>1, <3>1, HeadTailProperties
    <3>3. sent + 1 = Len(wire) + Len(outgoing) /\ Len(outgoing) \in Nat /\ Len(wire) \in Nat
      BY <1>1, <2>1 DEF MsgInv, Numbered
    <3>4. ASSUME NEW i \in 1..Len(rest) PROVE rest[i] = Len(wire) + i
      <4>1. i + 1 \in 1..Len(outgoing) /\ i \in Nat
        BY <3>2, <3>3
      <4>2. outgoing[i + 1] = sent - Len(outgoing) + (i + 1)
        BY <4>1 DEF MsgInv, Numbered
      <4>3. rest[i] = outgoing[i + 1]
        BY <3>2
      <4>4. sent \in Nat
        BY <1>1
      <4>5. sent - Len(outgoing) + (i + 1) = Len(wire) + i
        BY <3>3, <4>1, <4>4
      <4> HIDE DEF rest
      <4> QED BY <4>2, <4>3, <4>5
    <3> HIDE DEF rest
    <3> QED BY <1>1, <3>2, <3>3, <3>4
  <2>2. CASE ~ Done
    BY <1>1, <2>2 DEF MsgInv, Numbered
  <2> QED BY <2>1, <2>2
<1> HIDE DEF rest
<1>5. wire \o rest = [i \in 1..sent |-> i]
  <2>1. /\ wire \o rest \in Seq(Nat) /\ Len(wire \o rest) = sent
        /\ \A i \in 1..sent : (wire \o rest)[i] = IF i <= Len(wire) THEN wire[i]
                                                 ELSE rest[i - Len(wire)]
    BY <1>1, <1>4, ConcatProperties
  <2>2. \A i \in 1..sent : (wire \o rest)[i] = i
    <3> SUFFICES ASSUME NEW i \in 1..sent PROVE (wire \o rest)[i] = i
      OBVIOUS
    <3>1. CASE i <= Len(wire)
      BY <1>1, <2>1, <3>1 DEF MsgInv, Numbered
    <3>2. CASE i > Len(wire)
      <4>1. i - Len(wire) \in 1..Len(rest)
        BY <1>1, <1>4, <3>2
      <4>2. rest[i - Len(wire)] = i
        <5> DEFINE j == i - Len(wire)
        <5>1. rest[j] = Len(wire) + j
          BY <1>4, <4>1
        <5>2. i \in Nat /\ Len(wire) \in Nat
          BY <1>1
        <5>3. Len(wire) + j = i
          BY <5>2
        <5> HIDE DEF j
        <5>4. rest[j] = i
          BY <5>1, <5>3
        <5> QED BY <5>4 DEF j
      <4> QED BY <1>1, <2>1, <3>2, <4>2
    <3>3. Len(wire) \in Nat /\ i \in Nat
      BY <1>1
    <3>4. i <= Len(wire) \/ i > Len(wire)
      BY <3>3
    <3> QED BY <3>1, <3>2, <3>4, Zenon
  <2> DEFINE all == [i \in 1..sent |-> i]
  <2>3. /\ all \in Seq(Nat) /\ Len(all) = sent
        /\ \A i \in 1..sent : all[i] = i
    BY <1>1, Numbers
  <2> HIDE DEF all
  <2>4. wire \o rest = all
    BY <2>1, <2>2, <2>3, SeqEqual
  <2> QED BY <2>4 DEF all
<1> QED BY <1>2, <1>3, <1>5 DEF WritesInOrder, Done, rest

\* Messages are written in the order they were sent in, one at a time, none twice and
\* none left out (Client::Send, DoWrite).
THEOREM WritesKeepOrder == Spec => []WritesInOrder
<1>1. Inv => WritesInOrder
  BY OrderFromNumbers DEF Inv
<1> QED BY <1>1, ConnectionInvariant, PTL

\* A room that has a pointer to a client has one to a client that exists: the chain of
\* reads keeps it until the room has forgotten it (Client::DoReadHeader, DoReadBody).
THEOREM NoClientDangles == Spec => []NoDanglingClient
<1>1. Inv => NoDanglingClient
  <2> SUFFICES ASSUME Inv, inRoom PROVE Alive
    BY DEF NoDanglingClient
  <2>1. hosting \in {"posted", "started"}
    BY DEF Inv, ReadInv, ReadTypes, Untouched
  <2>2. CASE hosting = "posted"
    BY <2>2 DEF Alive
  <2>3. CASE hosting = "started"
    <3>1. IsRead \/ IsHandled \/ IsEvent \/ running = "lost"
      BY <2>3 DEF Inv, ReadInv, OneChain, Forgotten
    <3>2. IsHandled => strand # <<>>
      BY DEF IsHandled
    <3> QED BY <3>1, <3>2 DEF Alive, IsRead, IsEvent, Nowhere
  <2> QED BY <2>1, <2>2, <2>3
<1> QED BY <1>1, ConnectionInvariant, PTL

\* A room hears of Join first and of nothing after the loss of the connection, which
\* it hears of once (Client::Start, HandleMsg).
THEOREM EventsKeepOrder == Spec => EventsInOrder
<1>1. ASSUME Inv, [Next]_vars,
             running' # running, running' \in {"join", "event", "lost"}
      PROVE  ~ connectionLost /\ joined = (running' # "join")
  <2>1. StrandRuns
    BY <1>1 DEF Next, Handshake, TakeName, BecomeClient, Drop, Refuse, DoReadEnd, Start,
                Read, HeaderRead, BodyRead, ReadFails, ReadEnds, RunOther, RoomCalls, Send,
                Disconnect, Forget, EndHandler, WriteEnds, Written, WriteFails,
                WriteHandled, HandleWritten, HandleFailed, Peer, PeerSends, PeerCloses,
                Breaks, vars, room, Nowhere
  <2>2. ReadInv /\ joined \in BOOLEAN
    BY <1>1 DEF Inv, ReadInv, ReadTypes
  <2>3. strand # <<>> => 1 \in 1..Len(strand)
    BY <2>2, EmptySeq DEF ReadInv, ReadTypes
  <2>4. CASE RunJoin
    <3>1. 1 \in 1..Len(strand) /\ strand[1] = Join /\ running' = "join"
      BY <2>3, <2>4 DEF RunJoin
    <3>2. ~ joined /\ hosting \in {"posted", "started"}
      BY <2>2, <3>1 DEF ReadInv, ReadTypes, JoinFirst, Untouched
    <3>3. ~ connectionLost
      BY <2>2, <3>2 DEF ReadInv, JoinFirst
    <3> QED BY <2>2, <3>1, <3>2, <3>3
  <2>5. CASE RunHeader
    BY <1>1, <2>5 DEF RunHeader, room
  <2>6. CASE RunBody \/ RunLost
    <3>1. /\ 1 \in 1..Len(strand) /\ strand[1] # Join
          /\ running' # "join"
      BY <2>3, <2>6 DEF RunBody, RunLost, Join, Nowhere
    <3>2. IsHandled
      BY <3>1 DEF IsHandled
    <3>3. ~ connectionLost /\ hosting = "started"
      BY <2>2, <3>2, Reached DEF ReadInv, OneChain
    <3>4. joined
      BY <2>2, <3>1, <3>3 DEF ReadInv, JoinFirst
    <3> QED BY <2>2, <3>1, <3>3, <3>4
  <2> QED BY <2>1, <2>4, <2>5, <2>6 DEF StrandRuns
<1> QED BY <1>1, ConnectionInvariant, PTL DEF Spec, EventsInOrder

\* The socket is shut down when everything that was sent is written (Client::Disconnect
\* and the handler of DoWrite).
THEOREM FlushedBeforeShutdown == Spec => FlushedFirst
<1>1. ASSUME Inv, [Next]_vars, shut', ~ shut
      PROVE  wire' = [i \in 1..sent |-> i]
  <2>1. Disconnect \/ WriteHandled
    BY <1>1 DEF Next, Handshake, TakeName, BecomeClient, Drop, Refuse, DoReadEnd, Start,
                Read, HeaderRead, BodyRead, ReadFails, ReadEnds, StrandRuns, RunJoin,
                RunHeader, RunBody, RunLost, RunOther, RoomCalls, Send, Forget, EndHandler,
                WriteEnds, Written, WriteFails, Peer, PeerSends, PeerCloses, Breaks,
                vars, queue
  <2>2. MsgInv /\ WritesInOrder
    BY <1>1, OrderFromNumbers DEF Inv
  <2>3. wire \in Seq(1..MaxOut)
    BY <2>2 DEF MsgInv, MsgTypes
  <2>4. CASE Disconnect
    <3>1. outgoing = <<>> /\ wire' = wire
      BY <1>1, <2>4 DEF Disconnect
    <3>2. ~ Done
      BY <2>2, <3>1 DEF Done, MsgInv, OneWrite
    <3>3. wire \o <<>> = [i \in 1..sent |-> i]
      BY <2>2, <3>1, <3>2 DEF WritesInOrder, Done
    <3> QED BY <2>3, <3>1, <3>3, ConcatEmptySeq
  <2>5. CASE WriteHandled
    <3>1. PICK w \in writes : HandleWritten(w)
      BY <1>1, <2>5 DEF WriteHandled, HandleFailed
    <3>2. Len(outgoing) = 1 /\ wire' = wire /\ Done
      BY <1>1, <3>1 DEF HandleWritten, Done
    <3>3. Tail(outgoing) = <<>>
      <4>1. outgoing \in Seq(1..MaxOut) /\ outgoing # <<>>
        BY <2>2, <3>1 DEF MsgInv, MsgTypes, OneWrite
      <4>2. Tail(outgoing) \in Seq(1..MaxOut) /\ Len(Tail(outgoing)) = 0
        BY <3>2, <4>1, HeadTailProperties
      <4> QED BY <4>2, EmptySeq
    <3>4. wire \o <<>> = [i \in 1..sent |-> i]
      BY <2>2, <3>2, <3>3 DEF WritesInOrder, Done
    <3> QED BY <2>3, <3>2, <3>4, ConcatEmptySeq
  <2> QED BY <2>1, <2>4, <2>5
<1> QED BY <1>1, ConnectionInvariant, PTL DEF Spec, FlushedFirst

=============================================================================
