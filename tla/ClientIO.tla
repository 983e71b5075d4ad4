------------------------------- MODULE ClientIO -------------------------------
(***************************************************************************)
(* One connection: the handshake (RoomHosting), which refuses it or makes  *)
(* a client of it, and the client: reading on the room's strand, writing   *)
(* beside it, and the end of the connection.                               *)
(*                                                                         *)
(* What runs on the strand (the room's handlers, which Send to the client  *)
(* and Disconnect it, and the handlers of its reads) runs one after the    *)
(* other; the handlers of completed writes run on any thread at any time,  *)
(* and share the queue of outgoing messages under mOutgoing.               *)
(*                                                                         *)
(* The Client object has no owner: it lives as long as an operation, a     *)
(* completed one that waits for its handler, or a handler holds a pointer  *)
(* to it.  The room keeps a plain pointer from Join on.                    *)
(*                                                                         *)
(* Outgoing messages are numbered in the order in which they are sent.     *)
(***************************************************************************)
EXTENDS Naturals, Sequences, FiniteSets

CONSTANTS
    MaxOut,     \* bound: messages the room sends
    MaxIn       \* bound: messages the peer sends

ASSUME ClientIOAssumption == MaxOut \in Nat /\ MaxIn \in Nat

VARIABLES
    hosting,        \* how far the handshake and Start have come, in the endpoint
    named,          \* PLAYER_INFO has been taken
    strand,         \* handlers that wait for the strand
    running,        \* the handler the strand runs
    reading,        \* the read under way
    outgoing,       \* the queue of messages
    writes,         \* writes under way or completed, until their handler has run
    disconnecting,
    connectionLost,
    joined,         \* the room has heard of the client
    inRoom,         \* the room has a pointer to the client
    asked,          \* Disconnect has been called
    sent,           \* messages Send has taken
    shut,           \* Shutdown has been called
    inbox,          \* messages of the peer that are not read yet
    heard,          \* messages of the peer so far
    closed,         \* the peer has closed its side
    broken,         \* the network has dropped the connection
    wire            \* messages written

reads == <<reading, connectionLost>>
queue == <<outgoing, writes, disconnecting, shut, sent>>
room == <<running, joined, inRoom, asked>>
peer == <<heard, closed, broken>>
vars == <<hosting, named, strand, room, reads, queue, inbox, peer, wire>>

Nowhere == "none"
Join == <<"join", "ok">>

\* Somebody holds a pointer: the endpoint, a handler that waits or runs, a read or
\* a write.  The handlers of others, that call this client, do not.
Alive ==
    \/ hosting \notin {"started", "refused", "dropped"}
    \/ strand # <<>> \/ running \in {"join", "event", "lost"}
    \/ reading # Nowhere
    \/ writes # {}

-----------------------------------------------------------------------------
(***************************************************************************)
(* The handshake, until the socket moves to a client.  Its messages are    *)
(* read one after the other, without the strand.                           *)
(***************************************************************************)
Receives ==
    /\ hosting = "hello" /\ inbox # <<>> /\ Head(inbox) # "bad" /\ ~ broken
    /\ inbox' = Tail(inbox)

\* PLAYER_INFO with a name, from an address that may have another connection.
TakeName ==
    /\ Receives /\ named' = TRUE
    /\ UNCHANGED <<hosting, strand, room, reads, queue, peer, wire>>

\* CREATE_GAME, or JOIN_GAME of a room that admits the client, after PLAYER_INFO.
BecomeClient ==
    /\ Receives /\ named /\ hosting' = "created"
    /\ UNCHANGED <<named, strand, room, reads, queue, peer, wire>>

\* Anything else: one or two messages say why, and the connection ends when they are
\* written, as if it was to be disconnected. What else comes is read and ignored.
Refuse(n) ==
    /\ Receives /\ hosting' = "refused"
    /\ outgoing' = [i \in 1..n |-> i] /\ sent' = n
    /\ writes' = {[msg |-> 1, state |-> "writing"]} /\ disconnecting' = TRUE
    /\ reading' = "end"
    /\ UNCHANGED <<named, strand, room, connectionLost, shut, peer, wire>>

\* A header that is not valid, or no more of them.
Drop ==
    /\ hosting = "hello"
    /\ broken \/ (inbox = <<>> /\ closed) \/ (inbox # <<>> /\ Head(inbox) = "bad")
    /\ hosting' = "dropped"
    /\ UNCHANGED <<named, strand, room, reads, queue, inbox, peer, wire>>

DoReadEnd ==
    /\ reading = "end"
    /\ \/ inbox # <<>> /\ ~ broken /\ inbox' = Tail(inbox) /\ UNCHANGED reading
       \/ (broken \/ ((closed \/ shut) /\ inbox = <<>>)) /\ reading' = Nowhere /\ UNCHANGED inbox
    /\ UNCHANGED <<hosting, named, strand, room, connectionLost, queue, peer, wire>>

Handshake ==
    \/ TakeName \/ BecomeClient \/ Drop
    \/ \E n \in {1, 2} : n <= MaxOut /\ Refuse(n)

-----------------------------------------------------------------------------
(***************************************************************************)
(* Start, in the thread that has accepted the client.                      *)
(***************************************************************************)
StartSteps ==
    \/ /\ hosting = "created" /\ hosting' = "posted"
       /\ strand' = Append(strand, Join) /\ UNCHANGED reading
    \/ /\ hosting = "posted" /\ hosting' = "started" /\ reading' = "header"
       /\ UNCHANGED strand

Start ==
    /\ StartSteps
    /\ UNCHANGED <<named, room, connectionLost, queue, inbox, peer, wire>>

-----------------------------------------------------------------------------
(***************************************************************************)
(* Reading.                                                                *)
(***************************************************************************)
\* A read ends with data, or with an error if there is none and will be none.  A
\* message is good, is one that is ignored, or has a header that is not valid.
ReadEnds(result) ==
    /\ reading \in {"header", "body"} /\ reading' = Nowhere
    /\ strand' = Append(strand, <<reading, result>>)
    /\ UNCHANGED <<hosting, named, room, connectionLost, queue, peer, wire>>

HeaderRead ==
    /\ reading = "header" /\ inbox # <<>> /\ ~ broken
    /\ ReadEnds(IF Head(inbox) = "bad" THEN "invalid" ELSE "ok")
    /\ UNCHANGED inbox

BodyRead ==
    /\ reading = "body" /\ ~ broken
    /\ ReadEnds(Head(inbox)) /\ inbox' = Tail(inbox)

ReadFails ==
    /\ broken \/ ((closed \/ shut) /\ inbox = <<>>)
    /\ ReadEnds("error")
    /\ UNCHANGED inbox

\* The handler of Join, which Start has posted.  A room that closes does not keep
\* the client.
RunJoin ==
    /\ running = Nowhere /\ strand # <<>> /\ Head(strand) = Join
    /\ strand' = Tail(strand) /\ running' = "join"
    /\ joined' = TRUE /\ inRoom' \in BOOLEAN
    /\ UNCHANGED <<hosting, named, asked, reads, queue, inbox, peer, wire>>

\* The handler of DoReadHeader.
RunHeader ==
    /\ running = Nowhere /\ strand # <<>> /\ Head(strand) = <<"header", "ok">>
    /\ strand' = Tail(strand)
    /\ reading' = "body"
    /\ UNCHANGED <<hosting, named, room, connectionLost, queue, inbox, peer, wire>>

\* Mutation: a message that is ignored ends the reading.
IgnoredEnds ==
    /\ running = Nowhere /\ strand # <<>> /\ Head(strand) \in {"body"} \X {"good", "ignored"}
    /\ strand' = Tail(strand)
    /\ running' = IF Head(strand)[2] = "good" THEN "event" ELSE Nowhere
    /\ UNCHANGED <<hosting, named, joined, inRoom, asked, reads, queue, inbox, peer, wire>>

\* The handler of DoReadBody: HandleMsg dispatches an event, or ignores the message.
RunBody ==
    /\ running = Nowhere /\ strand # <<>> /\ Head(strand) \in {"body"} \X {"good", "ignored"}
    /\ strand' = Tail(strand)
    /\ running' = IF Head(strand)[2] = "good" THEN "event" ELSE Nowhere
    /\ reading' = IF Head(strand)[2] = "good" THEN Nowhere ELSE "header"
    /\ UNCHANGED <<hosting, named, joined, inRoom, asked, connectionLost, queue, inbox,
                   peer, wire>>

\* Either handler, with an error or a header that is not valid.
RunLost ==
    /\ running = Nowhere /\ strand # <<>> /\ Head(strand) # Join
    /\ Head(strand)[2] \in {"error", "invalid"}
    /\ strand' = Tail(strand)
    /\ connectionLost' = TRUE
    /\ running' = "lost"
    /\ UNCHANGED <<hosting, named, joined, inRoom, asked, reading, queue, inbox, peer,
                   wire>>

-----------------------------------------------------------------------------
(***************************************************************************)
(* The room's handlers.                                                    *)
(***************************************************************************)
\* A handler of another client's event or of a timer.
RunOther ==
    /\ running = Nowhere /\ inRoom /\ running' = "other"
    /\ UNCHANGED <<hosting, named, strand, joined, inRoom, asked, reads, queue, inbox,
                   peer, wire>>

\* The client is in the room's lists, or the event is the client's own.
Reach == inRoom \/ running \in {"join", "event", "lost"}

\* DoWrite takes the front of the queue.
Writing(m) == [msg |-> m, state |-> "writing"]

\* Mutation: a message is written at once, whatever is being written.
WriteAtOnce ==
    /\ running # Nowhere /\ Reach /\ sent < MaxOut
    /\ ~ connectionLost
    /\ sent' = sent + 1
    /\ outgoing' = Append(outgoing, sent + 1)
    /\ writes' = writes \cup {Writing(sent + 1)}
    /\ UNCHANGED <<hosting, named, strand, room, reads, disconnecting, shut, inbox,
                   peer, wire>>

Send ==
    /\ running # Nowhere /\ Reach /\ sent < MaxOut
    /\ ~ connectionLost
    /\ sent' = sent + 1
    /\ outgoing' = Append(outgoing, sent + 1)
    /\ writes' = IF outgoing = <<>> THEN writes \cup {Writing(sent + 1)} ELSE writes
    /\ UNCHANGED <<hosting, named, strand, room, reads, disconnecting, shut, inbox,
                   peer, wire>>

\* Mutation: the queue is not looked at.
DisconnectNow ==
    /\ running # Nowhere /\ Reach /\ asked' = TRUE
    /\ shut' = TRUE
    /\ UNCHANGED <<hosting, named, strand, running, joined, inRoom, reads, outgoing,
                   writes, disconnecting, sent, inbox, peer, wire>>

Disconnect ==
    /\ running # Nowhere /\ Reach /\ asked' = TRUE
    /\ IF outgoing = <<>> THEN shut' = TRUE /\ UNCHANGED disconnecting
                          ELSE disconnecting' = TRUE /\ UNCHANGED shut
    /\ UNCHANGED <<hosting, named, strand, running, joined, inRoom, reads, outgoing,
                   writes, sent, inbox, peer, wire>>

\* The room forgets a client it disconnects, or one whose connection is lost.
Forget ==
    /\ running # Nowhere /\ inRoom /\ (asked \/ running = "lost")
    /\ inRoom' = FALSE
    /\ UNCHANGED <<hosting, named, strand, running, joined, asked, reads, queue, inbox,
                   peer, wire>>

\* The handler ends; that of DoReadBody goes on with the next header.  A client
\* that is lost has been forgotten.
EndHandler ==
    /\ running # Nowhere /\ running' = Nowhere
    /\ running = "lost" => ~ inRoom
    /\ reading' = IF running = "event" THEN "header" ELSE reading
    /\ UNCHANGED <<hosting, named, strand, joined, inRoom, asked, connectionLost, queue,
                   inbox, peer, wire>>

-----------------------------------------------------------------------------
(***************************************************************************)
(* Writing.                                                                *)
(***************************************************************************)
\* The network takes a message, or the write fails.
Written(w) ==
    /\ w.state = "writing" /\ ~ shut /\ ~ broken
    /\ writes' = (writes \ {w}) \cup {[w EXCEPT !.state = "done"]}
    /\ wire' = Append(wire, w.msg)
    /\ UNCHANGED <<hosting, named, strand, room, reads, outgoing, disconnecting, shut,
                   sent, inbox, peer>>

WriteFails(w) ==
    /\ w.state = "writing" /\ (shut \/ broken)
    /\ writes' = (writes \ {w}) \cup {[w EXCEPT !.state = "failed"]}
    /\ UNCHANGED <<hosting, named, strand, room, reads, outgoing, disconnecting, shut,
                   sent, inbox, peer, wire>>

\* The handler of DoWrite, on any thread.
\* Mutation: it forgets that the client is to be disconnected.
HandleWrittenOnly(w) ==
    /\ w.state = "done"
    /\ outgoing' = Tail(outgoing)
    /\ writes' = (writes \ {w}) \cup
                 (IF Len(outgoing) > 1 THEN {Writing(outgoing[2])} ELSE {})
    /\ UNCHANGED shut
    /\ UNCHANGED <<hosting, named, strand, room, reads, disconnecting, sent, inbox,
                   peer, wire>>

HandleWritten(w) ==
    /\ w.state = "done"
    /\ outgoing' = Tail(outgoing)
    /\ writes' = (writes \ {w}) \cup
                 (IF Len(outgoing) > 1 THEN {Writing(outgoing[2])} ELSE {})
    /\ shut' = (shut \/ (Len(outgoing) = 1 /\ disconnecting))
    /\ UNCHANGED <<hosting, named, strand, room, reads, disconnecting, sent, inbox,
                   peer, wire>>

\* With an error: the message stays in the queue.
HandleFailed(w) ==
    /\ w.state = "failed" /\ writes' = writes \ {w}
    /\ UNCHANGED <<hosting, named, strand, room, reads, outgoing, disconnecting, shut,
                   sent, inbox, peer, wire>>

-----------------------------------------------------------------------------
(***************************************************************************)
(* The peer and the network.                                               *)
(***************************************************************************)
PeerSends(m) ==
    /\ heard < MaxIn /\ ~ closed /\ ~ broken
    /\ heard' = heard + 1 /\ inbox' = Append(inbox, m)
    /\ UNCHANGED <<hosting, named, strand, room, reads, queue, closed, broken, wire>>

PeerCloses ==
    /\ ~ closed /\ closed' = TRUE
    /\ UNCHANGED <<hosting, named, strand, room, reads, queue, inbox, heard, broken, wire>>

Breaks ==
    /\ ~ broken /\ broken' = TRUE
    /\ UNCHANGED <<hosting, named, strand, room, reads, queue, inbox, heard, closed, wire>>

-----------------------------------------------------------------------------
Init ==
    /\ hosting = "hello" /\ named = FALSE /\ strand = <<>> /\ running = Nowhere /\ reading = Nowhere
    /\ outgoing = <<>> /\ writes = {} /\ disconnecting = FALSE /\ connectionLost = FALSE
    /\ joined = FALSE /\ inRoom = FALSE /\ asked = FALSE /\ sent = 0 /\ shut = FALSE
    /\ inbox = <<>> /\ heard = 0 /\ closed = FALSE /\ broken = FALSE /\ wire = <<>>

Read == HeaderRead \/ BodyRead \/ ReadFails
StrandRuns == RunJoin \/ RunHeader \/ RunBody \/ RunLost
RoomCalls == Send \/ Disconnect \/ Forget
WriteEnds == \E w \in writes : Written(w) \/ WriteFails(w)
WriteHandled == \E w \in writes : HandleWritten(w) \/ HandleFailed(w)
Peer == (\E m \in {"good", "ignored", "bad"} : PeerSends(m)) \/ PeerCloses \/ Breaks

Next ==
    \/ Handshake \/ DoReadEnd \/ Start
    \/ Read \/ StrandRuns \/ RunOther \/ RoomCalls \/ EndHandler
    \/ WriteEnds \/ WriteHandled \/ Peer

Spec == Init /\ [][Next]_vars

\* Threads run what is ready; a handler of the room comes to its end; reads end
\* when there is something to read; the peer goes on taking what is written until
\* the connection breaks.
Fairness ==
    /\ WF_vars(Handshake) /\ WF_vars(DoReadEnd) /\ WF_vars(Start)
    /\ WF_vars(Read) /\ SF_vars(StrandRuns) /\ WF_vars(EndHandler)
    /\ WF_vars(Forget /\ running = "lost")
    /\ WF_vars(WriteEnds) /\ WF_vars(WriteHandled)

FairSpec == Spec /\ Fairness

-----------------------------------------------------------------------------
Messages == {"good", "ignored", "bad"}
Handlers ==
    {Join} \cup ({"header", "body"} \X (Messages \cup {"ok", "invalid", "error"}))

\* Every variable has its type.
TypeOK ==
    /\ hosting \in {"hello", "dropped", "refused", "created", "posted", "started"}
    /\ running \in {Nowhere, "join", "event", "lost", "other"}
    /\ reading \in {Nowhere, "header", "body", "end"}
    /\ strand \in Seq(Handlers)
    /\ connectionLost \in BOOLEAN /\ joined \in BOOLEAN /\ inRoom \in BOOLEAN
    /\ outgoing \in Seq(1..MaxOut) /\ sent \in 0..MaxOut
    /\ writes \subseteq [msg : 1..MaxOut, state : {"writing", "done", "failed"}]
    /\ wire \in Seq(1..MaxOut)
    /\ named \in BOOLEAN /\ asked \in BOOLEAN
    /\ disconnecting \in BOOLEAN /\ shut \in BOOLEAN
    /\ inbox \in Seq(Messages) /\ heard \in 0..MaxIn
    /\ closed \in BOOLEAN /\ broken \in BOOLEAN

\* Whatever threads run the handlers of writes, there is one write at a time, of
\* the front of the queue; and what was written followed by what is queued is
\* what the room or the handshake has sent, in order, nothing twice and nothing left out.
WritesInOrder ==
    LET done == \E w \in writes : w.state = "done" IN
    /\ Cardinality(writes) <= 1
    /\ \A w \in writes : outgoing # <<>> /\ w.msg = Head(outgoing)
    /\ wire \o (IF done THEN Tail(outgoing) ELSE outgoing) = [i \in 1..sent |-> i]

\* The room has no pointer to a client that is gone, and calls none.
NoDanglingClient == inRoom => Alive

\* The room hears of a client's Join first, and of nothing after the loss of its
\* connection, of which it hears once.
EventsInOrder ==
    [][running' # running /\ running' \in {"join", "event", "lost"} =>
          ~ connectionLost /\ joined = (running' # "join")]_vars

\* A client is disconnected, and a refused connection ended, when everything it was
\* sent before is written, unless a write fails: then it waits for the connection to
\* be lost.
FlushedFirst == [][shut' /\ ~ shut => wire' = [i \in 1..sent |-> i]]_vars

\* A connection that is refused, that the room disconnects, or that is closed or broken by
\* the other side, is gone in the end, for the room and for the lobby's count of
\* connections, which the destructor lowers.
ClientsEnd == (asked \/ hosting = "refused" \/ closed \/ broken) ~> ~ Alive

=============================================================================
