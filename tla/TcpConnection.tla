---------------------------- MODULE TcpConnection ---------------------------
(***************************************************************************)
(* cooper/net/TcpConnectionImpl.cpp for a connection without TLS, with the *)
(* event dispatch of Channel.cpp: sending from the loop thread and from    *)
(* others, the list of data that did not fit into the socket, graceful     *)
(* and forced closing, and the peer.                                       *)
(*                                                                         *)
(* A message is MsgLen chunks <<message, number>>; the socket's send       *)
(* buffer holds Cap chunks.  What the handlers change is one record, conn, *)
(* and a handler is an operator from conn to conn.                         *)
(***************************************************************************)
EXTENDS Naturals, Sequences, FiniteSets, Functions

CONSTANTS
    Kinds,               \* what is sent: "mem" (send), "file", "stream"
    MaxMsgs,             \* bound: calls of send, sendFile and sendStream
    MsgLen,              \* chunks of a message
    Cap,                 \* chunks the socket's send buffer holds
    MayReset,            \* the peer may reset the connection
    Closers              \* who calls shutdown and forceClose: "loop", the loop
                         \* thread, and "other", any other thread

ASSUME ConnAssumption ==
    /\ Closers \subseteq {"loop", "other"}
    /\ Kinds \subseteq {"mem", "file", "stream"}
    /\ MayReset \in BOOLEAN
    /\ MaxMsgs \in Nat /\ MsgLen \in Nat \ {0} /\ Cap \in Nat \ {0}

VARIABLES
    conn,                \* the connection, see ConnType
    funcs,               \* functions queued in the loop: <<operation, message>>
    sendNum,             \* sendNum_
    sent,                \* send calls so far; messages are numbered by them
    stage, revents,      \* where the loop thread is in handleEvent; revents_
    destroyed, aborted,  \* connectDestroyed is over; its assertion has failed
    accepted             \* history: messages taken while connected

vars == <<conn, funcs, sendNum, sent, stage, revents, destroyed, aborted,
          accepted>>

Msgs == 1..MaxMsgs
Chunk == Msgs \X (1..MsgLen)
Node == [kind : {"mem", "file", "stream"}, chunks : Seq(Chunk)]

ConnType ==
    [status : {"Connecting", "Connected", "Disconnecting", "Disconnected"},
     reading : BOOLEAN, writing : BOOLEAN,   \* events_ of the channel
     list : Seq(Node),                       \* writeBufferList_
     closeOnEmpty : BOOLEAN,                 \* closeOnEmpty_
     fin : BOOLEAN,                          \* closeWrite() was called
     reset : BOOLEAN,                        \* the peer has reset
     room : 0..Cap, wire : Seq(Chunk),       \* the socket's buffer; all sent
     closed : Nat,                           \* calls of closeCallback_
     pushedLate : BOOLEAN]                   \* history: see PushFile

TypeOK ==
    /\ conn \in ConnType
    /\ funcs \in Seq({"mem", "file", "stream", "shutdown", "forceClose",
                      "destroy"} \X (Msgs \cup {0}))
    /\ sendNum \in 0..MaxMsgs
    /\ sent \in 0..MaxMsgs
    /\ stage \in {"idle", "close", "read", "user", "write", "complete"}
    /\ revents \in SUBSET {"in", "out", "hup"}
    /\ destroyed \in BOOLEAN /\ aborted \in BOOLEAN
    /\ accepted \in SUBSET Msgs

Init ==
    /\ conn = [status |-> "Connecting", reading |-> FALSE, writing |-> FALSE,
               list |-> <<>>, closeOnEmpty |-> FALSE, fin |-> FALSE,
               reset |-> FALSE, room |-> Cap, wire |-> <<>>, closed |-> 0,
               pushedLate |-> FALSE]
    /\ funcs = <<>> /\ sendNum = 0
    /\ sent = 0
    /\ stage = "idle" /\ revents = {}
    /\ destroyed = FALSE /\ aborted = FALSE
    /\ accepted = {}

-----------------------------------------------------------------------------
(* The socket *)

\* write and sendfile fail: EPIPE, ECONNRESET.
Broken(c) == c.fin \/ c.reset

Fits(c, chunks) == IF c.room < Len(chunks) THEN c.room ELSE Len(chunks)

\* A successful write or sendfile: what fits leaves ...
Put(c, chunks) ==
    LET n == Fits(c, chunks) IN
    [c EXCEPT !.wire = @ \o SubSeq(chunks, 1, n), !.room = @ - n]

\* ... and this stays.
Rest(c, chunks) == SubSeq(chunks, Fits(c, chunks) + 1, Len(chunks))

-----------------------------------------------------------------------------
(* sendInLoop and sendFileInLoop *)

ChunksOf(m) == [k \in 1..MsgLen |-> <<m, k>>]

\* Mutant: every buffered message gets a node of its own.
BufferInNewNode(c, rest) ==
    [c EXCEPT !.writing = TRUE,
              !.list = Append(@, [kind |-> "mem", chunks |-> rest])]

\* What was not sent joins the last node, unless that is a file or a stream.
Buffer(c, rest) ==
    LET k == Len(c.list) IN
    [c EXCEPT !.writing = TRUE,
              !.list = IF k > 0 /\ c.list[k].kind = "mem"
                       THEN [c.list EXCEPT ![k].chunks = c.list[k].chunks \o rest]
                       ELSE Append(c.list, [kind |-> "mem", chunks |-> rest])]

SendInLoop(c, m) ==
    LET direct == ~c.writing /\ c.list = <<>>
        rest   == IF direct THEN Rest(c, ChunksOf(m)) ELSE ChunksOf(m)
        d      == IF direct THEN Put(c, ChunksOf(m)) ELSE c IN
    IF c.status # "Connected" \/ (direct /\ Broken(c)) THEN c  \* give up sending
    ELSE IF rest = <<>> THEN d ELSE Buffer(d, rest)

\* sendfile on the node in front.  When nothing leaves (the socket is full) the
\* channel is not touched; a hard error stops writing.
SendFileKernel(c) ==
    CASE Broken(c) -> [c EXCEPT !.writing = FALSE]
      [] ~Broken(c) /\ c.room = 0 -> c
      [] ~Broken(c) /\ c.room > 0 ->
            [Put(c, c.list[1].chunks) EXCEPT
                !.writing = TRUE, !.list[1].chunks = Rest(c, @)]

\* The stream is asked for data and written until it ends or nothing fits; a
\* hard error ends it without touching the channel.
SendStream(c) ==
    IF Broken(c) /\ c.list[1].chunks # <<>>
    THEN [c EXCEPT !.list[1].chunks = <<>>]
    ELSE [Put(c, c.list[1].chunks) EXCEPT
             !.writing = TRUE, !.list[1].chunks = Rest(c, @)]

SendFileInLoop(c) ==
    IF c.list[1].kind = "stream" THEN SendStream(c) ELSE SendFileKernel(c)

\* The function of sendFile and sendStream: the status does not matter.
PushFile(c, kind, m) ==
    LET d == [c EXCEPT
                 !.list = Append(@, [kind |-> kind, chunks |-> ChunksOf(m)]),
                 !.pushedLate = @ \/ c.status = "Disconnected"] IN
    IF Len(d.list) = 1 THEN SendFileInLoop(d) ELSE d

Deliver(c, kind, m) ==
    IF kind = "mem" THEN SendInLoop(c, m) ELSE PushFile(c, kind, m)

\* Deliver, with the history of what was taken while connected.
DeliverNow(kind, m) ==
    /\ conn' = Deliver(conn, kind, m)
    /\ accepted' = IF conn.status = "Connected" /\ conn' # conn
                   THEN accepted \cup {m} ELSE accepted

-----------------------------------------------------------------------------
(* shutdown, forceClose, handleClose *)

\* Mutant: data in the list does not delay the end of writing.
ShutdownAtOnce(c) ==
    IF c.status # "Connected" THEN c
    ELSE [c EXCEPT !.status = "Disconnecting", !.fin = TRUE]

Shutdown(c) ==
    CASE c.status # "Connected" -> c
      [] c.status = "Connected" /\ c.list # <<>> ->
            [c EXCEPT !.closeOnEmpty = TRUE]
      [] c.status = "Connected" /\ c.list = <<>> ->
            [c EXCEPT !.status = "Disconnecting", !.fin = @ \/ ~c.writing]

\* The channel is silenced and the server told.
HandleClose(c) ==
    [c EXCEPT !.status = "Disconnected", !.reading = FALSE, !.writing = FALSE,
              !.closed = @ + 1]

ForceClose(c) ==
    IF c.status \in {"Connected", "Disconnecting"} THEN HandleClose(c) ELSE c

Close(c, op) == IF op = "shutdown" THEN Shutdown(c) ELSE ForceClose(c)

-----------------------------------------------------------------------------
(* Calls of the program.  It knows the connection from connectionCallback_ *)
(* on.  What a thread other than the loop thread does to the connection is *)
(* one atomic step, so that these threads need no names.                   *)

InUse == conn.status # "Connecting" /\ ~destroyed /\ ~aborted

\* The loop thread is in the program's code: a callback or a function.
LoopInUserCode == InUse /\ stage \in {"idle", "user", "complete"}

NewMsg ==
    /\ sent < MaxMsgs
    /\ sent' = sent + 1

\* With sendNumMutex_ held: count the message and queue it.
QueueSend(kind) ==
    /\ sendNum' = sendNum + 1
    /\ funcs' = Append(funcs, <<kind, sent + 1>>)
    /\ UNCHANGED <<conn, accepted>>

Send(kind) ==
    /\ InUse
    /\ NewMsg
    /\ QueueSend(kind)
    /\ UNCHANGED <<stage, revents, destroyed, aborted>>

\* Mutant: the loop thread never lets queued sends go first.
SendHereAtOnce(kind) ==
    /\ LoopInUserCode
    /\ NewMsg
    /\ DeliverNow(kind, sent + 1)
    /\ UNCHANGED <<funcs, sendNum, stage, revents, destroyed, aborted>>

\* The loop thread sends at once, unless earlier sends are still queued.
SendHere(kind) ==
    /\ LoopInUserCode
    /\ NewMsg
    /\ \/ /\ sendNum = 0
          /\ DeliverNow(kind, sent + 1)
          /\ UNCHANGED <<funcs, sendNum>>
       \/ /\ sendNum > 0
          /\ QueueSend(kind)
    /\ UNCHANGED <<stage, revents, destroyed, aborted>>

\* shutdown() and forceClose() by another thread: queued behind its sends.
CloseElsewhere(op) ==
    /\ InUse
    /\ <<op, 0>> \notin Range(funcs)
    /\ funcs' = Append(funcs, <<op, 0>>)
    /\ UNCHANGED <<conn, sendNum, sent, stage, revents, destroyed, aborted,
                   accepted>>

\* By the loop thread: done at once, whatever is queued.
CloseHere(op) ==
    /\ LoopInUserCode
    /\ conn' = Close(conn, op)
    /\ UNCHANGED <<funcs, sendNum, sent, stage, revents, destroyed, aborted,
                   accepted>>

-----------------------------------------------------------------------------
(* The loop thread runs the functions *)

ConnectEstablished ==
    /\ stage = "idle"
    /\ conn.status = "Connecting"
    /\ conn' = [conn EXCEPT !.status = "Connected", !.reading = TRUE]
    /\ UNCHANGED <<funcs, sendNum, sent, stage, revents, destroyed, aborted,
                   accepted>>

\* connectDestroyed; Channel::remove asserts that no event is enabled.
ConnectDestroyed(c) ==
    IF c.status = "Connected"
    THEN [c EXCEPT !.status = "Disconnected", !.reading = FALSE, !.writing = FALSE]
    ELSE c

RunFunc ==
    /\ stage = "idle" /\ ~aborted
    /\ funcs # <<>>
    /\ funcs' = Tail(funcs)
    /\ LET op == funcs[1][1]
           m  == funcs[1][2] IN
       \/ /\ op \in {"mem", "file", "stream"}
          /\ DeliverNow(op, m)
          /\ sendNum' = sendNum - 1
          /\ UNCHANGED <<destroyed, aborted>>
       \/ /\ op \in {"shutdown", "forceClose"}
          /\ conn' = Close(conn, op)
          /\ UNCHANGED <<sendNum, accepted, destroyed, aborted>>
       \/ /\ op = "destroy"
          /\ conn' = ConnectDestroyed(conn)
          /\ aborted' = (conn'.reading \/ conn'.writing)
          /\ destroyed' = TRUE
          /\ UNCHANGED <<sendNum, accepted>>
    /\ UNCHANGED <<sent, stage, revents>>

\* closeCallback_ leads, through the server's loop, to a connectDestroyed
\* queued in this one.
QueueDestroy ==
    /\ conn.closed > 0 /\ ~destroyed
    /\ <<"destroy", 0>> \notin Range(funcs)
    /\ funcs' = Append(funcs, <<"destroy", 0>>)
    /\ UNCHANGED <<conn, sendNum, sent, stage, revents, destroyed, aborted,
                   accepted>>

-----------------------------------------------------------------------------
(* The loop thread handles events: Channel::handleEventSafely goes through *)
(* close, read and write with the revents_ of the poll, whatever the       *)
(* callbacks before have done to the channel.                              *)

Ready(c) == IF c.writing /\ (c.room > 0 \/ Broken(c)) THEN {"out"} ELSE {}

\* Beyond writability, poll may report input and, when the peer has reset, a
\* hang-up; a hang-up is always readable as well.
Poll(more) ==
    /\ stage = "idle" /\ ~aborted /\ ~destroyed
    /\ conn.reading \/ conn.writing
    /\ "in" \in more => conn.reading
    /\ "hup" \in more => conn.reset /\ (conn.reading => "in" \in more)
    /\ revents' = Ready(conn) \cup more
    /\ revents' # {}
    /\ stage' = "close"
    /\ UNCHANGED <<conn, funcs, sendNum, sent, destroyed, aborted, accepted>>

EventClose ==
    /\ stage = "close"
    /\ stage' = IF "in" \in revents THEN "read" ELSE "write"
    /\ conn' = IF "hup" \in revents /\ "in" \notin revents
               THEN HandleClose(conn) ELSE conn
    /\ UNCHANGED <<funcs, sendNum, sent, revents, destroyed, aborted,
                   accepted>>

\* readCallback: data for recvMsgCallback_, end of file or a hard error, or an
\* error that is passed over (EAGAIN, EPIPE, ECONNRESET).
EventRead(what) ==
    /\ stage = "read"
    /\ stage' = IF what = "data" THEN "user" ELSE "write"
    /\ conn' = IF what = "eof" THEN HandleClose(conn) ELSE conn
    /\ UNCHANGED <<funcs, sendNum, sent, revents, destroyed, aborted,
                   accepted>>

ReadReturns ==
    /\ stage = "user" /\ stage' = "write"
    /\ UNCHANGED <<conn, funcs, sendNum, sent, revents, destroyed, aborted,
                   accepted>>

\* One write of the memory node in front; an error leaves the node alone.
WriteFront(c) ==
    IF Broken(c) THEN c
    ELSE [Put(c, c.list[1].chunks) EXCEPT !.list[1].chunks = Rest(c, @)]

\* Mutant: the end of a node is taken for the end of the list.
StopAfterNode(c) == [c EXCEPT !.list = Tail(@), !.writing = FALSE]

\* The node in front is finished: stop writing or go on with the next one.
NextNode(c) ==
    LET d == [c EXCEPT !.list = Tail(@)] IN
    CASE d.list = <<>> -> [d EXCEPT !.writing = FALSE]
      [] d.list # <<>> /\ d.list[1].kind # "mem" -> SendFileInLoop(d)
      [] d.list # <<>> /\ d.list[1].kind = "mem" -> WriteFront(d)

WriteCallback(c) ==
    CASE c.list[1].chunks = <<>> -> NextNode(c)
      [] c.list[1].chunks # <<>> /\ c.list[1].kind # "mem" -> SendFileInLoop(c)
      [] c.list[1].chunks # <<>> /\ c.list[1].kind = "mem" -> WriteFront(c)

\* A write that fails returns from writeCallback at once.
WriteFails(c) ==
    Broken(c) /\ LET n == IF c.list[1].chunks = <<>> THEN 2 ELSE 1 IN
                 Len(c.list) >= n /\ c.list[n].kind = "mem"

\* The end of writeCallback: a shutdown that waits for the list.
CloseOnEmpty(c) == IF c.closeOnEmpty THEN Shutdown(c) ELSE c

EventWrite ==
    /\ stage = "write"
    /\ "out" \in revents /\ conn.writing /\ conn.list # <<>>
    /\ LET c == WriteCallback(conn) IN
       \/ /\ c.list = <<>>                       \* writeCompleteCallback_
          /\ conn' = c
          /\ stage' = "complete"
       \/ /\ c.list # <<>>
          /\ conn' = IF WriteFails(conn) THEN c ELSE CloseOnEmpty(c)
          /\ stage' = "idle"
    /\ revents' = {}
    /\ UNCHANGED <<funcs, sendNum, sent, destroyed, aborted, accepted>>

\* writeCompleteCallback_ has returned.
WriteComplete ==
    /\ stage = "complete" /\ stage' = "idle"
    /\ conn' = CloseOnEmpty([conn EXCEPT !.fin = @ \/ conn.status = "Disconnecting"])
    /\ UNCHANGED <<funcs, sendNum, sent, revents, destroyed, aborted,
                   accepted>>

\* Nothing to write, or "no writing but write callback called".
WriteNothing ==
    /\ stage = "write" /\ stage' = "idle"
    /\ "out" \notin revents \/ ~conn.writing
    /\ revents' = {}
    /\ UNCHANGED <<conn, funcs, sendNum, sent, destroyed, aborted, accepted>>

-----------------------------------------------------------------------------
(* The peer *)

PeerReads ==
    /\ conn.room < Cap
    /\ conn' = [conn EXCEPT !.room = Cap]
    /\ UNCHANGED <<funcs, sendNum, sent, stage, revents, destroyed, aborted,
                   accepted>>

PeerResets ==
    /\ MayReset /\ ~conn.reset
    /\ conn' = [conn EXCEPT !.reset = TRUE]
    /\ UNCHANGED <<funcs, sendNum, sent, stage, revents, destroyed, aborted,
                   accepted>>

-----------------------------------------------------------------------------

Calls ==
    \/ \E k \in Kinds : Send(k) \/ SendHere(k)
    \/ \E op \in {"shutdown", "forceClose"} :
          \/ "other" \in Closers /\ CloseElsewhere(op)
          \/ "loop" \in Closers /\ CloseHere(op)

EventStep ==
    \/ EventClose
    \/ \E what \in {"data", "eof", "error"} : EventRead(what)
    \/ ReadReturns \/ EventWrite \/ WriteComplete \/ WriteNothing

\* Any poll that finds the channel writable reports it.
PollOut == \E more \in SUBSET {"in", "hup"} : Poll(more) /\ "out" \in revents'

Next ==
    \/ Calls
    \/ ConnectEstablished \/ RunFunc \/ QueueDestroy
    \/ \E more \in SUBSET {"in", "hup"} : Poll(more)
    \/ EventStep
    \/ PeerReads \/ PeerResets

\* Every iteration of the loop polls, handles the events to their end and then
\* runs the functions: writability that lasts is reported, and a queued
\* function runs even when every poll brings events (hence the strong
\* fairness).  A peer that has not reset takes what was sent.
Fairness ==
    /\ WF_vars(ConnectEstablished) /\ WF_vars(PollOut) /\ WF_vars(EventStep)
    /\ SF_vars(RunFunc)
    /\ WF_vars(PeerReads)

Spec == Init /\ [][Next]_vars /\ Fairness

-----------------------------------------------------------------------------
(* Properties *)

OnWire(m) == \A k \in 1..MsgLen : <<m, k>> \in Range(conn.wire)

\* "The order of data sending should be same as the order of calls of send()"
\* (line 335), whatever threads call and however the socket splits the writes:
\* a message follows only on a complete earlier one, without gap or repetition.
WireInOrder ==
    LET w == conn.wire IN
    /\ w # <<>> => w[1][2] = 1
    /\ \A i \in 1..(Len(w) - 1) :
          \/ w[i + 1] = <<w[i][1], w[i][2] + 1>>
          \/ w[i][2] = MsgLen /\ w[i + 1][2] = 1 /\ w[i + 1][1] > w[i][1]

\* The assertions of writeCallback (lines 107 and 126): the channel waits for
\* writability only with something in the list, and after a memory node comes
\* a file or a stream.
WriteListSane ==
    /\ TypeOK
    /\ conn.writing => conn.list # <<>>
    /\ \A i \in 1..(Len(conn.list) - 1) :
          conn.list[i].kind = "mem" => conn.list[i + 1].kind # "mem"

\* A graceful end: unless the connection broke or was closed by force, the FIN
\* leaves after everything that was taken while connected.
FinAfterData ==
    (conn.fin /\ ~conn.reset /\ conn.closed = 0) => \A m \in accepted : OnWire(m)

\* The server is told once that the connection is closed (TcpServer.cpp:136
\* asserts it), and "assert(events_ == kNoneEvent)" (Channel.cpp:18) holds when
\* the connection is destroyed, unless a file or a stream was pushed into a
\* closed connection.
ClosedOnce == ~conn.pushedLate => conn.closed <= 1 /\ ~aborted

Over == conn.reset \/ conn.fin \/ conn.status = "Disconnected"

\* The one way for the list to stop: a file is in front of it, the channel does
\* not wait for writability and nothing will make it.
FileInTheWay ==
    conn.list # <<>> /\ conn.list[1].kind = "file" /\ ~conn.writing

\* What was taken while connected is sent, or the connection ends, or a file
\* that found the socket full is in the way; and a shutdown that waits for the
\* list to empty gets to its end, with the same exception.
SendingEnds ==
    /\ \A m \in Msgs : (m \in accepted) ~> (OnWire(m) \/ Over \/ FileInTheWay)
    /\ conn.closeOnEmpty ~> (Over \/ FileInTheWay)

\* The loop thread's assertions hold: on the write list, and at the end.
ConnectionSane == WriteListSane /\ ClosedOnce
-----------------------------------------------------------------------------
(* The inductive invariant *)

Last(s) == s[Len(s)]

\* Chunk b is what the wire may carry right after chunk a.
Follows(a, b) ==
    \/ b = <<a[1], a[2] + 1>>
    \/ a[2] = MsgLen /\ b[2] = 1 /\ b[1] > a[1]

InRow(s) == \A i \in 1..(Len(s) - 1) : Follows(s[i], s[i + 1])

\* Chunk b may be the next one on wire w.
MayFollow(w, b) == IF w = <<>> THEN b[2] = 1 ELSE Follows(Last(w), b)

\* Wire w and list l hold, one after the other, chunks of messages up to top:
\* only the node in front may be empty, and the last message is complete.
Ordered(w, l, top) ==
    /\ \A i \in DOMAIN w : w[i][1] <= top
    /\ \A i \in DOMAIN l :
          /\ InRow(l[i].chunks)
          /\ \A j \in DOMAIN l[i].chunks : l[i].chunks[j][1] <= top
          /\ i > 1 => l[i].chunks # <<>>
          /\ i > 1 /\ l[i - 1].chunks # <<>> =>
                Follows(Last(l[i - 1].chunks), l[i].chunks[1])
          /\ (i = 1 /\ l[1].chunks # <<>>) \/ (i = 2 /\ l[1].chunks = <<>>) =>
                MayFollow(w, l[i].chunks[1])
          /\ i = Len(l) /\ l[i].chunks # <<>> => Last(l[i].chunks)[2] = MsgLen
    /\ (\A i \in DOMAIN l : l[i].chunks = <<>>) /\ w # <<>> => Last(w)[2] = MsgLen

IsSend(f) == f[1] \in {"mem", "file", "stream"}

\* The sends in the queue are the last sendNum_ messages, oldest first.
QueuedInOrder ==
    /\ sendNum <= sent
    /\ \A i \in DOMAIN funcs : IsSend(funcs[i]) => funcs[i][2] \in (sent - sendNum + 1)..sent
    /\ \A n \in (sent - sendNum + 1)..sent :
          \E i \in DOMAIN funcs : IsSend(funcs[i]) /\ funcs[i][2] = n
    /\ \A i, j \in DOMAIN funcs :
          i < j /\ IsSend(funcs[i]) /\ IsSend(funcs[j]) => funcs[i][2] < funcs[j][2]

\* On a socket that still takes data, list and wire are in order.
OrderKept ==
    /\ WireInOrder /\ QueuedInOrder
    /\ ~Broken(conn) => Ordered(conn.wire, conn.list, sent - sendNum)

\* How far a connection is, and who has been told.
StatusSane ==
    /\ conn.status = "Disconnecting" => conn.fin
    /\ conn.fin => conn.status \in {"Disconnecting", "Disconnected"}
    /\ conn.closed > 0 => conn.status = "Disconnected"
    /\ conn.pushedLate => conn.status = "Disconnected"
    /\ \A i \in DOMAIN funcs : funcs[i][1] = "destroy" => conn.closed > 0
    /\ ~conn.pushedLate /\ conn.status = "Disconnected" => ~conn.reading /\ ~conn.writing
    /\ ~conn.pushedLate /\ stage \in {"close", "read"} => conn.status # "Disconnected"

Held(w, l) == Range(w) \cup UNION {Range(l[i].chunks) : i \in DOMAIN l}

\* What was taken while connected is on the wire or in the list, and after the
\* FIN it is on the wire.
AcceptedHeld ==
    ~conn.reset /\ conn.closed = 0 =>
        \A m \in accepted : \A k \in 1..MsgLen :
            <<m, k>> \in (IF conn.fin THEN Range(conn.wire) ELSE Held(conn.wire, conn.list))

IInv == ConnectionSane /\ OrderKept /\ StatusSane /\ AcceptedHeld
=============================================================================
