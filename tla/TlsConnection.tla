---------------------------- MODULE TlsConnection ---------------------------
(***************************************************************************)
(* cooper/net/OpenSSLProvider.cpp and TLSProvider.hpp with the parts of    *)
(* TcpConnectionImpl.cpp that serve a connection with TLS: the handshake,  *)
(* records that do not fit into the socket, errors and closing, as steps   *)
(* of the loop thread.  (The threads that send and the connection without  *)
(* TLS are TcpConnection.)                                                 *)
(*                                                                         *)
(* A record is <<what, number>> and two chunks on the wire; SSL_write      *)
(* makes one of at most maxSend bytes, and a message is one or more of     *)
(* them.  OpenSSL itself is external: what it makes of the peer's input is *)
(* chosen by the peer.  The handlers map the record c to its next value.   *)
(***************************************************************************)
EXTENDS Naturals, Sequences, SequencesExt

CONSTANTS
    Cap,                 \* chunks the socket's send buffer holds
    Messages,            \* what is sent: [kind |-> "mem" or "file", recs |-> n]
    MaxSends,            \* bound: messages sent
    MaxInput             \* bound: messages received

ASSUME TlsAssumption ==
    /\ Cap \in Nat \ {0, 1} /\ MaxSends \in Nat /\ MaxInput \in Nat
    /\ \A m \in Messages : m.kind \in {"mem", "file"} /\ m.recs \in Nat \ {0}

VARIABLES
    c,                   \* the connection and its provider, see ConnType
    role,                \* "client" or "server"
    inbox,               \* what the peer has sent
    rbio,                \* what recvData has given to OpenSSL
    stage,               \* where the loop thread is
    sends, inputs,       \* messages sent and received so far
    peer                 \* the peer: "hello", "finish", "open", "closed"

vars == <<c, role, inbox, rbio, stage, sends, inputs, peer>>

Item == {"hello", "finish", "bad", "data", "close", "junk"}
Rec == {"flight", "msg", "alert"} \X Nat
Chunk == Rec \X {1, 2}

ConnType ==
    [status : {"Connecting", "Connected", "Disconnecting", "Disconnected"},
     writing : BOOLEAN,
     list : Seq([kind : {"mem", "file"}, recs : Seq(Rec)]),  \* writeBufferList_
     closeOnEmpty : BOOLEAN,
     hs : {"new", "going", "done", "failed"},  \* SSL_do_handshake has returned
     valid : BOOLEAN,                          \* ... and the peer is accepted
     wbio : Seq(Chunk), wbuf : Seq(Chunk),     \* wbio_; writeBuffer_
     err : BOOLEAN,                            \* processedSslError_
     room : 0..Cap, wire : Seq(Chunk), fin : BOOLEAN,        \* the socket
     made : Seq(Chunk),                        \* history: all OpenSSL has made
     \* Callbacks: connectionCallback_ with the connection up and with it down,
     \* sslErrorCallback_, closeCallback_, and messages.
     ups : 0..2, downs : 0..2, errors : 0..2, closes : 0..2, got : Nat]

TypeOK ==
    /\ c \in ConnType /\ role \in {"client", "server"}
    /\ inbox \in Seq(Item) /\ rbio \in Seq(Item)
    /\ stage \in {"idle", "handshake", "up", "app"}
    /\ sends \in 0..MaxSends /\ inputs \in 0..MaxInput
    /\ peer \in {"hello", "finish", "open", "closed"}

Init ==
    /\ c = [status |-> "Connecting", writing |-> FALSE, list |-> <<>>,
            closeOnEmpty |-> FALSE, hs |-> "new", valid |-> FALSE,
            wbio |-> <<>>, wbuf |-> <<>>, err |-> FALSE, room |-> Cap,
            wire |-> <<>>, fin |-> FALSE, made |-> <<>>,
            ups |-> 0, downs |-> 0, errors |-> 0, closes |-> 0, got |-> 0]
    /\ role \in {"client", "server"}
    /\ inbox = <<>> /\ rbio = <<>> /\ stage = "idle"
    /\ sends = 0 /\ inputs = 0
    /\ peer = IF role = "server" THEN "hello" ELSE "finish"

-----------------------------------------------------------------------------
(* The provider *)

Chunks(recs) == [i \in 1..(2 * Len(recs)) |-> <<recs[(i + 1) \div 2], 2 - (i % 2)>>]

\* OpenSSL puts records into wbio_.
Make(w, recs) == [w EXCEPT !.wbio = @ \o Chunks(recs), !.made = @ \o Chunks(recs)]

\* How much of n chunks a write takes; after closeWrite it fails.
Takes(w, n) == IF w.fin THEN 0 ELSE IF n < w.room THEN n ELSE w.room

\* writeCallback_: writeRaw of the first n chunks of data.
Write(w, data, n) == [w EXCEPT !.wire = @ \o SubSeq(data, 1, n), !.room = @ - n]

\* sendTLSData: what the socket does not take joins writeBuffer_.
SendTLSData(w) ==
    LET n == Takes(w, Len(w.wbio)) IN
    [Write(w, w.wbio, n) EXCEPT
        !.wbuf = @ \o SubSeq(w.wbio, n + 1, Len(w.wbio)), !.wbio = <<>>]

SendBufferedData(w) ==
    LET n == Takes(w, Len(w.wbuf)) IN
    [Write(w, w.wbuf, n) EXCEPT !.wbuf = SubSeq(@, n + 1, Len(@))]

\* Mutant: what is still in writeBuffer_ does not hold new records back.
SendDataAnyway(w, recs, k) == SendTLSData(Make(w, SubSeq(recs, 1, k)))

\* sendData for the first k of recs, if nothing is buffered (else EAGAIN).
SendData(w, recs, k) ==
    IF w.wbuf # <<>> THEN w ELSE SendTLSData(Make(w, SubSeq(recs, 1, k)))

\* The records sendData has taken: it counts what it had to buffer as sent.
Unsent(w, recs, k) == IF w.wbuf # <<>> THEN recs ELSE SubSeq(recs, k + 1, Len(recs))

-----------------------------------------------------------------------------
(* The connection *)

\* Both callbacks come whatever has become of the handshake.
HandleClose(w) ==
    [w EXCEPT !.status = "Disconnected", !.writing = FALSE,
              !.downs = @ + 1, !.closes = @ + 1]

ForceClose(w) ==
    IF w.status \in {"Connected", "Disconnecting"} THEN HandleClose(w) ELSE w

\* shutdown: data in the list or in writeBuffer_ delays it; close() sends a
\* close_notify when the handshake is over.
Shutdown(w) ==
    LET v == IF w.hs = "done" THEN SendTLSData(Make(w, <<<<"alert", 0>>>>)) ELSE w IN
    CASE w.status # "Connected" -> w
      [] w.status = "Connected" /\ (w.wbuf # <<>> \/ w.list # <<>>) ->
            [w EXCEPT !.closeOnEmpty = TRUE]
      [] OTHER -> [v EXCEPT !.status = "Disconnecting", !.fin = @ \/ ~w.writing]

\* handleSSLError and onSslError, once.
HandleSSLError(w) ==
    LET v == SendTLSData(w) IN
    IF v.err THEN v ELSE ForceClose([v EXCEPT !.err = TRUE, !.errors = @ + 1])

SendInLoop(w, recs) ==
    LET direct == ~w.writing /\ w.list = <<>>
        rest == IF direct THEN Unsent(w, recs, 1) ELSE recs
        v == IF direct THEN SendData(w, recs, 1) ELSE w
        n == Len(v.list)
        list == IF n > 0 /\ v.list[n].kind = "mem"
                THEN [v.list EXCEPT ![n].recs = @ \o rest]
                ELSE Append(v.list, [kind |-> "mem", recs |-> rest]) IN
    CASE w.status # "Connected" -> w
      [] w.status = "Connected" /\ rest = <<>> -> v
      [] OTHER -> [v EXCEPT !.list = list, !.writing = TRUE]

\* Mutant: the channel is not asked to write when the file is not sent whole.
SendFileQuietly(w) ==
    LET recs == w.list[1].recs
        k == IF Len(recs) <= w.room \div 2 THEN Len(recs) ELSE (w.room \div 2) + 1 IN
    [SendData(w, recs, k) EXCEPT !.list[1].recs = Unsent(w, recs, k)]

\* sendFileInLoop with TLS: records until one does not fit.
SendFileInLoop(w) ==
    LET recs == w.list[1].recs
        k == IF Len(recs) <= w.room \div 2 THEN Len(recs) ELSE (w.room \div 2) + 1 IN
    [SendData(w, recs, k) EXCEPT !.list[1].recs = Unsent(w, recs, k), !.writing = TRUE]

PushFile(w, recs) ==
    LET v == [w EXCEPT !.list = Append(@, [kind |-> "file", recs |-> recs])] IN
    IF Len(v.list) = 1 THEN SendFileInLoop(v) ELSE v

\* The node in front goes on.
SendFront(w) ==
    IF w.list[1].kind = "file" THEN SendFileInLoop(w)
    ELSE [SendData(w, w.list[1].recs, 1) EXCEPT
             !.list[1].recs = Unsent(w, w.list[1].recs, 1)]

NextNode(w) ==
    LET v == [w EXCEPT !.list = Tail(@)] IN
    IF v.list = <<>> THEN [v EXCEPT !.writing = FALSE,
                                    !.fin = @ \/ w.status = "Disconnecting"]
    ELSE SendFront(v)

\* writeCallback: first writeBuffer_, and nothing else until it is empty.
WriteCallback(w) ==
    LET u == SendBufferedData(w)
        v == IF u.list[1].recs = <<>> THEN NextNode(u) ELSE SendFront(u) IN
    IF u.wbuf # <<>> THEN u
    ELSE IF v.closeOnEmpty /\ (v.list = <<>> \/ v.wbuf = <<>>) THEN Shutdown(v) ELSE v

-----------------------------------------------------------------------------
(* The loop thread and the program, whose callbacks are the handshake's     *)
(* ("up") and the messages' ("app", between two of them).                   *)

\* connectEstablished, or startEncryption on a connection that has nothing
\* unsent: a client speaks first.
StartEncryption ==
    /\ c.status = "Connecting"
    /\ c' = LET w == [c EXCEPT !.status = "Connected", !.hs = "going"] IN
            IF role = "client" THEN SendTLSData(Make(w, <<<<"flight", 1>>>>)) ELSE w
    /\ UNCHANGED <<role, inbox, rbio, stage, sends, inputs, peer>>

InUserCode == c.ups > 0 /\ (stage = "up" \/ stage = "idle" \/ (stage = "app" /\ c.got > 0))

\* (A file sent after the shutdown, whose status nobody checks: TcpConnection.)
Send(m) ==
    /\ InUserCode /\ (m.kind = "file" => c.status = "Connected")
    /\ sends < MaxSends /\ sends' = sends + 1
    /\ c' = LET recs == [i \in 1..m.recs |-> <<"msg", 10 * sends + i>>] IN
            IF m.kind = "file" THEN PushFile(c, recs) ELSE SendInLoop(c, recs)
    /\ UNCHANGED <<role, inbox, rbio, stage, inputs, peer>>

CallShutdown ==
    /\ InUserCode /\ c' = Shutdown(c)
    /\ UNCHANGED <<role, inbox, rbio, stage, sends, inputs, peer>>

CallForceClose ==
    /\ InUserCode /\ c' = ForceClose(c)
    /\ UNCHANGED <<role, inbox, rbio, stage, sends, inputs, peer>>

\* readCallback and recvData: OpenSSL gets what has come.
RecvData(n) ==
    /\ stage = "idle" /\ c.status \in {"Connected", "Disconnecting"}
    /\ n \in 1..Len(inbox)
    /\ rbio' = rbio \o SubSeq(inbox, 1, n) /\ inbox' = SubSeq(inbox, n + 1, Len(inbox))
    /\ stage' = IF c.hs = "done" THEN "app" ELSE "handshake"
    /\ UNCHANGED <<c, role, sends, inputs, peer>>

ReadEof ==
    /\ stage = "idle" /\ c.status \in {"Connected", "Disconnecting"}
    /\ peer = "closed" /\ inbox = <<>>
    /\ c' = HandleClose(c)
    /\ UNCHANGED <<role, inbox, rbio, stage, sends, inputs, peer>>

\* Mutant: an unacceptable peer is reported, and the handshake goes on.
RejectAndGoOn(w, alert) ==
    [HandleSSLError(IF alert THEN Make(w, <<<<"alert", 1>>>>) ELSE w) EXCEPT !.ups = @ + 1]

\* The handshake is over but the certificate will not do, which an alert tells
\* the peer, or the server has chosen no protocol.
Reject(w, alert) == HandleSSLError(IF alert THEN Make(w, <<<<"alert", 1>>>>) ELSE w)

\* processHandshake: the handshake goes on, is over with an acceptable peer or
\* not, or has failed; the alert is made before the shutdown and sent after it.
ProcessHandshake(ok) ==
    /\ stage = "handshake" /\ rbio # <<>> /\ rbio' = Tail(rbio)
    /\ \/ /\ rbio[1] = "hello"
          /\ c' = SendTLSData(Make(c, <<<<"flight", 1>>>>))
          /\ stage' = "idle"
       \/ /\ rbio[1] = "finish" /\ ok
          /\ c' = [Make(c, <<<<"flight", 2>>>>) EXCEPT
                      !.hs = "done", !.valid = TRUE, !.ups = @ + 1]
          /\ stage' = "up"
       \/ /\ rbio[1] = "finish" /\ ~ok
          /\ \E alert \in BOOLEAN :
                /\ ~alert => role = "client"
                /\ c' = Reject([Make(c, <<<<"flight", 2>>>>) EXCEPT !.hs = "done"], alert)
          /\ stage' = "idle"
       \/ /\ rbio[1] \notin {"hello", "finish"}
          /\ c' = HandleSSLError(Shutdown([Make(c, <<<<"alert", 2>>>>) EXCEPT
                                              !.hs = "failed"]))
          /\ stage' = "idle"
    /\ UNCHANGED <<role, inbox, sends, inputs, peer>>

\* handshakeCallback_ has returned.
HandshakeReturns ==
    /\ stage = "up" /\ stage' = "app"
    /\ c' = SendTLSData(c)
    /\ UNCHANGED <<role, inbox, rbio, sends, inputs, peer>>

\* processApplicationData goes on until OpenSSL has nothing more, whatever the
\* program has done to the connection meanwhile.
ProcessApplicationData ==
    /\ stage = "app"
    /\ \/ /\ rbio = <<>> /\ stage' = "idle"
          /\ UNCHANGED <<c, rbio>>
       \/ /\ rbio # <<>> /\ rbio' = Tail(rbio)
          /\ \/ /\ rbio[1] = "data"
                /\ c' = [c EXCEPT !.got = @ + 1] /\ stage' = "app"
             \/ /\ rbio[1] = "close"
                /\ c' = Shutdown(c) /\ stage' = "idle"
             \/ /\ rbio[1] \notin {"data", "close"}
                /\ c' = HandleSSLError(Make(c, <<<<"alert", 3>>>>)) /\ stage' = "idle"
    /\ UNCHANGED <<role, inbox, sends, inputs, peer>>

EventWrite ==
    /\ stage = "idle" /\ c.writing /\ (c.room > 0 \/ c.fin)
    /\ c' = WriteCallback(c)
    /\ UNCHANGED <<role, inbox, rbio, stage, sends, inputs, peer>>

-----------------------------------------------------------------------------
(* The peer: it answers a flight that has come whole, and sends messages    *)
(* once the handshake is over on its side.                                  *)

PeerSends(item) ==
    /\ inbox' = Append(inbox, item)
    /\ \/ item = "hello" /\ peer = "hello" /\ peer' = "finish" /\ UNCHANGED inputs
       \/ /\ item = "finish" /\ peer = "finish" /\ peer' = "open"
          /\ c.wire # <<>> /\ c.wire = c.made
          /\ UNCHANGED inputs
       \/ item = "bad" /\ peer \in {"hello", "finish"} /\ peer' = "closed" /\ UNCHANGED inputs
       \/ item \in {"close", "junk"} /\ peer = "open" /\ peer' = "closed" /\ UNCHANGED inputs
       \/ /\ item = "data" /\ peer = "open" /\ peer' = "open"
          /\ inputs < MaxInput /\ inputs' = inputs + 1
    /\ c' = [c EXCEPT !.room = IF item = "finish" THEN Cap ELSE @]
    /\ UNCHANGED <<role, rbio, stage, sends>>

PeerReads ==
    /\ c.room < Cap
    /\ c' = [c EXCEPT !.room = Cap]
    /\ UNCHANGED <<role, inbox, rbio, stage, sends, inputs, peer>>

PeerGoes ==
    /\ peer # "closed" /\ peer' = "closed"
    /\ UNCHANGED <<c, role, inbox, rbio, stage, sends, inputs>>

Loop ==
    \/ StartEncryption \/ \E n \in 1..Len(inbox) : RecvData(n)
    \/ \E ok \in BOOLEAN : ProcessHandshake(ok)
    \/ HandshakeReturns \/ ProcessApplicationData

Next ==
    \/ Loop \/ EventWrite \/ ReadEof
    \/ \E m \in Messages : Send(m)
    \/ CallShutdown \/ CallForceClose
    \/ \E item \in Item : PeerSends(item)
    \/ PeerReads \/ PeerGoes

\* The loop returns from what it does and serves a writable channel again and
\* again; the peer goes on reading.
Spec == Init /\ [][Next]_vars /\ WF_vars(Loop) /\ SF_vars(EventWrite) /\ WF_vars(PeerReads)

-----------------------------------------------------------------------------
(* Properties *)

\* Records leave in the order OpenSSL made them, without a gap, although there
\* are three places they can wait in (wbio_, writeBuffer_ and, unencrypted, the
\* list).  After an SSL error the alert may overtake what is buffered; the
\* connection is closed then.
RecordsInOrder == IsPrefix(c.wire, c.made) \/ c.err

\* The program is given no connection that is up and no message before the
\* handshake is over and the peer's certificate and protocol were accepted.  What it
\* is told of every connection is its end, once, even of one that it was never given
\* (handleClose, TcpConnectionImpl.cpp:220-225); no other callback comes twice either.
NothingBeforeHandshake ==
    /\ TypeOK
    /\ (c.ups > 0 \/ c.got > 0) => c.valid
    /\ c.ups <= 1 /\ c.errors <= 1
    /\ LET ended == IF c.status = "Disconnected" THEN 1 ELSE 0 IN
       c.downs = ended /\ c.closes = ended

\* The stream ends only after every message that was taken: what is missing on
\* the wire when writing is closed is at most the close_notify.
FinAfterMessages ==
    (c.fin /\ ~c.err) =>
        \A i \in DOMAIN c.made : c.made[i][1][1] # "alert" => i <= Len(c.wire)

\* The peer gets the records OpenSSL made, all of them before the end.
TlsWireWhole == RecordsInOrder /\ FinAfterMessages

\* A message was too large for the socket, all of it is in writeBuffer_, and
\* sendData has said it was sent: nobody asked the channel to write.
Stranded == c.wbuf # <<>> /\ c.list = <<>> /\ ~c.writing

\* What was taken leaves and a shutdown, which is never taken back, takes effect,
\* unless the last message is stranded: it waits for another one to be sent.
SendingEnds ==
    []<>(\/ c.status = "Disconnected" \/ Stranded
         \/ c.wbuf = <<>> /\ c.list = <<>> /\ (c.closeOnEmpty => c.fin))

-----------------------------------------------------------------------------
(* The inductive invariant behind TlsWireWhole and NothingBeforeHandshake   *)

\* What is over when: the handshake, the callbacks and the channel.
StatusSane(w) ==
    /\ (w.status = "Connecting") <=> (w.hs = "new")
    /\ w.hs = "going" => w.status \in {"Connected", "Disconnected"}
    /\ w.valid => w.hs = "done"
    /\ (w.hs = "failed" \/ (w.hs = "done" /\ ~w.valid)) => w.status = "Disconnected"
    /\ w.ups = (IF w.valid THEN 1 ELSE 0) /\ (w.got > 0 => w.valid)
    /\ w.errors = (IF w.err THEN 1 ELSE 0)
    /\ w.closes = (IF w.status = "Disconnected" THEN 1 ELSE 0)
    /\ w.downs = (IF w.status = "Disconnected" THEN 1 ELSE 0)
    /\ w.err => w.status = "Disconnected" /\ w.hs \in {"done", "failed"}
    /\ w.writing => w.list # <<>> /\ w.status = "Connected" /\ w.valid
    /\ w.fin => w.status \in {"Disconnecting", "Disconnected"}
    /\ \A i \in 2..Len(w.list) : w.list[i].recs # <<>>

LastFlight == <<<<"flight", 2>>>>

\* What was made is on the wire, in writeBuffer_ and in wbio_, in this order;
\* wbio_ keeps the last flight until the program has seen the connection, and
\* the socket has room for it.
StreamSane(w) ==
    /\ ~w.err => w.made = w.wire \o w.wbuf \o w.wbio
    /\ (w.fin /\ ~w.err) => \A i \in DOMAIN w.wbuf : w.wbuf[i][1][1] = "alert"
    /\ w.wbio # <<>> =>
          w.wbuf = <<>> /\ w.room = Cap /\ ~w.fin /\ w.wbio = Chunks(LastFlight)

StageSane ==
    /\ stage = "handshake" => c.hs = "going" /\ c.status = "Connected"
    /\ stage \in {"up", "app"} => c.valid
    /\ c.wbio # <<>> => stage = "up"

\* The peer speaks once before it has seen the first flight, and once after it
\* has seen all of it.
PeerSane ==
    LET items == rbio \o inbox
        early == c.hs \in {"new", "going"} IN
    /\ \A i \in DOMAIN items :
          /\ items[i] = "hello" => i = 1 /\ c.made = <<>> /\ early /\ role = "server"
          /\ items[i] = "finish" =>
                i = 1 /\ c.made # <<>> /\ c.hs = "going" /\ c.wire = c.made /\ c.room = Cap
    /\ peer = "hello" => items = <<>> /\ c.made = <<>> /\ early /\ role = "server"
    /\ peer = "finish" => (items = <<>> \/ items = <<"hello">>) /\ early
    /\ c.hs = "new" => c.made = <<>>

IInv == TypeOK /\ StatusSane(c) /\ StreamSane(c) /\ StageSane /\ PeerSane

=============================================================================
