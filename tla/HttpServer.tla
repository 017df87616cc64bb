----------------------------- MODULE HttpServer -----------------------------
(***************************************************************************)
(* cooper/net/HttpServer.cpp with HttpRequest of Http.cpp: the program     *)
(* sets up routes and mount points and starts the server; then one         *)
(* connection's callbacks in its loop thread.  A callback parses one       *)
(* request from what has been read, answers it and decides whether the     *)
(* connection stays (keepAliveRequests).  What the connection promises     *)
(* (bytes in order, forceClose drops what is not sent) is checked in       *)
(* TcpConnection.                                                          *)
(*                                                                         *)
(* A start line and a header line are one token each, followed by CR LF.   *)
(* Paths are sequences of characters; a name in the file system is the     *)
(* sequence of its components.                                             *)
(***************************************************************************)
EXTENDS MultipartParser

CONSTANTS
    Lines,               \* start lines: token -> [method, path, version]
    Methods,             \* Http::methods
    HeaderLines,         \* header lines: token -> [key, value, len]
    Cases,               \* [calls, requests]: what the program calls before
                         \* start, [op, mnt, dir, method, path], and what the
                         \* client sends: [bytes, good, framed, parts]; good:
                         \* well formed, framed: with its length, parts: the
                         \* fields of a form
    Chars,               \* the characters of paths
    Files,               \* the regular files
    Allowed,             \* the files the auth callback accepts
    Maxima,              \* values for maxKeepAliveRequests_
    Room                 \* chunks of an answer the socket's buffer holds

VARIABLES
    phase,               \* "setup", then "run"
    calls,               \* the calls the program makes before start
    getRoutes, postRoutes, baseDirs, maxKeepAlive, hasAuth,
    todo,                \* what the client has still to send
    sent,                \* history: the requests the client has sent
    stage,               \* "idle" or "parsing": a handler is in parse
    ka,                  \* the connection's entry in keepAliveRequests
    conn,                \* the connection, see ConnType
    hist                 \* history, see HistType

parser == <<buf, sock, mp>>
config == <<getRoutes, postRoutes, baseDirs, maxKeepAlive, hasAuth>>
vars == <<parser, config, peer, phase, calls, todo, sent, stage, ka, conn, hist>>

\* The directories: where the files are.
Dirs == UNION {{SubSeq(f, 1, n) : n \in 0..(Len(f) - 1)} : f \in Files}
NoFile == <<<<"?">>>>

\* What the program may call before start.
Setup == [op : {"addEndpoint", "addMountPoint", "removeMountPoint"}, method : STRING,
          path : Seq(Chars), mnt : Seq(Chars), dir : Seq(Seq(Chars))]

ASSUME HttpAssumption ==
    /\ "/" \in Chars
    /\ \A t \in DOMAIN Lines : Lines[t].path \in Seq(Chars)
    /\ \A c \in Cases : c.calls \in Seq(Setup)
    /\ Files \subseteq Seq(Seq(Chars)) /\ NoFile \notin Files \cup Dirs
    /\ Maxima \subseteq Nat /\ Room \in Nat

NoEntry == [first |-> 0, second |-> 0, in |-> FALSE]
Entry(n, max) == [first |-> n, second |-> max, in |-> TRUE]

\* Parts of an answer: its header, and its body or file.
Chunk == Nat \X {"head", "body", "file"}

\* pending: writeBufferList_; writing: the channel waits for the socket.
ConnType ==
    [open : BOOLEAN, by : {"", "server", "peer", "idle"}, writing : BOOLEAN,
     pending : Seq(Chunk), wire : Seq(Chunk), room : 0..Room]

HistType ==
    [answers : Seq(Nat),                \* status codes, in order
     served : SUBSET (Dirs \X Files),  \* <<mounted, file sent>>
     cut : BOOLEAN,                     \* a read has ended inside a request
     left : BOOLEAN,                    \* a form was not parsed to its end
     piped : BOOLEAN]                   \* a request was sent before an answer

ParserTypeOK == buf \in Seq(STRING) /\ sock \in Seq(STRING) /\ mp \in ParserType

ServerTypeOK ==
    /\ peer \in {"open", "closed", "reset"} /\ phase \in {"setup", "run"}
    /\ stage \in {"idle", "parsing"}
    /\ ka \in [first : Nat, second : Nat, in : BOOLEAN]
    /\ conn \in ConnType /\ hist \in HistType

Init ==
    /\ buf = <<>> /\ sock = <<>> /\ mp = NewParser /\ peer = "open"
    /\ phase = "setup"
    /\ getRoutes = {} /\ postRoutes = {} /\ baseDirs = <<>>
    /\ maxKeepAlive \in Maxima /\ hasAuth \in BOOLEAN
    /\ \E c \in Cases : calls = c.calls /\ todo = c.requests
    /\ sent = <<>>
    /\ stage = "idle" /\ ka = NoEntry
    /\ conn = [open |-> TRUE, by |-> "", writing |-> FALSE, pending |-> <<>>, wire |-> <<>>,
               room |-> Room]
    /\ hist = [answers |-> <<>>, served |-> {}, cut |-> FALSE, left |-> FALSE,
               piped |-> FALSE]

-----------------------------------------------------------------------------
(* The program sets the server up *)

Calls(op) == calls # <<>> /\ Head(calls).op = op /\ calls' = Tail(calls)

Served == <<parser, peer, todo, sent, stage, ka, conn, hist>>

AddEndpoint ==
    /\ Calls("addEndpoint")
    /\ LET method == Head(calls).method
           path == Head(calls).path
           new == method \in Methods /\ path # <<>> /\ path \notin getRoutes \cup postRoutes IN
       /\ getRoutes' = getRoutes \cup {p \in {path} : new /\ method = "GET"}
       /\ postRoutes' = postRoutes \cup {p \in {path} : new /\ method = "POST"}
    /\ UNCHANGED <<Served, phase, baseDirs, maxKeepAlive, hasAuth>>

AddMountPoint ==
    /\ Calls("addMountPoint")
    /\ LET m == Head(calls)
           mnt == IF m.mnt = <<>> THEN <<"/">> ELSE m.mnt IN
       baseDirs' = IF m.dir \in Dirs /\ mnt[1] = "/"
                   THEN Append(baseDirs, [mnt |-> mnt, dir |-> m.dir]) ELSE baseDirs
    /\ UNCHANGED <<Served, phase, getRoutes, postRoutes, maxKeepAlive, hasAuth>>

\* The first mount point of that name.
RemoveMountPoint ==
    /\ Calls("removeMountPoint")
    /\ LET at == SelectInSeq(baseDirs, LAMBDA e : e.mnt = Head(calls).mnt) IN
       baseDirs' = IF at = 0 THEN baseDirs ELSE RemoveAt(baseDirs, at)
    /\ UNCHANGED <<Served, phase, getRoutes, postRoutes, maxKeepAlive, hasAuth>>

Start ==
    /\ phase = "setup" /\ calls = <<>> /\ phase' = "run"
    /\ UNCHANGED <<Served, config, calls>>

-----------------------------------------------------------------------------
(* Paths *)

\* The components of a path: what is between slashes and not empty.
Components(path) ==
    LET starts == {i \in 1..Len(path) : path[i] # "/" /\ (i = 1 \/ path[i - 1] = "/")}
        Nth(n) == CHOOSE i \in starts : Cardinality({j \in starts : j <= i}) = n
        Word(i) == SubSeq(path, i, CHOOSE j \in i..Len(path) :
                             /\ \A k \in i..j : path[k] # "/"
                             /\ j = Len(path) \/ path[j + 1] = "/")
    IN  [n \in 1..Cardinality(starts) |-> Word(Nth(n))]

Dot == <<".">>
DotDot == <<".", ".">>
Index == <<"i">>         \* index.html

\* level after the first n components
Level(comps, n) ==
    Cardinality({i \in 1..n : comps[i] \notin {Dot, DotDot}})
        - Cardinality({i \in 1..n : comps[i] = DotDot})

\* Mutant: the level is looked at only at the end of the path.
IsValidAtEnd(path) == LET cs == Components(path) IN Level(cs, Len(cs)) >= 0

\* isValidPath: the path never goes above where it starts.
IsValidPath(path) ==
    LET cs == Components(path) IN \A n \in 1..Len(cs) : Level(cs, n) >= 0

\* From the place at, which has to be a directory; ".." of the root is the root.
Enter(at, name) ==
    CASE at \notin Dirs -> NoFile
      [] at \in Dirs /\ name = Dot -> at
      [] at \in Dirs /\ name = DotDot -> IF at = <<>> THEN at ELSE Front(at)
      [] OTHER -> Append(at, name)

Walk(dir, names) ==
    LET at[n \in 0..Len(names)] == IF n = 0 THEN dir ELSE Enter(at[n - 1], names[n])
    IN  at

\* stat: where the names lead from dir.
Stat(dir, names) == Walk(dir, names)[Len(names)]

IsFile(dir, names) == Stat(dir, names) \in Files

-----------------------------------------------------------------------------
(* A request *)

\* parseRequestStartingLine and parseHeaders: the first line, and the lines
\* up to an empty one; ok when all of that is in b and well formed.
ParseHead(b) ==
    LET eol == Find(b, CRLF)
        end == Find(b, CRLF \o CRLF)
        line == SubSeq(b, 1, eol - 1)
        headers == SelectSeq(SubSeq(b, eol, end), LAMBDA t : t \notin {"CR", "LF"}) IN
    IF /\ Len(line) = 1 /\ line[1] \in DOMAIN Lines /\ end > 0
       /\ Lines[line[1]].method \in Methods
       /\ Lines[line[1]].version \in {"HTTP/1.0", "HTTP/1.1"}
       /\ ToSet(headers) \subseteq DOMAIN HeaderLines
    THEN [ok |-> TRUE, line |-> Lines[line[1]],
          headers |-> {HeaderLines[h] : h \in ToSet(headers)}, rest |-> Drop(b, end + 3)]
    ELSE [ok |-> FALSE, line |-> [method |-> "", path |-> <<>>, version |-> ""],
          headers |-> {}, rest |-> b]

HeaderValue(r, key) ==
    IF \E h \in r.headers : h.key = key
    THEN (CHOOSE h \in r.headers : h.key = key).value ELSE ""

IsMultipartFormData(r) ==
    HeaderValue(r, "Content-Type") \in {"multipart", "multipart; boundary"}

\* parseMultipartBoundary
HasBoundary(r) == HeaderValue(r, "Content-Type") = "multipart; boundary"

\* stoul
ContentLength(r) == (CHOOSE h \in r.headers : h.key = "Content-Length").len

\* Mutant: the body is left in the buffer.
ParseBodyLeaving(r) ==
    CASE IsMultipartFormData(r) -> [r EXCEPT !.ok = HasBoundary(r)]
      [] HeaderValue(r, "Content-Length") = "" -> [r EXCEPT !.rest = <<>>]
      [] OTHER -> IF ContentLength(r) > Len(r.rest) THEN [r EXCEPT !.ok = FALSE] ELSE r

\* parseBody: a form stays in the buffer, and has to name its boundary;
\* without a length the body is everything there is; with one all of it has
\* to be there.
ParseBody(r) ==
    CASE IsMultipartFormData(r) -> [r EXCEPT !.ok = HasBoundary(r)]
      [] ~IsMultipartFormData(r) /\ HeaderValue(r, "Content-Length") = "" ->
            [r EXCEPT !.rest = <<>>]
      [] OTHER -> IF ContentLength(r) > Len(r.rest) THEN [r EXCEPT !.ok = FALSE]
                  ELSE [r EXCEPT !.rest = Drop(@, ContentLength(r))]

ParseRequest(b) == LET head == ParseHead(b) IN IF head.ok THEN ParseBody(head) ELSE head

KeepsAlive(r) ==
    \/ r.line.version = "HTTP/1.0" /\ HeaderValue(r, "Connection") = "keep-alive"
    \/ r.line.version = "HTTP/1.1" /\ HeaderValue(r, "Connection") # "close"

\* handleFileRequest: the first mount point that has the file, or 0.
MountFor(line) ==
    LET Sub(e) == <<"/">> \o Drop(line.path, Len(e.mnt))
        Name(e) == Components(Sub(e)) \o (IF Last(Sub(e)) = "/" THEN <<Index>> ELSE <<>>)
        hits == {i \in 1..Len(baseDirs) :
                    /\ line.method = "GET" /\ IsPrefix(baseDirs[i].mnt, line.path)
                    /\ IsValidPath(Sub(baseDirs[i]))
                    /\ IsFile(baseDirs[i].dir, Name(baseDirs[i]))} IN
    IF hits = {} THEN [at |-> 0, dir |-> <<>>, file |-> <<>>]
    ELSE LET i == CHOOSE i \in hits : \A j \in hits : i <= j IN
         [at |-> i, dir |-> baseDirs[i].dir,
          file |-> Stat(baseDirs[i].dir, Name(baseDirs[i]))]

\* handleRequest: the route's handler, or 404, or 405.
Routed(line) == line.path \in (IF line.method = "GET" THEN getRoutes ELSE postRoutes)

-----------------------------------------------------------------------------
(* The connection *)

\* The socket takes what it has room for; the rest is appended to the list.
Write(c, chunks) ==
    LET n == IF c.room < Len(chunks) THEN c.room ELSE Len(chunks) IN
    [c EXCEPT !.wire = @ \o SubSeq(chunks, 1, n), !.room = @ - n,
              !.pending = @ \o Drop(chunks, n)]

\* The list is not empty (a node that has been sent is popped by the next
\* writeCallback).
Listed(c) == c.writing \/ c.pending # <<>>

\* Mutant: what the socket does not take waits in the list for nothing.
SendMemoryAsleep(c, chunks) ==
    IF Listed(c) THEN [c EXCEPT !.pending = @ \o chunks, !.writing = TRUE]
    ELSE Write(c, chunks)

\* sendInLoop: behind what is in the list, or at once; the channel waits for
\* the socket if anything remains.
SendMemory(c, chunks) ==
    IF Listed(c) THEN [c EXCEPT !.pending = @ \o chunks, !.writing = TRUE]
    ELSE [Write(c, chunks) EXCEPT !.writing = c.room < Len(chunks)]

\* sendFileInLoop: a sendfile that the full socket refuses asks for nothing.
SendFileInLoop(c, file) == [Write(c, <<file>>) EXCEPT !.writing = c.room > 0]

\* sendFile: behind what is in the list, or at once.
SendFile(c, file) ==
    IF Listed(c) THEN [c EXCEPT !.pending = Append(@, file)] ELSE SendFileInLoop(c, file)

\* sendResponse: the header with the body, or the header and then the file
\* (files are not empty).
SendResponse(c, k, isFile) ==
    IF isFile THEN SendFile(SendMemory(c, <<<<k, "head">>>>), <<k, "file">>)
    ELSE SendMemory(c, <<<<k, "head">>, <<k, "body">>>>)

\* forceClose in the loop thread: what is pending is dropped.
Close(c, who) ==
    IF c.open
    THEN [c EXCEPT !.open = FALSE, !.by = who, !.pending = <<>>, !.writing = FALSE]
    ELSE c

\* Mutant: erased only where the status is looked at; the entry that first++
\* makes again stays.
FinishOnce(status, entry, isFile) ==
    LET answered == SendResponse(conn, Len(hist.answers) + 1, isFile) IN
    IF status # 200 THEN conn' = Close(answered, "server") /\ ka' = Entry(1, 0)
    ELSE IF entry.first + 1 >= entry.second
         THEN conn' = Close(answered, "server") /\ ka' = NoEntry
         ELSE conn' = answered /\ ka' = Entry(entry.first + 1, entry.second)

\* The end of recvMsgCallback.  After another status than 200 the entry is
\* erased, and counting makes a new one, <<1, 0>>, which is erased as well.
Finish(status, entry, isFile) ==
    LET answered == SendResponse(conn, Len(hist.answers) + 1, isFile)
        erased == IF status # 200 THEN Entry(0, 0) ELSE entry
        counted == Entry(erased.first + 1, erased.second) IN
    IF counted.first >= counted.second
    THEN conn' = Close(answered, "server") /\ ka' = NoEntry
    ELSE conn' = answered /\ ka' = counted

\* Reading n more bytes has ended inside a request, now or before.
CutBy(n) ==
    LET Size(k) == Len(FlattenSeq([i \in 1..k |-> sent[i].bytes])) IN
    hist.cut \/ Size(Len(sent)) - Len(sock) + n \notin {Size(k) : k \in 0..Len(sent)}

\* recvMsgCallback for what is not a whole, well-formed request: 400.
\* sendResponse makes an entry, which is erased with the connection.
Refuse(n) ==
    /\ conn' = Close(SendResponse(conn, Len(hist.answers) + 1, FALSE), "server")
    /\ ka' = NoEntry
    /\ hist' = [hist EXCEPT !.answers = Append(@, 400), !.cut = CutBy(n)]
    /\ UNCHANGED <<stage, mp>>

\* The request r is answered at once, with a form perhaps left in the buffer.
Answer(r, status, entry, files, n) ==
    /\ Finish(status, entry, files # {})
    /\ hist' = [hist EXCEPT !.answers = Append(@, status), !.cut = CutBy(n),
                            !.served = @ \cup files,
                            !.left = @ \/ IsMultipartFormData(r)]
    /\ UNCHANGED <<stage, mp>>

\* recvMsgCallback for the request r: the entry is made by the first one;
\* then a file, or a route's handler, which may parse a form.
Handle(r, n) ==
    \E f \in {MountFor(r.line)},
       entry \in {IF ka.in THEN ka ELSE Entry(0, IF KeepsAlive(r) THEN maxKeepAlive ELSE 0)} :
       \/ /\ f.at > 0 /\ (hasAuth => f.file \in Allowed)
          /\ Answer(r, 200, entry, {<<f.dir, f.file>>}, n)
       \/ f.at > 0 /\ hasAuth /\ f.file \notin Allowed /\ Answer(r, 403, entry, {}, n)
       \/ f.at = 0 /\ r.line.method \notin {"GET", "POST"} /\ Answer(r, 405, entry, {}, n)
       \/ /\ f.at = 0 /\ r.line.method \in {"GET", "POST"} /\ ~Routed(r.line)
          /\ Answer(r, 404, entry, {}, n)
       \/ /\ f.at = 0 /\ r.line.method \in {"GET", "POST"} /\ Routed(r.line)
          /\ \/ \E status \in {200, 500} : Answer(r, status, entry, {}, n)
             \/ /\ IsMultipartFormData(r)
                /\ mp' = [NewParser EXCEPT !.ret = "running"]
                /\ stage' = "parsing" /\ ka' = entry
                /\ hist' = [hist EXCEPT !.cut = CutBy(n)] /\ UNCHANGED conn

\* readCallback reads the first n bytes and calls recvMsgCallback.
RecvMsg(n) ==
    /\ phase = "run" /\ stage = "idle" /\ conn.open
    /\ sock' = Drop(sock, n)
    /\ \E r \in {ParseRequest(buf \o SubSeq(sock, 1, n))} :
          /\ buf' = r.rest
          /\ IF r.ok THEN Handle(r, n) ELSE Refuse(n)
    /\ UNCHANGED <<config, peer, phase, calls, todo, sent>>

\* A step of the parser, in the handler.
ParseStep ==
    /\ stage = "parsing" /\ Parse
    /\ UNCHANGED <<config, peer, phase, calls, todo, sent, stage, ka, conn, hist>>

\* The parser has returned: the handler answers.
HandlerReturns ==
    /\ stage = "parsing" /\ mp.ret \in {"true", "false"}
    /\ \E status \in {200, 500} :
          /\ Finish(status, ka, FALSE)
          /\ hist' = [hist EXCEPT !.answers = Append(@, status),
                                  !.left = @ \/ mp.ret = "false"]
    /\ stage' = "idle"
    /\ UNCHANGED <<parser, config, peer, phase, calls, todo, sent>>

\* readCallback at the end of the stream: handleClose.  (After a reset the
\* read that fails is followed by one that returns 0.)
PeerGone ==
    /\ phase = "run" /\ stage = "idle" /\ conn.open
    /\ sock = <<>> /\ peer # "open"
    /\ conn' = Close(conn, "peer")
    /\ UNCHANGED <<parser, config, peer, phase, calls, todo, sent, stage, ka, hist>>

\* The timing wheel closes an idle connection.
IdleTimeout ==
    /\ phase = "run" /\ stage = "idle" /\ conn.open
    /\ conn' = Close(conn, "idle")
    /\ UNCHANGED <<parser, config, peer, phase, calls, todo, sent, stage, ka, hist>>

\* writeCallback: the socket has room again; when everything has been sent the
\* channel stops waiting.
WriteMore ==
    /\ stage = "idle" /\ conn.open /\ conn.writing /\ conn.room > 0
    /\ conn' = IF conn.pending = <<>> THEN [conn EXCEPT !.writing = FALSE]
               ELSE [conn EXCEPT !.wire = Append(@, Head(conn.pending)),
                                 !.pending = Tail(@), !.room = @ - 1]
    /\ UNCHANGED <<parser, config, peer, phase, calls, todo, sent, stage, ka, hist>>

-----------------------------------------------------------------------------
(* The client, for as long as the connection is open *)

ClientSends ==
    /\ phase = "run" /\ conn.open /\ peer = "open" /\ todo # <<>>
    /\ sock' = sock \o Head(todo).bytes
    /\ sent' = Append(sent, Head(todo)) /\ todo' = Tail(todo)
    /\ hist' = [hist EXCEPT !.piped = @ \/ Len(hist.answers) < Len(sent)]
    /\ UNCHANGED <<buf, mp, config, peer, phase, calls, stage, ka, conn>>

\* The client goes away, perhaps in the middle of a request; a reset also
\* takes back what has not been read.
ClientStops ==
    /\ phase = "run" /\ conn.open /\ peer = "open" /\ todo' = <<>>
    /\ \/ peer' = "closed" /\ UNCHANGED <<sock, sent, hist>>
       \/ /\ peer' = "reset" /\ sock' = <<>> /\ UNCHANGED sent
          /\ hist' = [hist EXCEPT !.cut = TRUE]
       \/ /\ peer' = "closed" /\ todo # <<>>
          /\ \E n \in 1..(Len(Head(todo).bytes) - 1) :
                sock' = sock \o SubSeq(Head(todo).bytes, 1, n)
          /\ sent' = Append(sent, Head(todo))
          /\ hist' = [hist EXCEPT !.cut = TRUE]
    /\ UNCHANGED <<buf, mp, config, phase, calls, stage, ka, conn>>

ClientReads ==
    /\ conn.open /\ conn.room < Room
    /\ conn' = [conn EXCEPT !.room = @ + 1]
    /\ UNCHANGED <<parser, config, peer, phase, calls, todo, sent, stage, ka, hist>>

-----------------------------------------------------------------------------
Next ==
    \/ AddEndpoint \/ AddMountPoint \/ RemoveMountPoint \/ Start
    \/ \E n \in 1..Len(sock) : RecvMsg(n)
    \/ ParseStep \/ HandlerReturns
    \/ PeerGone \/ IdleTimeout \/ WriteMore
    \/ ClientSends \/ ClientStops \/ ClientReads

\* The loop thread serves what epoll reports; the client reads its answers.
\* (Only RecvMsg, and a reset, take from the socket between callbacks: fairness
\* of taking is fairness of RecvMsg, and cheaper to check.)
Takes ==
    /\ phase = "run" /\ stage = "idle" /\ conn.open
    /\ \E n \in 1..Len(sock) : sock' = Drop(sock, n)

Fairness ==
    /\ WF_sock(Takes) /\ WF_vars(ParseStep) /\ WF_vars(HandlerReturns)
    /\ WF_vars(PeerGone) /\ WF_vars(WriteMore) /\ WF_vars(ClientReads)

Spec == Init /\ [][Next]_vars /\ Fairness

-----------------------------------------------------------------------------
(* Properties *)

\* However a form is split into reads, the callbacks get the content of each
\* field, and nothing else, in order; all of it when parse returns true.
MultipartContentWhole ==
    LET forms == {i \in 1..Len(sent) : sent[i].parts # <<>>}
        parts == IF forms = {} THEN <<>> ELSE sent[CHOOSE i \in forms : TRUE].parts
        n == Len(mp.out) IN
    /\ ParserTypeOK
    /\ n <= Len(parts)
    /\ \A i \in 1..n : /\ mp.out[i].name = parts[i].name
                       /\ IsPrefix(mp.out[i].data, parts[i].data)
                       /\ i < n => mp.out[i].data = parts[i].data
    /\ mp.ret = "true" => mp.out = parts

\* The server keeps its place in the stream: a request is refused as bad
\* only if it is bad, or a read ended inside a request, or a form was not
\* parsed to its end, or a request without a length took in what followed.
OnlyBrokenIsRefused ==
    400 \in ToSet(hist.answers) =>
        \/ hist.cut \/ hist.left
        \/ \E i \in 1..Len(sent) : ~sent[i].good \/ (hist.piped /\ ~sent[i].framed)

\* A file that is sent is under the directory of the mount point that matched,
\* and the auth callback, if there is one, has accepted it.
ServedInside ==
    \A s \in hist.served : IsPrefix(s[1], s[2]) /\ (hasAuth => s[2] \in Allowed)

\* Between callbacks the entry of an open connection counts its answers and
\* is below the limit; a connection the server has closed has no entry, which
\* would keep it and its descriptor.  No connection gets more answers than
\* maxKeepAliveRequests_ allows.
KeepAliveAccounts ==
    /\ ServerTypeOK
    /\ conn.open /\ stage = "idle" =>
          /\ ka.in = (hist.answers # <<>>) /\ ka.first = Len(hist.answers)
          /\ ka.in => ka.first < ka.second
    /\ conn.by = "server" => ~ka.in
    /\ Len(hist.answers) <= IF maxKeepAlive > 1 THEN maxKeepAlive ELSE 1

\* A file is at the head of the list and nobody waits for the socket: its
\* header has filled the socket and sendfile was refused.
Stalled == /\ conn.pending # <<>> /\ Head(conn.pending)[2] = "file"
           /\ ~conn.writing

\* A client that waits for each answer gets it whole, or the connection is
\* closed, unless the parser goes round for ever, or the rest of the answer is
\* a file whose sendfile was refused by the full socket.
RequestsAnswered ==
    [](Len(conn.wire) < 2 * Len(sent) =>
          \/ <>(~conn.open \/ Len(conn.wire) = 2 * Len(sent) \/ hist.piped)
          \/ <>[]Stuck \/ <>[]Stalled)
-----------------------------------------------------------------------------
(* The inductive invariant behind ServedInside and KeepAliveAccounts *)

\* A mount point is a directory.
MountsSane ==
    /\ calls \in Seq(Setup)
    /\ baseDirs \in Seq([mnt : Seq(Chars), dir : Dirs])

\* While a form is parsed the entry is that of the request being answered; an
\* entry never allows more than the configured number.
EntrySane ==
    /\ maxKeepAlive \in Nat
    /\ stage = "parsing" =>
          /\ conn.open /\ ka.in /\ ka.first = Len(hist.answers)
          /\ hist.answers # <<>> => ka.first < ka.second
    /\ ka.in => ka.second <= maxKeepAlive
    /\ conn.by = "server" => ~conn.open

IInv == KeepAliveAccounts /\ ServedInside /\ MountsSane /\ EntrySane
=============================================================================
