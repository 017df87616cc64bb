---------------------------- MODULE MCHttpServer ----------------------------
(***************************************************************************)
(* Routes /e, files under /w (f and d/i) and one beside it (k); scripts    *)
(* that keep the connection, close it, end it at the limit, pipeline,      *)
(* upload a form whose content looks like its delimiter, and are wrong.    *)
(***************************************************************************)
EXTENDS HttpServer

MCBoundary == <<"b">>
MCCallbacks == {"u", "v"}
MCMethods == {"GET", "POST", "PUT"}

L(m, p, v) == [method |-> m, path |-> p, version |-> v]

MCLines ==
    [getE |-> L("GET", <<"/", "e">>, "HTTP/1.1"),
     getE0 |-> L("GET", <<"/", "e">>, "HTTP/1.0"),
     postE |-> L("POST", <<"/", "e">>, "HTTP/1.1"),
     putE |-> L("PUT", <<"/", "e">>, "HTTP/1.1"),
     getE2 |-> L("GET", <<"/", "e">>, "HTTP/2"),
     getF |-> L("GET", <<"/", "s", "/", "f">>, "HTTP/1.1"),
     getD |-> L("GET", <<"/", "s", "/", "d", "/", ".", ".", "/", "d", "/">>, "HTTP/1.1"),
     getK |-> L("GET", <<"/", "s", "/", ".", ".", "/", "k">>, "HTTP/1.1"),
     getWK |-> L("GET", <<"/", "s", "/", ".", ".", "/", "w", "/", ".", ".", "/", "k">>, "HTTP/1.1"),
     getDot |-> L("GET", <<"/", "s", "/", ".", "/", "f">>, "HTTP/1.0")]

MCHeaderLines ==
    [close |-> [key |-> "Connection", value |-> "close", len |-> 0],
     keep |-> [key |-> "Connection", value |-> "keep-alive", len |-> 0],
     len2 |-> [key |-> "Content-Length", value |-> "2", len |-> 2],
     len0 |-> [key |-> "Content-Length", value |-> "0", len |-> 0],
     multi |-> [key |-> "Content-Type", value |-> "multipart; boundary", len |-> 0],
     bare |-> [key |-> "Content-Type", value |-> "multipart", len |-> 0]]

\* The bytes of a request.
Msg(line, headers, body) ==
    <<line>> \o CRLF
        \o FlattenSeq([i \in 1..Len(headers) |-> <<headers[i]>> \o CRLF]) \o CRLF \o body

Req(line, headers, body, good) ==
    [bytes |-> Msg(line, headers, body), good |-> good, parts |-> <<>>,
     framed |-> \E i \in 1..Len(headers) : headers[i] \in {"len0", "len2"}]

Get == Req("getE", <<>>, <<>>, TRUE)
GetOld == Req("getE0", <<>>, <<>>, TRUE)
GetOldKeep == Req("getE0", <<"keep">>, <<>>, TRUE)
GetClose == Req("getE", <<"close", "len0">>, <<>>, TRUE)
Post == Req("postE", <<"len2">>, <<"x", "y">>, TRUE)
Get0 == Req("getE", <<"len0">>, <<>>, TRUE)
Put == Req("putE", <<"len0">>, <<>>, TRUE)
Bad == Req("getE2", <<>>, <<>>, FALSE)
NoBoundary == Req("postE", <<"bare">>, Dash \o MCBoundary, FALSE)
BadHeader == Req("getE", <<"?">>, <<>>, FALSE)
File(line) == Req(line, <<"len0">>, <<>>, TRUE)

Field(f, data) == [name |-> f, data |-> data]
Enc(ps) ==
    Dash \o MCBoundary \o CRLF
    \o FlattenSeq([i \in 1..Len(ps) |->
          <<"name", ps[i].name>> \o CRLF \o CRLF \o ps[i].data \o CRLF \o Dash \o MCBoundary
          \o (IF i < Len(ps) THEN CRLF ELSE Dash \o CRLF)])
Form(ps) ==
    [bytes |-> Msg("postE", <<"multi">>, Enc(ps)), good |-> TRUE, framed |-> FALSE,
     parts |-> SelectSeq(ps, LAMBDA p : p.name \in MCCallbacks)]
BadForm(body, ps) ==
    [bytes |-> Msg("postE", <<"multi">>, body), good |-> TRUE, framed |-> FALSE, parts |-> ps]

\* Content that begins like the delimiter; a field without a callback.
Tricky == Form(<<Field("u", <<"x", "CR", "LF", "-", "y">>), Field("w", <<"z">>)>>)
Two == Form(<<Field("u", <<>>), Field("v", <<"CR", "LF">>)>>)
Typed == BadForm(Dash \o MCBoundary \o CRLF \o <<"type", "t">> \o CRLF \o <<"name", "u">> \o CRLF
                     \o CRLF \o <<"x">> \o CRLF \o Dash \o MCBoundary \o Dash \o CRLF,
                 <<Field("u", <<"x">>)>>)
NoDelimiter == BadForm(<<"x", "x", "x", "x", "x">>, <<>>)
JunkHeader == BadForm(Dash \o MCBoundary \o CRLF \o <<"junk", "j">> \o CRLF \o CRLF, <<>>)
NoEnd == BadForm(Dash \o MCBoundary \o CRLF \o <<"name", "u">> \o CRLF \o CRLF \o <<"x">>
                     \o CRLF \o Dash \o MCBoundary \o <<"y", "y">>,
                 <<Field("u", <<"x">>)>>)

Call(op, method, path, mnt, dir) ==
    [op |-> op, method |-> method, path |-> path, mnt |-> mnt, dir |-> dir]
Route(method) == Call("addEndpoint", method, <<"/", "e">>, <<>>, <<>>)
Mount(mnt, dir) == Call("addMountPoint", "", <<>>, mnt, dir)
Unmount(mnt) == Call("removeMountPoint", "", <<>>, mnt, <<>>)

W == <<<<"w">>>>
GetRoute == <<Route("GET"), Route("POST"), Route("BREW")>>
PostRoute == <<Route("POST")>>
MountS == <<Mount(<<"/", "s">>, <<<<"k">>>>), Mount(<<"/", "s">>, W), Mount(<<>>, <<>>)>>
Moved == <<Mount(<<"/", "s">>, W), Unmount(<<"/">>), Unmount(<<"/", "s">>), Mount(<<"/", "s">>, <<>>)>>

MCCases ==
    [calls : {GetRoute},
     requests : {<<Get, Get, Get>>, <<GetOld, Get>>, <<GetOldKeep, GetClose>>,
                 <<GetClose, Get>>, <<Put, Get>>, <<Post>>, <<Bad>>, <<BadHeader>>}]
    \cup [calls : {PostRoute},
          requests : {<<Post, Get0>>, <<Post, Post>>, <<Tricky, Post>>, <<Two>>, <<Typed>>,
                      <<NoBoundary>>, <<NoDelimiter>>, <<JunkHeader>>, <<NoEnd>>}]
    \cup [calls : {MountS, Moved},
          requests : {<<File("getF"), File("getD")>>, <<File("getK")>>, <<File("getWK")>>, <<File("getDot")>>}]

MCChars == {"/", ".", "e", "s", "f", "d", "k", "w", "i"}
MCFiles == {<<<<"w">>, <<"f">>>>, <<<<"w">>, <<"d">>, <<"i">>>>, <<<<"k">>>>}
MCAllowed == {<<<<"w">>, <<"f">>>>}
=============================================================================
