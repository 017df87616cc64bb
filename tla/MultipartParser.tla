--------------------------- MODULE MultipartParser --------------------------
(***************************************************************************)
(* MultipartFormDataParser of cooper/net/Http.cpp: a form in               *)
(* multipart/form-data is parsed by the handler of a request, in the loop  *)
(* thread, from the connection's buffer and then straight from the socket. *)
(*                                                                         *)
(* A byte is a token.  The line of a part's header is two of them, its     *)
(* first byte and the rest: <<"name", f>> is a Content-Disposition that    *)
(* names the field f, <<"type", t>> a Content-Type.                        *)
(***************************************************************************)
EXTENDS Integers, FiniteSets, Sequences, SequencesExt

CONSTANTS
    Boundary,            \* boundary_, a sequence of bytes
    Callbacks            \* the fields the program has a callback for

VARIABLES
    buf,                 \* the connection's readBuffer_ (readable bytes)
    sock,                \* what has arrived at the socket and is not read
    peer,                \* the client's side: "open", "closed", "reset"
    mp                   \* the parser, see ParserType

CRLF == <<"CR", "LF">>
Dash == <<"-", "-">>

\* setBoundary
DashBoundaryCrlf == Dash \o Boundary \o CRLF
CrlfDashBoundary == CRLF \o Dash \o Boundary

\* What the callbacks have been told: the parts in order, with their content.
Part == [name : STRING, data : Seq(STRING)]

ParserType ==
    [state : 0..4,                 \* state_
     more : BOOLEAN,               \* needToReadMore
     inLines : BOOLEAN,            \* inside the while of case 2
     name : STRING,                \* file_.name, "" when cleared
     out : Seq(Part),
     ret : {"none", "running", "true", "false"}]   \* what parse has returned

NewParser == [state |-> 0, more |-> FALSE, inLines |-> FALSE, name |-> "",
              out |-> <<>>, ret |-> "none"]

\* MsgBuffer::find: where pat begins in b, or 0.
Find(b, pat) ==
    LET Here(i) == SubSeq(b, i, i + Len(pat) - 1) = pat
        starts == 1..(Len(b) - Len(pat) + 1) IN
    IF \E i \in starts : Here(i)
    THEN CHOOSE i \in starts : Here(i) /\ \A j \in 1..(i - 1) : ~Here(j) ELSE 0

Drop(b, n) == SubSeq(b, n + 1, Len(b))

-----------------------------------------------------------------------------
Running(s) == mp.ret = "running" /\ ~mp.more /\ mp.state = s

Wait == mp' = [mp EXCEPT !.more = TRUE] /\ UNCHANGED buf
Return(r) == mp' = [mp EXCEPT !.ret = r]

\* readMore: readFd takes some of what has arrived.  At the end of the
\* stream it returns 0, which counts as having read; while nothing has
\* arrived the loop tries again.
ReadMore ==
    /\ mp.ret = "running" /\ mp.more
    /\ \/ \E n \in 1..Len(sock) :
              /\ buf' = buf \o SubSeq(sock, 1, n) /\ sock' = Drop(sock, n)
              /\ mp' = [mp EXCEPT !.more = FALSE]
       \/ /\ sock = <<>> /\ peer = "closed"
          /\ mp' = [mp EXCEPT !.more = FALSE] /\ UNCHANGED <<buf, sock>>
       \/ sock = <<>> /\ peer = "reset" /\ Return("false") /\ UNCHANGED <<buf, sock>>

\* Case 0.  With fewer bytes than the first delimiter the loop goes round
\* without reading.
Preamble ==
    /\ Running(0) /\ Len(buf) >= Len(DashBoundaryCrlf)
    /\ LET i == Find(buf, DashBoundaryCrlf) IN
       \/ i = 0 /\ Return("false") /\ UNCHANGED buf
       \/ /\ i > 0 /\ mp' = [mp EXCEPT !.state = 1]
          /\ buf' = Drop(buf, i - 1 + Len(DashBoundaryCrlf))
    /\ UNCHANGED sock

\* Case 1 and clearFileInfo.
ClearFileInfo ==
    /\ Running(1) /\ mp' = [mp EXCEPT !.state = 2, !.name = ""]
    /\ UNCHANGED <<buf, sock>>

\* Case 2, one line of the part's header at a time.  When the buffer ends
\* inside the header the parser gives up.
PartHeader ==
    /\ Running(2) /\ UNCHANGED sock
    /\ LET i == Find(buf, CRLF)
           line == SubSeq(buf, 1, i - 1)
           part == IF mp.name \in Callbacks
                   THEN <<[name |-> mp.name, data |-> <<>>]>> ELSE <<>> IN
       \/ Len(buf) < Len(CRLF) /\ ~mp.inLines /\ Wait
       \/ /\ Len(buf) >= Len(CRLF) \/ mp.inLines
          /\ i = 0 /\ Return("false") /\ UNCHANGED buf
       \/ /\ i = 1 /\ buf' = Drop(buf, Len(CRLF))
          /\ mp' = [mp EXCEPT !.state = 3, !.inLines = FALSE, !.out = @ \o part]
       \/ /\ i > 1 /\ line[1] \in {"name", "type"}
          /\ buf' = Drop(buf, i - 1 + Len(CRLF))
          /\ mp' = [mp EXCEPT !.inLines = TRUE,
                              !.name = IF line[1] = "name" THEN line[2] ELSE @]
       \/ i > 1 /\ line[1] \notin {"name", "type"} /\ Return("false") /\ UNCHANGED buf

\* FLAG_CONTENT: the field's callback, if there is one, gets data.
Deliver(data) ==
    IF mp.name \in Callbacks
    THEN [mp.out EXCEPT ![Len(mp.out)].data = @ \o data] ELSE mp.out

\* Mutant: everything that is not the delimiter is passed on at once.
PartContentEager ==
    /\ Running(3) /\ UNCHANGED sock
    /\ LET i == Find(buf, CrlfDashBoundary) IN
       \/ Len(buf) < Len(CrlfDashBoundary) /\ Wait
       \/ /\ Len(buf) >= Len(CrlfDashBoundary) /\ i > 0
          /\ mp' = [mp EXCEPT !.state = 4, !.out = Deliver(SubSeq(buf, 1, i - 1))]
          /\ buf' = Drop(buf, i - 1 + Len(CrlfDashBoundary))
       \/ /\ Len(buf) >= Len(CrlfDashBoundary) /\ i = 0
          /\ mp' = [mp EXCEPT !.more = TRUE, !.out = Deliver(buf)]
          /\ buf' = <<>>

\* Case 3.  As many bytes as the delimiter has are held back: it may have
\* begun in them.
PartContent ==
    /\ Running(3) /\ UNCHANGED sock
    /\ LET i == Find(buf, CrlfDashBoundary)
           len == Len(buf) - Len(CrlfDashBoundary) IN
       \/ Len(buf) < Len(CrlfDashBoundary) /\ Wait
       \/ /\ Len(buf) >= Len(CrlfDashBoundary) /\ i > 0
          /\ mp' = [mp EXCEPT !.state = 4, !.out = Deliver(SubSeq(buf, 1, i - 1))]
          /\ buf' = Drop(buf, i - 1 + Len(CrlfDashBoundary))
       \/ /\ Len(buf) >= Len(CrlfDashBoundary) /\ i = 0
          /\ mp' = [mp EXCEPT !.more = TRUE, !.out = Deliver(SubSeq(buf, 1, len))]
          /\ buf' = Drop(buf, len)

\* Case 4: another part, or the end of the form, which empties the buffer.
AfterBoundary ==
    /\ Running(4) /\ UNCHANGED sock
    /\ \/ Len(buf) < Len(CRLF) /\ Wait
       \/ /\ Find(buf, CRLF) = 1
          /\ mp' = [mp EXCEPT !.state = 1] /\ buf' = Drop(buf, Len(CRLF))
       \/ Find(buf, Dash) = 1 /\ Return("true") /\ buf' = <<>>
       \/ /\ Len(buf) >= Len(CRLF) /\ Find(buf, CRLF) # 1 /\ Find(buf, Dash) # 1
          /\ Return("false") /\ UNCHANGED buf

Parse == \/ ReadMore \/ Preamble \/ ClearFileInfo \/ PartHeader
         \/ PartContent \/ AfterBoundary

\* The loop goes round for ever: the first delimiter is not there and is not
\* read, or the stream has ended inside the form.
Stuck ==
    /\ mp.ret = "running"
    /\ \/ mp.state = 0 /\ Len(buf) < Len(DashBoundaryCrlf)
       \/ sock = <<>> /\ peer = "closed"
=============================================================================
