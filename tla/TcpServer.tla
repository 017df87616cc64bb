----------------------------- MODULE TcpServer ------------------------------
(***************************************************************************)
(* cooper/net/TcpServer.cpp with Acceptor.cpp, EventLoopThreadPool.cpp and *)
(* the registration of channels in EpollPoller.cpp: the life of            *)
(* connections that are accepted in the server's loop and live in I/O      *)
(* loops, and stop().                                                      *)
(*                                                                         *)
(* A loop goes round: test of quit_, poll, the active channels one by one, *)
(* the queued functions.  A function is <<operation, connection>>.  A      *)
(* connection is an object as long as connSet_ or a queued function refers *)
(* to it; then its descriptor is closed and can be given out again.        *)
(***************************************************************************)
EXTENDS Naturals, Sequences, Functions

CONSTANTS
    Main,                \* the server's loop
    Conns,               \* bound: connections ever accepted
    Listener,            \* the acceptor's channel
    Fds,                 \* descriptors accept can return
    Setups               \* what the program configures: [loops, own, idle]

ASSUME ServerAssumption ==
    /\ Main \notin Conns /\ Listener \notin Conns /\ Fds # {}
    /\ \A s \in Setups :
          /\ s.own \in BOOLEAN /\ s.idle \in BOOLEAN
          /\ s.loops \in Seq(Range(s.loops)) /\ s.loops # <<>>
          /\ s.own => Main \notin Range(s.loops)

VARIABLES
    setup,               \* ioLoops_; own: they belong to a pool only the
                         \* server holds; idle: kickoffIdleConnections
    acceptor,            \* "quiet", "listening", "gone"
    nextLoop,            \* nextLoopIdx_
    connSet,             \* connSet_
    conn,                \* the connections, see ConnType
    queue,               \* funcs_ of every loop
    phase, active,       \* where each loop is; its active channels
    quit,                \* loops that were told to quit
    spc, stopper,        \* where stop() is; who called it
    closing,             \* connPtrs of stop(): those it has yet to close
    wheels,              \* timingWheelMap_: loops whose wheel still exists
    failed, dead,        \* history: an assertion failed; an object that was
                         \* destroyed was used
    openAtStop,          \* history: stop() found connections
    inCallback           \* history: stop() was called by a channel's callback

vars == <<setup, acceptor, nextLoop, connSet, conn, queue, phase, active, quit,
          spc, stopper, closing, wheels, failed, dead, openAtStop, inCallback>>

AllLoops == {Main} \cup UNION {Range(s.loops) : s \in Setups}
IoLoops == Range(setup.loops)

Function == ({"established", "forceClose", "destroy", "close"} \X Conns)
            \cup {<<"stop", Main>>, <<"wheel", Main>>}

ConnType ==
    [st : {"None", "Connecting", "Connected", "Disconnected"},
     loop : AllLoops, fd : Fds,
     reading : BOOLEAN,                      \* events_ of its channel
     index : {"new", "added", "deleted"}]    \* index_ of its channel

TypeOK ==
    /\ setup \in Setups
    /\ acceptor \in {"quiet", "listening", "gone"}
    /\ nextLoop \in 1..Len(setup.loops)
    /\ connSet \in SUBSET Conns
    /\ conn \in [Conns -> ConnType]
    /\ queue \in [AllLoops -> Seq(Function)]
    /\ phase \in [AllLoops -> {"test", "poll", "active", "funcs", "ended"}]
    /\ active \in [AllLoops -> SUBSET (Conns \cup {Listener})]
    /\ quit \in SUBSET AllLoops
    /\ spc \in {"no", "asked", "closing", "pool", "wheels", "wait", "done"}
    /\ stopper \in {"none", "main", "other"} /\ closing \in SUBSET Conns
    /\ wheels \in SUBSET AllLoops
    /\ failed \in BOOLEAN /\ dead \in BOOLEAN
    /\ openAtStop \in BOOLEAN /\ inCallback \in BOOLEAN

Init ==
    /\ setup \in Setups
    /\ acceptor = "quiet" /\ nextLoop = 1 /\ connSet = {}
    /\ conn \in [Conns -> [st : {"None"}, loop : {Main},
                           fd : {CHOOSE f \in Fds : TRUE},
                           reading : {FALSE}, index : {"new"}]]
    /\ queue = [l \in AllLoops |-> <<>>]
    /\ phase = [l \in AllLoops |-> "poll"]
    /\ active = [l \in AllLoops |-> {}]
    /\ quit = {} /\ spc = "no" /\ stopper = "none"
    /\ closing = {} /\ wheels = {}
    /\ failed = FALSE /\ dead = FALSE
    /\ openAtStop = FALSE /\ inCallback = FALSE

-----------------------------------------------------------------------------
(* A step changes connections, connSet_, queues and the two flags together: *)
(* w is [conn, connSet, queue, failed, dead], and a handler maps w to w.    *)

World == [conn |-> conn, connSet |-> connSet, queue |-> queue,
          failed |-> failed, dead |-> dead]

Becomes(w) ==
    /\ conn' = w.conn /\ connSet' = w.connSet /\ queue' = w.queue
    /\ failed' = w.failed /\ dead' = w.dead

\* assert(p)
Assert(w, p) == [w EXCEPT !.failed = @ \/ ~p]

QueueInLoop(w, l, f) ==
    IF phase[l] = "ended" THEN [w EXCEPT !.dead = TRUE]
    ELSE [w EXCEPT !.queue[l] = Append(@, f)]

\* EpollPoller::updateChannel: a new or deleted channel is added, one without
\* events is taken out.  Two channels of a loop never have one descriptor.
UpdateChannel(w, c) ==
    LET k == w.conn[c]
        clash == \E d \in Conns \ {c} :
                    /\ w.conn[d].loop = k.loop /\ w.conn[d].fd = k.fd
                    /\ w.conn[d].index # "new" IN
    [Assert(w, k.index = "new" => ~clash) EXCEPT
        !.conn[c].index = IF k.index = "added" /\ ~k.reading THEN "deleted"
                          ELSE "added"]

DisableAll(w, c) == UpdateChannel([w EXCEPT !.conn[c].reading = FALSE], c)

\* Channel::remove and EpollPoller::removeChannel.
Remove(w, c) ==
    [Assert(w, ~w.conn[c].reading /\ w.conn[c].index # "new") EXCEPT
        !.conn[c].index = "new"]

-----------------------------------------------------------------------------
(* The connection's and the server's handlers *)

Established(w, c) ==
    LET v == Assert(w, w.conn[c].st = "Connecting") IN
    UpdateChannel([v EXCEPT !.conn[c].reading = TRUE,
                            !.conn[c].st = "Connected"], c)

ConnectDestroyed(w, c) ==
    Remove(IF w.conn[c].st = "Connected"
           THEN DisableAll([w EXCEPT !.conn[c].st = "Disconnected"], c)
           ELSE w, c)

\* Mutant: the connection is forgotten, and nobody removes its channel.
HandleCloseForgets(w, c) ==
    [Assert(w, c \in w.connSet) EXCEPT !.connSet = @ \ {c}]

\* In the server's loop; the destruction is "always" queued.
HandleCloseInLoop(w, c) ==
    LET v == [Assert(w, c \in w.connSet) EXCEPT !.connSet = @ \ {c}] IN
    QueueInLoop(v, v.conn[c].loop, <<"destroy", c>>)

\* closeCallback_, called in the connection's loop.
ConnectionClosed(w, c) ==
    IF w.conn[c].loop = Main THEN HandleCloseInLoop(w, c)
    ELSE QueueInLoop(w, Main, <<"close", c>>)

HandleClose(w, c) ==
    ConnectionClosed(DisableAll([w EXCEPT !.conn[c].st = "Disconnected"], c), c)

\* Mutant: forceClose does not look at the status.
ForceCloseAgain(w, c) == HandleClose(w, c)

\* The function of forceClose.
ForceCloseInLoop(w, c) ==
    IF w.conn[c].st = "Connected" THEN HandleClose(w, c) ELSE w

\* forceClose, called in loop l.
ForceClose(w, l, c) ==
    IF w.conn[c].loop = l THEN ForceCloseInLoop(w, c)
    ELSE QueueInLoop(w, w.conn[c].loop, <<"forceClose", c>>)

-----------------------------------------------------------------------------
(* The loops *)

\* stop() closes the connections in the server's loop, and keeps the loop to itself
\* until it returns when it was called there.
Blocked(l) == l = Main /\ (spc = "closing" \/ (stopper = "main" /\ spc # "done"))

Free(l, ph) == phase[l] = ph /\ ~Blocked(l) /\ ~failed

\* The object of c exists.
Alive(c) ==
    \/ c \in connSet
    \/ \E l \in AllLoops : \E i \in DOMAIN queue[l] : queue[l][i][2] = c

\* while (!quit_): a loop that ends is destroyed with the functions it has.
TestQuit(l) ==
    /\ Free(l, "test")
    /\ phase' = [phase EXCEPT ![l] = IF l \in quit THEN "ended" ELSE "poll"]
    /\ queue' = IF l \in quit THEN [queue EXCEPT ![l] = <<>>] ELSE queue
    /\ UNCHANGED <<setup, acceptor, nextLoop, connSet, conn, active, quit, spc,
                   stopper, closing, wheels, failed, dead, openAtStop, inCallback>>

\* What is in the epoll set may be reported.
Poll(l, cs) ==
    /\ Free(l, "poll")
    /\ \A c \in cs \ {Listener} : conn[c].loop = l /\ conn[c].index = "added"
    /\ Listener \in cs => l = Main /\ acceptor = "listening"
    /\ phase' = [phase EXCEPT ![l] = "active"]
    /\ active' = [active EXCEPT ![l] = cs]
    /\ UNCHANGED <<setup, acceptor, nextLoop, connSet, conn, queue, quit, spc,
                   stopper, closing, wheels, failed, dead, openAtStop, inCallback>>

\* handleEvent: nothing if the channel has no events any more; else the peer
\* has closed, or a callback of the program closes some connection.
HandleEvent(l, c, d) ==
    /\ Free(l, "active")
    /\ c \in active[l]
    /\ active' = [active EXCEPT ![l] = @ \ {c}]
    /\ \/ ~conn[c].reading /\ Becomes(World)
       \/ conn[c].reading /\ Becomes(HandleClose(World, c))
       \/ /\ conn[c].reading /\ d \in connSet /\ spc = "no"
          /\ <<"forceClose", d>> \notin Range(queue[conn[d].loop])    \* bound
          /\ Becomes(ForceClose(World, l, d))
    /\ UNCHANGED <<setup, acceptor, nextLoop, phase, quit, spc, stopper, closing, wheels,
                   openAtStop, inCallback>>

ActiveDone(l) ==
    /\ Free(l, "active")
    /\ active[l] = {}
    /\ phase' = [phase EXCEPT ![l] = "funcs"]
    /\ UNCHANGED <<setup, acceptor, nextLoop, connSet, conn, queue, active, quit,
                   spc, stopper, closing, wheels, failed, dead, openAtStop, inCallback>>

FuncsDone(l) ==
    /\ Free(l, "funcs")
    /\ queue[l] = <<>>
    /\ phase' = [phase EXCEPT ![l] = "test"]
    /\ UNCHANGED <<setup, acceptor, nextLoop, connSet, conn, queue, active, quit,
                   spc, stopper, closing, wheels, failed, dead, openAtStop, inCallback>>

\* doRunInLoopFuncs takes a function of a connection.
RunFunc(l) ==
    /\ Free(l, "funcs")
    /\ queue[l] # <<>>
    /\ LET op == queue[l][1][1]
           c  == queue[l][1][2]
           w  == [World EXCEPT !.queue[l] = Tail(@)] IN
       Becomes(CASE op = "established" -> Established(w, c)
                 [] op = "forceClose"  -> ForceCloseInLoop(w, c)
                 [] op = "destroy"     -> ConnectDestroyed(w, c)
                 [] op = "close"       -> HandleCloseInLoop(w, c)
                 [] OTHER              -> w)
    /\ queue[l][1][1] # "stop"
    /\ wheels' = IF queue[l][1][1] = "wheel" THEN wheels \ {l} ELSE wheels
    /\ UNCHANGED <<setup, acceptor, nextLoop, phase, active, quit, spc, stopper,
                   closing, openAtStop, inCallback>>

-----------------------------------------------------------------------------
(* The server: start, newConnection, stop *)

Start ==
    /\ Free(Main, "funcs")
    /\ acceptor = "quiet" /\ acceptor' = "listening"
    /\ wheels' = IF setup.idle THEN IoLoops ELSE {}
    /\ UNCHANGED <<setup, nextLoop, connSet, conn, queue, phase, active, quit,
                   spc, stopper, closing, failed, dead, openAtStop, inCallback>>

\* ++nextLoopIdx_ and back to the first; indices start at 1 here.
NextLoop(i) == IF i + 1 <= Len(setup.loops) THEN i + 1 ELSE 1

\* Acceptor::readCallback and newConnection, with a descriptor that is closed.
NewConnection(c, f) ==
    /\ Free(Main, "active")
    /\ Listener \in active[Main] /\ acceptor = "listening"
    /\ active' = [active EXCEPT ![Main] = @ \ {Listener}]
    /\ conn[c].st = "None"
    /\ \A d \in Conns : (conn[d].st # "None" /\ Alive(d)) => conn[d].fd # f
    /\ LET l == setup.loops[nextLoop]
           w == [World EXCEPT !.conn[c] = [@ EXCEPT !.st = "Connecting",
                                                   !.loop = l, !.fd = f],
                              !.connSet = @ \cup {c}] IN
       Becomes(IF l = Main THEN Established(w, c)
               ELSE QueueInLoop(w, l, <<"established", c>>))
    /\ nextLoop' = NextLoop(nextLoop)
    /\ UNCHANGED <<setup, acceptor, phase, quit, spc, stopper, closing, wheels,
                   openAtStop, inCallback>>

\* accept has failed (the connection is gone, or no descriptor is left), or the
\* acceptor was destroyed by a callback that came earlier in the same list.
NothingAccepted ==
    /\ Free(Main, "active")
    /\ Listener \in active[Main]
    /\ active' = [active EXCEPT ![Main] = @ \ {Listener}]
    /\ dead' = (dead \/ acceptor = "gone")
    /\ UNCHANGED <<setup, acceptor, nextLoop, connSet, conn, queue, phase, quit,
                   spc, stopper, closing, wheels, failed, openAtStop, inCallback>>

\* stop() called by a thread that is not the server's loop.
AskStop ==
    /\ spc = "no" /\ spc' = "asked" /\ acceptor = "listening"
    /\ stopper' = "other"
    /\ queue' = [queue EXCEPT ![Main] = Append(@, <<"stop", Main>>)]
    /\ UNCHANGED <<setup, acceptor, nextLoop, connSet, conn, phase, active, quit,
                   closing, wheels, failed, dead, openAtStop, inCallback>>

\* The acceptor goes first, and connSet_ is copied.
CloseAll ==
    /\ acceptor' = "gone"
    /\ spc' = "closing" /\ closing' = connSet
    /\ openAtStop' = (connSet # {})
    /\ UNCHANGED <<setup, nextLoop, connSet, conn, phase, active, quit, wheels,
                   failed, dead>>

\* stop() called in the server's loop, by a callback or a function.
StopHere ==
    /\ Free(Main, "active") \/ Free(Main, "funcs")
    /\ spc = "no" /\ acceptor = "listening"
    /\ stopper' = "main" /\ inCallback' = (phase[Main] = "active")
    /\ CloseAll /\ UNCHANGED queue

StopQueued ==
    /\ Free(Main, "funcs")
    /\ queue[Main] # <<>> /\ queue[Main][1][1] = "stop"
    /\ queue' = [queue EXCEPT ![Main] = Tail(@)]
    /\ CloseAll /\ UNCHANGED <<stopper, inCallback>>

\* Every connection of the copy is closed, while the other loops go on.
CloseNext ==
    /\ spc = "closing"
    /\ \/ \E c \in closing : /\ Becomes(ForceClose(World, Main, c))
                             /\ closing' = closing \ {c} /\ UNCHANGED spc
       \/ /\ closing = {} /\ spc' = "pool"
          /\ UNCHANGED <<connSet, conn, queue, closing, failed, dead>>
    /\ UNCHANGED <<setup, acceptor, nextLoop, phase, active, quit, stopper, wheels,
                   openAtStop, inCallback>>

Ended(l) == phase[l] = "ended"

\* loopPoolPtr_.reset(): nothing when the program holds the pool too; else the
\* loops are quit and joined one after the other.
ResetPool ==
    /\ spc = "pool"
    /\ \/ /\ setup.own
          /\ \A l \in quit : Ended(l)
          /\ \E l \in IoLoops \ quit : quit' = quit \cup {l}
          /\ UNCHANGED spc
       \/ /\ setup.own => quit = IoLoops /\ \A l \in IoLoops : Ended(l)
          /\ spc' = "wheels"
          /\ UNCHANGED quit
    /\ UNCHANGED <<setup, acceptor, nextLoop, connSet, conn, queue, phase, active,
                   stopper, closing, wheels, failed, dead, openAtStop, inCallback>>

\* Mutant: queueInLoop in place of runInLoop.
ResetWheelQueued ==
    /\ spc = "wheels"
    /\ \/ wheels = {} /\ spc' = "done" /\ UNCHANGED <<queue, dead, wheels>>
       \/ \E l \in wheels :
             /\ spc' = "wait"
             /\ queue' = QueueInLoop(World, l, <<"wheel", Main>>).queue
             /\ dead' = QueueInLoop(World, l, <<"wheel", Main>>).dead
             /\ UNCHANGED wheels
    /\ UNCHANGED <<setup, acceptor, nextLoop, connSet, conn, phase, active, quit,
                   stopper, closing, failed, openAtStop, inCallback>>

\* The wheels are destroyed in their loops, and stop() waits for each.
ResetWheel ==
    /\ spc = "wheels"
    /\ \/ wheels = {} /\ spc' = "done" /\ UNCHANGED <<queue, dead, wheels>>
       \/ \E l \in wheels :
             IF l = Main /\ stopper = "main"
             THEN wheels' = wheels \ {l} /\ UNCHANGED <<queue, dead, spc>>
             ELSE /\ spc' = "wait"
                  /\ queue' = QueueInLoop(World, l, <<"wheel", Main>>).queue
                  /\ dead' = QueueInLoop(World, l, <<"wheel", Main>>).dead
                  /\ UNCHANGED wheels
    /\ UNCHANGED <<setup, acceptor, nextLoop, connSet, conn, phase, active, quit,
                   stopper, closing, failed, openAtStop, inCallback>>

\* f.get() returns: the wheel whose destruction was queued is gone.
WheelGone ==
    /\ spc = "wait"
    /\ ~dead /\ \A l \in AllLoops : <<"wheel", Main>> \notin Range(queue[l])
    /\ spc' = "wheels"
    /\ UNCHANGED <<setup, acceptor, nextLoop, connSet, conn, queue, phase, active,
                   quit, stopper, closing, wheels, failed, dead, openAtStop, inCallback>>

-----------------------------------------------------------------------------

LoopStep(l) ==
    \/ TestQuit(l) \/ RunFunc(l) \/ ActiveDone(l) \/ FuncsDone(l)
    \/ \E cs \in SUBSET (Conns \cup {Listener}) : Poll(l, cs)
    \/ \E c, d \in Conns : HandleEvent(l, c, d)
    \/ l = Main /\ NothingAccepted

StopStep == StopQueued \/ CloseNext \/ ResetPool \/ ResetWheel \/ WheelGone

Next ==
    \/ \E l \in AllLoops : LoopStep(l)
    \/ Start
    \/ \E c \in Conns, f \in Fds : NewConnection(c, f)
    \/ AskStop \/ StopHere \/ StopStep

\* Every loop goes round, and stop() goes on.
Fairness ==
    /\ \A l \in AllLoops : WF_vars(LoopStep(l))
    /\ WF_vars(StopStep)

Spec == Init /\ [][Next]_vars /\ Fairness

-----------------------------------------------------------------------------
(* Properties *)

\* The assertions of handleCloseInLoop (n == 1), connectEstablished, Channel
\* and EpollPoller hold: a connection is closed once, and a descriptor that is
\* given out again never meets the channel of its predecessor.
AssertionsHold == ~failed

\* "this connection may be in loop_'s current active channels ... we will be
\* using an wild pointer later" (TcpServer.cpp:139): a connection that waits in
\* a list of active channels still exists.
ActiveChannelsExist ==
    \A l \in AllLoops : \A c \in active[l] \ {Listener} : Alive(c)

\* A connection is in the epoll set exactly as long as it has events, and what
\* connSet_ has forgotten is about to be removed from its poller.
PollerMatches ==
    /\ TypeOK
    /\ \A c \in Conns :
          /\ conn[c].reading <=> conn[c].index = "added"
          /\ (conn[c].index # "new" /\ c \notin connSet) =>
                Ended(conn[c].loop)
                \/ <<"destroy", c>> \in Range(queue[conn[c].loop])

\* What stop() has destroyed is used again only when it held the last reference
\* to the pool and found open connections or idle timeouts (functions for loops
\* that have ended), or when a channel's callback called it (the acceptor may be
\* an active channel still).
NothingDeadIsUsed ==
    dead => inCallback \/ (setup.own /\ (openAtStop \/ setup.idle))

\* stop() returns, except for the wheels of loops it has ended itself.
StopReturns == (spc # "no") ~> (spc = "done" \/ dead)

\* After stop() every connection goes away, when its loop goes on.
StopClosesAll ==
    (spc = "done" /\ ~setup.own) ~>
      (connSet = {} /\ \A c \in Conns : conn[c].index = "new")

\* No assertion fails and nothing that is gone is used, but for stop()'s cases.
ServerSafe == AssertionsHold /\ ActiveChannelsExist /\ NothingDeadIsUsed

\* stop() returns and leaves nothing open.
StopCompletes == StopReturns /\ StopClosesAll
=============================================================================
