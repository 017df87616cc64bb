------------------------------ MODULE TcpClient -----------------------------
(***************************************************************************)
(* cooper/net/Connector.cpp and TcpClient.cpp with the event dispatch of   *)
(* Channel.cpp: attempts to connect, stop(), retries, and the life of the  *)
(* client, its connector and its connections.                              *)
(*                                                                         *)
(* Attempt n opens descriptor n.  The program calls from the loop thread   *)
(* ("loop": in a callback or a function) and from another thread           *)
(* ("other").  What the handlers change is one record, st, and a handler   *)
(* is an operator from st to st.                                           *)
(***************************************************************************)
EXTENDS Naturals, Sequences, FiniteSets, Functions

CONSTANTS
    Uses,                \* "client": a TcpClient, whose connector does not
                         \* retry; "connector": a Connector of its own that does
    MaxAttempts,         \* bound: descriptors opened
    MaxCalls,            \* bound: calls of stop and disconnect
    kInitRetryDelay,     \* in units of kInitRetryDelayMs
    kMaxRetryDelay

ASSUME ClientAssumption ==
    /\ Uses \subseteq {"client", "connector"}
    /\ MaxAttempts \in Nat /\ MaxCalls \in Nat
    /\ kInitRetryDelay \in Nat \ {0} /\ kMaxRetryDelay \in Nat

VARIABLES
    use,                 \* who uses the connector, a member of Uses
    st,                  \* the connector, the client, the loop's queue
    stage, revents,      \* where the loop thread is in handleEvent; revents_
    evfd, user,          \* of this channel; it is in the program's callback
    stopping,            \* the other thread is in the middle of stop()
    kernel,              \* what became of the connection of each descriptor
    calls,               \* calls of stop and disconnect so far
    excuses              \* history: what the program did, see Excuse

vars == <<use, st, stage, revents, evfd, user, stopping, kernel, calls, excuses>>

Fds == 1..MaxAttempts

Function == ({"start", "remove", "release"} \X {0})
            \cup ({"shutdown", "setClose", "forceClose", "destroy"} \X Fds)

StateType ==
    [status : {"Disconnected", "Connecting", "Connected"},   \* status_
     connect : BOOLEAN,                                      \* connect_
     interval : Nat,                                         \* retryInterval_
     handed : BOOLEAN,                                       \* socketHanded_
     fd : Fds \cup {0},                                      \* fd_, 0 for -1
     chan : Fds \cup {0},                                    \* channelPtr_
     exists : BOOLEAN,                                       \* the connector
     client : BOOLEAN,                                       \* the client
     connection : Fds \cup {0},                              \* connection_
     conn : [Fds -> {"none", "Connected", "Disconnecting", "Disconnected",
                     "removed", "gone"}],
     cb : [Fds -> {"client", "own"}],                        \* closeCallback_
     queue : Seq(Function), timers : Nat,
     opened : 0..MaxAttempts, open : SUBSET Fds,
     answer : [Fds -> {"none", "pending", "connected", "error", "silent",
                       "stopped"}],
     lost : SUBSET Fds,                    \* history: see Lose
     failed : BOOLEAN, dead : BOOLEAN]     \* history: an assertion failed;
                                           \* something destroyed was used
\* again: connect() while an attempt, a stop or a connection was under way;
\* stale: connect() when nothing was, but status_ was not Disconnected;
\* reentered: connect() inside an error callback; dropped: the loop thread
\* destroyed the client while a start was queued.
Excuse == {"again", "stale", "reentered", "dropped"}

TypeOK ==
    /\ use \in Uses /\ st \in StateType
    /\ stage \in {"idle", "close", "error", "write", "tested"}
    /\ revents \in SUBSET {"hup", "err", "out"}
    /\ evfd \in Fds \cup {0} /\ user \in BOOLEAN /\ stopping \in BOOLEAN
    /\ kernel \in [Fds -> {"new", "progress", "up", "self", "failed"}]
    /\ calls \in 0..MaxCalls
    /\ excuses \subseteq Excuse

Init ==
    /\ use \in Uses
    /\ st = [status |-> "Disconnected", connect |-> FALSE,
             interval |-> kInitRetryDelay, handed |-> FALSE, fd |-> 0,
             chan |-> 0, exists |-> TRUE, client |-> TRUE, connection |-> 0,
             conn |-> [f \in Fds |-> "none"], cb |-> [f \in Fds |-> "client"],
             queue |-> <<>>, timers |-> 0, opened |-> 0, open |-> {},
             answer |-> [f \in Fds |-> "none"], lost |-> {},
             failed |-> FALSE, dead |-> FALSE]
    /\ stage = "idle" /\ revents = {} /\ evfd = 0 /\ user = FALSE
    /\ stopping = FALSE /\ calls = 0 /\ excuses = {}
    /\ kernel = [f \in Fds |-> "new"]

-----------------------------------------------------------------------------
(* Descriptors and objects *)

Assert(w, p) == [w EXCEPT !.failed = @ \/ ~p]
Queue(w, f) == [w EXCEPT !.queue = Append(@, f)]
Answer(w, f, a) ==
    IF f # 0 /\ w.answer[f] = "pending" THEN [w EXCEPT !.answer[f] = a] ELSE w

\* close(f): closing a descriptor that is not open hits somebody else's.
CloseFd(w, f) == IF f = 0 THEN w
                 ELSE [w EXCEPT !.open = @ \ {f}, !.dead = @ \/ f \notin w.open]

\* Nothing refers to f any more that would close it.
Lose(w, f) == IF f \in w.open THEN [w EXCEPT !.lost = @ \cup {f}] ELSE w

Refers(w, ops, f) == \E op \in ops : <<op, f>> \in Range(w.queue)

\* The client, a queued removal, the channel (its callbacks hold the connector),
\* a queued release of a channel, a timer and a stop() that is under way do.
ConnectorHeld(w, busy) ==
    w.client \/ busy \/ w.chan # 0 \/ w.timers > 0 \/ Refers(w, {"remove", "release"}, 0)

\* ~Connector
DestroyConnector(w) ==
    [(IF ~w.handed /\ w.fd # 0 THEN CloseFd(w, w.fd) ELSE w) EXCEPT !.exists = FALSE]

ConnHeld(w, f) ==
    w.connection = f \/ Refers(w, {"shutdown", "setClose", "forceClose", "destroy"}, f)

\* ~TcpConnectionImpl closes the descriptor; its channel must be removed.
DestroyConns(w, gone) ==
    [w EXCEPT !.conn = [f \in Fds |-> IF f \in gone THEN "gone" ELSE w.conn[f]],
              !.open = @ \ gone,
              !.dead = @ \/ \E f \in gone : f \notin w.open \/ w.conn[f] # "removed"]

\* The objects nothing refers to any more go.
Reap(w, busy) ==
    LET v == IF w.exists /\ ~ConnectorHeld(w, busy) THEN DestroyConnector(w) ELSE w IN
    DestroyConns(v, {f \in Fds : v.conn[f] \notin {"none", "gone"} /\ ~ConnHeld(v, f)})

-----------------------------------------------------------------------------
(* Connector *)

\* Mutant: the channel is destroyed inside its own handleEvent.
ResetChannelAtOnce(w) == [w EXCEPT !.chan = 0]

\* The channel lives on in a queued function: it may be in handleEvent.
RemoveAndResetChannel(w) ==
    IF w.chan = 0 THEN w
    ELSE Queue([w EXCEPT !.chan = 0], <<"release", 0>>)

Connecting(w, f) ==
    [Assert(w, w.chan = 0) EXCEPT !.status = "Connecting", !.chan = f]

\* retry(): retryInterval_ doubles up to its maximum.
Retry(w, f) ==
    LET v == [CloseFd(w, f) EXCEPT !.status = "Disconnected"] IN
    IF ~w.connect THEN v
    ELSE [v EXCEPT !.timers = @ + 1,
                   !.interval = IF @ * 2 > kMaxRetryDelay THEN kMaxRetryDelay ELSE @ * 2]

\* connect(): the connection is under way ("progress"), or it is refused at
\* once: with an error worth a retry ("refused") or without ("hopeless").
Connect(w, f, how) ==
    LET v == [Lose(w, IF w.handed THEN 0 ELSE w.fd) EXCEPT
                 !.handed = FALSE, !.fd = f, !.opened = f,
                 !.open = @ \cup {f}, !.answer[f] = "pending"] IN
    CASE how = "progress" -> Connecting(v, f)
      [] how = "refused" ->
            IF use = "connector" THEN Answer(Retry(v, f), f, "error")
            ELSE Answer(v, f, "silent")
      [] how = "hopeless" ->
            Answer([CloseFd(v, f) EXCEPT !.handed = TRUE], f, "error")

StartInLoop(w, how) ==
    LET v == Assert(w, w.status = "Disconnected") IN
    IF v.connect /\ ~v.failed THEN Connect(v, w.opened + 1, how) ELSE v

\* The attempt on sockfd has failed.
GiveUp(w, f) == IF use = "connector" THEN Retry(w, f) ELSE CloseFd(w, f)

\* Mutant: the descriptor is not closed when the attempt is not retried.
HandleErrorKeeps(w) ==
    LET v == [w EXCEPT !.handed = TRUE] IN
    IF w.status # "Connecting" THEN v
    ELSE LET u == RemoveAndResetChannel([v EXCEPT !.status = "Disconnected"]) IN
         Answer(IF use = "connector" THEN Retry(u, w.chan) ELSE u, w.chan, "error")

\* Mutant: the error callback is not called.
HandleErrorSilent(w) ==
    LET v == [w EXCEPT !.handed = TRUE] IN
    IF w.status # "Connecting" THEN Lose(v, IF w.handed THEN 0 ELSE w.fd)
    ELSE GiveUp(RemoveAndResetChannel([v EXCEPT !.status = "Disconnected"]), w.chan)

HandleError(w) ==
    LET v == [w EXCEPT !.handed = TRUE] IN
    IF w.status # "Connecting" THEN Lose(v, IF w.handed THEN 0 ELSE w.fd)
    ELSE Answer(GiveUp(RemoveAndResetChannel([v EXCEPT !.status = "Disconnected"]),
                       w.chan), w.chan, "error")

-----------------------------------------------------------------------------
(* TcpClient and the connection as far as the client deals with it *)

\* With retry_ set restart() is called, which is empty.
RemoveConnection(w, f) ==
    Queue([Assert(w, w.connection = f) EXCEPT !.connection = 0], <<"destroy", f>>)

HandleClose(w, f) ==
    LET v == [w EXCEPT !.conn[f] = "Disconnected"] IN
    IF w.cb[f] = "client" /\ w.client THEN RemoveConnection(v, f)
    ELSE Queue(v, <<"destroy", f>>)

ForceClose(w, f) ==
    IF w.conn[f] \in {"Connected", "Disconnecting"} THEN HandleClose(w, f) ELSE w

Shutdown(w, f) ==
    IF w.conn[f] = "Connected" THEN [w EXCEPT !.conn[f] = "Disconnecting"] ELSE w

ConnectDestroyed(w, f) == [w EXCEPT !.conn[f] = "removed"]

\* newConnection, or nothing when the client is gone; a program with a connector
\* of its own takes the descriptor.
NewConnection(w, f) ==
    CASE use = "connector" -> [w EXCEPT !.open = @ \ {f}]
      [] use = "client" /\ ~w.client -> Lose(w, f)
      [] use = "client" /\ w.client ->
            [w EXCEPT !.connection = f, !.conn[f] = "Connected"]

-----------------------------------------------------------------------------
(* The program's calls.  here: the caller is the loop thread. *)

\* The step ends in w, less the objects nothing refers to any more; stop() of
\* the other thread is, or is not, under way then.  (The set is that TLC
\* computes w once.)
BecomesWhile(w, busy) == stopping' = busy /\ st' \in {Reap(v, busy) : v \in {w}}
Becomes(w) == BecomesWhile(w, stopping)

\* The loop thread is in the program's code: functions and other channels'
\* callbacks ("close" is before the connector's channel has its turn), or the
\* callback the connector has just made.
LoopInUserCode == stage \in {"idle", "close"} \/ user

MayCall(here) == ~st.failed /\ (here => LoopInUserCode) /\ (~here => ~stopping)

Starts == Cardinality({i \in DOMAIN st.queue : st.queue[i][1] = "start"})

\* A start, a retry, an attempt, a handleWrite, a stop or a connection.
UnderWay ==
    \/ Starts > 0 \/ st.timers > 0 \/ st.chan # 0 \/ stage = "tested"
    \/ stopping \/ <<"remove", 0>> \in Range(st.queue)
    \/ st.connection # 0

\* connect() of the client, start() of the connector.  It fails the assertion of
\* startInLoop when status_ is left over from a former attempt.
CallConnect(here, how) ==
    /\ MayCall(here) /\ st.client
    /\ st.opened + Starts < MaxAttempts
    /\ excuses' = excuses
          \cup (IF UnderWay THEN {"again"}
                ELSE IF st.status # "Disconnected" THEN {"stale"} ELSE {})
          \cup (IF here /\ user THEN {"reentered"} ELSE {})
    /\ LET w == [st EXCEPT !.connect = TRUE] IN
       \/ here /\ Becomes(StartInLoop(w, how))
       \/ ~here /\ Becomes(Queue(w, <<"start", 0>>))
    /\ kernel' = IF here /\ st'.opened > st.opened /\ how = "progress"
                 THEN [kernel EXCEPT ![st'.opened] = "progress"] ELSE kernel
    /\ UNCHANGED <<use, stage, revents, evfd, user, calls>>

CallDisconnect(here) ==
    /\ MayCall(here) /\ st.client /\ st.connection # 0
    /\ calls < MaxCalls /\ calls' = calls + 1
    /\ Becomes(IF here THEN Shutdown(st, st.connection)
               ELSE Queue(st, <<"shutdown", st.connection>>))
    /\ UNCHANGED <<use, stage, revents, evfd, user, kernel, excuses>>

\* Connector::stop in the loop thread.
StopHere(w) ==
    Answer(RemoveAndResetChannel([w EXCEPT !.status = "Disconnected"]), w.chan, "stopped")

\* Connector::stop: at once in the loop thread; elsewhere status_ is written
\* now and the removal queued later.
Stop(w, here) ==
    \/ here /\ Becomes(StopHere(w))
    \/ ~here /\ BecomesWhile([w EXCEPT !.status = "Disconnected"], TRUE)

CallStop(here) ==
    /\ MayCall(here) /\ st.client
    /\ calls < MaxCalls /\ calls' = calls + 1
    /\ Stop(st, here)
    /\ UNCHANGED <<use, stage, revents, evfd, user, kernel, excuses>>

StopQueues ==
    /\ stopping
    /\ BecomesWhile(Queue(st, <<"remove", 0>>), FALSE)
    /\ UNCHANGED <<use, stage, revents, evfd, user, kernel, calls, excuses>>

\* ~TcpClient: stop the connector, or close the connection with a callback that
\* does without the client.
Destroy(here) ==
    /\ MayCall(here) /\ st.client
    /\ LET w == [st EXCEPT !.client = FALSE]
           c == st.connection IN
       \/ c = 0 /\ Stop(w, here)
       \/ /\ c # 0
          /\ Becomes(IF here
                     THEN ForceClose([w EXCEPT !.cb[c] = "own", !.connection = 0], c)
                     ELSE Queue(Queue([w EXCEPT !.connection = 0], <<"setClose", c>>),
                                <<"forceClose", c>>))
    /\ excuses' = excuses \cup (IF here /\ Starts > 0 THEN {"dropped"} ELSE {})
    /\ UNCHANGED <<use, stage, revents, evfd, user, kernel, calls>>

-----------------------------------------------------------------------------
(* The loop thread *)

LoopIs(where) == stage = where /\ ~st.failed

RunStart(how) ==
    /\ LoopIs("idle") /\ st.queue # <<>> /\ st.queue[1][1] = "start"
    /\ LET w == [st EXCEPT !.queue = Tail(@), !.dead = @ \/ ~st.exists] IN
       Becomes(IF st.exists THEN StartInLoop(w, how) ELSE w)
    /\ kernel' = IF st'.opened > st.opened /\ how = "progress"
                 THEN [kernel EXCEPT ![st'.opened] = "progress"] ELSE kernel
    /\ UNCHANGED <<use, stage, revents, evfd, user, calls, excuses>>

\* The timer of retry().
RunTimer(how) ==
    /\ LoopIs("idle") /\ st.timers > 0
    /\ st.opened + Starts < MaxAttempts                               \* bound
    /\ Becomes(StartInLoop([st EXCEPT !.timers = @ - 1], how))
    /\ kernel' = IF st'.opened > st.opened /\ how = "progress"
                 THEN [kernel EXCEPT ![st'.opened] = "progress"] ELSE kernel
    /\ UNCHANGED <<use, stage, revents, evfd, user, calls, excuses>>

RunFunc ==
    /\ LoopIs("idle") /\ st.queue # <<>> /\ st.queue[1][1] # "start"
    /\ LET op == st.queue[1][1]
           c  == st.queue[1][2]
           w  == [st EXCEPT !.queue = Tail(@)] IN
       Becomes(CASE op = "remove" -> Answer(RemoveAndResetChannel(w), w.chan, "stopped")
                 [] op = "release" -> w
                 [] op = "shutdown" -> Shutdown(w, c)
                 [] op = "setClose" -> [w EXCEPT !.cb[c] = "own"]
                 [] op = "forceClose" -> ForceClose(w, c)
                 [] op = "destroy" -> ConnectDestroyed(w, c))
    /\ UNCHANGED <<use, stage, revents, evfd, user, kernel, calls, excuses>>

\* The peer has closed a connection, or it has failed.
ConnectionEnds(c) ==
    /\ LoopIs("idle") /\ st.conn[c] \in {"Connected", "Disconnecting"}
    /\ Becomes(HandleClose(st, c))
    /\ UNCHANGED <<use, stage, revents, evfd, user, kernel, calls, excuses>>

\* The loop polls when it has run the queued functions.  The connector's channel
\* waits for writability; a failed connection is reported with all three.
Poll ==
    /\ LoopIs("idle") /\ st.queue = <<>> /\ st.chan # 0 /\ kernel[st.chan] # "progress"
    /\ stage' = "close" /\ evfd' = st.chan
    /\ revents' = IF kernel[st.chan] = "failed" THEN {"hup", "err", "out"} ELSE {"out"}
    /\ UNCHANGED <<use, st, user, stopping, kernel, calls, excuses>>

\* The channel in handleEvent is still an object.
ChannelHeld(w) == w.chan = evfd \/ <<"release", 0>> \in Range(w.queue)

\* A stage of handleEventSafely whose callback is handleError.
EventError(from, bit, to) ==
    /\ LoopIs(from) /\ stage' = to
    /\ LET w == [st EXCEPT !.dead = @ \/ ~ChannelHeld(st)] IN
       Becomes(IF bit \in revents THEN HandleError(w) ELSE w)
    /\ user' = (bit \in revents /\ st.status = "Connecting")
    /\ UNCHANGED <<use, revents, evfd, kernel, calls, excuses>>

\* handleEvent returns at once when the channel has no events any more.
EventClose ==
    \/ st.chan = evfd /\ EventError("close", "hup", "error")
    \/ /\ LoopIs("close") /\ st.chan # evfd
       /\ st' = [st EXCEPT !.dead = @ \/ ~ChannelHeld(st)]
       /\ stage' = "idle" /\ revents' = {} /\ evfd' = 0
       /\ UNCHANGED <<use, user, stopping, kernel, calls, excuses>>

\* handleWrite: the test of status_; the channel of the connector goes, which
\* need not be the one in handleEvent.
EventWrite ==
    /\ LoopIs("write") /\ user' = FALSE /\ revents' = {}
    /\ LET w == [st EXCEPT !.dead = @ \/ ~ChannelHeld(st), !.handed = TRUE] IN
       \/ /\ st.status = "Connecting"
          /\ stage' = "tested" /\ evfd' = st.chan
          /\ Becomes(RemoveAndResetChannel(w))
       \/ /\ st.status # "Connecting"
          /\ stage' = "idle" /\ evfd' = 0
          /\ Becomes(Assert(Lose(w, IF st.handed THEN 0 ELSE st.fd),
                            st.status = "Disconnected"))
    /\ UNCHANGED <<use, kernel, calls, excuses>>

\* The rest of handleWrite: SO_ERROR and a connection to itself, which leave
\* status_ at Connecting unless they are retried, or the new connection.
HandleWriteRest ==
    /\ LoopIs("tested") /\ stage' = "idle" /\ evfd' = 0
    /\ Becomes(IF evfd = 0 \/ kernel[evfd] \in {"failed", "self"}
               THEN Answer(GiveUp(st, evfd), evfd, "error")
               ELSE Answer(NewConnection([st EXCEPT !.status = "Connected"], evfd),
                           evfd, "connected"))
    /\ UNCHANGED <<use, revents, user, kernel, calls, excuses>>

-----------------------------------------------------------------------------
(* The network: an attempt that is under way succeeds or fails, and what has *)
(* succeeded may be reset before the loop looks.                             *)

Network(f, what) ==
    /\ \/ kernel[f] = "progress"
       \/ kernel[f] = "up" /\ what = "failed" /\ st.answer[f] = "pending"
    /\ kernel' = [kernel EXCEPT ![f] = what]
    /\ UNCHANGED <<use, st, stage, revents, evfd, user, stopping, calls, excuses>>

Outcomes == {"progress", "refused", "hopeless"}

Loop ==
    \/ \E how \in Outcomes : RunStart(how) \/ RunTimer(how)
    \/ RunFunc \/ Poll \/ EventClose \/ EventError("error", "err", "write")
    \/ EventWrite \/ HandleWriteRest

Program(here) ==
    \/ \E how \in Outcomes : CallConnect(here, how)
    \/ use = "client" /\ (CallDisconnect(here) \/ Destroy(here))
    \/ CallStop(here)

Next ==
    \/ \E here \in BOOLEAN : Program(here)
    \/ StopQueues \/ Loop
    \/ \E c \in Fds : ConnectionEnds(c)
    \/ \E f \in Fds, what \in {"up", "self", "failed"} : Network(f, what)

Fairness ==
    /\ WF_vars(Loop) /\ WF_vars(StopQueues)
    /\ WF_vars(\E f \in Fds, what \in {"up", "self", "failed"} : Network(f, what))

Spec == Init /\ [][Next]_vars /\ Fairness

-----------------------------------------------------------------------------
(* Properties *)

Excused == excuses \cap {"again", "stale", "dropped"} # {}

\* No assertion of Connector.cpp or TcpClient.cpp fails, no destroyed channel,
\* connector or connection is used and no descriptor is closed twice, as long as
\* the program calls connect() only when nothing is under way and status_ has
\* been reset, and does not destroy the client in the loop thread with a start()
\* still queued (which holds a bare pointer to the connector).  That status_ has
\* been reset is not in the program's hands: it has not after a connection that
\* has ended, after an error found by handleWrite without a retry, nor after a
\* stop() of another thread that was called before the start it stops was run.
ClientSafe ==
    (st.failed \/ st.dead) => Excused

\* A descriptor is never forgotten while open: it belongs to the pending channel,
\* to ~Connector, to handleWrite or to a connection.  It is lost in the three
\* cases Lose names: an event that finds the connector stopped marks the
\* descriptor handed over, the next attempt overwrites fd_, and a client that
\* goes while handleWrite is under way leaves the new connection to nobody.
DescriptorsOwned ==
    TypeOK /\ \A f \in st.open \ st.lost :
        \/ st.exists /\ st.fd = f /\ ~st.handed
        \/ st.chan = f
        \/ stage = "tested" /\ evfd = f
        \/ st.conn[f] \notin {"none", "gone"}

\* newConnectionCallback_ gets a descriptor that is connected, unless the program
\* has called connect() inside an error callback: the channel in handleEvent
\* still has its old events, and they are taken for those of the new attempt.
ConnectedMeansConnected ==
    \A f \in Fds :
        st.answer[f] = "connected" => kernel[f] # "progress" \/ "reentered" \in excuses

\* No assertion fails, nothing dead is used, and "connected" is true, but for
\* the calls that are excused above.
ClientSound == ClientSafe /\ ConnectedMeansConnected

\* Attempts do not stay pending for ever: each ends with a connection, an error
\* callback, a stop(), or the refusals that are told to nobody when there is no
\* retry; and when the client is gone, for good, every descriptor is closed, but
\* for those that are lost.
AttemptsEnd ==
    []<>(\/ st.failed
         \/ /\ \A f \in Fds : st.answer[f] # "pending"
            /\ (use = "client" /\ ~st.client) => (st.open \subseteq st.lost \/ st.dead))

-----------------------------------------------------------------------------
(* The inductive invariants behind DescriptorsOwned and ClientSound *)

\* Somebody closes f: ~Connector, the rest of handleWrite, or its connection.
\* (The pending channel's descriptor is fd_.)
OwnedIn(w, where, at, f) ==
    \/ w.exists /\ w.fd = f /\ ~w.handed
    \/ where = "tested" /\ at = f
    \/ w.conn[f] \notin {"none", "gone"}

\* While status_ is Connecting, the channel the next event finds is that of fd_,
\* if fd_ is still the connector's to close.
ChannelIsFd(w, where) ==
    /\ w.status = "Connecting" /\ ~w.handed /\ w.fd \in w.open \ w.lost
    /\ w.chan # 0 \/ where \in {"close", "error", "write"}
    => w.chan = w.fd

\* Who keeps the connector: the client, which a program with a connector of its
\* own does not destroy; only that one retries.
Kept(w) ==
    /\ w.client => w.exists
    /\ use = "connector" => w.client
    /\ w.timers > 0 => use = "connector"

IInv ==
    /\ TypeOK /\ Kept(st) /\ ChannelIsFd(st, stage)
    /\ \A f \in st.open \ st.lost : OwnedIn(st, stage, evfd, f)
    /\ st.opened + Starts <= MaxAttempts

-----------------------------------------------------------------------------
(* The inductive invariant behind ClientSound *)

StartsIn(q) == Cardinality({i \in DOMAIN q : q[i][1] = "start"})

Waits(q, op, f) == \E i \in DOMAIN q : q[i] = <<op, f>>

Once(q, x) == \A i, j \in DOMAIN q : q[i] = x /\ q[j] = x => i = j

InEvent == {"close", "error", "write"}

One(b) == IF b THEN 1 ELSE 0

\* A start, a retry, a pending channel, a handleWrite under way, a connection.
Attempts(w, where) ==
    StartsIn(w.queue) + w.timers + One(w.chan # 0) + One(where = "tested")
    + One(w.connection # 0)

\* There is one of them at a time, and status_ fits it.
OneAttempt(w, where, busy) ==
    /\ Attempts(w, where) <= 1
    /\ StartsIn(w.queue) + w.timers > 0 => w.status = "Disconnected"
    /\ w.chan # 0 \/ where \in InEvent => w.status # "Connected"
    /\ where \in InEvent /\ w.status = "Connecting" => w.chan # 0
    /\ where = "tested" /\ w.status = "Disconnected" => busy \/ Waits(w.queue, "remove", 0)

\* The descriptor f, if it is one, is open, and it is no connection's yet.
Fresh(w, f) == f # 0 => f \in w.open /\ w.conn[f] = "none"

\* That of the channel, of handleWrite and of ~Connector are; no later ones are used.
FreshOnes(w, where, at) ==
    /\ Fresh(w, w.chan)
    /\ where = "tested" => w.handed /\ Fresh(w, at)
    /\ use = "client" /\ w.exists /\ ~w.handed => Fresh(w, w.fd)
    /\ w.open \subseteq 1..w.opened
    /\ \A f \in Fds : w.conn[f] # "none" => f \in 1..w.opened

\* The channel in handleEvent stays an object.
ChannelStays(w, where, at) ==
    where \in InEvent => at # 0 /\ (w.chan = at \/ Waits(w.queue, "release", 0))

\* Each connection has its descriptor and somebody who will close and destroy it;
\* its callback is the client's as long as there is one.
ConnectionKept(w, f) ==
    /\ w.conn[f] \notin {"none", "gone"} => f \in w.open
    /\ w.conn[f] \in {"Connected", "Disconnecting"} =>
          w.connection = f \/ Waits(w.queue, "forceClose", f)
    /\ w.conn[f] = "Disconnected" <=> Waits(w.queue, "destroy", f)
    /\ Once(w.queue, <<"destroy", f>>)
    /\ w.cb[f] = "own" \/ Waits(w.queue, "setClose", f) \/ Waits(w.queue, "forceClose", f)
       => ~w.client

Connections(w) ==
    /\ w.connection # 0 =>
          w.client /\ w.conn[w.connection] \in {"Connected", "Disconnecting"}
    /\ \A f \in Fds : ConnectionKept(w, f)

\* A start finds the connector: the client holds it, or a removal queued later.
Followed(q) ==
    \A i \in DOMAIN q : q[i] = <<"start", 0>> =>
        \E j \in DOMAIN q : j > i /\ q[j] = <<"remove", 0>>

StartsHeld(w, busy) ==
    Waits(w.queue, "start", 0) => w.exists /\ (w.client \/ busy \/ Followed(w.queue))

Orderly(w, where, at, busy) ==
    /\ ~w.failed /\ ~w.dead
    /\ OneAttempt(w, where, busy) /\ FreshOnes(w, where, at)
    /\ ChannelStays(w, where, at) /\ Connections(w) /\ StartsHeld(w, busy)

\* The channel in handleEvent is that of a connection that has been decided, and
\* nobody has begun another one meanwhile, unless an error callback has.
EventsFit ==
    /\ st.chan <= st.opened /\ evfd <= st.opened
    /\ user => stage \in {"error", "write"}
    /\ st.failed \/ "reentered" \in excuses
       \/ /\ stage # "idle" /\ evfd # 0 => kernel[evfd] # "progress"
          /\ stage \in {"error", "write"} => st.chan \in {0, evfd}

SoundInv ==
    /\ IInv /\ EventsFit /\ ConnectedMeansConnected
    /\ Excused \/ Orderly(st, stage, evfd, stopping)

=============================================================================
