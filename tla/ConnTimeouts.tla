---------------------------- MODULE ConnTimeouts ----------------------------
(***************************************************************************)
(* The two users of the timing wheels, for one connection:                 *)
(*  - AppTcpServer's ping-pong: an entry that sends a ping when it dies,   *)
(*    leaves a kick-off entry behind and renews itself; a pong resets the  *)
(*    kick-off entry;                                                      *)
(*  - TcpServer's idle connections: one entry that closes the connection   *)
(*    when it dies, put into the wheels again by whatever the connection   *)
(*    reads or writes, unless that was done less than a second ago.        *)
(* The wheels know whole seconds only, but a connection reads and writes   *)
(* between their ticks: time passes in parts of a second.                  *)
(***************************************************************************)
EXTENDS TimingWheel

CONSTANTS
    Timeout,             \* pingPongTimeout_
    Parts,               \* the parts of a second that are told apart
    Kicks                \* names for kick-off entries

ASSUME TimeoutAssumption ==
    /\ Timeout \in Nat \ {0}
    /\ Parts \in Nat \ {0}
    /\ Entries = Kicks \cup {"ping", "idle"}
    /\ {"ping", "idle", "none"} \cap Kicks = {}

Interval == MaxTimeout   \* pingPongInterval_, idleTimeout_: the wheels are
Idle == MaxTimeout       \* made for them

Seconds(n) == n * Parts

VARIABLES
    mode,                \* "pingPong" or "idle"
    status,              \* status_: "new", "Connected", "Disconnected"
    armed,               \* entries whose conn_ has not been reset
    kickoff,             \* kickoffEntries_[conn], a member of Kicks or "none"
    moment,              \* parts of a second since the last tick
    updated,             \* parts since lastTimingWheelUpdateTime_
    keep,                \* keepAlive() was called
    pings,               \* the peer: age of the pings it has not answered,
                         \* in seconds (pings are sent in ticks)
    slow,                \* the peer has left a ping unanswered for too long
    quiet,               \* parts since the connection last read or wrote
    closedBy             \* history: "nobody", "kick", "idle", "other"

connVars == <<mode, status, armed, kickoff, moment, updated, keep, pings, slow,
              quiet, closedBy>>
timeoutVars == <<wheelVars, connVars>>

ConnTypeOK ==
    /\ mode \in {"pingPong", "idle"}
    /\ status \in {"new", "Connected", "Disconnected"}
    /\ armed \in SUBSET Entries
    /\ kickoff \in Kicks \cup {"none"}
    /\ moment \in 0..(Parts - 1)
    /\ updated \in 0..Parts
    /\ keep \in BOOLEAN
    /\ pings \in Seq(0..(Timeout + 1))
    /\ slow \in BOOLEAN
    /\ quiet \in 0..Seconds(Idle + 2)
    /\ closedBy \in {"nobody", "kick", "idle", "other"}

TimeoutTypeOK == WheelTypeOK /\ ConnTypeOK

TimeoutInit ==
    /\ WheelInit
    /\ mode \in {"pingPong", "idle"}
    /\ status = "new" /\ armed = {} /\ kickoff = "none" /\ moment = 0
    /\ updated = Parts /\ keep = FALSE /\ pings = <<>> /\ slow = FALSE /\ quiet = 0
    /\ closedBy = "nobody"

InLoop == turn = 0 /\ status = "Connected"

-----------------------------------------------------------------------------
(* The connection *)

\* The connection callback of start(), and enableKickingOff.
Connect ==
    /\ turn = 0 /\ status = "new" /\ status' = "Connected"
    /\ LET e == IF mode = "idle" THEN "idle" ELSE "ping" IN
       /\ wheels' = InsertEntry(wheels, e, MaxTimeout)
       /\ armed' = {e}
    /\ UNCHANGED <<ticks, turn, dying, untimely, mode, kickoff, moment,
                   updated, keep, pings, slow, quiet, closedBy>>

\* handleClose and the connection callback: the entries are reset.
Close(by) ==
    /\ status' = "Disconnected" /\ closedBy' = by
    /\ armed' = armed \ {"ping", kickoff}
    /\ kickoff' = "none"

PeerCloses ==
    /\ InLoop
    /\ Close("other")
    /\ UNCHANGED <<wheelVars, mode, moment, updated, keep, pings, slow, quiet>>

\* Mutant: a pong forgets the entry without resetting it.
ForgetKickoffEntry ==
    /\ kickoff' = "none"
    /\ UNCHANGED armed

ResetKickoffEntry ==
    /\ kickoff' = "none"
    /\ armed' = armed \ {kickoff}

\* recvBusinessMsgCallback, recvMediaMsgCallback with a pong.
Pong ==
    /\ InLoop /\ pings # <<>>
    /\ pings' = Tail(pings)
    /\ ResetKickoffEntry
    /\ UNCHANGED <<wheelVars, mode, status, moment, updated, keep, slow, quiet,
                   closedBy>>

\* now < lastTimingWheelUpdateTime_.after(1.0)
UpdatedLately == updated < Seconds(1)

\* extendLife, by readCallback, writeCallback and sendInLoop.  The connection
\* has lived, but the entry is put into the wheels once a second at most.
\* After keepAlive() an entry does nothing, wherever it is.
ExtendLife ==
    /\ InLoop /\ mode = "idle" /\ ~keep
    /\ quiet' = 0
    /\ IF UpdatedLately THEN UNCHANGED <<wheels, updated>>
       ELSE /\ updated' = 0
            /\ wheels' = InsertEntry(wheels, "idle", Idle)
    /\ UNCHANGED <<ticks, turn, dying, untimely, mode, status, armed, kickoff,
                   moment, keep, pings, slow, closedBy>>

KeepAlive ==
    /\ InLoop /\ mode = "idle"
    /\ keep' = TRUE /\ armed' = {}
    /\ UNCHANGED <<wheelVars, mode, status, kickoff, moment, updated, pings, slow,
                   quiet, closedBy>>

-----------------------------------------------------------------------------
(* The wheels *)

Capped(n, bound) == IF n > bound THEN bound ELSE n

\* A part of a second, in which the connection reads and writes nothing.
PartPasses ==
    /\ updated' = Capped(updated + 1, Parts)
    /\ quiet' = IF status = "Connected" THEN Capped(quiet + 1, Seconds(Idle + 2))
                ELSE quiet

MomentPasses ==
    /\ turn = 0 /\ moment < Parts - 1
    /\ moment' = moment + 1
    /\ PartPasses
    /\ UNCHANGED <<wheelVars, mode, status, armed, kickoff, keep, pings, slow,
                   closedBy>>

\* The last part of a second ends with a tick, which makes the pings older.
SecondPasses ==
    /\ moment = Parts - 1 /\ moment' = 0
    /\ TickBegin
    /\ PartPasses
    /\ pings' = [i \in DOMAIN pings |-> Capped(pings[i] + 1, Timeout + 1)]
    /\ slow' = (slow \/ \E i \in DOMAIN pings : pings[i] = Timeout)
    /\ UNCHANGED <<mode, status, armed, kickoff, keep, closedBy>>

TickGoesOn == (TickNext \/ TickDescend) /\ UNCHANGED connVars

\* ~PingPongEntry: a ping, a kick-off entry and the next ping-pong entry.
PingDies(ws) ==
    IF "ping" \in armed /\ status = "Connected"
    THEN \E k \in Kicks :
           /\ \A i \in DOMAIN wheels : \A j \in DOMAIN wheels[i] :
                 \A item \in wheels[i][j] \cup dying : item.entry # k
           /\ wheels' = InsertEntry(InsertEntry(ws, k, Timeout), "ping", Interval)
           /\ kickoff' = k
           /\ armed' = armed \cup {k}
           /\ pings' = Append(pings, 0)
           /\ UNCHANGED <<status, closedBy>>
    ELSE wheels' = ws /\ UNCHANGED <<kickoff, armed, pings, status, closedBy>>

\* ~KickoffEntry: forceClose.
KickDies(ws, e) ==
    /\ wheels' = ws
    /\ IF e \in armed /\ status = "Connected"
       THEN Close(IF e = "idle" THEN "idle" ELSE "kick")
       ELSE UNCHANGED <<kickoff, armed, status, closedBy>>
    /\ UNCHANGED pings

\* A bucket drops its reference to an entry; the last one destroys it.
DropEntry ==
    /\ turn # 0
    /\ \E item \in dying :
          /\ item.path = <<>>
          /\ dying' = dying \ {item}
          /\ untimely' = IF item.left # 0 /\ ~item.inTick
                         THEN untimely \cup {item.entry} ELSE untimely
          /\ IF HeldElsewhere(item)
             THEN UNCHANGED <<wheels, kickoff, armed, pings, status, closedBy>>
             ELSE IF item.entry = "ping" THEN PingDies(wheels)
             ELSE KickDies(wheels, item.entry)
    /\ UNCHANGED <<ticks, turn, mode, moment, updated, keep, slow, quiet>>

\* stop(): the wheel is destroyed, and with it the entries it has; the
\* connection is closed.
Stop ==
    /\ turn = 0 /\ status # "new"
    /\ wheels' = NoEntries
    /\ IF status = "Connected" THEN Close("other")
       ELSE UNCHANGED <<status, closedBy, armed, kickoff>>
    /\ UNCHANGED <<ticks, turn, dying, untimely, mode, moment, updated, keep, pings,
                   slow, quiet>>

TimeoutNext ==
    \/ Connect \/ PeerCloses \/ Pong \/ KeepAlive
    \/ ExtendLife \/ MomentPasses
    \/ SecondPasses \/ TickGoesOn \/ DropEntry \/ Stop

TimeoutSpec == TimeoutInit /\ [][TimeoutNext]_timeoutVars

-----------------------------------------------------------------------------
(* Properties *)

\* A single wheel that is not larger than its longest timeout is too small for
\* it.  The servers ask for one bucket more, or for a hundred on several wheels.
Roomy == WheelsNum > 1 \/ MaxTimeout < Buckets

\* An entry with a delay of d seconds leaves the wheels at the end of the tick
\* d + 1, by whatever wheels it came, at whatever counter it was inserted.
\* Entries inserted by the destructor of another one, in the middle of a tick,
\* are excepted: the higher wheels have not had their turn yet, and such an
\* entry may leave them up to a turn of the wheel before the last too early.
EntriesOnTime == TimeoutTypeOK /\ (Roomy => untimely = {})

\* The shortest time between two pings: they are sent in ticks.
ShortestInterval ==
    Interval + 1 - (IF WheelsNum = 1 THEN 0 ELSE Pow[WheelsNum - 1])

\* A peer that answers every ping in time is never kicked off, and one that
\* does not is closed by the end of the tick in which its time is over, if no
\* second ping is sent meanwhile, and if the timeout fits into the first wheel:
\* kick-off entries are inserted in ticks.  A second ping puts its entry in the
\* one place kickoffEntries_ has, and the first entry can no longer be reset;
\* for the wheels the server makes, up to ten thousand seconds, the second
\* condition implies the first.
PingPongInTime ==
    Timeout < Buckets /\ Timeout < ShortestInterval =>
      /\ closedBy = "kick" => slow
      /\ InLoop => \A i \in DOMAIN pings : pings[i] <= Timeout

\* "An idle connection is a connection that has no read or write, kick off it
\* after timeout seconds" (TcpServer.hpp:192).  The code keeps this to the
\* second: the wheels may give an entry up to a second more, and the activity
\* that extendLife ignores costs the connection up to a second.  So one that is
\* closed as idle was silent for more than Idle - 1 seconds and had not called
\* keepAlive(), and one that is silent for Idle + 1 is closed.
IdleInTime ==
    /\ closedBy = "idle" => quiet > Seconds(Idle - 1) /\ ~keep
    /\ InLoop /\ mode = "idle" /\ ~keep => quiet < Seconds(Idle + 1)

\* Connections are closed for their silence in time, and for nothing else.
TimeoutsInTime == Roomy => PingPongInTime /\ IdleInTime
=============================================================================
