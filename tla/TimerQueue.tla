----------------------------- MODULE TimerQueue -----------------------------
(***************************************************************************)
(* cooper/net/TimerQueue.cpp, Timer.cpp and the timer calls of             *)
(* EventLoop.cpp.  Timers live in a heap ordered by expiry; timerIdSet_    *)
(* says which of them are still valid; one timerfd is armed for the        *)
(* earliest.  Only the loop thread touches them: calls of other threads    *)
(* are functions in the loop's queue.                                      *)
(*                                                                         *)
(* Time is relative.  rem[i] is the time left until timer i is due, a tick *)
(* takes one from it, and a timer is expired when it is negative (when_ <  *)
(* now).  One tick is the 100us the timerfd is armed for at least.         *)
(***************************************************************************)
EXTENDS Integers, Sequences

CONSTANTS
    MaxTimers,           \* bound: timers ever created
    Delays,              \* delays and intervals callers use, in ticks
    MaxLate,             \* bound: ticks of lateness told apart
    MaxFired             \* bound: callbacks counted per timer

ASSUME TimerAssumption ==
    /\ MaxTimers \in Nat /\ MaxLate \in Nat \ {0} /\ MaxFired \in Nat \ {0}
    /\ Delays \subseteq Nat \ {0}
    /\ \E d \in Delays : \A e \in Delays : e <= d

TimerIds == 1..MaxTimers

MaxDelay == CHOOSE d \in Delays : \A e \in Delays : e <= d

Off == -1                \* the timerfd is disarmed

VARIABLES
    timersCreated,       \* Timer::timersCreated_
    rem, interval,       \* when_ relative to now; interval_, 0 for one-shot
    timers,              \* the heap timers_
    idSet,               \* timerIdSet_
    fd,                  \* ticks until the timerfd is readable, or Off
    ready,               \* the timerfd's channel is among activeChannels_
    pending,             \* functions other threads queued in the loop
    lstate,              \* loop(): "out", "in", "quitting"
    phase,               \* handleRead: "idle", "calling", "callback"
    cur,                 \* the timer whose callback is running
    expired, toRun,      \* handleRead's expired; those not yet looked at
    lag,                 \* ticks since handleRead took its now
    threw,               \* a callback has thrown
    fired,               \* history: callbacks begun, per timer
    asked, erased        \* history: invalidateTimer was called for a timer;
                         \* it was erased after it had been added

timerVars == <<timersCreated, rem, interval, timers, idSet, fd, ready, pending, lstate,
               phase, cur, expired, toRun, lag, threw, fired, asked, erased>>

TimerTypeOK ==
    /\ timersCreated \in 0..MaxTimers
    /\ rem \in [TimerIds -> (-MaxLate)..MaxDelay]
    /\ interval \in [TimerIds -> Delays \cup {0}]
    /\ timers \in SUBSET TimerIds /\ idSet \in SUBSET TimerIds
    /\ fd \in {Off} \cup 0..MaxDelay
    /\ ready \in BOOLEAN
    /\ pending \in Seq({"add", "erase"} \X TimerIds)
    /\ lstate \in {"out", "in", "quitting"}
    /\ phase \in {"idle", "calling", "callback"}
    /\ cur \in TimerIds \cup {0}
    /\ expired \in SUBSET TimerIds /\ toRun \in SUBSET TimerIds
    /\ lag \in 0..(MaxDelay + MaxLate)
    /\ threw \in BOOLEAN
    /\ fired \in [TimerIds -> 0..MaxFired]
    /\ asked \in SUBSET TimerIds /\ erased \in SUBSET TimerIds

TimerInit ==
    /\ timersCreated = 0
    /\ rem = [i \in TimerIds |-> 0] /\ interval = [i \in TimerIds |-> 0]
    /\ timers = {} /\ idSet = {} /\ fd = Off /\ ready = FALSE /\ pending = <<>>
    /\ lstate = "out" /\ phase = "idle" /\ cur = 0
    /\ expired = {} /\ toRun = {} /\ lag = 0 /\ threw = FALSE
    /\ fired = [i \in TimerIds |-> 0]
    /\ asked = {} /\ erased = {}

AtLeast(n, low) == IF n < low THEN low ELSE n
AtMost(n, high) == IF n > high THEN high ELSE n

\* A timer at the top of heap h.
Earliest(h, r) == CHOOSE i \in h : \A j \in h : r[i] <= r[j]

-----------------------------------------------------------------------------
(* The timerfd *)

\* howMuchTimeFromNow: never less than 100us.
ArmFor(r) == AtLeast(r, 1)

\* resetTimerfd for the top of the heap, if there is one.
ArmForTop(h, r, old) == IF h = {} THEN old ELSE ArmFor(r[Earliest(h, r)])

-----------------------------------------------------------------------------
(* addTimer and invalidateTimer *)

\* Timer's constructor: runAt and runAfter have interval 0, runEvery does not.
CreateTimer(d, every) ==
    /\ timersCreated < MaxTimers
    /\ timersCreated' = timersCreated + 1
    /\ rem' = [rem EXCEPT ![timersCreated + 1] = d]
    /\ interval' = [interval EXCEPT ![timersCreated + 1] = IF every THEN d ELSE 0]

\* Mutant: the timerfd is armed only for the first timer of the heap.
AddTimerArmOnce(i, r) ==
    /\ idSet' = idSet \cup {i}
    /\ timers' = timers \cup {i}
    /\ fd' = IF timers = {} THEN ArmFor(r) ELSE fd

\* addTimerInLoop of a timer that is due in r.
AddTimerInLoop(i, r) ==
    /\ idSet' = idSet \cup {i}
    /\ timers' = timers \cup {i}
    /\ fd' = IF timers = {} \/ r < rem[Earliest(timers, rem)]
             THEN ArmFor(r) ELSE fd

Erase(i) ==
    /\ idSet' = idSet \ {i}
    /\ erased' = IF i \in idSet THEN erased \cup {i} ELSE erased

\* EventLoop::isRunning, without which invalidateTimer does nothing.
IsRunning == lstate = "in"

AddTimerElsewhere(d, every) ==
    /\ CreateTimer(d, every)
    /\ pending' = Append(pending, <<"add", timersCreated + 1>>)
    /\ UNCHANGED <<timers, idSet, fd, ready, lstate, phase, cur, expired, toRun, lag,
                   threw, fired, asked, erased>>

InvalidateElsewhere(i) ==
    /\ i <= timersCreated /\ i \notin asked
    /\ asked' = asked \cup {i}
    /\ pending' = IF IsRunning THEN Append(pending, <<"erase", i>>) ELSE pending
    /\ UNCHANGED <<timersCreated, rem, interval, timers, idSet, fd, ready, lstate,
                   phase, cur, expired, toRun, lag, threw, fired, erased>>

\* The loop thread is in the program's own code: in a timer callback, in some
\* other callback, or outside loop().
InUserCode == phase \in {"idle", "callback"}

AddTimerHere(d, every) ==
    /\ InUserCode
    /\ CreateTimer(d, every)
    /\ AddTimerInLoop(timersCreated + 1, d)
    /\ UNCHANGED <<ready, pending, lstate, phase, cur, expired, toRun, lag, threw,
                   fired, asked, erased>>

InvalidateHere(i) ==
    /\ InUserCode
    /\ i <= timersCreated /\ i \notin asked
    /\ asked' = asked \cup {i}
    /\ IF IsRunning THEN Erase(i) ELSE UNCHANGED <<idSet, erased>>
    /\ UNCHANGED <<timersCreated, rem, interval, timers, fd, ready, pending, lstate,
                   phase, cur, expired, toRun, lag, threw, fired>>

\* doRunInLoopFuncs calls the oldest function.
RunFunc ==
    /\ phase = "idle" /\ lstate # "out" /\ ~ready
    /\ pending # <<>>
    /\ pending' = Tail(pending)
    /\ LET op == pending[1][1]
           i  == pending[1][2] IN
       \/ /\ op = "add"
          /\ AddTimerInLoop(i, rem[i])
          /\ UNCHANGED erased
       \/ /\ op = "erase"
          /\ Erase(i)
          /\ UNCHANGED <<timers, fd>>
    /\ UNCHANGED <<timersCreated, rem, interval, ready, lstate, phase, cur, expired,
                   toRun, lag, threw, fired, asked>>

-----------------------------------------------------------------------------
(* handleRead *)

\* poll finds the timerfd readable.
PollReports ==
    /\ phase = "idle" /\ lstate # "out"
    /\ fd = 0 /\ ~ready
    /\ ready' = TRUE
    /\ UNCHANGED <<timersCreated, rem, interval, timers, idSet, fd, pending, lstate,
                   phase, cur, expired, toRun, lag, threw, fired, asked, erased>>

\* readTimerfd: nothing is read if the timerfd has been armed since the poll.
ReadTimerfd == fd' = IF fd = 0 THEN Off ELSE fd

\* The timerfd is read and the expired timers leave the heap.
HandleBegin ==
    /\ phase = "idle" /\ ready
    /\ ready' = FALSE
    /\ ReadTimerfd
    /\ phase' = "calling"
    /\ lag' = 0
    /\ LET due == {i \in timers : rem[i] < 0} IN
       /\ expired' = due
       /\ toRun' = due
       /\ timers' = timers \ due
    /\ UNCHANGED <<timersCreated, rem, interval, idSet, pending, lstate, cur, threw,
                   fired, asked, erased>>

\* Mutant: expired timers are called whether or not they are still valid.
CallAnyway(i) ==
    /\ phase = "calling"
    /\ i \in toRun /\ \A j \in toRun : rem[i] <= rem[j]
    /\ toRun' = toRun \ {i}
    /\ phase' = "callback"
    /\ cur' = i
    /\ fired' = [fired EXCEPT ![i] = AtMost(@ + 1, MaxFired)]
    /\ UNCHANGED <<timersCreated, rem, interval, timers, idSet, fd, ready, pending,
                   lstate, expired, lag, threw, asked, erased>>

\* The next expired timer, called if it has not been invalidated meanwhile.
CallNext(i) ==
    /\ phase = "calling"
    /\ i \in toRun /\ \A j \in toRun : rem[i] <= rem[j]
    /\ toRun' = toRun \ {i}
    /\ \/ /\ i \in idSet
          /\ phase' = "callback"
          /\ cur' = i
          /\ fired' = [fired EXCEPT ![i] = AtMost(@ + 1, MaxFired)]
       \/ /\ i \notin idSet
          /\ UNCHANGED <<phase, cur, fired>>
    /\ UNCHANGED <<timersCreated, rem, interval, timers, idSet, fd, ready, pending,
                   lstate, expired, lag, threw, asked, erased>>

CallbackReturns ==
    /\ phase = "callback"
    /\ phase' = "calling"
    /\ cur' = 0
    /\ UNCHANGED <<timersCreated, rem, interval, timers, idSet, fd, ready, pending,
                   lstate, expired, toRun, lag, threw, fired, asked, erased>>

\* The exception leaves handleRead and loop(): nothing is put back or armed.
CallbackThrows ==
    /\ phase = "callback"
    /\ phase' = "idle"
    /\ cur' = 0 /\ expired' = {} /\ toRun' = {}
    /\ lstate' = "out"
    /\ threw' = TRUE
    /\ lag' = 0
    /\ UNCHANGED <<timersCreated, rem, interval, timers, idSet, fd, ready, pending,
                   fired, asked, erased>>

\* restart(now) of timer i: due one interval after handleRead began.
Restarted(i) == AtLeast(interval[i] - lag, -MaxLate)

\* reset keeps the valid repeating timers.
PutBack(again) == again = {i \in expired \cap idSet : interval[i] > 0}

\* Mutant: the timerfd is armed only when a timer was put back.
RearmIfRestarted(h, r, again) == IF again = {} THEN fd ELSE ArmForTop(h, r, fd)

Rearm(h, r, again) == ArmForTop(h, r, fd)

StillValid(again) == idSet \ (expired \ again)

\* reset(expired, now)
HandleEnd ==
    /\ phase = "calling" /\ toRun = {}
    /\ phase' = "idle"
    /\ expired' = {}
    /\ \E again \in SUBSET expired :
          /\ PutBack(again)
          /\ rem' = [i \in TimerIds |-> IF i \in again THEN Restarted(i) ELSE rem[i]]
          /\ timers' = timers \cup again
          /\ idSet' = StillValid(again)
          /\ fd' = Rearm(timers', rem', again)
    /\ lag' = 0
    /\ UNCHANGED <<timersCreated, interval, ready, pending, lstate, cur, toRun,
                   threw, fired, asked, erased>>

-----------------------------------------------------------------------------
(* The loop and the clock *)

LoopStart ==
    /\ lstate = "out" /\ lstate' = "in"
    /\ UNCHANGED <<timersCreated, rem, interval, timers, idSet, fd, ready, pending,
                   phase, cur, expired, toRun, lag, threw, fired, asked, erased>>

LoopQuit ==
    /\ lstate = "in" /\ lstate' = "quitting"
    /\ UNCHANGED <<timersCreated, rem, interval, timers, idSet, fd, ready, pending,
                   phase, cur, expired, toRun, lag, threw, fired, asked, erased>>

LoopExit ==
    /\ lstate = "quitting" /\ lstate' = "out"
    /\ phase = "idle" /\ ~ready
    /\ UNCHANGED <<timersCreated, rem, interval, timers, idSet, fd, ready, pending,
                   phase, cur, expired, toRun, lag, threw, fired, asked, erased>>

\* resetTimerQueue after a fork: a new timerfd, armed for the top of the heap.
ResetTimerQueue ==
    /\ lstate = "out"
    /\ fd' = ArmForTop(timers, rem, Off)
    /\ UNCHANGED <<timersCreated, rem, interval, timers, idSet, ready, pending,
                   lstate, phase, cur, expired, toRun, lag, threw, fired, asked,
                   erased>>

Tick ==
    /\ rem' = [i \in TimerIds |->
                 IF i <= timersCreated THEN AtLeast(rem[i] - 1, -MaxLate) ELSE rem[i]]
    /\ fd' = IF fd > 0 THEN fd - 1 ELSE fd
    /\ lag' = IF phase = "idle" THEN lag ELSE AtMost(lag + 1, MaxDelay + MaxLate)
    /\ UNCHANGED <<timersCreated, interval, timers, idSet, ready, pending, lstate,
                   phase, cur, expired, toRun, threw, fired, asked, erased>>

-----------------------------------------------------------------------------

TimerStep ==
    \/ RunFunc \/ PollReports \/ HandleBegin \/ HandleEnd
    \/ \E i \in TimerIds : CallNext(i)
    \/ CallbackReturns

Calls ==
    \/ \E d \in Delays, every \in BOOLEAN :
          AddTimerElsewhere(d, every) \/ AddTimerHere(d, every)
    \/ \E i \in TimerIds : InvalidateElsewhere(i) \/ InvalidateHere(i)

TimerNext ==
    \/ Calls
    \/ TimerStep \/ CallbackThrows
    \/ LoopStart \/ LoopQuit \/ LoopExit \/ ResetTimerQueue
    \/ Tick

\* Time passes, and a loop thread that has something to do does it: the
\* functions and the timerfd are served in every iteration of loop().
TimerFairness ==
    /\ WF_timerVars(Tick)
    /\ WF_timerVars(RunFunc)
    /\ WF_timerVars(PollReports)
    /\ WF_timerVars(HandleBegin)
    /\ WF_timerVars(HandleEnd \/ (\E i \in TimerIds : CallNext(i)) \/ CallbackReturns)

TimerSpec == TimerInit /\ [][TimerNext]_timerVars /\ TimerFairness

-----------------------------------------------------------------------------
(* Properties *)

\* Whenever a timer is in the heap and handleRead is not running, the timerfd
\* is armed for no later than the earliest timer (or for the 100us minimum).
\* A callback that throws leaves the timerfd disarmed.
TimerfdArmed ==
    (timers # {} /\ phase = "idle" /\ ~threw) =>
      fd # Off /\ fd <= ArmFor(rem[Earliest(timers, rem)])

\* A timer that is in the heap or among the expired ones is there once, and a
\* valid timer is in one of the two until its callback is over.
ValidTimersKept ==
    /\ TimerTypeOK
    /\ timers \cap expired = {}
    /\ ~threw => idSet \subseteq timers \cup expired

\* No timer is lost: it is kept, and the timerfd will report it.
TimersKept == TimerfdArmed /\ ValidTimersKept

\* Once the loop thread has erased a timer its callback is never begun again,
\* also when the timer had already expired in the same handleRead; and that of a
\* one-shot timer is begun once, whatever callbacks add or invalidate.
NoStaleCall ==
    [][cur' # cur /\ cur' \in TimerIds =>
          cur' \notin erased /\ (interval[cur'] = 0 => fired[cur'] = 0)]_timerVars

\* A timer in the heap leaves it in time: it is called or found invalid.
TimersAreServed ==
    \A i \in TimerIds : (i \in timers) ~> (i \notin timers \/ ~IsRunning \/ threw)
-----------------------------------------------------------------------------
(* The inductive invariant *)

\* The positions of the queued additions.
Additions == {k \in DOMAIN pending : pending[k][1] = "add"}

\* A timer is added once: one that waits to be added is nowhere else, and no
\* other addition is for it.
AddedOnce ==
    \A k \in Additions :
        LET i == pending[k][2] IN
        /\ i <= timersCreated /\ fired[i] = 0
        /\ i \notin timers \cup expired \cup idSet \cup erased
        /\ \A l \in Additions : pending[l][2] = i => l = k

\* Only created timers are anywhere, and the invalidated ones are not valid.
KnownTimers ==
    /\ \A i \in timers \cup expired \cup idSet \cup erased : i <= timersCreated
    /\ \A i \in TimerIds : i > timersCreated => fired[i] = 0
    /\ erased \cap idSet = {}
    /\ toRun \subseteq expired
    /\ phase = "idle" => expired = {}

\* A one-shot timer that was called will not be looked at again.
OneShotsDone ==
    \A i \in timers \cup toRun : interval[i] = 0 => fired[i] = 0

TimerInv == TimersKept /\ AddedOnce /\ KnownTimers /\ OneShotsDone
=============================================================================
