----------------------------- MODULE EventLoop ------------------------------
(***************************************************************************)
(* cooper/net/EventLoop.cpp: one thread runs loop(); other threads hand it *)
(* functions (queueInLoop, runOnQuit) and ask it to stop (quit).           *)
(*                                                                         *)
(* The two function queues are MpscQueues, used here through FifoQueue,    *)
(* the specification MpscQueue implements: enqueue is a claim and, in a    *)
(* later step, a publication.  The eventfd is a flag, readable or not.     *)
(* A function is known by its id and by what it does when it is called.    *)
(***************************************************************************)
EXTENDS Naturals, Sequences, FiniteSets

CONSTANTS
    Callers,             \* threads other than the loop thread
    Kinds,               \* what functions do: subset of the four below
    MaxFuncs,            \* bound: functions ever handed to the loop
    MaxLoops             \* bound: calls of loop()

ASSUME LoopAssumption ==
    /\ Kinds \subseteq {"plain", "requeue", "quit", "throw"}
    /\ "plain" \in Kinds
    /\ MaxFuncs \in Nat /\ MaxLoops \in Nat

VARIABLES
    funcs, ran,          \* funcs_, and the functions taken from it so far
    quitFuncs, ranOnQuit,\* funcsOnQuit_, and those taken from it
    wakeFd,              \* wakeupFd_ is readable
    looping, quit,       \* looping_, quit_
    lpc,                 \* where the loop thread is
    active,              \* activeChannels_ still to be handled
    thrown,              \* an exception has left a callback or function
    cpc, mine,           \* where each caller is; the function it hands over
    created, loops,      \* functions created, calls of loop() so far
    owed                 \* history: quit functions the consumer could see
                         \* when the loop was left

vars == <<funcs, ran, quitFuncs, ranOnQuit, wakeFd, looping, quit, lpc, active,
          thrown, cpc, mine, created, loops, owed>>

Func == [id : 1..MaxFuncs, kind : Kinds]

Funcs == INSTANCE FifoQueue WITH Values <- Func, items <- funcs, delivered <- ran
OnQuit == INSTANCE FifoQueue
            WITH Values <- Func, items <- quitFuncs, delivered <- ranOnQuit

LoopPlaces == {"idle", "reset", "test", "poll", "active", "funcs", "dequeue",
               "call", "leave", "onQuit"}

TypeOK ==
    /\ Funcs!FifoTypeOK /\ OnQuit!FifoTypeOK
    /\ wakeFd \in BOOLEAN /\ looping \in BOOLEAN /\ quit \in BOOLEAN
    /\ lpc \in LoopPlaces
    /\ active \in SUBSET {"wake", "io"}
    /\ thrown \in BOOLEAN
    /\ cpc \in [Callers -> {"idle", "link", "linkOnQuit", "wake"}]
    /\ mine \in [Callers -> 0..MaxFuncs]
    /\ created \in 0..MaxFuncs /\ loops \in 0..MaxLoops
    /\ owed \in SUBSET (1..MaxFuncs)

Init ==
    /\ Funcs!FifoInit /\ OnQuit!FifoInit
    /\ wakeFd = FALSE /\ looping = FALSE /\ quit = FALSE
    /\ lpc = "idle" /\ active = {} /\ thrown = FALSE
    /\ cpc = [c \in Callers |-> "idle"]
    /\ mine = [c \in Callers |-> 0]
    /\ created = 0 /\ loops = 0
    /\ owed = {}

Ids(s) == {s[i].id : i \in DOMAIN s}

\* Positions of q up to the first item that is not visible.
VisiblePrefix(q) == {i \in DOMAIN q : \A j \in 1..i : q[j].visible}

-----------------------------------------------------------------------------
(* Other threads: queueInLoop, runOnQuit, quit, wakeup *)

CallerGoto(c, from, to) ==
    /\ cpc[c] = from
    /\ cpc' = [cpc EXCEPT ![c] = to]

\* A function the caller c or the loop thread makes up.
NewFunc(k) == [id |-> created + 1, kind |-> k]

CreateFunc == created < MaxFuncs /\ created' = created + 1

QueueInLoop(c, k) ==
    /\ CallerGoto(c, "idle", "link")
    /\ CreateFunc
    /\ Funcs!Claim(NewFunc(k))
    /\ mine' = [mine EXCEPT ![c] = created + 1]
    /\ UNCHANGED <<quitFuncs, ranOnQuit, wakeFd, looping, quit, lpc, active,
                   thrown, loops, owed>>

\* Mutant: queueInLoop trusts the loop to look again and writes no wakeup.
QueueNoWakeup(c) ==
    /\ CallerGoto(c, "link", "idle")
    /\ \E i \in DOMAIN funcs : funcs[i].val.id = mine[c] /\ Funcs!Publish(i)
    /\ UNCHANGED <<quitFuncs, ranOnQuit, wakeFd, looping, quit, lpc, active,
                   thrown, mine, created, loops, owed>>

QueueLink(c) ==
    /\ CallerGoto(c, "link", "wake")
    /\ \E i \in DOMAIN funcs : funcs[i].val.id = mine[c] /\ Funcs!Publish(i)
    /\ UNCHANGED <<quitFuncs, ranOnQuit, wakeFd, looping, quit, lpc, active,
                   thrown, mine, created, loops, owed>>

RunOnQuit(c, k) ==
    /\ CallerGoto(c, "idle", "linkOnQuit")
    /\ CreateFunc
    /\ OnQuit!Claim(NewFunc(k))
    /\ mine' = [mine EXCEPT ![c] = created + 1]
    /\ UNCHANGED <<funcs, ran, wakeFd, looping, quit, lpc, active, thrown,
                   loops, owed>>

RunOnQuitLink(c) ==
    /\ CallerGoto(c, "linkOnQuit", "idle")
    /\ \E i \in DOMAIN quitFuncs :
          quitFuncs[i].val.id = mine[c] /\ OnQuit!Publish(i)
    /\ mine' = [mine EXCEPT ![c] = 0]
    /\ UNCHANGED <<funcs, ran, wakeFd, looping, quit, lpc, active, thrown,
                   created, loops, owed>>

\* Mutant: quit only sets the flag.
QuitNoWakeup(c) ==
    /\ cpc[c] = "idle"
    /\ quit' = TRUE
    /\ UNCHANGED <<funcs, ran, quitFuncs, ranOnQuit, wakeFd, looping, lpc,
                   active, thrown, cpc, mine, created, loops, owed>>

Quit(c) ==
    /\ CallerGoto(c, "idle", "wake")
    /\ quit' = TRUE
    /\ UNCHANGED <<funcs, ran, quitFuncs, ranOnQuit, wakeFd, looping, lpc,
                   active, thrown, mine, created, loops, owed>>

\* The write to the eventfd that ends queueInLoop and quit.
Wakeup(c) ==
    /\ CallerGoto(c, "wake", "idle")
    /\ wakeFd' = TRUE
    /\ mine' = [mine EXCEPT ![c] = 0]
    /\ UNCHANGED <<funcs, ran, quitFuncs, ranOnQuit, looping, quit, lpc, active,
                   thrown, created, loops, owed>>

-----------------------------------------------------------------------------
(* The loop thread: loop, wakeupRead, doRunInLoopFuncs *)

LoopGoto(from, to) == lpc = from /\ lpc' = to

\* The loop thread queues a function itself: no other thread sees the moment
\* between claim and publication, and wakeup is called only outside loop().
QueueHere(k) ==
    /\ CreateFunc
    /\ funcs' = Append(funcs, [val |-> NewFunc(k), visible |-> TRUE])
    /\ wakeFd' = (wakeFd \/ ~looping)
    /\ UNCHANGED ran

BeforeLoop(k) ==
    /\ lpc = "idle"
    /\ QueueHere(k)
    /\ UNCHANGED <<quitFuncs, ranOnQuit, looping, quit, lpc, active, thrown,
                   cpc, mine, loops, owed>>

LoopBegin ==
    /\ LoopGoto("idle", "reset")
    /\ loops < MaxLoops
    /\ loops' = loops + 1
    /\ looping' = TRUE
    /\ UNCHANGED <<funcs, ran, quitFuncs, ranOnQuit, wakeFd, quit, active,
                   thrown, cpc, mine, created, owed>>

LoopReset ==
    /\ LoopGoto("reset", "test")
    /\ quit' = FALSE
    /\ UNCHANGED <<funcs, ran, quitFuncs, ranOnQuit, wakeFd, looping, active,
                   thrown, cpc, mine, created, loops, owed>>

TestQuit ==
    /\ LoopGoto("test", IF quit THEN "leave" ELSE "poll")
    /\ UNCHANGED <<funcs, ran, quitFuncs, ranOnQuit, wakeFd, looping, quit,
                   active, thrown, cpc, mine, created, loops, owed>>

\* epoll_wait reports the eventfd whenever it is readable; io stands for any
\* other channel, and an empty report is the timeout of kPollTimeMs.
Poll(io) ==
    /\ LoopGoto("poll", "active")
    /\ active' = (IF wakeFd THEN {"wake"} ELSE {}) \cup io
    /\ UNCHANGED <<funcs, ran, quitFuncs, ranOnQuit, wakeFd, looping, quit,
                   thrown, cpc, mine, created, loops, owed>>

HandleWake ==
    /\ lpc = "active" /\ "wake" \in active
    /\ wakeFd' = FALSE
    /\ active' = active \ {"wake"}
    /\ UNCHANGED <<funcs, ran, quitFuncs, ranOnQuit, looping, quit, lpc, thrown,
                   cpc, mine, created, loops, owed>>

\* A callback of another channel may do anything a function does.
HandleIo(k) ==
    /\ lpc = "active" /\ "io" \in active
    /\ active' = active \ {"io"}
    /\ IF k = "requeue" /\ created < MaxFuncs
       THEN QueueHere("plain")
       ELSE UNCHANGED <<funcs, ran, wakeFd, created>>
    /\ quit' = (quit \/ k = "quit")
    /\ thrown' = (thrown \/ k = "throw")
    /\ lpc' = IF k = "throw" THEN "leave" ELSE "active"
    /\ UNCHANGED <<quitFuncs, ranOnQuit, looping, cpc, mine, loops, owed>>

ActiveDone ==
    /\ LoopGoto("active", "funcs")
    /\ active = {}
    /\ UNCHANGED <<funcs, ran, quitFuncs, ranOnQuit, wakeFd, looping, quit,
                   active, thrown, cpc, mine, created, loops, owed>>

\* while (!funcs_.empty())
FuncsEmpty ==
    /\ LoopGoto("funcs", IF Funcs!NothingVisible(funcs) THEN "test" ELSE "dequeue")
    /\ UNCHANGED <<funcs, ran, quitFuncs, ranOnQuit, wakeFd, looping, quit,
                   active, thrown, cpc, mine, created, loops, owed>>

\* while (funcs_.dequeue(func))
DequeueFunc ==
    /\ \/ /\ LoopGoto("dequeue", "call")
          /\ Funcs!Take
       \/ /\ LoopGoto("dequeue", "funcs")
          /\ Funcs!NothingVisible(funcs)
          /\ UNCHANGED <<funcs, ran>>
    /\ UNCHANGED <<quitFuncs, ranOnQuit, wakeFd, looping, quit, active, thrown,
                   cpc, mine, created, loops, owed>>

CallFunc ==
    LET k == ran[Len(ran)].kind IN
    /\ LoopGoto("call", IF k = "throw" THEN "leave" ELSE "dequeue")
    /\ IF k = "requeue" /\ created < MaxFuncs
       THEN QueueHere("plain")
       ELSE UNCHANGED <<funcs, ran, wakeFd, created>>
    /\ quit' = (quit \/ k = "quit")
    /\ thrown' = (thrown \/ k = "throw")
    /\ UNCHANGED <<quitFuncs, ranOnQuit, looping, active, cpc, mine, loops,
                   owed>>

\* Mutant: an exception skips the functions registered for the end.
LeaveSkippingOnQuit ==
    /\ LoopGoto("leave", IF thrown THEN "idle" ELSE "onQuit")
    /\ looping' = FALSE
    /\ active' = {}
    /\ owed' = {quitFuncs[i].val.id : i \in VisiblePrefix(quitFuncs)}
    /\ UNCHANGED <<funcs, ran, quitFuncs, ranOnQuit, wakeFd, quit, thrown, cpc,
                   mine, created, loops>>

\* The scope exit of loop(), on the normal and on the exceptional path.
Leave ==
    /\ LoopGoto("leave", "onQuit")
    /\ looping' = FALSE
    /\ active' = {}
    /\ owed' = {quitFuncs[i].val.id : i \in VisiblePrefix(quitFuncs)}
    /\ UNCHANGED <<funcs, ran, quitFuncs, ranOnQuit, wakeFd, quit, thrown, cpc,
                   mine, created, loops>>

\* while (funcsOnQuit_.dequeue(f)) f(): an exception leaves loop() at once.
RunQuitFunc ==
    /\ lpc = "onQuit"
    /\ OnQuit!Take
    /\ LET k == Head(quitFuncs).val.kind IN
       /\ LoopGoto("onQuit", IF k = "throw" THEN "idle" ELSE "onQuit")
       /\ thrown' = (thrown \/ k = "throw")
       /\ owed' = IF k = "throw" THEN {} ELSE owed
    /\ UNCHANGED <<funcs, ran, wakeFd, looping, quit, active, cpc, mine,
                   created, loops>>

LoopReturns ==
    /\ LoopGoto("onQuit", "idle")
    /\ OnQuit!NothingVisible(quitFuncs)
    /\ UNCHANGED <<funcs, ran, quitFuncs, ranOnQuit, wakeFd, looping, quit,
                   active, thrown, cpc, mine, created, loops, owed>>

-----------------------------------------------------------------------------

CallerStep(c) == QueueLink(c) \/ RunOnQuitLink(c) \/ Wakeup(c)

CallerStart(c) ==
    \/ \E k \in Kinds : QueueInLoop(c, k)
    \/ \E k \in Kinds \ {"requeue", "quit"} : RunOnQuit(c, k)
    \/ Quit(c)

LoopStep ==
    \/ LoopReset \/ TestQuit
    \/ wakeFd /\ Poll({})
    \/ HandleWake \/ HandleIo("plain") \/ ActiveDone
    \/ FuncsEmpty \/ DequeueFunc \/ CallFunc
    \/ Leave \/ RunQuitFunc \/ LoopReturns

\* What the outside world may or may not do to the loop thread.
LoopInput ==
    \/ \E k \in Kinds : BeforeLoop(k)
    \/ LoopBegin
    \/ \E io \in SUBSET {"io"} : Poll(io)
    \/ \E k \in Kinds : HandleIo(k)

Next ==
    \/ \E c \in Callers : CallerStart(c) \/ CallerStep(c)
    \/ LoopStep
    \/ LoopInput

\* A thread that is inside a call goes on.  Nobody has to call anything, no
\* channel has to become ready, and poll may wait for its timeout for ever:
\* whatever happens, happens because of the wakeups.
Fairness ==
    /\ \A c \in Callers : WF_vars(CallerStep(c))
    /\ WF_vars(LoopStep)

Spec == Init /\ [][Next]_vars /\ Fairness

-----------------------------------------------------------------------------
(* Properties *)

\* The loop never sleeps in poll on work it has been given: if a function is
\* visible or quit_ is set, the eventfd is readable or its writer is about to
\* write it (queueInLoop publishes first and writes afterwards).  An exception
\* that leaves loop() may strand functions; they wait for the next event.
NoLostWakeup ==
    /\ TypeOK
    /\ (lpc = "poll" /\ ~wakeFd /\ ~thrown) =>
          \/ Funcs!NothingVisible(funcs) /\ ~quit
          \/ \E c \in Callers : cpc[c] = "wake"

\* "Run the quit functions even if exceptions were thrown" (line 157): when
\* loop() is over, the functions that were visible at its end have been called
\* unless one of them threw itself.
QuitFuncsRun == lpc = "idle" => owed \subseteq Ids(ranOnQuit)

Waiting(i) == \E j \in DOMAIN funcs : funcs[j].val.id = i

\* A function that is in the queue while the loop runs, put there before or
\* since, is called, or the loop ends first; after an exception it may wait for
\* the next event.
FuncRunsOrLoopEnds ==
    \A i \in 1..MaxFuncs :
      (Waiting(i) /\ lpc # "idle") ~> (i \in Ids(ran) \/ lpc = "idle" \/ thrown)

\* quit() makes a loop that has begun its iterations return.
QuitEndsLoop == (quit /\ lpc \notin {"idle", "reset"}) ~> (lpc = "idle")

\* The loop answers other threads, by nothing but the wake-ups they send it.
LoopResponds == FuncRunsOrLoopEnds /\ QuitEndsLoop
-----------------------------------------------------------------------------
(* The inductive invariant *)

\* The eventfd is readable, or a thread is on its way to write it.
Woken == wakeFd \/ \E c \in Callers : cpc[c] = "wake"

\* Wherever the loop thread is about to sleep, or will get there without
\* looking at funcs_, what it must not sleep over is announced.
WorkIsAnnounced ==
    /\ (/\ lpc \in {"idle", "reset", "test", "poll", "leave", "onQuit"}
        /\ ~thrown /\ ~Funcs!NothingVisible(funcs)) => Woken
    /\ lpc = "poll" /\ quit => Woken
    /\ lpc \in {"idle", "onQuit"} => ~looping

\* A quit function visible when the loop was left has been called or is still
\* where the consumer gets to it.
OwedIsSeen ==
    /\ lpc = "onQuit" =>
          owed \subseteq Ids(ranOnQuit)
                        \cup {quitFuncs[i].val.id : i \in VisiblePrefix(quitFuncs)}
    /\ lpc = "idle" => owed \subseteq Ids(ranOnQuit)

LoopInv == TypeOK /\ WorkIsAnnounced /\ OwedIsSeen
=============================================================================
