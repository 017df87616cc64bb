--------------------------- MODULE EventLoopThread --------------------------
(***************************************************************************)
(* cooper/net/EventLoopThread.cpp: a thread that owns an event loop.  The  *)
(* three promises order its life: the constructor waits for the loop       *)
(* object, the thread waits to be told to run, and run() waits until the   *)
(* loop calls its first function.  The owner and other threads call run(); *)
(* the owner destroys the object.  A program may also run a loop in a      *)
(* thread of its own, without this class: then tpc is "none".              *)
(***************************************************************************)
EXTENDS EventLoop

CONSTANT
    Owner                \* the thread that destroys the EventLoopThread

ASSUME ThreadAssumption == Owner \in Callers

VARIABLES
    tpc,                 \* where the thread is in loopFuncs
    loopPtr,             \* loop_ is not null
    promiseForRun,       \* promiseForRun_ has its value
    once,                \* once_: "no", "doing", "done"
    upc                  \* where each caller is in run(), wait(), ~EventLoopThread

threadVars == <<tpc, loopPtr, promiseForRun, once, upc>>

allVars == <<vars, threadVars>>

UserPlaces == {"idle", "run", "runWait", "wait", "dtorRun",
               "dtorRunWait", "dtorLoop", "join", "gone"}

ThreadInit ==
    /\ Init
    /\ tpc \in {"new", "none"} /\ loopPtr = FALSE /\ promiseForRun = FALSE /\ once = "no"
    /\ upc = [u \in Callers |-> "idle"]

UserGoto(u, from, to) ==
    /\ upc[u] = from
    /\ upc' = [upc EXCEPT ![u] = to]

\* promiseForLoop_ is set by the first function of the queue.
PromiseForLoop == Len(ran) > 1 \/ (Len(ran) = 1 /\ lpc # "call")

-----------------------------------------------------------------------------
(* loopFuncs *)

\* The loop is created, the function that sets promiseForLoop_ is queued, and
\* the constructor gets the pointer it waits for.
ThreadStart ==
    /\ tpc = "new" /\ tpc' = "published"
    /\ BeforeLoop("plain")
    /\ loopPtr' = TRUE
    /\ UNCHANGED <<promiseForRun, once, upc>>

ThreadRun ==
    /\ tpc = "published" /\ tpc' = "running"
    /\ promiseForRun
    /\ LoopBegin
    /\ UNCHANGED <<loopPtr, promiseForRun, once, upc>>

ThreadEnd ==
    /\ tpc = "running" /\ tpc' = "ended"
    /\ lpc = "idle"
    /\ loopPtr' = FALSE
    /\ UNCHANGED <<vars, promiseForRun, once, upc>>

-----------------------------------------------------------------------------
(* run: std::call_once, so a second caller waits for the first             *)

RunCall(u) ==
    /\ cpc[u] = "idle"
    /\ UserGoto(u, "idle", "run")
    /\ UNCHANGED <<vars, tpc, loopPtr, promiseForRun, once>>

\* Mutant: the thread is not told to run.
RunSilently(u, from, waitAt) ==
    /\ once = "no" /\ once' = "doing"
    /\ UserGoto(u, from, waitAt)
    /\ UNCHANGED <<vars, tpc, loopPtr, promiseForRun>>

\* The places run() is called from, with where it waits and where it returns.
RunFrom(u, from, waitAt) ==
    /\ once = "no" /\ once' = "doing"
    /\ UserGoto(u, from, waitAt)
    /\ promiseForRun' = TRUE
    /\ UNCHANGED <<vars, tpc, loopPtr>>

\* Mutant: run() does not wait for the loop to loop.
RunWaitNothing(u, waitAt, to) ==
    /\ UserGoto(u, waitAt, to)
    /\ once' = "done"
    /\ UNCHANGED <<vars, tpc, loopPtr, promiseForRun>>

RunWait(u, waitAt, to) ==
    /\ UserGoto(u, waitAt, to)
    /\ PromiseForLoop
    /\ once' = "done"
    /\ UNCHANGED <<vars, tpc, loopPtr, promiseForRun>>

RunAgain(u, from, to) ==
    /\ once = "done"
    /\ UserGoto(u, from, to)
    /\ UNCHANGED <<vars, tpc, loopPtr, promiseForRun, once>>

Run(u) ==
    \/ RunFrom(u, "run", "runWait") \/ RunFrom(u, "dtorRun", "dtorRunWait")
    \/ RunWait(u, "runWait", "idle") \/ RunWait(u, "dtorRunWait", "dtorLoop")
    \/ RunAgain(u, "run", "idle") \/ RunAgain(u, "dtorRun", "dtorLoop")

-----------------------------------------------------------------------------
(* wait and ~EventLoopThread *)

WaitCall ==
    /\ tpc # "none" /\ cpc[Owner] = "idle"
    /\ UserGoto(Owner, "idle", "wait")
    /\ UNCHANGED <<vars, tpc, loopPtr, promiseForRun, once>>

WaitJoin ==
    /\ tpc = "ended"
    /\ UserGoto(Owner, "wait", "idle")
    /\ UNCHANGED <<vars, tpc, loopPtr, promiseForRun, once>>

\* Begun when no other thread is using the object.
Dtor ==
    /\ tpc \notin {"new", "none"}
    /\ \A c \in Callers : cpc[c] = "idle" /\ upc[c] = "idle"
    /\ UserGoto(Owner, "idle", "dtorRun")
    /\ UNCHANGED <<vars, tpc, loopPtr, promiseForRun, once>>

\* loop->quit() if loop_ is still there.
DtorQuit ==
    /\ UserGoto(Owner, "dtorLoop", "join")
    /\ IF loopPtr THEN Quit(Owner) ELSE UNCHANGED vars
    /\ UNCHANGED <<tpc, loopPtr, promiseForRun, once>>

\* The join, and with the last reference ~EventLoop: it quits once more and
\* finds looping_ cleared.
DtorJoin ==
    /\ UserGoto(Owner, "join", "gone")
    /\ cpc[Owner] = "idle"
    /\ tpc = "ended"
    /\ quit' = TRUE
    /\ UNCHANGED <<funcs, ran, quitFuncs, ranOnQuit, wakeFd, looping, lpc,
                   active, thrown, cpc, mine, created, loops, owed,
                   tpc, loopPtr, promiseForRun, once>>

-----------------------------------------------------------------------------

\* An exception that leaves loop() in this thread ends the program.
ThreadKinds == Kinds \ {"throw"}

InUse == tpc \notin {"new", "none"} /\ upc[Owner] \in {"idle", "run", "runWait", "wait"}

\* What a thread does with the loop that getLoop() gives it.
UseLoop(c) ==
    /\ InUse /\ upc[c] = "idle"
    /\ Quit(c) \/ \E k \in ThreadKinds : QueueInLoop(c, k)
    /\ UNCHANGED threadVars

ThreadStep ==
    \/ ThreadStart \/ ThreadRun \/ ThreadEnd
    \/ tpc \in {"running", "none"} /\ LoopStep /\ UNCHANGED threadVars

ThreadInput ==
    /\ tpc = "running"
    /\ (\E io \in SUBSET {"io"} : Poll(io)) \/ (\E k \in ThreadKinds : HandleIo(k))
    /\ UNCHANGED threadVars

\* A loop without an EventLoopThread: the rest of EventLoop's Next.
OwnThread ==
    /\ tpc = "none"
    /\ LoopInput \/ \E c \in Callers : CallerStart(c)
    /\ UNCHANGED threadVars

UserStep(u) ==
    \/ Run(u)
    \/ CallerStep(u) /\ UNCHANGED threadVars

OwnerStep == WaitJoin \/ DtorQuit \/ DtorJoin

ThreadNext ==
    \/ \E u \in Callers : (InUse /\ RunCall(u)) \/ UseLoop(u) \/ UserStep(u)
    \/ WaitCall \/ Dtor \/ OwnerStep
    \/ ThreadStep \/ ThreadInput
    \/ OwnThread

ThreadFairness ==
    /\ WF_allVars(ThreadStep)
    /\ \A u \in Callers : WF_allVars(UserStep(u))
    /\ WF_allVars(OwnerStep)

ThreadSpec == ThreadInit /\ [][ThreadNext]_allVars /\ ThreadFairness

-----------------------------------------------------------------------------
(* Properties *)

\* "Make sure the event loop loops before returning" (line 58): once a run()
\* has returned, loop() is past the store that clears quit_, so a quit() the
\* caller makes now cannot be lost.
RunReturnsLooping == once = "done" => loops > 0 /\ lpc # "reset"

\* The thread is over and the function run() waits for was never called: the
\* loop was quit between its reset of quit_ and its first iteration.
QuitBeforeFirst == tpc = "ended" /\ ~PromiseForLoop

\* "This method doesn't block the current thread" (EventLoopThread.hpp:39): a
\* call of run() returns, and the destructor ends, whether or not run() was ever
\* called and whether or not the loop has ended by itself, with one exception.
CallsReturn ==
    \A u \in Callers :
        (upc[u] \in {"run", "dtorRun"}) ~> (upc[u] \in {"idle", "gone"} \/ QuitBeforeFirst)
-----------------------------------------------------------------------------
(* The inductive invariant *)

ThreadPlaces == {"none", "new", "published", "running", "ended"}

\* What the places of the thread say of its loop: loop() is called once, by the
\* running thread, and a run() returns only after a function has been called.
ThreadSane ==
    /\ tpc \in ThreadPlaces
    /\ loopPtr \in BOOLEAN /\ promiseForRun \in BOOLEAN
    /\ once \in {"no", "doing", "done"}
    /\ upc \in [Callers -> UserPlaces]
    /\ tpc \in {"new", "published"} => lpc = "idle" /\ ran = <<>>
    /\ tpc = "ended" => lpc = "idle"
    /\ tpc \in {"running", "ended"} => loops > 0
    /\ tpc = "running" /\ lpc = "reset" => ran = <<>>
    /\ once = "done" => tpc # "none" /\ ran # <<>>
    /\ (\E u \in Callers : upc[u] # "idle") => tpc # "none"

IInv == LoopInv /\ ThreadSane
=============================================================================
