----------------------------- MODULE ThreadPool -----------------------------
(***************************************************************************)
(* cooper/util/ThreadPool.cpp: a fixed set of worker threads, a task queue *)
(* under taskMutex_, and taskCond_ on which idle workers wait.  Tasks may  *)
(* add further tasks.  stop() sets stop_ and notifies without the mutex.   *)
(***************************************************************************)
EXTENDS Naturals, Sequences, FiniteSets

CONSTANTS
    Workers,             \* threads_
    Callers,             \* threads that add tasks
    MaxTasks             \* bound: tasks ever added

ASSUME PoolAssumption ==
    /\ IsFiniteSet(Workers) /\ Workers # {}    \* assert(threadNum > 0)
    /\ Workers \cap Callers = {} /\ "free" \notin Workers
    /\ MaxTasks \in Nat

VARIABLES
    taskQueue,           \* taskQueue_: ids of the tasks not yet taken
    added, done,         \* tasks added so far; tasks whose call has returned
    stop,                \* stop_
    mutex,               \* holder of taskMutex_, or "free"
    wpc,                 \* where each worker is in func
    task,                \* r of each worker, 0 when empty
    spc,                 \* where the owner is in stop()
    missed               \* history: notify_all came while a worker was between
                         \* its test of stop_ and the wait

poolVars == <<taskQueue, added, done, stop, mutex, wpc, task, spc, missed>>

PoolTypeOK ==
    /\ taskQueue \in Seq(1..MaxTasks)
    /\ added \in 0..MaxTasks
    /\ done \in SUBSET (1..MaxTasks)
    /\ stop \in BOOLEAN
    /\ mutex \in Workers \cup {"free"}
    /\ wpc \in [Workers -> {"top", "lock", "cond", "sleep", "asleep", "run",
                            "ended"}]
    /\ task \in [Workers -> 0..MaxTasks]
    /\ spc \in {"live", "notify", "join", "stopped"}
    /\ missed \in BOOLEAN

PoolInit ==
    /\ taskQueue = <<>> /\ added = 0 /\ done = {}
    /\ stop = FALSE /\ mutex = "free"
    /\ wpc = [w \in Workers |-> "top"]
    /\ task = [w \in Workers |-> 0]
    /\ spc = "live" /\ missed = FALSE

WGoto(w, from, to) ==
    /\ wpc[w] = from
    /\ wpc' = [wpc EXCEPT ![w] = to]

Asleep == {w \in Workers : wpc[w] = "asleep"}

-----------------------------------------------------------------------------
(* addTask: push and notify_one under the mutex *)

\* A notified worker has to take the mutex again before it goes on.
NotifyOne ==
    IF Asleep = {} THEN UNCHANGED wpc
    ELSE \E w \in Asleep : wpc' = [wpc EXCEPT ![w] = "lock"]

Push ==
    /\ mutex = "free"
    /\ added < MaxTasks
    /\ added' = added + 1
    /\ taskQueue' = Append(taskQueue, added + 1)

\* Mutant: only a push into an empty queue notifies.
AddTaskNotifyFirst ==
    /\ Push
    /\ IF taskQueue = <<>> THEN NotifyOne ELSE UNCHANGED wpc
    /\ UNCHANGED <<done, stop, mutex, task, spc, missed>>

AddTask ==
    /\ Push
    /\ NotifyOne
    /\ UNCHANGED <<done, stop, mutex, task, spc, missed>>

-----------------------------------------------------------------------------
(* func, run by every worker *)

Top(w) ==
    /\ WGoto(w, "top", IF stop THEN "ended" ELSE "lock")
    /\ UNCHANGED <<taskQueue, added, done, stop, mutex, task, spc, missed>>

Lock(w) ==
    /\ mutex = "free" /\ mutex' = w
    /\ WGoto(w, "lock", "cond")
    /\ UNCHANGED <<taskQueue, added, done, stop, task, spc, missed>>

\* while (!stop_ && taskQueue_.empty()) holds: the worker will wait.
CondWait(w) ==
    /\ ~stop /\ taskQueue = <<>>
    /\ WGoto(w, "cond", "sleep")
    /\ UNCHANGED <<taskQueue, added, done, stop, mutex, task, spc, missed>>

\* taskCond_.wait: the mutex is released and the worker sleeps in one step.
Sleep(w) ==
    /\ WGoto(w, "sleep", "asleep")
    /\ mutex' = "free"
    /\ UNCHANGED <<taskQueue, added, done, stop, task, spc, missed>>

\* The task is taken whether or not stop_ is set by now.
Take(w) ==
    /\ taskQueue # <<>>
    /\ WGoto(w, "cond", "run")
    /\ task' = [task EXCEPT ![w] = Head(taskQueue)]
    /\ taskQueue' = Tail(taskQueue)
    /\ mutex' = "free"
    /\ UNCHANGED <<added, done, stop, spc, missed>>

\* Stopped and nothing to do: continue.
Continue(w) ==
    /\ stop /\ taskQueue = <<>>
    /\ WGoto(w, "cond", "top")
    /\ mutex' = "free"
    /\ UNCHANGED <<taskQueue, added, done, stop, task, spc, missed>>

\* r() returns.
RunTask(w) ==
    /\ WGoto(w, "run", "top")
    /\ done' = done \cup {task[w]}
    /\ task' = [task EXCEPT ![w] = 0]
    /\ UNCHANGED <<taskQueue, added, stop, mutex, spc, missed>>

\* A condition variable may wake a worker nobody notified.
SpuriousWake(w) ==
    /\ WGoto(w, "asleep", "lock")
    /\ UNCHANGED <<taskQueue, added, done, stop, mutex, task, spc, missed>>

-----------------------------------------------------------------------------
(* stop, called by the owner or by the destructor; neither holds the mutex *)

StopSet ==
    /\ spc = "live" /\ spc' = "notify"
    /\ stop' = TRUE
    /\ UNCHANGED <<taskQueue, added, done, mutex, wpc, task, missed>>

\* Mutant: only one worker is woken to see stop_.
StopNotifyOne ==
    /\ spc = "notify" /\ spc' = "join"
    /\ NotifyOne
    /\ missed' = \E w \in Workers : wpc[w] = "sleep"
    /\ UNCHANGED <<taskQueue, added, done, stop, mutex, task>>

StopNotify ==
    /\ spc = "notify" /\ spc' = "join"
    /\ wpc' = [w \in Workers |-> IF w \in Asleep THEN "lock" ELSE wpc[w]]
    /\ missed' = \E w \in Workers : wpc[w] = "sleep"
    /\ UNCHANGED <<taskQueue, added, done, stop, mutex, task>>

StopJoin ==
    /\ spc = "join" /\ spc' = "stopped"
    /\ \A w \in Workers : wpc[w] = "ended"
    /\ UNCHANGED <<taskQueue, added, done, stop, mutex, wpc, task, missed>>

-----------------------------------------------------------------------------

WorkerStep(w) ==
    \/ Top(w) \/ Lock(w) \/ CondWait(w) \/ Sleep(w) \/ Take(w) \/ Continue(w)
    \/ RunTask(w)

\* A caller, or the task a worker is running, adds a task.
SomeoneAdds ==
    /\ (spc = "live" /\ Callers # {}) \/ \E w \in Workers : wpc[w] = "run"
    /\ AddTask

PoolNext ==
    \/ SomeoneAdds
    \/ \E w \in Workers : WorkerStep(w) \/ SpuriousWake(w)
    \/ StopSet \/ StopNotify \/ StopJoin

\* Every thread that can go on does, tasks return, and stop() once called goes
\* on; the mutex need not be fair, and nobody has to add a task or to stop.
PoolFairness ==
    /\ \A w \in Workers : WF_poolVars(WorkerStep(w))
    /\ WF_poolVars(StopNotify \/ StopJoin)

PoolSpec == PoolInit /\ [][PoolNext]_poolVars /\ PoolFairness

-----------------------------------------------------------------------------
(* Properties *)

OnTheWay == {w \in Workers : wpc[w] \in {"top", "lock", "cond", "sleep"}}

\* notify_one per task is enough: no worker sleeps while there are more tasks
\* than awake workers that have yet to look into the queue.
NoSleepOverTasks ==
    /\ PoolTypeOK
    /\ (Asleep # {} /\ ~stop) => Len(taskQueue) <= Cardinality(OnTheWay)

\* A task is eventually run unless the pool is stopped.
TaskRuns == \A i \in 1..MaxTasks : (added >= i) ~> (i \in done \/ stop)

\* "Stop all threads in the threadPool" (ThreadPool.hpp:48): stop() returns, if
\* no worker was on the edge of sleeping when it notified.  It holds no mutex
\* then, and a worker that has tested stop_ and not yet begun to wait misses it.
StopReturnsIfSeen == (spc = "join" /\ ~missed) ~> (spc = "stopped")

\* Both ways a call waits for the workers come to an end.
WorkersRespond == TaskRuns /\ StopReturnsIfSeen
-----------------------------------------------------------------------------
(* The inductive invariant behind NoSleepOverTasks *)

\* Between the lock and the wait a worker holds the mutex, so that nobody adds a
\* task after it has found the queue empty; a task is run by the worker that
\* took it.
WorkersSane ==
    /\ \A w \in Workers : wpc[w] \in {"cond", "sleep"} => mutex = w
    /\ \A w \in Workers : wpc[w] = "sleep" => taskQueue = <<>>
    /\ \A w \in Workers : wpc[w] = "run" => task[w] \in 1..MaxTasks

PoolInv == NoSleepOverTasks /\ WorkersSane
=============================================================================
