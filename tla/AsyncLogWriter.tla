--------------------------- MODULE AsyncLogWriter ---------------------------
(***************************************************************************)
(* cooper/util/AsyncLogWriter.cpp with cooper/util/Semaphore.hpp, on top   *)
(* of the step-level queue: threads that log (Logger::~Logger calls write  *)
(* and, from kError up, the flush function, which the programs bind to     *)
(* flushAll), the writer thread that run() drives, and the owner that      *)
(* destroys the writer once the logging threads are done with it.          *)
(***************************************************************************)
EXTENDS MpscQueue

CONSTANTS
    Loggers,             \* threads that log
    Writer,              \* the thread started by the constructor
    Owner,               \* the thread that runs the destructor
    Levels               \* levels the program logs at: "info", "error"

ASSUME WriterAssumption ==
    /\ Threads = Loggers \cup {Writer, Owner}
    /\ Writer # Owner /\ {Writer, Owner} \cap Loggers = {}
    /\ Levels \subseteq {"info", "error"}
    /\ Producers = Loggers
    /\ Consumers = IF "error" \in Levels THEN Threads ELSE {Writer, Owner}

VARIABLES
    at,                  \* where each thread is in write, run, flushAll, ...
    level,               \* level of the message a thread is logging
    count,               \* Semaphore::m_count
    waiting,             \* the writer thread is blocked in m_cond.wait
    exitFlag,            \* exitFlag_
    output               \* what fwrite has put on stdout, in order

writerVars == <<at, level, count, waiting, exitFlag, output>>

allVars == <<vars, writerVars>>

Places == {"out", "write", "post", "check", "wait", "flush", "dequeue",
           "dtorPost", "join", "ended"}

WriterInit ==
    /\ Init
    /\ at = [t \in Threads |-> IF t = Writer THEN "check" ELSE "out"]
    /\ level = [t \in Threads |-> "info"]
    /\ count = 0
    /\ waiting = FALSE
    /\ exitFlag = FALSE
    /\ output = <<>>

Move(t, from, to) ==
    /\ pc[t] = "idle"
    /\ at[t] = from
    /\ at' = [at EXCEPT ![t] = to]

-----------------------------------------------------------------------------
(* Semaphore: both operations hold the semaphore's mutex.                  *)

\* Mutant: the count is raised without waking the waiter.
PostWithoutNotify == count' = count + 1 /\ UNCHANGED waiting

Post == count' = count + 1 /\ waiting' = FALSE

-----------------------------------------------------------------------------
(* Logger::~Logger and write *)

\* The message is built and write is called: enqueue begins.
Write(t, l) ==
    /\ t \in Loggers
    /\ ~exitFlag
    /\ Len(log) < MaxEnq
    /\ Move(t, "out", "write")
    /\ level' = [level EXCEPT ![t] = l]
    /\ \E v \in Values : NewNode(t, v)
    /\ UNCHANGED <<count, waiting, exitFlag, output>>

\* enqueue has returned: sem_.post(), then the logger decides on a flush.
WritePost(t) ==
    /\ Move(t, "write", IF level[t] = "error" THEN "flush" ELSE "out")
    /\ Post
    /\ UNCHANGED <<vars, level, exitFlag, output>>

-----------------------------------------------------------------------------
(* run *)

RunCheck ==
    /\ Move(Writer, "check", IF exitFlag THEN "ended" ELSE "wait")
    /\ UNCHANGED <<vars, level, count, waiting, exitFlag, output>>

\* wait(): nothing to take, block until a post notifies.
RunBlock ==
    /\ at[Writer] = "wait"
    /\ ~waiting
    /\ count = 0
    /\ waiting' = TRUE
    /\ UNCHANGED <<vars, at, level, count, exitFlag, output>>

RunWait ==
    /\ ~waiting
    /\ count > 0
    /\ Move(Writer, "wait", "flush")
    /\ count' = count - 1
    /\ UNCHANGED <<vars, level, waiting, exitFlag, output>>

-----------------------------------------------------------------------------
(* flushAll, called by the writer thread, the owner and, when an error is  *)
(* logged, by the thread that logs it                                      *)

AfterFlush(t) ==
    CASE t = Writer -> "check" [] t = Owner -> "ended" [] OTHER -> "out"

FlushDequeue(t) ==
    /\ Move(t, "flush", "dequeue")
    /\ LoadTail(t, "loadNext")
    /\ UNCHANGED <<level, count, waiting, exitFlag, output>>

\* dequeue has returned: write the message and go on, or the flush is over.
FlushWrite(t) ==
    /\ Move(t, "dequeue", IF ret[t] THEN "flush" ELSE AfterFlush(t))
    /\ output' = IF ret[t] THEN Append(output, out[t]) ELSE output
    /\ UNCHANGED <<vars, level, count, waiting, exitFlag>>

-----------------------------------------------------------------------------
(* ~AsyncLogWriter *)

\* Begun when no other thread is logging any more.
DtorExitFlag ==
    /\ \A t \in Loggers : at[t] = "out"
    /\ Move(Owner, "out", "dtorPost")
    /\ exitFlag' = TRUE
    /\ UNCHANGED <<vars, level, count, waiting, output>>

DtorPost ==
    /\ Move(Owner, "dtorPost", "join")
    /\ Post
    /\ UNCHANGED <<vars, level, exitFlag, output>>

\* Mutant: the destructor flushes without joining the writer thread.
DtorNoJoin ==
    /\ Move(Owner, "join", "flush")
    /\ UNCHANGED <<vars, level, count, waiting, exitFlag, output>>

DtorJoin ==
    /\ at[Writer] = "ended"
    /\ Move(Owner, "join", "flush")
    /\ UNCHANGED <<vars, level, count, waiting, exitFlag, output>>

-----------------------------------------------------------------------------

QueueStep(t) ==
    /\ EnqueueStep(t) \/ DequeueStep(t)
    /\ UNCHANGED writerVars

ThreadStep(t) ==
    \/ QueueStep(t)
    \/ WritePost(t)
    \/ FlushDequeue(t) \/ FlushWrite(t)

RunStep == RunCheck \/ RunBlock \/ RunWait

DtorStep == DtorPost \/ DtorJoin

WriterNext ==
    \/ \E t \in Loggers, l \in Levels : Write(t, l)
    \/ \E t \in Threads : ThreadStep(t)
    \/ RunStep
    \/ DtorExitFlag
    \/ DtorStep

\* Threads that are running go on; nobody has to log or to destroy the writer.
WriterFairness ==
    /\ \A t \in Threads : WF_allVars(ThreadStep(t))
    /\ WF_allVars(RunStep)
    /\ WF_allVars(DtorStep)

WriterSpec == WriterInit /\ [][WriterNext]_allVars /\ WriterFairness

-----------------------------------------------------------------------------
(* Properties *)

InDequeue(t) == pc[t] \in {"loadNext", "take", "store", "delete"}

\* dequeue "must be called in a single thread" (LockFreeQueue.hpp:52): no two
\* threads are inside it together.
OneThreadInDequeue ==
    \A s, t \in Threads : InDequeue(s) /\ InDequeue(t) => s = t

\* stdout gets the messages in the order of their enqueues, none twice; when the
\* destructor is over, every message given to write is there, whatever the
\* writer thread had got to when it saw exitFlag_.
OutputIsLog ==
    /\ Len(output) <= Len(log)
    /\ output = SubSeq(log, 1, Len(output))
    /\ at[Owner] = "ended" => output = log

\* A message given to write reaches stdout without a further call.
EventuallyWritten ==
    \A i \in 1..MaxEnq : (Len(log) >= i) ~> (Len(output) >= i)

\* A destructor that has begun ends: the writer thread sees exitFlag_ or is
\* woken by the last post, and the join returns.
DestructorEnds == exitFlag ~> at[Owner] = "ended"

\* What is logged is written, with or without the destructor's help.
WriterFinishes == EventuallyWritten /\ DestructorEnds

\* One consumer at a time, and its output is the log.
LogSafe == OneThreadInDequeue /\ OutputIsLog
-----------------------------------------------------------------------------
(* The inductive invariant, for a program that logs nothing from kError up *)

Flushers == {Writer, Owner}

\* Who can be where: the loggers enqueue, the other two dequeue, and the owner
\* begins to when the writer thread has ended.
WriterSane ==
    /\ phase = "open"
    /\ at \in [Threads -> Places] /\ level \in [Threads -> {"info"}]
    /\ exitFlag \in BOOLEAN /\ output \in Seq(Values)
    /\ \A t \in Loggers :
          /\ at[t] \in {"out", "write"} /\ pc[t] \in {"idle", "exchange", "link"}
          /\ at[t] = "out" => pc[t] = "idle"
    /\ \A t \in Flushers : pc[t] # "idle" => at[t] = "dequeue" /\ InDequeue(t)
    /\ at[Writer] \in {"check", "wait", "flush", "dequeue", "ended"}
    /\ at[Owner] \in {"out", "dtorPost", "join", "flush", "dequeue", "ended"}
    /\ at[Owner] \in {"flush", "dequeue", "ended"} => at[Writer] = "ended"
    /\ at[Owner] # "out" => exitFlag /\ \A t \in Loggers : at[t] = "out"

\* t has taken a message and not written it yet.
Holding(t) == at[t] = "dequeue" /\ (pc[t] = "delete" \/ (pc[t] = "idle" /\ ret[t]))

OutputBehind ==
    /\ \A t \in Flushers : Holding(t) => taken = Append(output, out[t])
    /\ (\A t \in Flushers : ~Holding(t)) => taken = output

\* The owner's flush ends when it has found the queue empty for good.
Flushed ==
    (at[Owner] = "dequeue" /\ pc[Owner] = "idle" /\ ~ret[Owner]) \/ at[Owner] = "ended"
      => Len(taken) = Len(log)

WriterInv == IInv /\ WriterSane /\ OutputBehind /\ Flushed
=============================================================================
