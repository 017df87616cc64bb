# A TLA+ model of cooper

cooper is a C++ network library in the tradition of one event loop per thread:
`cooper/util` holds a lock-free queue, a logger, a thread pool, buffers and a
timing wheel; `cooper/net` holds event loops, timers, connections, a server, a
client, TLS and an HTTP server. This directory models the library from its
lock-free queue up to the HTTP server, checks the models with TLC on small
instances, and proves with TLAPS, for every instance, the safety of the queue, the log
writer, the event loop, the thread pool, the timers and the timing wheels with their
timeouts, the connection, the server, the client, the buffer, TLS, and the HTTP server's
files and keep-alive entries.

Contents: [inventory](#inventory), [modules](#modules-and-how-they-correspond-to-the-code),
[runs](#runs), [bounds](#bounds), [fairness](#fairness), [proofs](#proofs),
[disagreements](#where-code-and-documentation-disagree),
[not modelled](#not-modelled), [plan](#plan).

## Inventory

| Component | State | Operations | Talks to |
|---|---|---|---|
| `MpscQueue` (util/LockFreeQueue.hpp) | `head_`, `tail_`, nodes | `enqueue` (any thread), `dequeue`, `empty`, destructor (one thread) | `EventLoop` (two queues), `AsyncLogWriter` |
| `AsyncLogWriter`, `Semaphore`, `Logger` | message queue, `exitFlag_`, the semaphore's counter | `write`, `run` (writer thread), `flushAll`, destructor; a log line's destructor calls output and flush functions | every thread that logs |
| `EventLoop` | `looping_`, `quit_`, `callingFuncs_`, `funcs_`, `funcsOnQuit_`, wake-up eventfd | `loop`, `quit`, `queueInLoop`, `runInLoop`, `runOnQuit`, timers | everything in net/ |
| `EventLoopThread` | the loop, three promises, `once_` | thread function, `run`, `wait`, destructor | `EventLoop` |
| `EventLoopThreadPool` | its threads | `start`, `wait`, `getLoops` | `TcpServer` |
| `ThreadPool` | task queue, mutex, condition, `stop_` | `addTask`, `func` (workers), `stop` | the program |
| `TimerQueue`, `Timer` | the heap `timers_`, `timerIdSet_`, the timerfd | `addTimer`, `invalidateTimer`, `handleRead`, `reset` | `EventLoop`, callbacks |
| `Channel`, `EpollPoller` | `events_`, `index_`; the table of channels | `update`, `remove`, `handleEvent`; `updateChannel`, `removeChannel`, `poll` | loop, kernel |
| `TcpConnectionImpl` | `status_`, `writeBufferList_`, `sendNum_`, `closeOnEmpty_`, the channel's events | `send*`, `sendFile`, `sendStream`, `shutdown`, `forceClose`, channel callbacks | loop, socket, server |
| `Acceptor`, `TcpServer` | `connSet_`, `ioLoops_`, `nextLoopIdx_`, `timingWheelMap_`, `loopPoolPtr_` | `start`, `newConnection`, `connectionClosed`, `stop` | loops, connections |
| `TimingWheel` | wheels of buckets, a tick counter | `insertEntry`, the tick, destructor | `TcpServer`, `AppTcpServer` |
| `Connector`, `TcpClient` | `status_`, `connect_`, `fd_`, the channel, the retry interval; `connection_`, the client's callbacks | `connect`, `disconnect`, `stop`, `start`, `handleWrite`, `handleError`, `retry`, destructors | loop, connection, kernel |
| `OpenSSLProvider` | the state of the handshake, `rbio_`, `wbio_`, `writeBuffer_` | `startEncryption`, `recvData`, `sendData`, `sendBufferedData`, `close` | `TcpConnectionImpl`, OpenSSL |
| `AppTcpServer` | handler tables, ping-pong and kick-off entries | receive callback, pings, `stop` | `TcpServer`, wheels |
| `HttpServer`, `HttpRequest`, `MultipartFormDataParser` | routes, mount points, `keepAliveRequests`, the parser's state | `addEndpoint`, `addMountPoint`, `removeMountPoint`, the receive callback, `parse` | `TcpServer`, the program's handlers |
| `MsgBuffer` | `head_`, `tail_`, `initCap_`, `buffer_` | append, retrieve, integers, grow, `readFd`, `swap` | connections, parsers |
| `Socket`, `InetAddress`, `LogStream`, `Date`, `Utilities` | little or none | wrappers and conversions | |

Threads interact in three ways only: through an `MpscQueue` and a wake-up
(functions for a loop, log messages), through a mutex with a condition variable
(the thread pool, the semaphore), and through promises (`EventLoopThread`,
`TcpServer::stop`). What is hard:

- the window between an `exchange` and the link in `enqueue`, and the freeing of
  nodes a producer may still hold;
- the window between the last look at a queue and going to sleep (loop, workers,
  log writer), and flags (`quit_`, `stop_`, `exitFlag_`) that are set next to it;
- work that is "done here or queued" depending on the calling thread, so that two
  calls of one thread can change places (`send`/`shutdown`,
  `runAfter`/`invalidateTimer`);
- callbacks that re-enter the object that called them: timers invalidated while
  they expire, connections closed while their events are handled;
- the order of destruction: loops, wheels, the acceptor and connections in
  `TcpServer::stop`, threads in `~EventLoopThread`, the connector under its client;
- events that belong to an attempt that was given up (`Connector`), and descriptors
  whose owner changes while another thread stops the client;
- data that waits in more than one place (the list, `writeBuffer_`, `wbio_`, the
  socket) and must leave in one order;
- input that arrives in parts: a request, a form or a TLS record cut anywhere.

What makes each component correct: the queue hands out what was put in, once, in
order, and touches no freed node; the writer prints each message once, all of
them before its destructor returns; the loop never sleeps over a function; the
thread's `run` returns a loop that is looping; no worker sleeps over a task and
`stop` returns; the timerfd is armed for the earliest timer and no valid timer is
lost; a connection's bytes leave whole, in order and before its FIN, and it is
closed once; an entry of the timing wheels acts in its tick, and a connection is closed
for its silence within a second of its timeout; the server loses every
connection exactly once and never has two channels for one descriptor; a client's
attempt ends, and a connection it reports is one; a buffer is the string its calls
describe; TLS records leave in order, and no connection is given to the program as open
before its peer is accepted; a form reaches the program whole however it was split, a good request is
answered, and a file that is sent lies under its mount point. `PROJECT.json` lists the hazards line by line with the
properties that address them.

## Modules and how they correspond to the code

Every module has the component's members as variables, one action per function or
per step another thread can see, and the properties at its end. Operators marked
"Mutant" are plausible bugs, used to show that a property can fail; no
specification uses them. `MC*` modules only give values to constants.

**FifoQueue** is what a lock-free multi-producer queue promises: an item claims its
place first (`Claim`) and becomes visible later (`Publish`); the reader takes the
oldest item once it is visible (`Take`).

**MpscQueue** models util/LockFreeQueue.hpp at the level of single atomic accesses.
`NewNode`, `Exchange`, `Link` are the three lines of `enqueue`; `LoadTail`,
`LoadNext`, `TakeData`, `StoreTail`, `DeleteTail` those of `dequeue`; `Empty`,
`EmptyNext` are `empty`; `BeginDestroy`, `DeleteFront` the destructor. Nodes are
addresses from a finite set, `live` says which are allocated, and a freed address
may be given out again at once. `log`, `taken` and `order` are history variables.
Memory orders are taken as sequentially consistent: the acquire/release pairs on
`next_` and `head_` are what justifies reading a node after seeing the pointer to it.

**AsyncLogWriter** extends MpscQueue: the message queue is used step by step, and
`Post`, `RunBlock`, `RunWait` are the semaphore with its mutex and condition. `Write`
is a log line's destructor, which also runs the flush function for errors.

**EventLoop** models `loop`, `quit`, `queueInLoop`, `runOnQuit` and the wake-up
descriptor. Both queues appear as FifoQueue abstracts them, since MpscQueue is shown
to implement it: the sequence of claimed places and the visible prefix. A function
is plain, requeues, quits the loop or throws; the loop may be entered again after it
has returned. **EventLoopThread** extends it with the thread, the promises and the
owner's calls.

**ThreadPool** models the mutex as the atomicity of steps under it, the wait of a
condition variable as three steps (test, sleep, wake), and spurious wake-ups.

**TimerQueue** has a discrete clock. A timer is due at a tick; the timerfd is off or
set for a tick; `Tick` may pass a due time, by at most `MaxLate`, so that handling is
late as in a busy loop. `HandleBegin`, `CallNext`, `CallbackReturns`/`CallbackThrows`,
`HandleEnd` are `handleRead`, and between them the callback may add and invalidate.
Other threads' calls go through the loop's queue of functions when the code queues them.

**TcpConnection** is one connection: status, channel, write list, the socket's send
buffer of `Cap` chunks, and the peer. Memory, files and streams are three kinds of
message of `MsgLen` chunks. A send runs at once or is queued depending on `sendNum_`
and on the thread; the channel's close, read and write callbacks run one after the
other in one pass over the same `revents_`.

**TcpServer** is the server with its acceptor, its own or the program's I/O loops, the
poller's registration of channels and the life of connections. A connection exists as
long as `connSet_` or a queued function refers to it; then its descriptor can be
accepted again. A handler is an operator from a "world" (connections, `connSet_`,
queues, two flags) to a world, so that nested calls are composed as in the code. The
failure of an `assert` sets `failed`; the use of a destroyed loop or acceptor sets
`dead`. `stop` copies `connSet_` (`closing`) and closes the copy one connection per step,
while the other loops go on; the server's loop is busy with it until the last one.

**TimingWheel** has the wheels as sequences of buckets. A tick takes one step per wheel
(`TickBegin`, `TickNext`) and one per entry of the bucket that is destroyed, because the
destructor of an entry may insert others into wheels that have not had their turn yet.
An entry wrapped in `CallbackEntry`s is an item with the `path` it will take through
the lower wheels; its ticks left are history. The counter is kept modulo a full turn of
the last wheel. **ConnTimeouts** extends it with one connection and what two servers
put into the wheels for it: `AppTcpServer`'s ping-pong and kick-off entries, and
`TcpServer`'s entry for idle connections with `extendLife` and `keepAlive`. Ticks come
once a second, but a connection reads and writes between them, and `extendLife` looks at
the time since its last update: a second has `Parts` parts, `moment` says which one it
is, and silence is counted in parts.

**TcpClient** is `Connector.cpp` and `TcpClient.cpp` with the dispatch of
`Channel.cpp`. Attempt `n` opens descriptor `n`. The handlers map one record `st` (the
connector, the client, the descriptors, the queue of the loop) to its next value, and
objects are destroyed (`Reap`) when nothing holds them any more, a queued function
included. `handleEvent` is three steps (`EventClose`, `EventError`, `EventWrite`),
because each callback may run the program's code, which may call `connect`, `stop`,
`disconnect` or destroy the client; `HandleWriteRest` is the part of `handleWrite` after
its test of `status_`, where another thread's `stop()` may fall. `lost` collects the
descriptors the code forgets, and `excuses` the calls the code does not survive: a
`connect()` over something that is under way (`again`), and one when nothing is but
`status_` was not reset (`stale`), are told apart.

**ByteString** is what a buffer promises: a string of bytes that grows at both ends and
is read from the front, with big-endian integers. **MsgBuffer** has the vector, `head_`,
`tail_` and `initCap_`, with the real arithmetic of moving, growing, growing in front
and cutting, and integers stored as a little-endian host does. Buffers are made with any
number of bytes, those below `kBufferOffset` included, as the constructor allows. `call` records what was
called and returned, so that the refinement also covers results. The view `LiveView`
leaves out the bytes outside `head_..tail_`, which no operation reads.

**TlsConnection** is `OpenSSLProvider.cpp` with the parts of `TcpConnectionImpl.cpp` that
serve it, in the loop thread. A record is two chunks on the wire, so that a socket can
take half of one. The peer decides what OpenSSL sees (a good flight, a bad one, data,
close_notify, junk); OpenSSL's own behaviour is external. A read is `RecvData`, followed
by `ProcessHandshake`, `HandshakeReturns` and `ProcessApplicationData`, between which
the program's callbacks send, shut down and force-close. `handleClose` calls the
connection callback whatever became of the handshake (`downs`).

**MultipartParser** has one action per state of `MultipartFormDataParser::parse`, and
`ReadMore` for its own reads from the socket. A byte is a token; a header line of a part
is two tokens, so that it can be cut in the middle. **HttpServer** extends it: the
program sets up routes and mount points, then one connection is served. `RecvMsg` is the
whole receive callback (parse a request, route or serve a file, answer, count
keep-alive, close) up to a form's handler, which runs `ParseStep`s and `HandlerReturns`.
An answer is its header with its body, given to `send`, or its header and then a file,
given to `sendFile`, which treats a full socket differently (`SendMemory`, `SendFile`).
Paths are sequences of characters and `IsValidPath` and `Stat` work on their components.
`hist` records what was answered and why. `MCHttpServer` defines the scripts: set-up
calls and the requests a client sends.

A type invariant is a conjunct of one invariant of its module (`NoLostWakeup`,
`NoSleepOverTasks`, `ValidTimersKept`, `WriteListSane`, `PollerMatches`, `EntriesOnTime`,
`DescriptorsOwned`, `IndicesSane`, `NothingBeforeHandshake`, `KeepAliveAccounts`), so
that each run checks it once.

## Runs

| Run | States | What it shows |
|---|---|---|
| `MpscQueue` | 228 000 | Two producers, one of them the consumer (a loop that queues for itself). No freed node is read, written or freed again (`MemorySafe`); delivery is in the order of the exchanges (`DeliveredInOrder`); an item is hidden only behind an enqueue in progress (`HiddenOnlyByPending`); the destructor frees everything (`NothingLeaked`); every item is delivered (`EventuallyDelivered`); the queue implements FifoQueue (`ImplementsFifo`). |
| `AsyncLogWriter` | 160 000 | Two logging threads, the writer and the owner: one thread in `dequeue` at a time, output once, in order, and complete when the destructor is over (`LogSafe`); every message is written and the destructor ends (`WriterFinishes`). |
| `EventLoop` | 77 000 | A loop and the `EventLoopThread` around it. Two threads and the loop itself queue functions, register quit functions and quit, and functions throw: no lost wake-up (`NoLostWakeup`), quit functions that are visible at the end run (`QuitFuncsRun`), a function is called or the loop ends and `quit` ends a loop that has begun (`LoopResponds`). `run()` by two threads, `wait()` and the destructor at any time: `run()` returns only when `quit_` has been cleared (`RunReturnsLooping`), and `run()` and the destructor end, unless the loop was quit before its first iteration (`CallsReturn`). |
| `ThreadPool` | 6 000 | One `notify_one` per task is enough (`NoSleepOverTasks`); every task is run, and `stop` returns unless its notification fell between a worker's test and its wait (`WorkersRespond`). |
| `TimerQueue` | 294 000 | The timerfd is armed for the earliest timer whenever the loop is outside `handleRead` (unless a callback threw), and valid timers stay in the heap (`TimersKept`); one-shots are called once and erased timers not again (`NoStaleCall`); every timer is served (`TimersAreServed`). |
| `TcpConnection` | 239 000 | Order and wholeness of messages on the wire (`WireInOrder`), the assertions on the write list, one close callback and no events on a closed connection (`ConnectionSane`), FIN after the data (`FinAfterData`), and everything accepted is sent or the connection ends, unless a file is in the way (`SendingEnds`). |
| `TcpServer` | 100 000 | The assertions of server, channel and poller hold under closes by peers, by callbacks and by `stop` and under reuse of descriptors, active channels exist, and what `stop` destroyed is used again only in the cases `NothingDeadIsUsed` names (`ServerSafe`); the poller's table is that of the channels (`PollerMatches`); `stop` returns and closes all (`StopCompletes`). |
| `ConnTimeouts` | 67 000 | At every value of the tick counter an entry leaves the wheels in its own tick (`EntriesOnTime`). A peer that answers each ping in time is never kicked off and one that does not is; a connection is closed as idle only after more than its timeout less a second of silence, because `extendLife` ignores activities less than a second apart, and before its timeout and a second are over (`TimeoutsInTime`). |
| `TcpClient` | 211 000 | A client without retry and a connector with it, used by the loop thread and another one: no assertion fails, nothing destroyed is used, and a connection reported is one, but for the calls the properties name (`ClientSound`); every open descriptor has an owner, but for three leaks (`DescriptorsOwned`); every attempt ends and a client that goes closes its descriptors (`AttemptsEnd`). |
| `MsgBuffer` | 2 900 | Any sequence of calls keeps the indices inside the vector, but for a buffer made with fewer bytes than are kept in front and cut by `retrieveAll` (`IndicesSane`), and a buffer whose indices are inside implements a string of bytes, results included (`ImplementsByteString`). |
| `TlsConnection` | 103 000 | Client and server: records leave in the order OpenSSL made them and before the FIN (`TlsWireWhole`); the program is given no open connection and no message before the peer is accepted, and is told of the end exactly once (`NothingBeforeHandshake`); what was taken is sent unless the last message is stranded (`SendingEnds`). |
| `HttpServer` | 229 000 | Twenty-five scripts, split into reads in every way, with clients that stop in the middle: a form's parts reach the callbacks whole and in order (`MultipartContentWhole`), a request is refused as bad only if it is or in the cases named (`OnlyBrokenIsRefused`), files come from under the mount point and past the auth callback (`ServedInside`), the keep-alive entry counts the answers and goes with the connection the server closes (`KeepAliveAccounts`), and requests are answered or the connection ends, unless the parser goes round for ever or a file stalls behind its header (`RequestsAnswered`). |

A property whose name stands for two or three related ones is their conjunction; the
parts are defined, with a comment each, just above it.

Several properties name exceptions, each one a behaviour of the code found while
modelling; they are listed under "Where code and documentation disagree".

Deadlock checking is off in every run but `MsgBuffer`'s: after the destructor, or when
the bounded inputs are used up, the programs really stop. Progress is stated as liveness
instead.

## Bounds

- `MpscQueue`: three enqueues with three nodes. The dummy and two items fill the
  memory, so addresses are reused while old pointers to them are still held, and a
  list with two gaps (two producers before their link) occurs. The proofs remove the
  bound.
- `AsyncLogWriter`: two messages, one per thread or two of one.
- `EventLoop`: two functions of any kind, one call of `loop()`, as `EventLoopThread`
  makes. One function between publishing and wake-up while another is called is the
  case the wake-up protocol is about. What a quit leaves behind for a second `loop()` is
  covered by the proof (`LoopInvariance`), which puts no bound on the calls.
- `ThreadPool`: three workers, three tasks: a notified worker can lose its task to
  another one while a third sleeps.
- `TimerQueue`: two timers, delays 1 and 2, lateness up to 2 ticks: both expire in
  one `handleRead`, or one becomes due during the other's callback. A repeating
  timer is called as long as the clock goes on; the count of its calls, which only
  `NoStaleCall` reads, stops at `MaxFired`, here one.
- `TcpConnection`: two messages of two chunks through a buffer of one chunk, so
  every partial write occurs, at the head of the list and behind another message.
- `TcpClient`: three attempts, so that a descriptor of a first attempt can be
  forgotten by a second and an event of it taken for a third; one call of `stop` or
  `disconnect`, besides the destructor; retry delays 1, 2 and 3 (the cap is reached in
  three).
- `MsgBuffer`: bytes are bits, three bytes are kept in front, buffers are made with one
  byte or with three, up to five bytes are readable, and integers have one or two bytes:
  each branch of `ensureWritableBytes` and `addInFront` is taken, the extension buffer of
  `readFd` (two bytes) included. The cut of `retrieveAll` is taken by the buffers made
  with one byte, and by no other.
- `TlsConnection`: a socket of three chunks, which is one record and a half; messages
  of one and of two records, memory and files; two sends and two messages from the peer.
- `HttpServer`: each script has at most three requests; forms have up to two parts,
  with content that begins like the delimiter; at most 0 or 3 keep-alive requests; the
  socket holds one answer, so that a client that is slow to read finds the next one cut
  after its header, in memory or before a file, and a third one waits behind it. The boundary is one token: with
  CR, LF and the dashes the delimiter has five, and content shares up to three of
  them.
- `TcpServer`: two connections, two descriptors, one I/O loop beside the main one;
  three set-ups (the program's loops with idle timeout; own pool without and with).
- `ConnTimeouts`: three wheels of two buckets and a timeout of five ticks, so that
  entries start in each wheel and in the last bucket of the last one; a kick-off
  timeout of one tick; two names for kick-off entries. The counter takes all its values.
  A second has three parts, the least that shows a connection closed early: with halves
  the wheels always add what an ignored activity costs.

No state constraint is used: bounds are in guards, and liveness is not affected by a
cut-off state space. Symmetry is not used where liveness is checked.

## Fairness

Weak fairness is assumed for a thread that is inside a library call and can go on, for
a loop that has something to handle, and for the clock. It is not assumed that anybody
calls anything, that a function throws, that a peer resets or that a wake-up is
spurious. The poll of `EventLoop` returns only when the wake-up descriptor or a channel
is readable: its ten-second timeout is deliberately not used, since a function that
waits for the timeout is a lost wake-up. In `TcpConnection`, `RunFunc` is strongly fair,
because every iteration of the loop runs the queued functions after the events,
however often events arrive; `PeerReads` is weakly fair, since a peer that never reads
is entitled to make a sender wait. In `TcpServer` a loop that goes round does so whether
or not there are events (the poll's timeout bounds it). In `TcpClient` the kernel
decides every attempt in the end, and a timer that is due fires. In `TlsConnection` the
peer reads and a writable channel is served however often input arrives (`EventWrite` is
strongly fair); the peer need not send, answer or close. In `HttpServer` the loop takes
what has arrived, and a client reads its answers; it need not send the rest of a request.
There `WF_sock(Takes)` stands for fairness of `RecvMsg`: a step that takes bytes from the
socket between callbacks is a `RecvMsg` step, or a reset that ends the connection.

## Proofs

Every proof module states, for every value of the constants that satisfies the
component's `ASSUME`, that the specification keeps an inductive invariant (`IInv`,
`LoopInv`, `TimerInv`, `WriterInv`, `PoolInv`, `SoundInv`, `ConnInv`; TLC confirmed each on the run's instance before it was proved),
and derives from it the properties the runs check. There is one lemma per action, and
one step per conjunct that the action can disturb.

| Module | Theorem | What it states |
|---|---|---|
| `UtilProofs` | `MemorySafety`, `Delivery`, `Hiding`, `NoLeak`, `TypeCorrect` | the four safety properties of the queue and its types, with one consumer |
| | `Implementation` | the queue implements FifoQueue (`ImplementsFifo`), with one consumer |
| | `LogIsWritten` | `LogSafe`, for programs that log nothing from `kError` up |
| | `OneNotifyIsEnough` | `NoSleepOverTasks` |
| | `IndicesInside`, `BufferIsString` | `IndicesSane`, and that the buffer implements ByteString |
| `EventLoopProofs` | `NeverSleepsOverWork`, `RunsWhatIsOwed`, `RunReturnsFromALoop` | `NoLostWakeup`, `QuitFuncsRun`, `RunReturnsLooping`; `LoopInvariance` is the same invariant for a loop that is called again and again without an EventLoopThread |
| | `NoTimerLost`, `NoStaleCallback` | `TimersKept`, and the action property `NoStaleCall` |
| | `EntriesLeaveOnTime`, `ClosedInTime` | `EntriesOnTime`, `TimeoutsInTime` |
| `TcpConnectionProofs` | `SendsInOrder`, `AssertionsHold`, `GracefulEnd` | `WireInOrder`, `ConnectionSane`, `FinAfterData` |
| `TlsConnectionProofs` | `AcceptedFirst`, `RecordsWhole` | `NothingBeforeHandshake`, `TlsWireWhole` |
| `TcpClientProofs` | `OwnersOfDescriptors` | `DescriptorsOwned` |
| `TcpClientSoundProofs` | `ClientIsSound` | `ClientSound` |
| `TcpServerProofs` | `ServerIsSafe`, `PollersMatch` | `ServerSafe`, `PollerMatches` |
| `HttpServerProofs` | `NothingOutside`, `AnswersCounted` | `ServedInside`, `KeepAliveAccounts` |

**MpscQueue.** Under `SingleConsumer` (the note at LockFreeQueue.hpp:52) and
`QueueAssumption` (null is no node, consumers and producers are threads). None of the
properties is inductive. `MemorySafe` needs to know that the node a producer
holds as `prevhead` is still in the list, which follows because a node whose successor
is not linked yet is never passed by the consumer. `IInv` therefore describes the
whole list: `order` is the sequence of all nodes in the order of their exchanges, and
`First..Last` the part that is the list now. Its conjuncts are `ListShape` (the ends,
no node twice), `ListLinks` (a node points to the next one, or exactly one producer is
about to make it do so), `Roles` (who can be at which step), `ConsumerView` (what the
consumer has read is still true), `ListData` (the waiting items are those of the log),
`NewNodes` and `OldTail` (nodes outside the list belong to one thread), `LiveNodes`
(exactly these are allocated) and `Drained`. For the refinement the places of FifoQueue
are the nodes after the dummy; `Exchange` claims, `Link` publishes, `TakeData` takes and
every other step stutters.

**AsyncLogWriter** is on top of the queue, and so is its proof: the lemmas about the
steps of `dequeue` need only that no other thread is in it (`Alone`), not that there is
one consumer, and `WriterSane` says that the writer and the destructor are never in it
together, because the owner flushes after the join. `OutputBehind` relates what was taken
to what was written, `Flushed` says why nothing is left when the destructor returns. The
hypothesis `NoErrors` is needed: a thread that logs an error calls `flushAll` itself,
beside the writer. `WriterAssumption` names who produces and who consumes.

**EventLoop, EventLoopThread.** `WorkIsAnnounced` strengthens the wake-up property to
every place from which the loop thread reaches the poll without looking at `funcs_`;
`OwedIsSeen` follows the quit functions through the end of `loop()`. `ThreadSane` says
what the places of the thread say of its loop.

**ThreadPool.** `WorkersSane`: between lock and wait a worker holds the mutex, so the
queue it found empty is empty when it begins to sleep. The sum of tasks and awake workers
is then counted over finite sets.

**TimerQueue.** `AddedOnce` (a timer that waits to be added is nowhere else),
`KnownTimers` and `OneShotsDone`; `NoStaleCall` is an action property and follows from
them step by step. The delays need not be finitely many, only bounded, since the longest
one is `MaxDelay`.

**TimingWheel, ConnTimeouts.** For any number of buckets and any longest timeout, hence
any number of wheels (`WheelAssumption`: both are above one, as the constructor asserts).
`ConnInv` says what a place is worth: an item in bucket `j` of wheel
`i` has `j` turns of the wheels below it, less what the counter has already gone of such a
turn (`Leaves`), and then what the rest of its path adds up to (`Sums`); that is exactly the
time it has `left`. In a tick a wheel that still has its turn counts one less. An insertion
keeps this because the delay is carried from wheel to wheel with the counter's digits
(`InsertedLives`), and it always finds a wheel that reaches far enough (`DelayBound`); a tick
keeps it because a wheel turns when those below it have gone round (`WholeTurns`). The sums
and the turns are inductions along the wheels, made with a least counterexample in a
set of numbers. The excepted single wheel is the case `Roomy` excludes.

`TimeoutsInTime` says nothing of wheels, and its proof (`PeerRules`, on top of `ConnInv`)
little: what it needs of them is the set `Held` of the entries in them with the ticks each has
left, to which an insertion adds, which a tick ages, and from which `DropEntry` takes those
that have none left. `IdleRule`: no entry lasts longer than the silence may (`Idle + 1`
seconds), and one lasts beyond `Idle - 1` seconds of silence and, while the update of
the wheels is less than a second old, beyond `Idle` seconds since that update
(`Covers`). The second part is what carries the first over an activity that
`extendLife` ignores. `PingRule`: each ping that waits for its pong has an armed kick-off
entry with exactly the time left for the pong (`EveryPingWatched`), no other armed
entry exists (`OnlyPingsWatched`), the next ping is sent when those before it are over
(`PingsApart`), and `kickoffEntries_` has the entry of the one that is not
(`KickoffKnown`), so that a pong resets the right entry.

**TcpConnection.** `Ordered` says that the wire, then the write list, then the queued
sends are one sequence of chunks: chunks of a message in a row, messages in order, no
empty node but the first. `QueuedInOrder` ties `sendNum_` to the queued sends, which is
what allows a send in the loop thread to bypass the queue. `StatusSane` is about who may
still be told what in each status, and `AcceptedHeld` says where everything accepted is,
so that the FIN comes after it.

**MsgBuffer.** A buffer that is `Sound` holds a string (`Holds`); one lemma per operator
says which string the result holds. `retrieveAll` puts both indices behind the bytes kept
free without looking at the size of the vector; `IndicesSane` is inductive because it
says when that is wrong: a vector that was never cut has exactly `kBufferOffset` bytes
more than it was made with (`Whole`), hence is never longer than twice that unless it was
made with fewer than `kBufferOffset` (`CutShort`). Operations that read or write through
the indices are not called on a buffer that was cut. That every string of bytes is that of
an integer (`Covering`), hence that the integers written and read are big-endian, is
proved by induction on the width, as a least counterexample in a set of numbers. The
provers know nothing of `^`; `PowerAssumption` states what it is, up to the widths used.

**TlsConnection.** `StreamSane`: until an SSL error, what OpenSSL has made is what is on
the wire, in `writeBuffer_` and in `wbio_`, in this order. For `sendTLSData` to keep that
one of the two buffers must be empty, and only `sendData` and `shutdown` look. In the
handshake it is so because of what the peer may say when (`PeerSane`): its first message
finds nothing made, its last one comes when all of the first flight has been read, and
the socket then has room for the last flight, which stays in `wbio_` while the program's
callback runs (`StageSane`). `StatusSane` says which callbacks have been called in each
state, that of the end included, and that a connection whose channel writes is connected
and has a node in its list. The one assumption on a constant is that the socket takes at least two chunks,
one record, at a time.

**TcpClient.** `DescriptorsOwned` says that something closes each open descriptor, and
`IInv` is sharper about what. The pending channel never closes one: its descriptor is
also `fd_`, which `~Connector` closes unless it was handed over, so the owners are the
connector, the rest of `handleWrite`, and a connection (`OwnedIn`). An error closes the
descriptor of the channel it finds; that this one is `fd_`, whenever `fd_` is still the
connector's, is `ChannelIsFd`, also inside `handleEvent`, where the channel may have been
replaced by a call of `connect()`. `Kept` says that the client holds its connector, so
that no start, retry or event finds it destroyed while a descriptor depends on it. The
bound on descriptors is part of the invariant, queued starts counted, since a step that
opens one more must name it. Objects that go are destroyed as a set (`DestroyConns`).

`ClientSound` needs the whole history of the calls. Its invariant is `SoundInv`, on top of
`IInv`: as long as nothing of what `Excuse` names has happened, the client is `Orderly`.
There is one attempt at a time (`OneAttempt`), counted over a queued start, a retry timer,
the pending channel, a `handleWrite` under way and a connection; that is why the
assertions about `status_` hold, and no new channel meets an old one. The descriptor of
the attempt is open and no connection's yet (`FreshOnes`), so that no connection object is
made twice for it. The channel in `handleEvent` is the pending one or waits in
`funcs_` to be released (`ChannelStays`). A connection has one owner, who closes
it, and one queued destruction (`ConnectionKept`), and its callback is the client's only
as long as there is a client. A queued start finds its connector, because the client
holds it, or `stop()` or a removal queued behind the start does (`StartsHeld`). Each half
of a step is carried through a helper of its own (`RemoveConnection`, `HandleClose`,
`Reap`), and so is what it may find. `EventsFit` is separate, since it holds after an
excused call too: what the kernel has decided for the channel in `handleEvent`, which is
what makes a connection that is reported a connection.

**TcpServer.** For any number of loops, connections and descriptors; a server has at
least one I/O loop, and a pool it owns does not hold its own loop (`ServerAssumption`).
None of the three parts of `ServerSafe` is inductive: that `handleCloseInLoop` finds the
connection in `connSet_` depends on how often a close was reported, and that depends on
the status, on the channel and on what waits in two queues. `IInv` says at which stage of
its life each connection is (`InStage`): `Unused`; `Opening`, when `connectEstablished`
waits in its loop; `Open`; `Reported`, closed in its own loop while `handleCloseInLoop`
waits in the server's; `Leaving`, forgotten by `connSet_` while `connectDestroyed` waits;
`Removed`. Each stage fixes status, channel and `connSet_`, and which functions about the
connection wait, where (`Only`) and how often (`Once`); only `forceClose`s may wait at
any stage and in any number. A handler then takes its connection from one stage to
another and leaves the others alone (`Advance`, `Untouched`), which is proved once per
handler and cited by the steps that call it: events, functions and `stop`. A descriptor is given out
again only when nothing refers to its last connection, and by then the channel has
left the poller; `FdsDiffer` is what makes that assertion of the poller hold. `ActiveOK`
says that connections in a list of active channels are in `connSet_` or still have their
destruction in the queue, behind the list. `StopOK` is the progress of `stop`: what has
ended was told to, and only after the last connection of the copy was closed.

**HttpServer.** For every script, file system and split into reads. `ServedInside`:
`isValidPath` counts the level after each component and asks that it is never negative;
the walk of `stat` from a directory is then, at every component, the directory followed
by as many names as the level says, or it has failed. That is an induction along the
path, made as a least counterexample in a set of numbers. The mount points hold
directories, whatever was mounted and unmounted (`MountsSane`). `KeepAliveAccounts` holds
between callbacks only; `EntrySane` carries it through a form that is parsed in steps,
from the entry that was looked up before to the answer that is counted after.
`HttpAssumption` says that paths are made of characters, that files have names, and that
what `stat` answers for nothing is no file.

Only model-checked:

- liveness everywhere: fairness and `ENABLED` are outside the prover's reach;
- `MultipartContentWhole` and `OnlyBrokenIsRefused`, which compare what was parsed with
  what the client meant to send. The scripts of the instance say so, and no assumption
  relates their bytes to it.

## Where code and documentation disagree

Shown by small changes of a run:

- An error logged by any thread runs `flushAll` there (Logger.cpp:136 with the set-up
  of the test programs), against "must be called in a single thread"
  (LockFreeQueue.hpp:52). With `"error"` added to `Levels` in `AsyncLogWriter.cfg`, TLC
  refutes `OneThreadInDequeue`.
- `sendFile` to a full socket (TcpConnectionImpl.cpp:688) returns without asking the
  channel to write, and stalls the connection's write list: the exception `FileInTheWay`
  of `SendingEnds`, without which TLC refutes it.
- `shutdown` in the loop thread (TcpConnectionImpl.cpp:265) overtakes the same thread's
  queued sends, which the comment at line 256 rules out. `FinAfterData` is therefore about
  what has reached the write list.

As exceptions in properties that hold otherwise:

- `ThreadPool::stop` (ThreadPool.cpp:61) notifies without the mutex. A worker that has
  tested `stop_` and not yet begun to wait misses it, sleeps, and `stop` never returns.
- Functions queued just before `quit` takes effect are not called by that `loop()`
  (EventLoop.cpp:134), and a quit function behind an unfinished enqueue is not run
  (EventLoop.cpp:161).
- If a loop is quit before its first iteration, `EventLoopThread::run` never returns
  (EventLoopThread.cpp:59).
- `invalidateTimer` that is carried out before the queued `addTimer` has no effect
  (EventLoop.cpp:218).
- A timer callback that throws leaves the timerfd disarmed and drops the expired
  repeating timers (TimerQueue.cpp:64).
- A file or stream pushed after the close enables the channel again
  (TcpConnectionImpl.cpp:614).
- `TcpServer::stop` that owns its loops ends them before the functions it queued there
  are run, and waits for wheels in loops that have ended (TcpServer.cpp:122-131);
  called by a connection's callback, it destroys an acceptor whose channel may still be
  in the list of active channels (TcpServer.cpp:94).
- An entry inserted by the destructor of another one, inside a tick in which the next
  wheel turns as well, leaves the wheels early (TimingWheel.cpp:25-37 with 67-86): pings
  can come sooner than their interval, and a ping-pong timeout that does not fit into the
  first wheel (AppTcpServer.cpp:73 asks for 100 buckets when the interval is 500 or more)
  kicks off a peer that answers in time. With three buckets, an interval of nine and a
  timeout of three, TLC refutes `PingPongInTime` without its first hypothesis.
- A single wheel with as many buckets as its longest timeout releases an entry of that
  timeout a tick early (TimingWheel.cpp:13 and 82). The servers ask for one bucket more.
- "An idle connection is a connection that has no read or write, kick off it after
  timeout seconds" (TcpServer.hpp:192). An activity less than a second after the last
  update of the wheels is ignored (TcpConnectionImpl.cpp:85), so that a connection may be
  closed up to a second before its silence has lasted that long; and an entry inserted
  between ticks may live up to a second longer. With `Seconds(Idle)` in either place of
  `IdleInTime`, TLC refutes it.
- If the ping-pong timeout reaches the shortest interval between pings, a second
  kick-off entry overwrites the first in `kickoffEntries_` (AppTcpServer.hpp:114), and a
  pong that came in time does not save the connection.
- `Connector` without retry tells nobody of a refused connection (Connector.cpp:67-75),
  and keeps its descriptor until `~Connector` closes it. An error found by `handleWrite`
  leaves `status_` at Connecting, after a success it stays Connected, and a `stop()` by
  another thread before the queued start is run leaves it at Connecting: the next
  `connect()`, with nothing under way, fails the assertion of Connector.cpp:43 (the
  excuse `stale` of `ClientSound`, without which TLC refutes it). `start()`
  queues a bare `this`. `connect()` inside the error callback makes the rest of
  `handleEvent` use the old events for the new attempt. `TcpClient::stop` does not clear
  its `connect_`, and `restart()` is empty. Descriptors leak when an event finds the
  connector stopped, when an attempt overwrites `fd_`, and when the client goes during
  `handleWrite`.
- A TLS message the socket does not take whole, and that is the last one, stays in
  `writeBuffer_`: `sendData` reports it as sent and nobody enables writing. The alert of
  a failed handshake is not sent, and one after an error may overtake buffered records.
  After a `forceClose` by a message callback the remaining messages of the same read are
  still delivered.
- The connection callback is called when a connection ends (TcpConnectionImpl.cpp:220-221)
  also when its handshake failed or its peer was refused, so that the program is told of the end of
  a connection it was never given.
- A buffer made with fewer than `kBufferOffset` bytes, which the constructor allows
  (MsgBuffer.hpp:30), is cut by `retrieveAll` under its own indices (MsgBuffer.cpp:106);
  the next append writes outside the vector. For all others that branch is never taken, since
  `swap` exchanges `initCap_` with the vector and a grown buffer takes the length of the
  new one: a buffer that has grown never shrinks again.
- A file answer whose header fills the socket is not sent: `sendFile` comes right after it
  (HttpServer.cpp:219-221), sendfile gets EAGAIN, and nobody asks the channel to write
  (`Stalled`, an exception of `RequestsAnswered`, without which TLC refutes it). The next
  answer on that connection, or the idle timeout, ends the stall.
- A request that arrives in two reads is refused with 400 and its connection closed
  (the receive callback parses what it has and does not wait). A request without
  Content-Length takes everything in the buffer for its body, and a form's handler leaves
  nothing behind for the next request.
- The keep-alive entry is erased only when the server closes the connection: after a
  close by the peer or by the idle timeout it keeps the connection object and its
  descriptor. It is thread-local, and `Connection: close` is looked at only on the first
  request. `forceClose` right after the last answer drops what the socket did not take.
- The multipart parser runs in the loop thread and waits there: with fewer bytes than
  its delimiter (Http.cpp:160), or at the end of input inside a form (Http.cpp:132-157), it
  goes round for ever (`Stuck`, the exception of `RequestsAnswered`). A part's header cut by
  a read makes `parse` return false.
- `ci` (Http.hpp:417), the equality of header names, takes names that begin with the
  same letter for equal; it is harmless only while the hash table compares cached hashes
  first, and then names are not case-insensitive either.

## Not modelled

- Weak memory beyond sequential consistency.
- The high-water mark of a connection and its byte counters; the descriptor kept free
  for EMFILE; socket options; `moveToCurrentThread` and the thread-local loop pointer.
- Formatting of log lines, addresses, dates, encodings, status and content type tables:
  they keep no state.
- The text inside an HTTP line (`stoul`, which may throw, regular expressions,
  decoding), and the data race of `removeMountPoint` with a request being served.
- The inside of OpenSSL, contexts and ALPN lists, the comparison of host names, the
  cache of sessions, and `startEncryption` on a connection with unsent plain text.
- `AppTcpServer`'s handler tables, JSON, and the unlocked use of its tables by several
  loops.
- `TcpServer` with TLS, and `TcpClient::enableSSL`, which only makes a context.

## Plan

1. Done: FifoQueue and MpscQueue with proofs; AsyncLogWriter; EventLoop and
   EventLoopThread; ThreadPool; TimerQueue; TcpConnection; TcpServer; TimingWheel and
   ConnTimeouts; TcpClient; ByteString and MsgBuffer; TlsConnection; MultipartParser and
   HttpServer.
2. Done: the theorems listed under Proofs.
3. The tables of AppTcpServer shared by several loops; the high-water mark.
