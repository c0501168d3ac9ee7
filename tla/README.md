# TLA+ models of learn_np

learn_np is a C++ network library in the style of muduo (one event loop per
thread, non-blocking sockets, epoll) with an asynchronous logger, a thread pool
and a small HTTP server on top. This directory holds TLA+ modules translated from
its source, the TLC configurations that check them, and proofs for TLAPS.
`PROJECT.json` maps every definition to the lines it stands for.

    tlc -workers 2 -config EventLoop.cfg EventLoop      # a run
    tlapm EventLoopProofs.tla                           # the proofs of a module

## 1. Inventory

| Component | State | Operations | Hard part |
|---|---|---|---|
| `net/EventLoop` | `looping_`, `quit_`, `callingPendingFunctors_`, `pendingFunctors_` (mutex), the eventfd, `activeChannels_` | `loop`, `quit`, `runInLoop`, `queueInLoop`, `wakeup`, `handleRead`, `doPendingFunctors` | queueing from any thread while the loop polls, dispatches or drains; `quit` before, in and after `poll` |
| `net/EventLoopThread` | `loop_` (mutex, condition), the thread | `startLoop`, `threadFunc`, destructor | start-up handshake; `loop_` points into another thread's stack |
| `net/EventLoopThreadPool` | `loops_`, `next_` | `start`, `getNextLoop` | round robin |
| `net/Channel`, `net/poller/EPollPoller`, `PollPoller` | interest, `index_`, the kernel's set or the array of `pollfd`, the map of channels | `update`, `remove`, `handleEvent`; `poll`, `updateChannel`, `removeChannel` | a channel destroyed inside its own event; what the channel, the map and the table say of each other; indexes after a swap |
| `net/TcpConnection` | `state_`, `outputBuffer_`, the channel | `connectEstablished`, `connectDestroyed`, `send`, `shutdown`, `forceClose`, `handleRead/Write/Close/Error` | partial writes, half-close, calls from other threads, lifetime by `shared_ptr` |
| `net/TcpServer`, `net/Acceptor` | `connections_`, `started_`, `next_` | `start`, `newConnection`, `removeConnection(InLoop)`, `Acceptor::handleRead` | life and death of a connection across two loops |
| `net/TimerQueue`, `Timer`, `TimerId` | `timers_`, `activeTimers_`, `cancelingTimers_`, the timerfd | `addTimer`, `cancel`, `handleRead`, `reset` | callbacks that add and cancel; reused addresses; one-shot timerfd and a clock that is set |
| `base/AsyncLogging` | four buffers, `buffers_`, `running_` | `append`, `start`, `stop`, `threadFunc` | buffers change hands under a mutex held only at times |
| `base/ThreadPool` | `queue_`, `running_`, two conditions | `start`, `stop`, `run`, `take`, `runInThread` | notify and wait on both sides; `stop` while threads are blocked |
| `base/Thread`, `Condition`, `CountDownLatch`, `Mutex` | a latch, a condition | `start`, `join`, `wait`, `notify`, `waitForSeconds` | spurious wakeups |
| `net/Connector`, `net/TcpClient` | `state_`, `connect_`, retry delay and timer; `connection_` | `start`, `restart`, `stop`, `retry`, `handleWrite`; `connect`, `disconnect`, destructor | retry timer against stop; destructor against an arriving connection |
| `net/http/HttpServer`, `net/TimeWheel` | ring of 8 buckets of entries (mutex) | `onConnection`, `onMessage`, `onTimer` | idle connections are closed by the destructor of the last entry |
| `HttpContext`, protobuf `codec`, dispatcher and messages, `Buffer` | parser state, indexes | `parseRequest`, `onMessage`, `parse`, `makeSpace`, `readFd` | input in pieces, boundaries, what an error leaves behind |
| `base/LogFile`, `FileUtil` | counters, the open file, stdio's buffer | `append`, `rollFile`, `flush` | rolling by size and by time under a clock that is set; short writes, a flush or close that fails |
| `base/Logging`, `LogStream`, `Date`, `TimeZone` | the line under construction, `t_time` per thread, `g_logTimeZone` | `formatTime`, `operator<<`, `toLocalTime`, `fromLocalTime`, Julian days | cached text; the hour that comes twice; dates before 1970; a line that is full |
| sockets, `ProcessInfo`, `Exception` | none of their own | system calls | I/O |

How they interact. A loop thread is the only one to touch the channels, the timers
and the connections it serves; everybody else gives it functors through
`queueInLoop`, which is why the queue of `EventLoop` carries everything else. A
server accepts in its base loop, hands the connection to an io loop
(`connectEstablished`), and takes it down in three steps: `handleClose` in the io
loop, `removeConnectionInLoop` in the base loop, `connectDestroyed` in the io loop.
The lifetime of a connection is that of the `TcpConnectionPtr`s in the map, in bound
functors and in the user's hands. A client does the same with one connection, which its
`Connector` makes, again and again if it must. What arrives on a connection is put into its
`Buffer`, and the message callback of a server takes requests or frames out of it; for
`HttpServer` a timer in the base loop counts, on a wheel shared under a mutex, how long
connections have been quiet. Loggers in all threads hand their lines to the one back end.

What makes each part correct is stated below with its run. What can go wrong and is
hard to test is listed under `hazards` in `PROJECT.json`, by line.

## 2. Modules

| Module | Models | Composes |
|---|---|---|
| `TaskQueue` | abstract: a FIFO queue whose tasks run once | |
| `TaskPool` | abstract: threads that take tasks from such a queue and start them later | extends `TaskQueue` |
| `EventLoop` | `EventLoop`, the eventfd, what `poll` returns | refines `TaskQueue` |
| `EventLoopThread` | `EventLoopThread`, `Thread::start`/`join` | extends `EventLoop` |
| `EventLoopProofs` | theorems about `EventLoop` and `EventLoopThread` | |
| `TcpConnection` | a connection and its channel as a record, each handler as an operator on it | |
| `TcpServer`, `MCTcpServer`, `TcpServerProofs` | server, acceptor, thread pool, loops, users and peers | extends `TcpConnection` |
| `TimerQueue`, `TimerQueueProofs` | timers, the two sets, the timerfd, the clock | |
| `AsyncLogging`, `AsyncLoggingProofs` | front end, back end and their buffers; theorems about them and `LogFile` | |
| `ThreadPool`, `ThreadPoolProofs` | clients, workers, owner | refines `TaskPool` |
| `Connector` | attempts, retries and lifetime of a `Connector`, as steps of a loop | |
| `TcpClient`, `TcpClientProofs` | the client, its loop, a user thread, the peer | extends `Connector` |
| `Interest` | abstract: `poll` reports what channels asked for last | |
| `Pollers`, `PollersProofs` | `PollPoller` and `EPollPoller` under channels that come and go | refines `Interest` |
| `Buffer` | the vector with two indexes, as operators | |
| `AddressBook`, `ProtobufCodec` | the three messages and their wire format; frames, parsing, dispatch | extends `Buffer` |
| `HttpContext` | the parser of requests, as operators | extends `Buffer` |
| `ProtocolServers`, `ProtocolServersProofs` | `HttpServer` with the time wheel and SimpleServer's callback; `AddrBookServer` | extends `ProtobufCodec`, `HttpContext` |
| `LogFile` | `LogFile`, `AppendFile` and the clock | extends `AsyncLogging` |
| `Calendar`, `LogStream` | dates and zones; the buffer of a line and integers, as operators | |
| `Logging` | log statements of threads, the cache of the time, a calendar that counts | extends `Calendar`, `LogStream` |

**EventLoop.** `loopPc` is where the loop thread is (outside `loop()`, at the test of
`quit_`, in `poll`, dispatching, in a callback, before the swap, in the drain);
`functors` is the local vector of `doPendingFunctors`. `queueInLoop` and `quit` of other
threads are two steps, the store and the `wakeup()` that follows it, because the code
holds no lock across them. The counter of the eventfd is `wakeupFd`. The loop thread may
call the same operations in callbacks, in functors and outside `loop()`; functors it
queues before `loop()` are `early`, since the code announces them to nobody. The counter
of `quit` calls is bounded by `MaxQuits`.

**EventLoopThread.** Adds the owner's and the thread's positions to `EventLoop`.
`SpuriousWakeup` lets `cond_.wait()` return for no reason. While the object lives, any
thread may use the loop; only the destructor calls `quit()`.

**TcpConnection and TcpServer.** A connection is a record: `state_`, interest and index of
the channel, registration in the poller, output buffer, bytes at the kernel, state of
the peer. `write(2)`, the peer and readiness are external and nondeterministic: a write
takes all, part or nothing. A loop here is what `EventLoop` was shown to provide: it
polls when an event or a functor waits, dispatches the callbacks of each event in the
order of `Channel::handleEventWithGuard`, then runs the functors it swapped out. User
callbacks and user threads make the calls that `ConnectionOps`, `MessageOps`,
`WriteCompleteOps` and `ThreadOps` allow. `send` and `shutdown` of another thread are
several steps: the test of `state_`, the store, the `queueInLoop`. `Referenced(c)` says
who still keeps a `TcpConnectionPtr`. The acceptor's limit on descriptor numbers depends
on everything the process has open, so `RefuseOne` is always possible.

**TimerQueue.** `mem` is the heap: an address holds a timer or is free, and `new` may
return any free address. `timers` and `activeTimers` are the two sets, `expired` and
`toRun` the locals of `handleRead`. One unit of time is the 100 microseconds to which
`resetTimerfd` clamps. The timerfd counts monotonic time while expirations are wall-clock
times; `SetClock` sets the wall clock.

**AsyncLogging.** A buffer has an identity (`1..4` for the original four, `Extra` for one
allocated later), the space used and its lines. Every step of the back end is one stretch
of `threadFunc` with or without the mutex; the file is a sequence of lines with a notice
where buffers were dropped.

**ThreadPool.** Waiting threads are `"waiting"`; a notify moves one of them (any) back to
the point before the mutex, where it tests its condition again. `TakeTask` is the end of `take()`,
under the mutex, and `StartTask` the call of the task, which comes after the mutex was released: in
between the task is in the worker's `hand`, and the worker of a later task may be faster. `taken` is
the order in which the tasks in hand were taken. `Start` may create any
number of workers, none included, in which case `run()` runs the task itself. A task
does not throw (the code aborts) and does not call `run()`.

**Connector and TcpClient.** One turn of the loop is `poll`, the events it found, the
functors queued until then. A handler that tests a flag another thread may clear is split
there (`pc`): the start and the retry after the test of `connect_`, the hand-over of a
connection, the restart after a close. The user's `stop()` is three steps, one per flag and the timer. Retry
timers keep their identity, so one that was set before `timerId_` was overwritten still
fires. `DestroyClient` runs in the loop thread between two handlers; `held` says whether the
user keeps a `TcpConnectionPtr`, which is what `unique()` asks. A connection is its state
only: `TcpServer` models the rest. `"closed"` is a connection whose `handleClose` has run, with `state_`
as it was (`StateConnected`): a `forceCloseInLoop` that comes then runs `handleClose` again, and
`closedAmid` records that a close by the peer was handled while one was queued. `connect()` is called once.

**Pollers.** A descriptor has at most one `Channel`. `kind` is the poller that
`newDefaultPoller` picked. A failed assertion is recorded by name in `failed` and ends the
behaviour. The owner removes a channel after disabling it and not between the `poll` that
reported it and its handling, as the destructors of the library do.

**Buffer, codec, parser, servers.** A cell stands for bytes that are never separated: a
length field, a type name, a field of a message, CR, LF, the text of a line. CR and LF are
cells of their own, so a line end can be cut. Streams are all pairs out of seven requests, and out of
ten frames (three right ones, and wrong in length, name length, checksum, type, and a required
field). A message is a record whose fields are sequences: empty for a field not set.
`Receive` is `handleRead`: any number of cells is read, what exceeds the room goes through
`extrabuf`. The loops of `parseRequest` and of the codec's `onMessage` are functions of the number of
rounds; `ParseLine` and `DecodeFrame` are one round. The wheel is the set of slots whose bucket holds the Entry of the connection;
`ticks` counts `onTimer`, and `ptr` is the local pointer that keeps the Entry alive within
`onMessage`, which the timer, in another thread, may interrupt before the wheel is touched.

**LogFile.** Adds to `AsyncLogging` the appends of one round, one by one, with the
counters of `LogFile`. The clock ticks and is set while they are made. stdio holds lines until it is
flushed or its file closed. The disk may be full for an append, with what the append does to the file
after it, for the flush that ends a round, or for the flush and the close that end the thread. `Cuts` then
divides the lines to be written: some reach the disk, some stay in stdio, the others are `lost`. A short
`fwrite` is continued until one takes nothing, so an append loses a rest of its lines, and, since POSIX does
not say what stdio keeps of what it could not write, perhaps lines that stdio took before; a failed `fflush` may keep
or lose what it had (`stuck`), and a failed `fclose` loses it. A line cut in two counts as lost: the
model has whole lines, and the part on the disk is not one. `AppendFile::flush` is declared in `FileUtil.h:87` and defined in no
source file; it is taken to be `fflush`.

**Calendar, LogStream, Logging.** `Calendar` translates the Julian day formulas with the
division of C++, toward zero, and the search for the transition of a zone. `Logging` first
lets the days pass beside a calendar that only counts (`NextDay`; its weekday counts from Monday, 1
January 1900), then lets threads log on two days after 1970. Times of lines are whole seconds; before
1970 the fractions that `formatTime` divides toward zero would be negative, and `assert(us.length() == 8)`
would fail, so these days are left to the conversions. The bytes of a zone file are left out: `ReadTimeZoneFile` builds
what the code keeps of it.

## 3. Runs

| Run | Checks | Bounds |
|---|---|---|
| `loop` | `NoLostWakeup`, `NoMissedQuit`: the loop never blocks in `poll` with an announced functor or a `quit()` and nobody to wake it; `ImplementsTaskQueue`; `LoopResponds`: tasks run and `quit()` ends `loop()` without the poll timeout, and with it also the functors queued before `loop()` run | 2 threads, 3 tasks, 1 channel, 2 quits |
| `loopthread` | `StartReturnsLoop`, `StartTerminates`, `JoinAfterQuit` | owner and 1 thread, 2 tasks |
| `loopthread_lost_quit` | violated: `DestructorReturns` | same |
| `server_io` | `AssertsHold` (every `assert` of the Debug build that the steps meet, a connection removed and destroyed once), `ChannelOutlived` (a freed connection is in no poller and in no event), `PeerCloseEnds`, `OutputMoves` | 1 connection, base loop or one io loop, 1 user thread, 1 message of 2 bytes |
| `server_stream` | `StreamIntact`: what the kernel got plus what is buffered is what was accepted; `ShutdownAfterOutput`: no `SHUT_WR` before accepted output | 1 connection, 2 user threads, 2 messages of 2 bytes |
| `client` | `AssertsHold` but for three named ones, each in a named case only; `ConnectorOutlived`: no timer, event or functor meets a deleted `Connector`; `StopSticks`; `ClientConnects` | 3 failures, 3 connections, 2 calls, delays 1 to 3 |
| `pollers` | `ImplementsInterest` for both pollers (a poll with something ready reports something, and only what is ready; which of several first, and that none is passed over for ever, is not asked); `AssertsHold` but for one named case | 3 descriptors, room for 1 event at first |
| `input` | `FramesDecoded`, `RequestsAnswered`: the result is that of the stream, however it was cut; `AssertHolds` but for one named case; `IdleClosed`, `ActiveKept` | streams of 1 or 2 items, a buffer of 5 cells, a wheel of 3, 5 ticks |
| `timers` | `QueueSound`: the two sets and the heap agree, and the timerfd is armed for the earliest timer; `CancelSticks`; `TimerRuns` | 2 addresses, 2 timers, 1 thread, clock to 2, 1 clock change, 1 cancel |
| `logging` | `AssertsHold`, `OriginalsCirculate`, `LinesInOrder`, `FilesComplete`: in the files or in stdio, once and in order, unless lost to a full disk; `LineWritten`: every line is handed to the `LogFile` (what the disk makes of it is `FilesComplete`); `StopReturns` | 3 lines of length 1 or 2, buffers of 3, drop above 2 buffers, files of 3, periods of 3, clock to 3, 1 fault |
| `log_lines` | `DatesAgree` on every day from 1900 to 2500; `LocalTimeInverse` in zones with daylight saving time; `LinesFormatted` | 2 threads, 4 statements or changes, a line of 16 units |
| `threadpool` | `NotifiesSuffice`: no worker or client sleeps while there is work or room for it; `ImplementsTaskPool`: a task starts once, overtaken only while another worker holds it; `RunReturns`, `StopReturns` | 2 workers, 2 clients, 4 tasks, a queue of 2 |

Why the bounds are enough for what the runs ask. The races are between one thread and
the loop, and a second thread is needed only to write to the eventfd, or to notify, on
behalf of the first: two of each. Three tasks put one in the drain, one in the queue and
one in a caller's hands. Messages of two bytes have one way to be split; two of them can
overtake each other. Buffers of three units with lines of one and two units leave unused
room and fill exactly; three lines fill more than the two buffers at which the model
drops (25 in the code). More than two buffers that are not dropped, which `resize(2)` then cuts down, need
more than `MaxBuffers = 2` and are left to the proof; so is a disk that is full again after a failed
flush, which takes two faults. Two timers at two addresses, one of which is freed and taken
again, are enough for a stale `TimerId` to meet a new timer. In `server_io` callbacks call
`forceClose` at most once (`MaxForce = 1`), and user threads do not send: beyond these bounds
lie the two defects of section 3.1 that break `AssertsHold` and `ChannelOutlived`;
`server_stream` has the sends and checks the stream only. One connection does not exercise
the spread of several over io loops, nor does one io loop exercise the round robin: that is left to
the proofs, which have any number of both. Three
failures let the delay double, reach its limit and stay there; three connections let a
reconnected client lose its connection again. Three descriptors are needed for a removal
in the middle of the array of `PollPoller`, and a first, a moved and a last entry; room for
one event makes `EPollPoller` report in parts and grow. A buffer of five cells is smaller than
each frame, so that it grows, moves and is filled through `extrabuf`; a wheel of three has a
bucket that is neither the oldest nor the newest, and five ticks bring it round to the
stored slot again. A line of 16 units holds the header, the tail and no, some or all of the
message. `toUtcTime` is compared on the days within 24000 of 1970, where seconds stay below the integers
of TLC; the Julian days themselves on every day.

Deadlock is checked in `loop`, `loopthread`, `logging` and `threadpool`. A server without
clients, a queue without timers, a client that is connected, a poller without channels and a
stream that has arrived really wait for ever, and a logger that aborts ends: their runs
switch the check off.

Fairness. `FairSpec` in each module is weak fairness of the steps of threads that can go
on: the operating system schedules them and callbacks return. Not assumed: that `poll`
times out (only the premise of `EveryTaskRuns`), that a condition variable wakes without
a notify, that peers act or users call, that `stop()` or `quit()` is ever called. Assumed
where the code relies on it: `pthread_cond_timedwait` of the logger returns after its
timeout, time passes for the timers (`Tick`, `Expire`), and an attempt to connect ends, in
success once the bounded failures are used up. The clock of `LogFile` need not tick.

Every property has at least one wrong variant of a mapped definition (the operators
commented "Wrong variant") under which TLC finds it violated.

### 3.1 Where the code does not do what it says

`loopthread_lost_quit` has a run of its own. `loop()` sets `quit_ = false` on entry. When
`~EventLoopThread` calls `quit()` after the thread has published `loop_` and before it
has entered `loop()`, the request is erased and `join()` never returns.

The others bound what the passing runs claim; each is named in a property or excluded by
a bound, and disappears from there if the code is changed.

Server and loop:
- `handleClose` leaves `state_` alone, so a `forceCloseInLoop` queued by another thread and the
  peer's close both run it, and `removeConnectionInLoop` erases the connection twice
  (`assert(n==1)`, `TcpServer.cc:86`). `ThreadOps` of `server_io` has no `forceClose`.
- `sendInLoop` does not test `state_`. Run after `connectDestroyed`, it puts the channel of a
  connection that is about to be freed back into the poller (`assert(!addedToLoop_)` in
  `~Channel`). `ThreadOps` of `server_io` has no `send`.
- `TimerQueue::addTimer` reads `timer->sequence()` (`TimerQueue.cc:124`) after the timer was handed
  to the loop, which may have run and deleted it; `ReadSequence` reads what is there.
- `~EventLoopThread` can be between `quit_ = true` and `wakeup()` when the loop has returned and
  its stack frame is gone.
- `shutdown()` of another thread can write `kDisconnecting` over `kDisconnected`; `server_io`
  shows that no assertion and no lifetime suffers.
- `PollPoller.cc:136` asserts that a channel it removes is ignored by `poll`; not so if its only
  update was `disableAll`, as by `~Acceptor` that never listened (`AssertsHold` of `Pollers`).

Client:
- When `~TcpClient` runs in the turn of the loop whose `poll` has already found the peer's close, the
  `forceClose` it queues finds `state_` unchanged (`TcpConnection.cc:294`), runs `handleClose` again and
  queues `connectDestroyed` a second time, whose assertion (`TcpConnection.cc:120`) fails
  (`"connectDestroyed"` and `closedAmid` in `AssertsHold` of `TcpClient`).
- `assert(!channel_)` in `Connector::stop` (`Connector.cc:238`) fails whenever an attempt is under
  way, also when `~TcpClient` calls it. The behaviour ends there (`AssertsHold` of `TcpClient`).
- The same assertion in `~Connector` fails if the client is destroyed in the turn of the loop
  in which it connected, before `resetChannel` has run.
- A `stop()` that comes after the loop thread has tested the flag is overtaken (`Overtaken`).
- A second `connect()` after a connection has ended without retry would find `kConnected` and
  assert in `startInLoop`; the model calls it once.

HTTP:
- After a request line with a right method and a wrong version, `setMethod` asserts
  `method_==kInvalid` (`HttpRequest.h:55`) when more bytes arrive before the connection is
  gone: the line is still in the buffer (`AssertHolds`).
- A message leaves no trace in the wheel when the last bucket lies in the slot that
  `onConnection` stored (`HttpServer.cc:93`), although the wheel has gone round since: an
  active connection may be closed as idle (`skipped` in `ActiveKept`).
- `list_.back()` before the first tick is the back of an empty container; `OnConnection` waits
  for a tick.
- One call of `onMessage` answers one request; a second one that arrived with it waits for
  more input (`answered` in `RequestsAnswered`).

Logging and time:
- A zone that is changed within the second a thread has cached does not show in the text
  (`kept` in `LinesFormatted`), and a message that all but fills the buffer takes the newline with it.
- On a full disk lines are lost silently (`lost`): the rest of an append, and, since nobody looks at the
  results of `fflush` and `fclose`, also lines whose append did not fail. After a failed flush lines may stay
  in stdio between two rounds (`stuck`).
- A file does not roll while the clock is at or before the last roll.
- `readTimeZoneFile` returns true whatever it met, so a missing or truncated file makes a
  `valid()` zone without local times, of which `findLocaltime` takes the `front()`.
- `fromLocalTime` assumes that daylight saving time is one hour.
- Lines appended after the last swap of a stopping back end are never written; `LineWritten`
  speaks of a running logger. No comment promises more.
- At the hard limit of descriptors `accept` fails with EMFILE and `LOG_FATAL` ends the process, which
  the model of `Acceptor` leaves out.

## 4. Proofs

All theorems hold for every value of the constants under the named assumptions of the
modules: the wakeup channel is not one of the others (`EventLoop`); line lengths below the
capacity of a buffer and at least two buffers before a drop (`AsyncLogging`); sizes and intervals that
are natural numbers, the roll period not zero (`LogFile`); finitely many
workers and clients (`ThreadPool`); numbers that are natural, the first retry delay positive and
at most the longest (`Connector`); the listener is not one of the connections (`TcpServer`); a wheel
that is not empty, room in front of the data and a longest message that is a natural number
(`ProtocolServers`, `Buffer`, `ProtobufCodec`).
Bounds that exist for TLC (`MaxTimers`, `MaxConns`, `MaxForce`, ...) are any natural number.

`EventLoopProofs`:
- `TypeCorrect`: `Spec => []TypeOK`, with `looping_` and `callingPendingFunctors_` tied to
  the position of the loop thread.
- `WakeupNotLost`, `QuitNotMissed`: `NoLostWakeup` and `NoMissedQuit` speak of the loop in
  `poll` only and are not inductive: nothing in them says that the steps before `poll` leave
  no functor unannounced. `WakeupInv` adds that: pending work is announced (the eventfd is readable
  or some thread is about to write to it), or the loop is between `poll` and the swap, so
  that the drain comes before the next `poll`. The case that needs it is a functor queued
  by a functor during the drain.
- `LoopImplementsTaskQueue`: refinement with `queue <- functors \o pendingFunctors`. A
  queueing step appends to the concatenation, the swap moves functors inside it (this
  needs the batch to be empty, `BatchInv`), running a functor takes its head, and all
  other steps stutter. The lemmas are about elements, head and tail of concatenations.

Of `EventLoopThread`, also in `EventLoopProofs`:
- `ThreadRunsLoop`: `TSpec => Spec`. Each step of the owner and of the thread is a step of the
  loop or leaves it alone (the destructor's `quit()` is that of any thread), so the composed system
  implements `EventLoop`, and `ThreadIsWoken` carries `NoLostWakeup` and `NoMissedQuit` over.
- `StartLoopReturnsLoop`: `StartReturnsLoop`. `StartInv` ties `loop_` to the position of the thread:
  the owner passes its wait only on `loop_`, which is set once and outlives every spurious wakeup.

`AsyncLoggingProofs`:
- `BackEndAsserts`: the assertions of `threadFunc`. The two at the refill
  (`AsyncLogging.cc:128,136`) hold because `nextBuffer_` is missing only when a full
  buffer waits in `buffers_`; this relation between the two sides, `BufferInv`
  (`FrontInv`, `BackInv`, `OwnerInv`), is the inductive invariant.
- `FourBuffers`: `OriginalsCirculate` from the same invariant.
- `LinesKeepOrder`: `LinesInOrder`. By itself it does not say which lines a write or a drop removes
  from memory. `LineInv` adds that: the lines up to some `m` are done with (`Handled`: in the file, in
  order, or dropped), and the buffers the back end has taken, then `buffers_`, then `currentBuffer_` hold
  `m + 1, ..., logged`, and the buffer in reserve is empty. The swap only moves lines inside this
  interval; a round takes its front away, and when it drops, what is written and what is dropped
  are two adjacent intervals. Used with the invariant above.
- `LogFileRefines`: `LSpec => Spec`, so the theorems above hold with a `LogFile`, a failing disk and a
  clock that is set.
- `FilesAreComplete`: `LSpec => []FilesComplete`. `FileInv` says that the appends of the round that are
  done count as handed over, that nothing is lost which was not handed over, and that no file has a name
  after `lastRoll`. Whatever the cuts of a full disk (`Settle`), the lines on the disk, in stdio and in `lost`
  stay the same lines, and those on the disk and in stdio stay in order; rolling, flushing and closing
  only move lines among the three (`Keeps`). That an append brings later lines than all before it follows from `LineInv`.

`FlattenSeq`, a recursive function, is handled by lemmas: its partial results exist and are unique,
by induction up to the length of the sequence (`UpTo`, from the least counterexample), and from that
what it makes of `Append` and of a concatenation. `LinesInOrder` and `FilesComplete` compare the order
and the set of lines, without the notices (`InOrder`, `ToSet`); an increasing sequence is
determined by its set.

`TcpServerProofs`. The first two are for any connections, loops, users, messages and calls, `send`
and `forceClose` from other threads included:
- `StreamsAreIntact`: `StreamIntact`, per connection. A write cuts the data in two, and the two
  halves go behind `wire` and behind `out`; that keeps the order because `sendInLoop` writes
  directly only with nothing waiting.
- `ShutdownIsLast`: `ShutdownAfterOutput`. It needs that waiting output implies an enabled write
  event until `handleClose` runs (`StreamInv`), hence that `connectDestroyed`, which disables all
  events, runs only after `handleClose`. So the invariant `StreamsInv` follows the connection
  through the program: functors of removal only for closed connections, and functors, events,
  handlers and calls in progress only for created ones (an uncreated one is in the backlog or
  nowhere, and in no poller).
- `AssertionsHold`, `ChannelsAreOutlived`: `AssertsHold` and `ChannelOutlived`, for any number of
  connections, io loops and user threads. They do not hold of every user (section 3.1), so they have two
  hypotheses. `Limits`: other threads and `writeCompleteCallback_` only call `shutdown`, and
  `connectionCallback_` does not call `forceClose`. `ClosesOnce`: `messageCallback_` does not call
  `forceClose` while a forced close of the connection waits. `OneForcedClose` is the case of one
  `forceClose` at most, in which `ClosesOnce` need not be asked for: the constants of `server_io`.
  Without `ClosesOnce` TLC finds a second `handleClose` at once.
  The invariant is `LifeInv`. It gives each connection a stage (unborn, connecting, established, closed,
  removed, destroyed) which its fields, its place in `connections_` and the number of removals agree
  with (`StageOK`). Only four functors lead on: `connectEstablished`, `forceCloseInLoop`,
  `removeConnectionInLoop` and `connectDestroyed`. Each is queued in one stage and in one loop
  (`KeysPlaced`), at most one at a time for a connection, counting the rest of a batch and
  `pendingFunctors_` of all the loops (`KeysUnique`), and a removed connection has its
  `connectDestroyed` queued (`DestroyQueued`), which is what keeps it alive. `LoopOK` is about the
  events: a loop has events of its own established connections only, at most one callback that can
  close remains of an event, and none for a connection whose forced close waits.

`TimerQueueProofs`:
- `QueueIsSound`, `CancelIsFinal`: from `QueueInv`. `HeapInv` says which of `timers_`,
  `activeTimers_`, `expired` and the functors of `addTimer` owns each address, and that none has two
  owners. `SeqInv` says that sequence numbers are not reused and that a cancelled timer that
  still has memory is an expired one noted in `cancelingTimers_`, which is why `reset` does not bring
  it back. That the timerfd is armed needs the earliest of a non-empty set of times, for
  which natural numbers are well-founded. The set of times is that of the natural numbers.

`ThreadPoolProofs`, with lemmas about counting the threads at one place:
- `NoNotifyLost`: `NotifiesSuffice`. Workers that are awake are counted against queued tasks, and
  clients that are awake against free room; `PoolInv` adds that no client waits
  for room in a pool that is not running, and that the task of a call in progress was submitted.
- `PoolImplementsTaskPool`: refinement with `queue <- taken \o queue`. `run` appends to the concatenation,
  `take` moves its head from `queue` to `taken` and so stutters, and the call of a task removes it from any place
  in `taken`, which no more workers fill than there are; a pool without workers runs the
  task in place. `OneHandEach` says that `taken` is as long as there are workers with a task in hand, and that
  those are threads of the pool; `OnePlace` that no task is in two places. What `TaskPool` promises is that a
  task overtakes fewer tasks than there are threads; how many may pass a worker that is slow is not bounded.

`TcpClientProofs`: `ClientAsserts`, `NoUseAfterFree` and `NoConnectionAfterStop` share `ClientInv`: at
most one of attempt, retry timer, connection and queued start is under way
(`AttemptInv`, `TimerInv`, `ConnInv`, `StartInv`); the events of a turn are still true when they are
handled (`ActiveInv`); what `~TcpClient` leaves behind is idle, and the `Connector` is deleted when
nothing can reach it (`DeadInv`); no flag is left set after `stop()` (`StopInv`). `CloseInv` adds that, unless
`closedAmid`, a queued `connectDestroyed` is the only one for its connection, which has closed, and a queued
`forceClose` the only one for a connection that has not (`EndsOK`): so the assertion of `connectDestroyed`
fails in the documented case only. It is claimed until an
assertion has ended the process. `NoUseAfterFree` is about a loop that serves this client
only: a functor of somebody else that destroys the client right after it called `connect()` in the
same drain, and a loop that is then kept busy for a second, could let the timer of
`~TcpClient` come first.

`PollersProofs`:
- `PollerAsserts`: `AssertsHold`. `PollSound`: index and entry of `pollfds_` name each other for every
  channel in the map, also after the last entry was swapped into a gap, and an ignored entry
  holds the negated descriptor; `EpollSound`: the kernel has exactly the channels whose
  index is `kAdded`, with the events they asked for.
- `PollersImplementInterest`: with these relations, what either `poll` reports is what `Interest`
  allows, and every update and removal is one of its steps.

`ProtocolServersProofs`:
- `IdleIsClosed`, `ActiveIsKept`: `IdleClosed` and `ActiveKept`, for any number of buckets. Neither says
  where the Entry is. `WheelInv` does: while the connection is open the Entry is in the wheel or held by
  `onMessage` (`EntryInv`); a bucket that holds it is not newer than the last message and not older than the
  wheel (`BucketInv`); the bucket that was the last at the time of that message holds it, unless it was skipped
  (`TouchedInv`). Buckets are ticks modulo the size of the wheel; the lemmas are that slots come round
  after as many ticks as there are buckets, and not before.
- `InputUnread`: `[]InputIsUnread`, for both servers and any sizes of `Buffer` and `extrabuf`: the indexes of
  the buffer are in order, as its assertions ask, and its data are the end of what has arrived. So
  `readFd`, `makeSpace` and `retrieve` neither lose, double nor move a cell within the stream. Lemmas:
  `append` and `readFd` add their cells behind the data whichever way room is made; a loop takes no
  more than is there, since a line end that was found lies in the data, and a frame is only taken when its
  length has arrived. That a loop keeps this is an induction over its rounds (`ParseRounds`,
  `DecodeRounds`, `UpTo`). TLC confirmed the invariant before it was proved.

Only model-checked:
- all liveness (fairness and `ENABLED` are outside the prover): `LoopResponds`, `StartTerminates`,
  `PeerCloseEnds`, `OutputMoves`, `TimerRuns`, `ClientConnects` and the like;
- `FramesDecoded`, `RequestsAnswered`, `AssertHolds` of `ProtocolServers`: what the parser, the codec and
  the serialized messages make of given streams. Parsing and serializing messages (`AddressBook`) are folds
  over data, which would need an induction each. TLC tries every cut of every stream, and
  `InputUnread` says that the sizes of the buffer do not matter to them;
- `DatesAgree`, `LocalTimeInverse`, `LinesFormatted` of `Logging`: the digits of a number are computed by
  recursive operators, which the prover does not accept. The days from 1900 to 2500 contain a whole period
  of the calendar.

## 5. Plan

Done: all modules of section 2, in the order loop, server, logger, timers, pool, client,
pollers, parsers and wheel, log files, calendar and lines; the proofs of section 4.

Next: tasks of `ThreadPool` that call `run()`; `TcpClient` in a loop that others use too.

## 6. Not modelled

- `Socket`, `SocketsOps`, `InetAddress`: wrappers of system calls. What the calls return is
  external in the modules that use them.
- `ProcessInfo`, `Exception`, `CurrentThread`, singletons and thread locals: no protocol, no
  shared state beyond what `pthread_once` does.
- `BlockingQueue`, `BoundedBlockingQueue`: used by nothing else in the library.
- `Buffer::shrink` and `swap`, `formatSI` and `formatIEC`, the text of `Timestamp` and of responses.
- Of the generated protobuf code: reflection, arenas, unknown fields, the accessors.
- The destructors of `TcpServer` and `EventLoopThreadPool` have empty bodies; what the
  destructors of their members do to a server that still has connections is left out.
- `train/` and the exercises, which are not part of the build.
