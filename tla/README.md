# A TLA+ development for ggc

ggc is a gateway daemon for serial ports written in C++: a reactor library
(`src/port`, in the style of muduo), utilities (`src/utils`: threads, logging,
dates) and the gateway itself (`src/bussiness_logic`: a server of serial ports
and its configuration). This directory holds TLA+ modules translated from that
code, the TLC configurations that check them on small instances, and proofs,
checked by TLAPS, that the main safety properties hold for every instance.

Paths below are relative to the repository. `PROJECT.json` maps every
definition that models code to the lines it stands for.

## 1. Inventory

| Component | State | Operations | Who interacts with it |
|---|---|---|---|
| EventLoop | `quit_`, `looping_`, `pendingFunctors_`, `callingPendingFunctors_`, the active channels | `loop`, `quit`, `runInLoop`, `queueInLoop`, `runAt/After/Every`, `cancel`, `updateChannel`, `removeChannel` | one thread runs it, any thread queues functors under `mutex_`; callbacks re-enter it |
| TimerQueue, Timer, TimerId | `timers_`, `activeTimers_`, `cancelingTimers_`, `callingExpiredTimers_`, the Timers on the heap, the timerfd | `addTimer`, `cancel`, `handleRead`, `getExpired`, `reset`, `insert` | the loop calls `handleRead`; other threads go through `runInLoop` |
| Poller, EPollPoller, PollPoller | `channels_`, `events_` / `pollfds_`, `Channel::index_`, the kernel's set | `poll`, `updateChannel`, `removeChannel` | Channel asks the loop, the loop asks the poller |
| Channel | `events_`, `revents_`, the tie | `enable*`, `disable*`, `handleEvent` | owned by TimerQueue, EventLoop, ComEntity; raw pointers to it are in the poller and the kernel |
| EventLoopThread | `loop_`, a Thread | `startLoop`, the destructor | owner thread and loop thread, by `mutex_` and `cond_` |
| EventLoopThreadPool | `loops_`, `next_` | `start`, `getNextLoop` | ComServer, in the base loop's thread |
| ComServer, ComEntity | `comEntities_`; `state_`, the channel, the buffers | create, `comEstablished`, `comDestroyed`, `handleRead`, `send`, `shutdown`, destructor | base loop's thread, the pool's loops, client threads that were handed a `ComEntityPtr` |
| Buffer | a vector and two indexes | `append`, `prepend`, `retrieve*`, `shrink`, `readFd`, `findEOL` | ComEntity, one thread |
| ThreadPool, Mutex, Condition | `queue_`, `running_`, `holder_` | `start`, `run`, `stop`, `take`, `runInThread` | callers, the pool's threads, the owner |
| AsyncLogging, CountDownLatch, FixedBuffer | `currentBuffer_`, `nextBuffer_`, `buffers_`, the back end's two spares | `append`, `start`, `stop`, `threadFunc` | any thread appends, one thread writes |
| Logger, LogStream | `g_logLevel`, `g_output`, `g_flush`; per thread `t_lastSecond`, `t_time`; a buffer per statement | `setLogLevel`, `setOutput`, `setFlush`, a statement's constructor, insertions and destructor | every thread; the line goes to stdout, a LogFile or AsyncLogging |
| LogFile | `count_`, `startOfPeriod_`, `lastRoll_`, `lastFlush_`, `File::writtenBytes_` | `append`, `flush`, `rollFile` | AsyncLogging's back end, or any thread under a mutex |
| Date, TimeZone, Timestamp | a Julian day number; a table of transitions | conversions | LogFile, Logging, TimerQueue |
| ConfigMgr, MainService | the path of the global file, a callback, a map of ports | `update`, `onUpdate`, `parseConfigFile`, `parseComConfig` | `main`; TinyXML loads the files |
| RS485Codec, MonitorUnit... | records | getters, setters | nobody yet |

What is hard in this code:

* **interleaving** – functors are queued while others run; a Timer is posted to
  the loop and may be gone before `addTimer` builds the id; log buffers are
  taken away between two appends; a caller woken on a full queue finds it full again;
* **lifetime without ownership** – TimerIds outlive Timers and addresses are
  reused; `loop_` points into another thread's stack; `send` posts a raw `this`;
  the poller and the kernel keep raw `Channel*`;
* **two clocks** – expirations are wall-clock times, the timerfd is monotonic;
* **re-entrancy** – callbacks add and cancel timers of the batch being called,
  and disable and remove channels of the poll result being handled;
* **partial failure** – short writes of a log line, one bad item among several
  in a configuration, a stream that is full in the middle of a line, a FATAL
  line that has to leave a buffer before the process ends;
* **index bookkeeping** – PollPoller moves entries, EPollPoller keeps a
  three-valued index, Buffer compacts or grows;
* **progress** – lost notifications, `stop()` against blocked threads, one
  alarm for many timers.

`hazards` in PROJECT.json lists these at their lines with the properties that
watch them.

## 2. Modules

| Module | Models | State and actions against the code |
|---|---|---|
| `TimerQueue` | `TimerQueue.cpp`, `Timer.*`, `TimerId.h`, `Timestamp` arithmetic, the loop iterations that drive them | `heap`/`live` are memory and the Timers in it, so an address can be handed out again; `pc` follows `EventLoop::loop` (poll, events, functors); `handleRead` is split at every callback because a callback may add or cancel; the other thread's `addTimer` is two steps, the post and the read of `sequence()`; `mono`, `offset` and `armed` are the clocks and the timerfd |
| `EventLoop` | `loop`, `quit`, `runInLoop`, `queueInLoop`, `wakeup`, `doPendingFunctors` | one action per stretch of `loop()` between two places where another thread or a callback can act; a functor is its position in the order of the `push_back`s |
| `EventLoopThread` | `EventLoopThread.cpp`, with `Thread::start/join`, composed with `EventLoop` (EXTENDS) | `tpc` follows `threadFunc`, `owner` follows `startLoop`, use and the destructor; the loop object exists only while `threadFunc` has it on its stack |
| `EventLoopThreadPool` | `setThreadNum`, `start`, `getNextLoop` | used by `ComServer` |
| `Poller` | the interface, abstractly | which channels are watched for what, and what a poll may report |
| `EPollPoller` | `EPollPoller.cpp`, `Channel::enable/disable/remove`, the kernel's epoll set | implements `Poller` |
| `PollPoller` | `PollPoller.cpp` | implements `Poller`; entries, negated descriptors and the swap on removal are kept |
| `Reactor` | the round of `EventLoop::loop` over the active channels, `updateChannel`, `removeChannel` with its assert, `Channel::handleEvent`; EXTENDS `PollPoller` | `active`, `pos` and `calls` are the list, the iterator and the callbacks of the current channel still to return; updates and removals happen inside a callback or between two rounds, never elsewhere |
| `ThreadPool` | `ThreadPool.cpp`, `Mutex.h`, `Condition.h` | one action per critical section; `waiting`/`woken` are the two halves of a condition wait; wakeups may be spurious; a `signal` wakes any one waiter |
| `AsyncLogging` | `AsyncLogging.*`, `CountDownLatch`, `FixedBuffer::append` | a pointer is a sequence of at most one buffer, a buffer the sequence of its messages; `blocks` are the buffers the file has been given, in order; the back end is split at the lock, the wait and the write |
| `ByteQueue` | a queue of bytes, abstractly | what a Buffer promises |
| `Buffer` | `Buffer.h`, `Buffer.cpp` | a vector with its stale contents and two indexes; implements `ByteQueue` |
| `Date`, `TimeZone` | `Date.cpp`, `toUtcTime`, `fromUtcTime` | the closed formulas, beside a calendar advanced day by day from 1 January 1900 |
| `LogFile` | `LogFile.*` with `File::append`'s retry loop | lines are lengths, times are small integers; a short write goes into the retry loop, which counts the whole line at each write that succeeds, goes on past its end until a write returns 0, and may fault there; the wall clock moves or is set back between any two steps; `stale` and `overdue` count the appends since a new day began or a line became due, until the clock is set back |
| `LogStream` | `FixedBuffer`, `LogStream`'s operators, `convert`, `convertHex` | a stream is its length and the last byte ever written; numbers are digit sequences, beside the numerals they should be (`IsNumeral`) |
| `Logging` | `Logging.*`; EXTENDS `LogFile` and `LogStream` | `at` follows each thread through the destructor of a statement, `writer` has LogFile's mutex, `held` are the FATAL lines in the file's buffer |
| `ConfigMgr` | `ConfigMgr.cpp`, as `MainService.cpp` uses it | a document is the sequence of its root's children, each of a kind; every load may fail or yield any document; `pc` follows the nested loops, `followed` lists the items they have gone into |
| `ComServer` | `ComServer.cpp`, `ComEntity.cpp`, `Channel::handleEvent` and its tie, EXTENDS `EventLoopThreadPool` | owners of an entity are derived (the map, bound functors, the guard, the client); raw pointers do not count; every loop has its own poll, active list, queue and batch; a client's call is two steps, its test of `state_` and its post, and the destructor may begin between them |
| `MC*` | constants of the runs | |
| `*Proofs` | theorems and proofs | |

`fate` in `ComServer`, `aborted` in the others and `dangling` in
`EventLoopThread` record an assert that failed or a pointer used after its
object: the code would stop or misbehave there, and the properties say in which
circumstances this can happen. Operators commented "Mutant:" are small errors
used to see that a property reacts to them; no specification uses one.

The default build (`CMakeLists.txt`, `build.sh`) keeps the asserts; `Debug` says
whether a model does. The runs `timerqueue`, `epollpoller` and `threadpool` are for a
build without them (`Debug = FALSE`), because in each an assert of the code can
fail (section 7) and would hide what comes after it.

## 3. Runs

| Run | Configuration | Shows |
|---|---|---|
| `timerqueue` | 2 addresses, one on each side of the sentry, 2 Timers, one of them repeating or not, 1 queued functor, 2 ticks, one step back of the wall clock | without asserts: no dangling Timer, stale key or double owner; no Timer lost by a cancel for an older one at its address; a cancel in the batch is final; while an entry waits the alarm is set, and in time for every entry until the clock is stepped; the destructor leaks only queued Timers; due timers are eventually taken whatever the clock did |
| `timerqueue_cancel` (violation) | both addresses below the sentry, delays in the past too, no clock step | a Timer cancelled while it waits still runs |
| `eventloopthread` | 3 functors | functors run once, in order, eventually; `startLoop` returns; the owner and the destructor never use a loop that is gone; the destructor returns if the loop was running |
| `epollpoller` | 3 channels, 2 of them sharing a descriptor, event list of 1 | without asserts: the epoll set is exactly what channels asked for, `Poller` is implemented |
| `reactor` | 3 channels on descriptors 0, 1 and 2, used once each, one of them tied; polls that report everything asked for, or a hang-up on one | entries, indexes and map agree and no assert of the poller fails wherever a callback updates or removes; no channel that was removed is handled later in the round; `Poller` is implemented |
| `threadpool` | 2 callers, 2 threads, 2 calls each, queue of 2 | without asserts: the bound holds, no blocked caller's wakeup is lost, at most one task per thread after `stop`, tasks run, `stop` returns |
| `asynclogging` | buffers of 2 messages, drop limit 3, 12 messages | no message lost, doubled or reordered except by the drop rule; asserts hold; `start` and `stop` return; a `stop` that finds the back end idle loses nothing |
| `buffer` | 2 byte values, vectors up to 7 bytes, data up to 3 | asserts hold, `ByteQueue` is implemented |
| `timezone` | every day from 1900 to 2500; seconds at the edges of every day from 1903 to 2037 | the formulas are the Gregorian calendar; `fromUtcTime` inverts `toUtcTime` |
| `logging` | 2 threads, DEBUG and FATAL, streams of 8 bytes (4 reserved for a number), every text length; `kCheckTimeRoll_` 1, a day of 4 s, flush interval 1 s, 4 s; `rollSize_` 6, retries until `writtenBytes_` has passed 6 (`MaxWritten`) | a new day and lines that wait to be flushed are seen to within `kCheckTimeRoll_ + 2` appends; no statement overruns its stream; every line shows the second it was logged in; a FATAL line has left the buffer when the process aborts; its assumptions compare `convert` and `convertHex` with the numerals of every 8-bit value |
| `comserver` | 2 entities (symmetric), up to 2 pool threads, 2 client calls | a `this` that was posted before the destructor began is good in every loop of the pool; `comEstablished` aborts for no port that did open, whatever became of the others |
| `configmgr` | every global document of up to 3 children, files of ports of every sort | each good item is followed once and in order whatever stands beside it; `update` returns unless a file of ports has a ComConfig child |

**Why the bounds are enough.** Two Timers at two addresses give a reused
address, a cancel across Timers of one batch and an insertion before and behind
another entry; the two ticks of the monotonic clock reach a due and an overdue
expiration, an equal one at an address the sentry does not exclude, and with the
step back an alarm that finds nothing expired. Three functors give one running, one behind it in the
batch and one in the vector. Three channels on two descriptors give a shared
descriptor and one beside it; an event list of one makes polls overflow and
grow. In `reactor` three channels give a
removal at the front, in the middle and at the end, with the moved entry enabled
and disabled, and a handled, a current and a waiting channel in one round. In the pool,
`maxQueueSize_` equals the number of threads, so that callers block, threads
wait and `stop` meets both. Twelve messages in buffers of two pass the drop
limit and come back from it. A vector of seven bytes with `kCheapPrepend` 2
grows, compacts and shrinks. The log file's clock covers a midnight and several
flush intervals; one retried line or several take `writtenBytes_` past `rollSize_`, in
the second of the last roll, when the new file is refused, and later, with lines
of a new day in the old file; and a stream of eight bytes is full before, inside and behind
each piece of a line. Two client calls give a `send` followed by a `shutdown`,
the one order in which `sendInLoop` writes. Three children give a good item
before and behind a bad one, and two good ones in a row. For the properties that are proved (section 5), which
are all the invariants, action properties and refinements of the runs, nothing
rests on these bounds; they matter to liveness.

`CHECK_DEADLOCK FALSE` stands where the system really may stop: a pool or a
logger that was stopped, callers blocked for ever in `run` on a stopped pool, a
calendar or a clock at its last day, a server that is gone.

## 4. Fairness

Only what the scheduler and the kernel give is assumed.

* `TimerQueue`: the loop thread keeps running and time passes. Nobody has to
  add a timer or wake the loop: between alarms it may stay in poll.
* `EventLoopThread`: the loop's thread is scheduled, callbacks return, and poll
  returns because it has a timeout (`kPollTimeMs`, 10 s); no descriptor has to
  become ready. The owner's lock is granted, a *notified* wait returns (a
  spurious wakeup need not come) and a join returns when the thread has ended.
* `ThreadPool`: threads past a call go on – tasks return, the mutex is granted,
  joins return. Nobody has to call `run` or `stop`, and no spurious wakeup is
  relied on; after a notification any waiter may be the one that wakes. That a call
  of `run` on a full queue returns is not claimed: callers that keep arriving may take
  every place before the woken one has the mutex, and nothing in the code or in
  this fairness keeps them from doing so for ever. `NoWakeupLost` is what the pool
  itself owes a blocked caller.
* `AsyncLogging`: the back end runs, and its wait ends with the flush interval
  (`waitForSeconds`), so that a lost notification only delays it.

* `ConfigMgr`: the thread in `update` runs on; nobody has to call `update`.

The other specifications make no liveness claim and assume no fairness.

## 5. Proofs

All theorems are for every value of the constants that meets the `ASSUME`s of
the modules (sets of addresses, channels, threads and bytes of any size, any
bounds). A bound such as `MaxCreated` only limits a guard, so the proofs cover
every bound.

Some theorems state more than the runs check: the types of the timer queue, the
loop and its thread (`TypeOK`), that no assert of the timer queue fails below
the sentry (`NeverAborts`), a functor
never joins the batch that runs (`BatchOnlyShrinks`), `startLoop` returns a loop
that is ready (`LoopReadyWhenStarted`), tasks are taken in order
(`FifoHandOver`), no `epoll_ctl` fails (`EpollCtlSucceeds`), a Buffer's indexes
are in order (`IndexOrder`) and its vector grows only when it must
(`GrowsOnlyWhenFull`).

* **`TimerQueueProofs`** – `TypeCorrect`, `NoDanglingTimer`, `NoLeak`,
  `AlarmNeverLost`, `CancelIsFinal`, `NoneLost`, `AssertsHold`. *NoDangling* is
  not inductive: it needs that each place of the loop determines what the locals
  of `handleRead` hold and that `activeTimers_` is empty (`ControlInv`), and that
  queued `addTimerInLoop`s have distinct Timers no container holds
  (`QueueInv`). *DestructorFrees* adds `OwnerInv`: every existing Timer is in
  exactly one place that deletes it or hands it on. For the alarm, an entry at
  time 0 must be accounted for separately (`ZeroInv`), since `reset` does not
  re-arm for an invalid Timestamp; the lemma `BoundMonotone` says that the
  latest time the alarm may go off never moves back. `CancelIsFinal` and
  `NoneLost` need that sequence numbers are unique and tell what the histories
  record (`SeqInv`, `HistoryInv`): a TimerId whose address has been handed out
  again can then not be taken for the Timer that has it now. `AssertsHold` has a
  condition: all Timers lie below the sentry address (see section 7).
* **`EventLoopProofs`** – `ThreadUsesLoop`: the loop with its thread and owner
  implements `EventLoop`'s own specification, so what is proved of the loop
  alone (`LoopInv`: types, control, exactly once in order) holds in the
  composition; `ExactlyOnceInOrder`, `BatchShrinks`, `TypeCorrect`,
  `StartedLoopIsReady`, `NoUseAfterExit`. The last two rest on `LifetimeInv`,
  which ties the owner's place, `loop_` and the place of `threadFunc`: the loop
  leaves the stack only after a `quit()`, and only a callback's or the
  destructor's `quit()` exists.
* **`EPollPollerProofs`** – `KernelInSync`, `CtlSucceeds`, `Implements`
  (refinement of `Poller`, step by step). The invariant adds `OneChannelPerFd`:
  of the channels that share a descriptor at most one is not new.
* **`ReactorProofs`** – `PollerNeverAborts`, `SlotsAgree`,
  `HandledAreRegistered`, `ReactorImplements` (refinement of `Poller`). All four
  are for callers that use a channel once and disable it before they remove it
  (`Reuse = "none"`); what other callers meet is in section 7. `PollerNeverAborts` is
  about the asserts of `PollPoller` alone: that of `EventLoop::removeChannel` can
  fail for these callers too (`loopAborted`), and that of `Channel::remove` is what
  they have to respect. `PollInv` makes
  `pollfds_` a table of the registered channels: each has the entry its `index_`
  names (`SlotsOwned`), no entry is anyone else's (`NoOrphans`) and there are as
  many of one as of the other (`Counted`), which is what the swap on removal
  needs to be right when the last entry is the one removed. `LoopInv` adds that a
  round's channels are distinct, so that the channel that removes itself does not
  wait further on.
* **`ThreadPoolProofs`** – `Bounded`, `Fifo`, `StopLeavesTasks`, `WakeupsKept`.
  The last is `NoWakeupLost`: a task taken makes one place and wakes one caller
  (`OneMoreWoken`), and a woken caller that leaves the wait fills a place or finds
  none (`FewerWoken`). The invariant
  adds `InCall` (a caller inside `run()` has a call to make a task of) and
  `LateThreadsLeave`: a thread that has taken a task after `stop()` cleared
  `running_` has only its task and the loop's test before it.
* **`BufferProofs`** – `IndexesInOrder`, `NoAssertFails`, `IsAByteQueue`
  (refinement), `GrowsWhenItMust`. One lemma per operation says what it does to
  the readable bytes of a well-formed buffer; `WithRoomEffect` covers both
  branches of `makeSpace`. `NoAssertFails` has the condition that callers use
  `findEOL()` and not `findEOL(start)` (section 7).

* **`UtilsProofs`** –
  - AsyncLogging: `NoAssertFails`, `LogInOrderOnce`, `IdleStopLosesNothing`.
    `SparesBalance` says how many spare buffers each side has at each place of
    the round, which is why enough come back; `LatchGuardsStop` why the back end
    starts with `running_` set; `DropLimit >= 2` is needed, and is 25 in the
    code. For the order, the file, what the back end holds, the full buffers and
    the current one are read as one sequence of pieces: an append adds at its
    end, an exchange only moves a border between two of its parts, a drop cuts
    pieces out. `OwedInv` follows what an idle `stop` owes from memory through
    the back end's hands to the file.
  - LogFile and Logging: `DayRolls`, `LateLinesFlushed`, `FatalLinesOut`,
    `LinesShowTheirSecond`. `InTime` relates `count_` to the two histories: each
    late line has been paid for by a count, all but the one being appended, so
    the bound on `count_` is the bound on both; a roll by size that is refused counts
    nothing, but is asked for in the second of the last roll, when no line is late. `WriterInv` says that a thread
    whose line is in the LogFile is the one in its mutex.
  - LogStream: `StreamsInBounds`, `ConvertIsRight`, `ConvertHexIsRight`. What a
    loop computes is written as a recursive function, which is a `CHOOSE` among
    the functions that satisfy its equation. The library's induction theorems
    take an operator that the provers cannot instantiate, so induction is taken
    from the least element of a set of naturals (`LeastNatural`, `AllNaturals`);
    it first gives that such a function exists, hence the equation
    (`DigitsEquation`, `ValuesEquation`, `TenToTheEquation`), then what it
    computes: the digits that have left the loop spell the absolute value of
    what went in (`DigitsSpell`, by Horner's rule), there are at most n of them
    below ten to the n (`DigitsFit`), and a line of any number of pieces stays
    in its buffer (`LineInBounds`). The assumption behind it is what
    `staticCheck()` asserts when the code is compiled: `kMaxNumericSize` has room to spare for
    the digits, the sign and the `'\0'` of every integer.
  - Date and TimeZone: `DatesAreGregorian`, `UtcTimesAreRight`. The days of the
    years that begin in March are `DaysBefore`, and `DateRoundTrip` finds
    century, year of the century and month from the divisions of
    `getYearMonthDay` one at a time; `CalendarIInv` then needs only that the
    number of the next day is one more, within a month, at its end and at the
    end of the year. The theorems are in exact integers and for every `LastYear`;
    `DatesFitInts` says that no intermediate result leaves a 32-bit int in the
    years 0 to 1000000, so that up to there they are about what the code computes.
* **`GatewayProofs`** –
  - ConfigMgr: `ItemsFollowed`. In the loop, the items followed are the good ones
    among the children passed, in their order, and none of those passed ends the
    loop (`ConfigIInv`).
  - ComServer: `PointersGood`, `OpenedWhenEstablished`. The functors of an entity
    are in the queue of its own loop (`AtHome`), and in a loop of the pool a
    functor with a raw `this` has its entity in the map, or an owner beside it in
    the queue or the batch it is in, or a `comDestroyed` queued behind it
    (`QueuesKeep`); a batch keeps what it owns until it ends.
    `EstablishedOnce` says that `comEstablished` is queued once per entity, and
    that nobody holds the entity before it has run. `getNextLoop` stays within
    the pool (`NextInPool`).

**Only model-checked**: the liveness properties (`DueTimersRun`,
`QueuedAreExecuted`, `StartLoopReturns`, `DestructorReturnsIfLooping`,
`TasksAreExecuted`, `StopReturns`, `MessagesWritten`,
`StartAndStopReturn`, `UpdateReturns`). Liveness under fairness is outside what the prover handles. The digits of a
double are left to `snprintf`; that they fit is assumed, as the code assumes it.

## 6. Not modelled

BlockingQueue and BoundedBlockingQueue have no user in the repository. Endian,
the integers of Buffer and `findCRLF` are conversions without state. Of Thread
only start and join matter to its users here; the thread id it hands to its
object and the names of threads do not. Wording (level names, `errno` texts,
`toIsoString`, the digits of a double), reads of files and `/proc` (FileUtil,
ProcessInfo), termios settings (ComUtil), value types, templates nothing
instantiates (Singleton, ThreadLocal) and vendored code are left out: they hold
no protocol. TinyXML is external to ConfigMgr. Local time
in TimeZone is left out because the tables it needs are never filled (section 7).
An exception that leaves a callback or a task ends the process and is not
modelled. Records without behaviour (MonitorUnit and its kin) have nothing to check.

## 7. Where code, comments and tests disagree

Shown by a run:

* `timerqueue_cancel`: `insert` adds to `timers_` only, so `cancelInLoop`
  (`TimerQueue.cpp:136`) never finds a waiting Timer in `activeTimers_`; a
  Timer cancelled before it expires runs, and one made by `runEvery` cannot be
  stopped except from a callback of its own batch. `Timer_unittest.cpp` cancels
  such timers.

Met while modelling, and described by the conditions of the properties:

* `TimerQueue.cpp:178`: the sentry's address is `UINT32_MAX`. For a Timer above
  it whose expiration equals `now`, the entry is not taken in this round and
  `assert(end == timers_.end() || now < end->first)` fails. `AssertsHold` is
  therefore conditional; without asserts the entry is taken next time
  (`DueTimersRun` holds).
* `EventLoop.cpp:99`: `loop()` sets `quit_ = false`, so a `quit()` made between
  `startLoop()` and that line is lost and the destructor's join never returns.
  Hence `DestructorReturnsIfLooping` and not `DestructorReturns`.
* `EventLoop.cpp:218`: `wakeup()` is a TODO; a functor queued while the loop is
  in poll waits for its timeout, up to 10 s.
* `EventLoopThread.cpp:22`: the destructor of an object never started
  dereferences NULL, and one whose loop was quit by a callback uses a loop that
  is gone.
* `EPollPoller.cpp:98`: `channels_[fd] == channel;` compares instead of
  assigning and leaves NULL in the map, so that the second update of any channel
  fails `assert(channels_[fd] == channel)` in a build that keeps asserts, and so
  does its removal. Without asserts nothing depends on the map and the poller is right.
* `PollPoller.cpp`: enabling a disabled channel again, or adding a removed one
  again, fails asserts (`Reuse` in the model); for channels used once all hold.
* `ThreadPool.cpp:99`: `assertLocked()` in `isFull()` fails after a
  `Condition::wait`, which leaves `holder_` to whoever held the mutex last
  (`Condition.h:27`): in the default build a caller that ever blocks on a full queue
  aborts the process when it wakes. `:51`: `stop` does not wake callers blocked in
  `run`; they stay there.
* `AsyncLogging.cpp:63`: a `stop()` during a write ends the loop before the next
  exchange, and what was appended since the last one is never written. Hence
  `IdleStopFlushes` is about a `stop` that finds the back end waiting.
* `Buffer.h:96`: `findEOL(start)` scans `readableBytes()` bytes from `start`,
  past the readable ones, and can return a position `retrieveUtil` asserts against.
* `ComEntity.cpp:328`: `sendInLoop` gives up when the port *is* opened, with the
  message `com not opened yet, give up writing`. `:437`: `comDestroyed` is a
  TODO, so the poller keeps a `Channel*` to an entity that is deleted.
  `:313`: `handleClose` and `handleError` do nothing, so a descriptor at end of
  file is reported for ever. `createComEntityAndInsert` ignores its port parameters.
* `ComServer.cpp:40`: the destructor destroys entities of the base loop at once,
  ahead of functors that hold their raw `this` (`fate = "baseFunctor"` is reached). A client
  whose call tested `state_` before the destructor began and posts after it may post
  to an entity that is destroyed before its functor runs (`fate` records that too).
  `RawPointersAreGood` exempts these, and the dangling `Channel*` of `:437` above once
  the destructor has begun; what it claims is the posted `this` in the pool's loops.
* `LogFile.cpp:33`: `remain` is not recomputed, so after a write that succeeds the
  retry loop goes on, reading past the line, until a write returns 0; `:45`:
  `writtenBytes_` is counted only there, a whole line per turn, so
  without write errors the size never rolls the file; `:149`: after the clock
  was set back nothing rolls or is flushed by time until it catches up.
* `TimeZone.cpp:170`: a stray `;` makes every file a bad one, and
  `readTimeZoneFile` still returns true.
* `ConfigMgr.cpp:176` and `:187`: both loops drop the result of `NextSibling`, so
  that a ComConfig child, once found, is never left; the shipped `dat/RS485.xml`
  has ComConfig as its root, so the loop finds no child and configures no port.
  `stopBits` is not reset for a new port and not passed to the ComEntity. A file
  without a root element, or a comment with the text `Item`, is dereferenced as NULL.
* `Logging.cpp:173`: with `setOutput` alone `g_flush` is still `defaultFlush`,
  which flushes stdout: the FATAL line stays in the file's buffer and is lost.
  Hence the condition of `FatalLineIsOut`. The result of `fflush` is ignored
  (`LogFile.cpp:51`); in the model it never fails, so the property is also for a
  device that takes what it is given.
* `LogStream.cpp:104`, `LogStream.h:38`: a piece that does not fit is dropped and
  the next ones are not, so that a long line can lose its line number, or its
  newline, in the middle.
* `EventLoop.cpp:200`: a callback that removes another channel of the same poll
  result aborts the process; without the assert the loop would go on to handle
  the removed channel. A channel that was *disabled* in the same round still gets
  the callbacks of its `revents_`, and one that removes itself in its read
  callback still gets its write callback.
* `Thread.cpp:131`: `assert(n == 6)` holds for thread ids of at most five digits.

## 8. Plan

Done: the reactor (TimerQueue, EventLoop, EventLoopThread, both pollers, the round
over the active channels), the pools and logging (ThreadPool, AsyncLogging,
Logger, LogStream, LogFile), Buffer, the calendar, the server of ports and its
configuration, each with its runs. All their invariants, action properties and
refinements are proved, and what their pure functions (`convert`, Date) compute.

Next:

1. The lemmas about sequences and naturals that several proofs repeat, in one
   module.
2. Liveness, once the prover has ENABLED: the ranking arguments are those of the
   fairness conditions in section 4.

Worth modelling once the code uses them: BlockingQueue and BoundedBlockingQueue
against an abstract bounded queue, ComEntity's output buffer and `handleWrite`,
local time.

## 9. Running

    tlc -workers 2 -config TimerQueue.cfg MCTimerQueue
    tlapm TimerQueueProofs.tla

`runs` in PROJECT.json names the module and the configuration of each run; the
longest take about two minutes.
