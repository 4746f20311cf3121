----------------------------- MODULE TimerQueue -----------------------------
(***************************************************************************)
(* The timer queue of an event loop (src/port/TimerQueue.cpp, Timer.h,     *)
(* Timer.cpp, TimerId.h) together with the iterations of the loop that     *)
(* drive it, the kernel's timerfd, and another thread that calls addTimer  *)
(* and cancel through EventLoop::runInLoop.                                *)
(*                                                                         *)
(* A Timer lives at an address that the allocator may hand out again after *)
(* the delete, so `live' says which addresses hold a Timer and `heap' what *)
(* memory holds.  The timerfd runs on CLOCK_MONOTONIC, every expiration is *)
(* on the wall clock of gettimeofday; `offset' is their difference.        *)
(***************************************************************************)
EXTENDS Integers, Sequences, FiniteSets

CONSTANTS
  Addr,        \* addresses the allocator can return for a Timer
  Sentry,      \* UINT32_MAX, the address of getExpired's sentry
  Debug,       \* TRUE in the default build, which keeps the asserts
  MinDelay,    \* the 100 microseconds of howMuchTimeFromNow, in ticks
  Epoch,       \* the wall clock when the monotonic clock starts at 0
  Delays,      \* runAt's times, relative to the wall clock of the call
  Intervals,   \* runEvery's intervals
  Jumps,       \* steps of the wall clock
  MaxMono,     \* bound: how long the clock is followed
  MaxCreated,  \* bound: Timer objects ever created
  MaxFunctors, \* bound: functors queued at a time
  MaxJumps     \* bound: steps of the wall clock

ASSUME AddrAssumption == Addr \subseteq Nat /\ Sentry \in Nat
ASSUME DebugAssumption == Debug \in BOOLEAN
ASSUME TimeAssumption ==
  /\ MinDelay \in Nat \ {0}
  /\ Epoch \in Nat \ {0}
  /\ Delays \subseteq Int
  /\ Intervals \subseteq Nat \ {0}
  /\ Jumps \subseteq Int
ASSUME BoundAssumption ==
  /\ MaxMono \in Nat
  /\ MaxCreated \in Nat
  /\ MaxFunctors \in Nat
  /\ MaxJumps \in Nat

VARIABLES
  heap,          \* what memory holds at each address: a Timer's fields
  live,          \* addresses of the Timers that exist
  created,       \* Timer::s_numCreated_
  timers,        \* timers_
  activeTimers,  \* activeTimers_
  canceling,     \* cancelingTimers_
  calling,       \* callingExpiredTimers_
  batch,         \* handleRead's local `expired'
  todo,          \* its entries whose run() has not returned
  now,           \* handleRead's local `now'
  pc,            \* where the loop thread is in EventLoop::loop
  tfdActive,     \* the timerfd's channel is still to be handled
  pending,       \* pendingFunctors_, the timer queue's part
  running,       \* the functors doPendingFunctors has swapped out
  caller,        \* the Timer the other thread's addTimer has posted
  ids,           \* TimerIds that addTimer returned
  mono,          \* CLOCK_MONOTONIC
  offset,        \* wall clock - CLOCK_MONOTONIC
  jumps,         \* wall clock steps so far
  armed,         \* when the timerfd expires or expired; Never if disarmed
  aborted,       \* an assert failed
  ran,           \* history: sequences whose callback has run
  periodic,      \* history: sequences made by runEvery
  asked,         \* history: sequences passed to cancelInLoop
  stopped        \* history: sequences cancelled while in the batch

loopVars == <<pc, tfdActive>>
queueVars == <<timers, activeTimers, canceling, calling, batch, todo, now>>
memVars == <<heap, live, created>>
postVars == <<pending, running, caller>>
clockVars == <<mono, offset, jumps>>
histVars == <<ran, periodic, asked, stopped>>
vars == <<loopVars, queueVars, memVars, postVars, clockVars, armed, ids,
          aborted, histVars>>

Never == -1
NoCaller == [timer |-> -1, seq |-> 0]

Entry == [exp : Nat, timer : Addr]
TimerId == [timer : Addr, seq : Nat]
Timer == [exp : Nat, interval : Nat, seq : Nat]
Functor == [op : {"add", "cancel"}, id : TimerId]

Id(a) == [timer |-> a, seq |-> heap[a].seq]
Wall == mono + offset
Readable == armed # Never /\ armed <= mono

-----------------------------------------------------------------------------
(***************************************************************************)
(* Helpers.                                                                *)
(***************************************************************************)

\* std::pair's order on Entry: by expiration, then by address.
Less(a, b) == a.exp < b.exp \/ (a.exp = b.exp /\ a.timer < b.timer)

\* detail::howMuchTimeFromNow and timerfd_settime: the wall-clock distance,
\* at least MinDelay, becomes a deadline on the monotonic clock.
ResetTimerfd(when) ==
  mono + (IF when - Wall < MinDelay THEN MinDelay ELSE when - Wall)

\* Mutant: insert compares with an empty queue only.
EarliestChangedEmpty(when) == timers = {}

\* insert's result: no entry is as early as `when'.
EarliestChanged(when) == \A e \in timers : when < e.exp

\* insert and the resetTimerfd of addTimerInLoop.
InsertAndArm(a, when) ==
  /\ timers' = timers \cup {[exp |-> when, timer |-> a]}
  /\ armed' = IF EarliestChanged(when) THEN ResetTimerfd(when) ELSE armed
  /\ aborted' = (Debug /\ [exp |-> when, timer |-> a] \in timers)

\* What cancelInLoop does to the queue.  activeTimers_ is consulted first.
CancelInLoop(id) ==
  /\ IF id \in activeTimers
     THEN /\ timers' = timers \ {[exp |-> heap[id.timer].exp, timer |-> id.timer]}
          /\ aborted' = (Debug /\ [exp |-> heap[id.timer].exp,
                                   timer |-> id.timer] \notin timers)
          /\ live' = live \ {id.timer}
          /\ activeTimers' = activeTimers \ {id}
          /\ UNCHANGED canceling
     ELSE /\ canceling' = IF calling THEN canceling \cup {id} ELSE canceling
          /\ UNCHANGED <<timers, aborted, live, activeTimers>>
  /\ asked' = asked \cup {id.seq}
  /\ stopped' = IF calling /\ \E e \in batch : Id(e.timer) = id
                THEN stopped \cup {id.seq} ELSE stopped

\* lower_bound(Entry(now, UINT32_MAX)): what getExpired takes at time t.
Expired(t) ==
  {e \in timers : e.exp < t \/ (e.exp = t /\ e.timer < Sentry)}

\* The loop thread is inside a user's callback: another channel's, a
\* timer's, a pending functor's, or the code around loop().
InUserCode == pc \in {"events", "functors"} \/ (pc = "calling" /\ todo # {})

\* runAt, runAfter and runEvery: <<expiration, interval>> of the new Timer.
NewTimers ==
  {<<Wall + d, 0>> : d \in {x \in Delays : Wall + x >= 0}}
    \cup {<<Wall + i, i>> : i \in Intervals}

\* new Timer(cb, when, interval): any free address.
Allocate(a, t) ==
  /\ a \notin live
  /\ created < MaxCreated
  /\ created' = created + 1
  /\ live' = live \cup {a}
  /\ heap' = [heap EXCEPT ![a] = [exp |-> t[1], interval |-> t[2],
                                  seq |-> created + 1]]
  /\ periodic' = IF t[2] > 0 THEN periodic \cup {created + 1} ELSE periodic

-----------------------------------------------------------------------------
Init ==
  /\ heap = [a \in Addr |-> [exp |-> 0, interval |-> 0, seq |-> 0]]
  /\ live = {}
  /\ created = 0
  /\ timers = {}
  /\ activeTimers = {}
  /\ canceling = {}
  /\ calling = FALSE
  /\ batch = {}
  /\ todo = {}
  /\ now = Epoch
  /\ pc = "events"
  /\ tfdActive = FALSE
  /\ pending = <<>>
  /\ running = <<>>
  /\ caller = NoCaller
  /\ ids = {}
  /\ mono = 0
  /\ offset = Epoch
  /\ jumps = 0
  /\ armed = Never
  /\ aborted = FALSE
  /\ ran = {}
  /\ periodic = {}
  /\ asked = {}
  /\ stopped = {}

(***************************************************************************)
(* addTimer and cancel, called in the loop thread: runInLoop calls         *)
(* addTimerInLoop and cancelInLoop at once.                                *)
(***************************************************************************)
AddTimer ==
  /\ InUserCode
  /\ \E a \in Addr, t \in NewTimers :
       /\ Allocate(a, t)
       /\ InsertAndArm(a, t[1])
       /\ ids' = ids \cup {[timer |-> a, seq |-> created + 1]}
  /\ UNCHANGED <<activeTimers, canceling, calling, batch, todo, now, loopVars,
                 postVars, clockVars, ran, asked, stopped>>

Cancel ==
  /\ InUserCode
  /\ \E id \in ids : CancelInLoop(id)
  /\ UNCHANGED <<heap, created, calling, batch, todo, now, loopVars, postVars,
                 clockVars, armed, ids, ran, periodic>>

(***************************************************************************)
(* The same calls from another thread: runInLoop queues the functor.       *)
(* addTimer reads timer->sequence() after it has queued the Timer.         *)
(***************************************************************************)
PostAddTimer ==
  /\ pc # "gone"
  /\ caller = NoCaller
  /\ Len(pending) < MaxFunctors
  /\ \E a \in Addr, t \in NewTimers :
       /\ Allocate(a, t)
       /\ caller' = [timer |-> a, seq |-> created + 1]
       /\ pending' = Append(pending, [op |-> "add", id |-> caller'])
  /\ UNCHANGED <<queueVars, loopVars, running, clockVars, armed, ids, aborted,
                 ran, asked, stopped>>

\* A deleted Timer's memory reads as anything.
ReturnTimerId ==
  /\ caller # NoCaller
  /\ \E s \in IF caller.timer \in live THEN {heap[caller.timer].seq}
              ELSE 0..created :
       ids' = ids \cup {[timer |-> caller.timer, seq |-> s]}
  /\ caller' = NoCaller
  /\ UNCHANGED <<queueVars, loopVars, memVars, pending, running, clockVars,
                 armed, aborted, histVars>>

PostCancel ==
  /\ pc # "gone"
  /\ Len(pending) < MaxFunctors
  /\ \E id \in ids : pending' = Append(pending, [op |-> "cancel", id |-> id])
  /\ UNCHANGED <<queueVars, loopVars, memVars, running, caller, clockVars,
                 armed, ids, aborted, histVars>>

(***************************************************************************)
(* One iteration of EventLoop::loop.  Poll returns because the timerfd or  *)
(* another descriptor is ready or because of its timeout.                  *)
(***************************************************************************)
Poll ==
  /\ pc = "poll"
  /\ pc' = "events"
  /\ tfdActive' = Readable
  /\ UNCHANGED <<queueVars, memVars, postVars, clockVars, armed, ids, aborted,
                 histVars>>

\* handleRead up to the callbacks: readTimerfd, getExpired, and the flags.
HandleRead ==
  /\ pc = "events" /\ tfdActive
  /\ pc' = "calling"
  /\ now' = Wall
  /\ armed' = IF Readable THEN Never ELSE armed
  /\ batch' = Expired(Wall)
  /\ todo' = Expired(Wall)
  /\ timers' = timers \ Expired(Wall)
  /\ activeTimers' = activeTimers \ {Id(e.timer) : e \in Expired(Wall)}
  /\ aborted' = (Debug /\ \E e \in timers \ Expired(Wall) : e.exp <= Wall)
  /\ calling' = TRUE
  /\ canceling' = {}
  /\ UNCHANGED <<tfdActive, memVars, postVars, clockVars, ids, histVars>>

\* it->second->run() returns; the entries are in the set's order.
CallbackReturns ==
  /\ pc = "calling"
  /\ \E e \in todo :
       /\ \A f \in todo : ~Less(f, e)
       /\ todo' = todo \ {e}
       /\ ran' = ran \cup {heap[e.timer].seq}
  /\ UNCHANGED <<timers, activeTimers, canceling, calling, batch, now,
                 loopVars, memVars, postVars, clockVars, armed, ids, aborted,
                 periodic, asked, stopped>>

\* Mutant: reset() looks up the address without the sequence number.
RestartedByAddress ==
  {e \in batch : /\ heap[e.timer].interval > 0
                 /\ \A id \in canceling : id.timer # e.timer}

\* Mutant: reset() does not look at cancelingTimers_.
RestartedUnchecked == {e \in batch : heap[e.timer].interval > 0}

\* The entries of the batch that reset() restarts.
Restarted ==
  {e \in batch : heap[e.timer].interval > 0 /\ Id(e.timer) \notin canceling}

\* Mutant: insert before restart.
RestartedEntryStale(e) == e

\* insert(it->second) of reset(), after restart(now).
RestartedEntry(e) ==
  [exp |-> now + heap[e.timer].interval, timer |-> e.timer]

\* Mutant: reset() deletes only the repeating Timers that were cancelled.
DeletedCancelled ==
  {e.timer : e \in {f \in batch \ Restarted : heap[f.timer].interval > 0}}

\* The Timers of the batch that reset() deletes.
Deleted == {e.timer : e \in batch \ Restarted}

\* Mutant: nothing expired, so nothing is re-armed.
RearmIfExpired(ts) ==
  IF ts = {} \/ batch = {}
  THEN armed' = armed
  ELSE \E e \in ts : /\ \A f \in ts : e.exp <= f.exp
                     /\ armed' = ResetTimerfd(e.exp)

\* The end of reset(): the timerfd is set for the earliest entry, if its
\* expiration is a valid() Timestamp.
Rearm(ts) ==
  IF ts = {}
  THEN armed' = armed
  ELSE \E e \in ts :
         /\ \A f \in ts : e.exp <= f.exp
         /\ armed' = IF e.exp > 0 THEN ResetTimerfd(e.exp) ELSE armed

\* The rest of handleRead: callingExpiredTimers_ and reset().
Reset ==
  /\ pc = "calling" /\ todo = {}
  /\ pc' = "events"
  /\ tfdActive' = FALSE
  /\ calling' = FALSE
  /\ timers' = timers \cup {RestartedEntry(e) : e \in Restarted}
  /\ heap' = [a \in Addr |->
                IF \E e \in Restarted : e.timer = a
                THEN [heap[a] EXCEPT !.exp = now + heap[a].interval]
                ELSE heap[a]]
  /\ live' = live \ Deleted
  /\ aborted' = (Debug /\ \E e \in Restarted : RestartedEntry(e) \in timers)
  /\ Rearm(timers')
  /\ batch' = {}
  /\ UNCHANGED <<activeTimers, canceling, todo, now, created, postVars,
                 clockVars, ids, histVars>>

\* All active channels are handled; doPendingFunctors swaps the functors out.
EventsDone ==
  /\ pc = "events" /\ ~tfdActive
  /\ pc' = "functors"
  /\ running' = pending
  /\ pending' = <<>>
  /\ UNCHANGED <<tfdActive, queueVars, memVars, caller, clockVars, armed, ids,
                 aborted, histVars>>

RunAdd ==
  /\ pc = "functors" /\ running # <<>>
  /\ Head(running).op = "add"
  /\ running' = Tail(running)
  /\ LET a == Head(running).id.timer IN InsertAndArm(a, heap[a].exp)
  /\ UNCHANGED <<activeTimers, canceling, calling, batch, todo, now, loopVars,
                 memVars, pending, caller, clockVars, ids, histVars>>

RunCancel ==
  /\ pc = "functors" /\ running # <<>>
  /\ Head(running).op = "cancel"
  /\ running' = Tail(running)
  /\ CancelInLoop(Head(running).id)
  /\ UNCHANGED <<heap, created, calling, batch, todo, now, loopVars, pending,
                 caller, clockVars, armed, ids, ran, periodic>>

FunctorsDone ==
  /\ pc = "functors" /\ running = <<>>
  /\ pc' = "poll"
  /\ UNCHANGED <<tfdActive, queueVars, memVars, postVars, clockVars, armed,
                 ids, aborted, histVars>>

\* loop() has returned and the loop is destroyed: ~TimerQueue.
Destroy ==
  /\ pc = "poll"
  /\ caller = NoCaller
  /\ pc' = "gone"
  /\ live' = live \ {e.timer : e \in timers}
  /\ timers' = {}
  /\ armed' = Never
  /\ UNCHANGED <<tfdActive, activeTimers, canceling, calling, batch, todo, now,
                 heap, created, postVars, clockVars, ids, aborted, histVars>>

-----------------------------------------------------------------------------
(***************************************************************************)
(* Time.  It is followed up to MaxMono, and beyond as long as an entry due *)
(* by MaxMono + Epoch waits for the timerfd.                               *)
(***************************************************************************)
Tick ==
  /\ pc # "gone"
  /\ \/ mono < MaxMono
     \/ armed > mono /\ \E e \in timers : e.exp <= MaxMono + Epoch
  /\ mono' = mono + 1
  /\ UNCHANGED <<loopVars, queueVars, memVars, postVars, offset, jumps, armed,
                 ids, aborted, histVars>>

\* settimeofday or NTP steps the wall clock.
StepWallClock ==
  /\ pc # "gone"
  /\ jumps < MaxJumps
  /\ jumps' = jumps + 1
  /\ \E d \in Jumps : Wall + d > 0 /\ offset' = offset + d
  /\ UNCHANGED <<loopVars, queueVars, memVars, postVars, mono, armed, ids,
                 aborted, histVars>>

\* Nothing happens after the destructor.
Gone == pc = "gone" /\ UNCHANGED vars

LoopStep ==
  \/ Poll \/ HandleRead \/ CallbackReturns \/ Reset
  \/ EventsDone \/ RunAdd \/ RunCancel \/ FunctorsDone

UserStep ==
  AddTimer \/ Cancel \/ PostAddTimer \/ ReturnTimerId \/ PostCancel \/ Destroy

Next ==
  \/ ~aborted /\ (LoopStep \/ UserStep \/ Tick \/ StepWallClock)
  \/ Gone

Spec == Init /\ [][Next]_vars

\* The loop thread runs until it is destroyed, and time passes.
FairSpec == Spec /\ WF_vars(~aborted /\ LoopStep) /\ WF_vars(~aborted /\ Tick)

-----------------------------------------------------------------------------
(***************************************************************************)
(* Properties.                                                             *)
(***************************************************************************)

TypeOK ==
  /\ heap \in [Addr -> Timer]
  /\ live \subseteq Addr
  /\ created \in Nat
  /\ timers \subseteq Entry
  /\ activeTimers \subseteq TimerId
  /\ canceling \subseteq TimerId
  /\ calling \in BOOLEAN
  /\ batch \subseteq Entry
  /\ todo \subseteq batch
  /\ now \in Nat \ {0}
  /\ pc \in {"poll", "events", "calling", "functors", "gone"}
  /\ tfdActive \in BOOLEAN
  /\ pending \in Seq(Functor)
  /\ running \in Seq(Functor)
  /\ caller \in TimerId \cup {NoCaller}
  /\ ids \subseteq TimerId
  /\ mono \in Nat
  /\ offset \in Int
  /\ Wall > 0
  /\ jumps \in Nat
  /\ armed \in Nat \cup {Never}
  /\ aborted \in BOOLEAN
  /\ ran \subseteq Nat
  /\ periodic \subseteq Nat
  /\ asked \subseteq Nat
  /\ stopped \subseteq Nat

\* Addresses of the Timers queued by other threads and not yet inserted.
Queued(q) == {q[i].id.timer : i \in {j \in 1..Len(q) : q[j].op = "add"}}

\* Every raw Timer* the queue holds points to a Timer that exists, whose
\* expiration is the key it is filed under (restart() changes it only while
\* the entry is out of timers_), and no Timer is held twice: neither
\* handleRead nor the destructor touches or deletes a deleted Timer.
NoDangling ==
  /\ \A e \in timers \cup batch :
       e.timer \in live /\ heap[e.timer].exp = e.exp
  /\ \A e \in timers, f \in batch : e.timer # f.timer
  /\ Queued(pending) \cup Queued(running) \subseteq live
  /\ \A e \in timers \cup batch :
       e.timer \notin Queued(pending) \cup Queued(running)

\* Once control is back in the loop, a non-empty timers_ has its timerfd
\* armed (or expired and not yet read): no entry is left without an alarm,
\* whatever callbacks, other threads and the wall clock did meanwhile.
TimerfdArmed ==
  timers # {} => armed # Never \/ tfdActive

\* While nobody steps the wall clock, the alarm is not late for any entry by
\* more than the 100us floor of howMuchTimeFromNow, though it is only moved
\* when insert() reports a new earliest entry.
TimerfdInTime ==
  jumps = 0 /\ ~tfdActive =>
    \A e \in timers :
      armed <= mono + (IF e.exp - Wall < MinDelay THEN MinDelay
                       ELSE e.exp - Wall)

\* The alarm: an entry never waits without one, though the timerfd is moved
\* only by an insert() that reports a new earliest entry and by a reset() that
\* leaves entries behind, and until the wall clock is stepped it is in time
\* for every entry, not only for the one it was set for.
AlarmInTime == TimerfdArmed /\ TimerfdInTime

\* A repeating Timer cancelled while its batch is being called is not
\* restarted: it never returns to timers_, even though its address may.
CancelInBatchStops == \A e \in timers : heap[e.timer].seq \notin stopped

\* No Timer is lost: each one created has run or still exists, and one made
\* by runEvery exists until cancel is called with its own sequence number,
\* never because of a cancel for an older Timer at the same address.
NoTimerLost ==
  pc # "gone" =>
    \A s \in 1..created :
      \/ \E a \in live : heap[a].seq = s
      \/ s \in ran /\ (s \in periodic => s \in asked)

\* The destructor frees every Timer except those whose addTimerInLoop was
\* still queued when the loop ended.
DestructorFrees ==
  pc = "gone" => live \subseteq Queued(pending)

\* The asserts of getExpired, insert and cancelInLoop hold.
NeverAborts == ~aborted

\* What Timer_unittest.cpp does with t45 and t3: handleRead runs no Timer for
\* which cancel has been called before.
CancelledNeverRuns ==
  [][pc = "events" /\ pc' = "calling" =>
       \A e \in batch' : heap[e.timer].seq \notin asked]_vars

\* The parts of the invariant that makes the above inductive.  Control: what
\* each place of the loop implies for handleRead's locals and for the flags;
\* activeTimers_ is never filled.
ControlInv ==
  /\ activeTimers = {}
  /\ calling = (pc = "calling")
  /\ batch # {} => pc = "calling"
  /\ pc = "calling" => tfdActive
  /\ tfdActive => pc \in {"events", "calling"}
  /\ running # <<>> => pc = "functors"

\* Each queued addTimerInLoop has a Timer of its own.
Unique(q) ==
  \A i, j \in 1..Len(q) :
    q[i].op = "add" /\ q[j].op = "add" /\ q[i].id.timer = q[j].id.timer => i = j
QueueInv ==
  /\ Unique(pending)
  /\ Unique(running)
  /\ Queued(pending) \cap Queued(running) = {}

\* Every Timer is owned by exactly one of the containers that delete it or
\* hand it on.
OwnerInv ==
  pc # "gone" =>
    \A a \in live :
      \/ \E e \in timers \cup batch : e.timer = a
      \/ a \in Queued(pending) \cup Queued(running)

\* An entry at time 0, which reset() does not re-arm for, was inserted by one
\* of this batch's callbacks and armed there.
ZeroInv ==
  pc = "calling" =>
    \A e \in timers : e.exp = 0 => armed # Never /\ armed <= mono + MinDelay

\* Sequence numbers are unique, and tell what the history variables record.
SeqInv ==
  /\ \A a \in live : heap[a].seq \in 1..created
  /\ \A a, b \in live : heap[a].seq = heap[b].seq => a = b
  /\ \A a \in live : (heap[a].interval > 0) <=> (heap[a].seq \in periodic)
  /\ periodic \subseteq 1..created
  /\ stopped \subseteq 1..created
HistoryInv ==
  /\ \A e \in batch \ todo : heap[e.timer].seq \in ran
  /\ \A id \in canceling : id.seq \in asked
  /\ \A a \in live : heap[a].seq \in stopped =>
       /\ \E e \in batch : e.timer = a
       /\ Id(a) \in canceling

Inv1 == TypeOK /\ ControlInv /\ NoDangling /\ QueueInv
Inv3 == SeqInv /\ HistoryInv /\ CancelInBatchStops /\ NoTimerLost

\* An entry that is due within the followed time leaves timers_ eventually:
\* its callback is called although only the timerfd can tell the loop.
Filed(s) ==
  \E e \in timers : heap[e.timer].seq = s /\ e.exp <= MaxMono + Epoch
DueTimersRun ==
  \A s \in 1..MaxCreated : Filed(s) ~> (~Filed(s) \/ pc = "gone")
=============================================================================
