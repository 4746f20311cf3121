------------------------------ MODULE EventLoop ------------------------------
(***************************************************************************)
(* The reactor loop of src/port/EventLoop.cpp: one thread that polls,      *)
(* handles the active channels and runs the functors that it or other      *)
(* threads queued, until quit() is called.                                 *)
(*                                                                         *)
(* A functor is identified by its position in the order of the push_backs. *)
(* Channels are left to the pollers' modules: an event here is a user      *)
(* callback that may queue functors and quit, like a functor.              *)
(***************************************************************************)
EXTENDS Integers, Sequences

CONSTANTS
  MaxPushed  \* bound: functors ever queued

ASSUME MaxPushedAssumption == MaxPushed \in Nat

VARIABLES
  pc,          \* where the loop thread is
  quit,        \* quit_
  looping,     \* looping_
  calling,     \* callingPendingFunctors_
  pending,     \* pendingFunctors_
  running,     \* doPendingFunctors' local, what is left of it
  pushed,      \* functors queued so far
  executed,    \* history: functors in the order they ran
  wakeupFd     \* the count of the eventfd that wakeup() should raise

loopVars == <<pc, quit, looping, calling, pending, running, pushed, executed,
              wakeupFd>>

\* Before loop(), at the while, blocked in poll, handling active channels,
\* about to swap, between two functors, inside one, and after loop().
Places == {"ready", "while", "poll", "events", "swap", "functors", "functor", "done"}

InUserCode == pc \in {"ready", "events", "functor"}

EventLoopInit ==
  /\ pc = "ready"
  /\ quit = FALSE
  /\ looping = FALSE
  /\ calling = FALSE
  /\ pending = <<>>
  /\ running = <<>>
  /\ pushed = 0
  /\ executed = <<>>
  /\ wakeupFd = 0

(***************************************************************************)
(* loop().                                                                 *)
(***************************************************************************)

\* loop() up to the while: a quit() made before is forgotten.
LoopStart ==
  /\ pc = "ready"
  /\ pc' = "while"
  /\ looping' = TRUE
  /\ quit' = FALSE
  /\ UNCHANGED <<calling, pending, running, pushed, executed, wakeupFd>>

\* Mutant: while (true).
WhileForever ==
  /\ pc = "while"
  /\ pc' = "poll"
  /\ UNCHANGED <<quit, looping, calling, pending, running, pushed, executed,
                 wakeupFd>>

\* while (!quit_), and the end of loop().
While ==
  /\ pc = "while"
  /\ pc' = IF quit THEN "done" ELSE "poll"
  /\ looping' = ~quit
  /\ UNCHANGED <<quit, calling, pending, running, pushed, executed, wakeupFd>>

\* poll returns with active channels: the eventfd, or any other descriptor.
PollReturns ==
  /\ pc = "poll"
  /\ pc' = "events"
  /\ UNCHANGED <<quit, looping, calling, pending, running, pushed, executed,
                 wakeupFd>>

\* Mutant: a poll without active channels starts the next iteration at once.
PollTimesOutContinues ==
  /\ pc = "poll" /\ wakeupFd = 0
  /\ pc' = "while"
  /\ UNCHANGED <<quit, looping, calling, pending, running, pushed, executed,
                 wakeupFd>>

\* Mutant: a poll without active channels ends the loop.
PollTimesOutEnds ==
  /\ pc = "poll" /\ wakeupFd = 0
  /\ pc' = "done"
  /\ looping' = FALSE
  /\ UNCHANGED <<quit, calling, pending, running, pushed, executed, wakeupFd>>

\* poll returns after kPollTimeMs because no descriptor is ready.
PollTimesOut ==
  /\ pc = "poll" /\ wakeupFd = 0
  /\ pc' = "events"
  /\ UNCHANGED <<quit, looping, calling, pending, running, pushed, executed,
                 wakeupFd>>

\* The channels are handled; handleRead of the wakeup channel reads nothing.
EventsDone ==
  /\ pc = "events"
  /\ pc' = "swap"
  /\ calling' = TRUE
  /\ UNCHANGED <<quit, looping, pending, running, pushed, executed, wakeupFd>>

\* Mutant: the functors are copied, and cleared after they have run.
SwapCopies ==
  /\ pc = "swap"
  /\ pc' = "functors"
  /\ running' = pending
  /\ UNCHANGED <<quit, looping, calling, pending, pushed, executed, wakeupFd>>

\* functors.swap(pendingFunctors_), under the mutex.
Swap ==
  /\ pc = "swap"
  /\ pc' = "functors"
  /\ running' = pending
  /\ pending' = <<>>
  /\ UNCHANGED <<quit, looping, calling, pushed, executed, wakeupFd>>

\* functors[i]() is called, and returns.
FunctorStarts ==
  /\ pc = "functors" /\ running # <<>>
  /\ pc' = "functor"
  /\ executed' = Append(executed, Head(running))
  /\ running' = Tail(running)
  /\ UNCHANGED <<quit, looping, calling, pending, pushed, wakeupFd>>

FunctorReturns ==
  /\ pc = "functor"
  /\ pc' = "functors"
  /\ UNCHANGED <<quit, looping, calling, pending, running, pushed, executed,
                 wakeupFd>>

FunctorsDone ==
  /\ pc = "functors" /\ running = <<>>
  /\ pc' = "while"
  /\ calling' = FALSE
  /\ UNCHANGED <<quit, looping, pending, running, pushed, executed, wakeupFd>>

(***************************************************************************)
(* queueInLoop and quit, from any thread.                                  *)
(***************************************************************************)

\* wakeup() is a TODO: it leaves the eventfd alone.
Wakeup == wakeupFd' = wakeupFd

\* queueInLoop; in another thread runInLoop is the same.
QueueInLoop(inLoopThread) ==
  /\ inLoopThread => InUserCode
  /\ pushed < MaxPushed
  /\ pushed' = pushed + 1
  /\ pending' = Append(pending, pushed + 1)
  /\ IF ~inLoopThread \/ calling THEN Wakeup ELSE UNCHANGED wakeupFd
  /\ UNCHANGED <<pc, quit, looping, calling, running, executed>>

Quit(inLoopThread) ==
  /\ inLoopThread => InUserCode
  /\ quit' = TRUE
  /\ IF ~inLoopThread THEN Wakeup ELSE UNCHANGED wakeupFd
  /\ UNCHANGED <<pc, looping, calling, pending, running, pushed, executed>>

\* The steps the loop thread takes by itself.
LoopProgress ==
  \/ LoopStart \/ While \/ PollTimesOut \/ EventsDone
  \/ Swap \/ FunctorStarts \/ FunctorReturns \/ FunctorsDone

LoopThread == LoopProgress \/ PollReturns

OtherThread == QueueInLoop(FALSE) \/ Quit(FALSE)

\* Callbacks may queue and may quit.
UserCode == QueueInLoop(TRUE) \/ Quit(TRUE)

EventLoopNext ==
  \/ LoopThread \/ OtherThread \/ UserCode
  \/ pc = "done" /\ UNCHANGED loopVars

EventLoopSpec == EventLoopInit /\ [][EventLoopNext]_loopVars

-----------------------------------------------------------------------------
EventLoopTypeOK ==
  /\ pc \in Places
  /\ quit \in BOOLEAN
  /\ looping \in BOOLEAN
  /\ calling \in BOOLEAN
  /\ pending \in Seq(Nat)
  /\ running \in Seq(Nat)
  /\ pushed \in Nat
  /\ executed \in Seq(Nat)
  /\ wakeupFd \in Nat

\* Every functor is executed at most once and in the order of the push_backs,
\* and is neither lost nor duplicated between pendingFunctors_, the vector
\* swapped out of it and the functors that ran, whoever queues meanwhile.
FifoExactlyOnce ==
  /\ Len(executed) + Len(running) + Len(pending) = pushed
  /\ \A i \in 1..Len(executed) : executed[i] = i
  /\ \A i \in 1..Len(running) : running[i] = Len(executed) + i
  /\ \A i \in 1..Len(pending) : pending[i] = Len(executed) + Len(running) + i

\* What the place of the loop thread implies for its flags and its batch.
LoopControlInv ==
  /\ looping <=> pc \notin {"ready", "done"}
  /\ calling <=> pc \in {"swap", "functors", "functor"}
  /\ running # <<>> => pc \in {"functors", "functor"}

\* A functor queued while functors run waits for the next iteration: the
\* batch only shrinks, so functors that queue functors cannot keep the loop
\* from its channels.
BatchOnlyShrinks ==
  [][calling /\ running # <<>> /\ running' # running =>
       running' = Tail(running)]_loopVars

\* What is queued is executed, unless the loop ends first.
QueuedAreExecuted ==
  \A n \in 1..MaxPushed :
    (pushed >= n) ~> (Len(executed) >= n \/ pc = "done")

\* What queueInLoop's wakeup is for, and Timer_unittest.cpp relies on when it
\* posts a 2 s timer from another thread and waits 3 s: poll does not sleep
\* through its timeout with functors waiting.
NoSleepOverFunctors ==
  [][PollTimesOut => pending = <<>>]_loopVars
=============================================================================
