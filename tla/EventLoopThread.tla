--------------------------- MODULE EventLoopThread ---------------------------
(***************************************************************************)
(* A thread that owns an event loop (src/port/EventLoopThread.cpp, with    *)
(* src/utils/Thread.cpp), and the thread that creates, uses and destroys   *)
(* it.  The loop is a local variable of threadFunc: it exists from its     *)
(* construction there until loop() returns.                                *)
(***************************************************************************)
EXTENDS EventLoop

VARIABLES
  tpc,      \* the loop's thread: where it is in threadFunc
  owner,    \* the owner thread: where it is
  loopPtr,  \* loop_ # NULL
  notified, \* the owner is blocked in cond_.wait and has been notified
  dangling, \* history: loop_ was used after the loop's lifetime
  selfQuit  \* history: a callback of the loop called quit() itself

threadVars == <<tpc, owner, loopPtr, notified, dangling, selfQuit>>
vars == <<loopVars, threadVars>>

\* The EventLoop object exists.
Alive == tpc \in {"init", "publish", "loop"}

Init ==
  /\ EventLoopInit
  /\ tpc = "unborn"
  /\ owner = "created"
  /\ loopPtr = FALSE
  /\ notified = FALSE
  /\ dangling = FALSE
  /\ selfQuit = FALSE

(***************************************************************************)
(* The owner: startLoop, use, and the destructor.                          *)
(***************************************************************************)

\* startLoop up to the lock: thread_.start().
Start ==
  /\ owner = "created"
  /\ owner' = "locking"
  /\ tpc' = "born"
  /\ UNCHANGED <<loopVars, loopPtr, notified, dangling, selfQuit>>

\* The lock and the first test of loop_, under mutex_.
Lock ==
  /\ owner = "locking"
  /\ owner' = IF loopPtr THEN "using" ELSE "waiting"
  /\ UNCHANGED <<loopVars, tpc, loopPtr, notified, dangling, selfQuit>>

\* cond_.wait returns, notified or spuriously, and loop_ is tested again.
WaitReturns ==
  /\ owner = "waiting"
  /\ owner' = IF loopPtr THEN "using" ELSE "waiting"
  /\ notified' = FALSE
  /\ UNCHANGED <<loopVars, tpc, loopPtr, dangling, selfQuit>>

\* The owner posts to the loop that startLoop returned.
Use ==
  /\ owner = "using"
  /\ Alive /\ QueueInLoop(FALSE)
  /\ UNCHANGED threadVars

\* ~EventLoopThread: loop_->quit(), on whatever loop_ points to.  In an object
\* that was never started that is NULL.
DestructorQuits ==
  /\ owner \in {"created", "using"}
  /\ owner' = IF loopPtr THEN "joining" ELSE "crashed"
  /\ IF Alive
     THEN Quit(FALSE) /\ UNCHANGED dangling
     ELSE dangling' = loopPtr /\ UNCHANGED loopVars
  /\ UNCHANGED <<tpc, loopPtr, notified, selfQuit>>

\* thread_.join()
Join ==
  /\ owner = "joining" /\ tpc = "exited"
  /\ owner' = "destroyed"
  /\ UNCHANGED <<loopVars, tpc, loopPtr, notified, dangling, selfQuit>>

(***************************************************************************)
(* threadFunc.                                                             *)
(***************************************************************************)

\* EventLoop loop; and the call of callback_.
Construct ==
  /\ tpc = "born"
  /\ tpc' = "init"
  /\ UNCHANGED <<loopVars, owner, loopPtr, notified, dangling, selfQuit>>

InitCallbackReturns ==
  /\ tpc = "init"
  /\ tpc' = "publish"
  /\ UNCHANGED <<loopVars, owner, loopPtr, notified, dangling, selfQuit>>

\* Mutant: loop_ is published and nobody is notified.
PublishSilently ==
  /\ tpc = "publish"
  /\ tpc' = "loop"
  /\ loopPtr' = TRUE
  /\ UNCHANGED <<loopVars, owner, notified, dangling, selfQuit>>

\* loop_ = &loop and notify, under mutex_.
Publish ==
  /\ tpc = "publish"
  /\ tpc' = "loop"
  /\ loopPtr' = TRUE
  /\ notified' = (owner = "waiting")
  /\ UNCHANGED <<loopVars, owner, dangling, selfQuit>>

\* loop.loop(), and the callbacks it makes.
Loop ==
  /\ tpc = "loop"
  /\ LoopThread
  /\ UNCHANGED threadVars

\* The init callback, an event's callback or a functor.
InCallback == tpc = "init" \/ (tpc = "loop" /\ pc # "ready")

CallbackQueues ==
  /\ InCallback
  /\ QueueInLoop(TRUE)
  /\ UNCHANGED threadVars

CallbackQuits ==
  /\ InCallback
  /\ Quit(TRUE)
  /\ selfQuit' = TRUE
  /\ UNCHANGED <<tpc, owner, loopPtr, notified, dangling>>

\* loop() has returned: threadFunc ends and destroys the loop.
Exit ==
  /\ tpc = "loop" /\ pc = "done"
  /\ tpc' = "exited"
  /\ UNCHANGED <<loopVars, owner, loopPtr, notified, dangling, selfQuit>>

LoopThreadProgress ==
  \/ Construct \/ InitCallbackReturns \/ Publish \/ Exit
  \/ tpc = "loop" /\ LoopProgress /\ UNCHANGED threadVars

Next ==
  \/ Start \/ Lock \/ WaitReturns \/ Use \/ DestructorQuits \/ Join
  \/ Construct \/ InitCallbackReturns \/ Publish \/ Loop
  \/ CallbackQueues \/ CallbackQuits \/ Exit
  \/ owner \in {"destroyed", "crashed"} /\ UNCHANGED vars

Spec == Init /\ [][Next]_vars

\* Both threads are scheduled, callbacks return, and poll has a timeout; no
\* other descriptor need ever become ready.  The owner waits only as its code
\* says, and a notified wait returns (a spurious return need not happen).
FairSpec ==
  /\ Spec
  /\ WF_vars(LoopThreadProgress)
  /\ WF_vars(Lock)
  /\ WF_vars(notified /\ WaitReturns)
  /\ WF_vars(Join)

-----------------------------------------------------------------------------
TypeOK ==
  /\ EventLoopTypeOK
  /\ tpc \in {"unborn", "born", "init", "publish", "loop", "exited"}
  /\ owner \in {"created", "locking", "waiting", "using", "joining", "destroyed",
                "crashed"}
  /\ loopPtr \in BOOLEAN
  /\ notified \in BOOLEAN
  /\ dangling \in BOOLEAN
  /\ selfQuit \in BOOLEAN

\* startLoop hands out the loop only once threadFunc has constructed it and
\* its init callback has returned.
LoopReadyWhenStarted ==
  owner \in {"using", "joining", "destroyed"} => tpc \in {"loop", "exited"}

\* Unless a callback quits the loop itself, the loop outlives every use the
\* owner makes of loop_, up to and including the destructor's quit(); and the
\* destructor dereferences NULL only if the thread was never started.
NoDanglingUse ==
  /\ dangling => selfQuit
  /\ owner = "crashed" => tpc = "unborn"

\* startLoop returns: the notification that the loop is ready is not lost.
StartLoopReturns == (owner \in {"locking", "waiting"}) ~> (owner = "using")

\* The destructor returns if loop() was running when it called quit(), though
\* nothing wakes the loop up.
DestructorReturnsIfLooping ==
  (owner = "joining" /\ quit /\ looping) ~> (owner = "destroyed")

\* What every user of EventLoopThread relies on, Timer_unittest.cpp included,
\* when the object goes out of scope: the destructor returns.
DestructorReturns == (owner = "joining") ~> (owner = "destroyed")
=============================================================================
