---------------------------- MODULE EventLoopProofs ----------------------------
(***************************************************************************)
(* Proofs about EventLoop and EventLoopThread, for any number of queued    *)
(* functors.                                                               *)
(***************************************************************************)
EXTENDS EventLoopThread, TLAPS

\* The inductive invariant: a batch exists only while functors run.
LoopInv == EventLoopTypeOK /\ LoopControlInv /\ FifoExactlyOnce

\* LoopInv holds initially, and every step keeps it.
LEMMA LoopInvInductive ==
  /\ EventLoopInit => LoopInv
  /\ LoopInv /\ [EventLoopNext]_loopVars => LoopInv'
<1>1. EventLoopInit => LoopInv
  <2> SUFFICES ASSUME EventLoopInit PROVE LoopInv
    OBVIOUS
  <2>1. Len(executed) = 0 /\ Len(running) = 0 /\ Len(pending) = 0 /\ pushed = 0
    BY DEF EventLoopInit
  <2>2. EventLoopTypeOK
    <3>1. <<>> \in Seq(Nat)
      OBVIOUS
    <3>2. pending \in Seq(Nat) /\ running \in Seq(Nat) /\ executed \in Seq(Nat)
      BY <3>1, Zenon DEF EventLoopInit
    <3> QED
      BY <3>2 DEF EventLoopInit, EventLoopTypeOK, Places
  <2>3. FifoExactlyOnce
    BY <2>1 DEF FifoExactlyOnce
  <2> QED
    BY <2>2, <2>3 DEF EventLoopInit, LoopInv, LoopControlInv
<1>2. ASSUME LoopInv, [EventLoopNext]_loopVars PROVE LoopInv'
  <2>0. EventLoopTypeOK /\ LoopControlInv /\ FifoExactlyOnce
    BY <1>2 DEF LoopInv
  <2>u. ASSUME UNCHANGED <<pending, running, pushed, executed>>
        PROVE  FifoExactlyOnce'
    BY <2>0, <2>u DEF FifoExactlyOnce
  <2>1. CASE LoopStart \/ While \/ PollReturns \/ PollTimesOut \/ EventsDone
             \/ FunctorReturns \/ FunctorsDone
    <3>1. UNCHANGED <<pending, running, pushed, executed, wakeupFd>>
      BY <2>1 DEF LoopStart, While, PollReturns, PollTimesOut, EventsDone,
         FunctorReturns, FunctorsDone
    <3>2. EventLoopTypeOK'
      BY <2>0, <2>1, <3>1 DEF EventLoopTypeOK, Places, LoopStart, While,
         PollReturns, PollTimesOut, EventsDone, FunctorReturns, FunctorsDone
    <3>3. LoopControlInv'
      BY <2>0, <2>1, <3>1 DEF EventLoopTypeOK, LoopControlInv, LoopStart, While,
         PollReturns, PollTimesOut, EventsDone, FunctorReturns, FunctorsDone
    <3> QED
      BY <2>u, <3>1, <3>2, <3>3 DEF LoopInv
  <2>2. CASE Swap
    <3>1. /\ running = <<>> /\ running' = pending /\ pending' = <<>>
          /\ UNCHANGED <<pushed, executed>>
      BY <2>0, <2>2 DEF Swap, LoopControlInv
    <3>2. FifoExactlyOnce'
      BY <2>0, <3>1 DEF FifoExactlyOnce, EventLoopTypeOK
    <3>3. EventLoopTypeOK' /\ LoopControlInv'
      BY <2>0, <2>2 DEF Swap, EventLoopTypeOK, Places, LoopControlInv
    <3> QED
      BY <3>2, <3>3 DEF LoopInv
  <2>3. CASE FunctorStarts
    <3>1. /\ running # <<>> /\ running' = Tail(running)
          /\ executed' = Append(executed, Head(running))
          /\ UNCHANGED <<pushed, pending>>
      BY <2>3 DEF FunctorStarts
    <3>2. /\ Len(running) \in Nat /\ Len(running) >= 1
          /\ Len(running') = Len(running) - 1
          /\ \A i \in 1..Len(running') : running'[i] = running[i + 1]
          /\ running' \in Seq(Nat)
          /\ Head(running) = running[1] /\ Head(running) \in Nat
      BY <2>0, <3>1 DEF EventLoopTypeOK
    <3>3. /\ Len(executed) \in Nat /\ Len(executed') = Len(executed) + 1
          /\ \A i \in 1..Len(executed) : executed'[i] = executed[i]
          /\ executed'[Len(executed) + 1] = running[1]
          /\ executed' \in Seq(Nat)
      BY <2>0, <3>1, <3>2 DEF EventLoopTypeOK
    <3>4. running[1] = Len(executed) + 1
      BY <2>0, <3>2 DEF FifoExactlyOnce
    <3>5. FifoExactlyOnce'
      <4>1. Len(executed') + Len(running') + Len(pending') = pushed'
        <5>1. Len(executed) + Len(running) + Len(pending) = pushed
              /\ Len(pending) \in Nat
          BY <2>0 DEF FifoExactlyOnce, EventLoopTypeOK
        <5>2. Len(pending') = Len(pending) /\ pushed' = pushed
          BY <3>1
        <5> QED
          BY <3>2, <3>3, <5>1, <5>2
      <4>2. ASSUME NEW i \in 1..Len(executed') PROVE executed'[i] = i
        <5>1. i \in 1..Len(executed) \/ i = Len(executed) + 1
          BY <3>3
        <5> QED
          BY <2>0, <3>3, <3>4, <5>1 DEF FifoExactlyOnce
      <4>3. ASSUME NEW i \in 1..Len(running') PROVE running'[i] = Len(executed') + i
        <5>1. i + 1 \in 1..Len(running)
          BY <3>2
        <5> QED
          BY <2>0, <3>2, <3>3, <5>1 DEF FifoExactlyOnce
      <4>4. ASSUME NEW i \in 1..Len(pending')
            PROVE  pending'[i] = Len(executed') + Len(running') + i
        BY <2>0, <3>1, <3>2, <3>3 DEF FifoExactlyOnce
      <4> QED
        BY <4>1, <4>2, <4>3, <4>4 DEF FifoExactlyOnce
    <3>6. EventLoopTypeOK' /\ LoopControlInv'
      BY <2>0, <2>3, <3>2, <3>3 DEF FunctorStarts, EventLoopTypeOK, Places,
         LoopControlInv
    <3> QED
      BY <3>5, <3>6 DEF LoopInv
  <2>4. ASSUME NEW b \in BOOLEAN, QueueInLoop(b) PROVE LoopInv'
    <3>1. /\ pushed' = pushed + 1 /\ pending' = Append(pending, pushed + 1)
          /\ UNCHANGED <<pc, quit, looping, calling, running, executed, wakeupFd>>
      BY <2>4 DEF QueueInLoop, Wakeup
    <3>2. /\ Len(pending) \in Nat /\ Len(pending') = Len(pending) + 1
          /\ \A i \in 1..Len(pending) : pending'[i] = pending[i]
          /\ pending'[Len(pending) + 1] = pushed + 1
          /\ pending' \in Seq(Nat)
      BY <2>0, <3>1 DEF EventLoopTypeOK
    <3>3. Len(executed) \in Nat /\ Len(running) \in Nat /\ pushed \in Nat
      BY <2>0 DEF EventLoopTypeOK
    <3>4. FifoExactlyOnce'
      <4>1. ASSUME NEW i \in 1..Len(pending')
            PROVE  pending'[i] = Len(executed) + Len(running) + i
        <5>1. i \in 1..Len(pending) \/ i = Len(pending) + 1
          BY <3>2
        <5>2. pushed = Len(executed) + Len(running) + Len(pending)
          BY <2>0 DEF FifoExactlyOnce
        <5>3. \A j \in 1..Len(pending) : pending[j] = Len(executed) + Len(running) + j
          BY <2>0 DEF FifoExactlyOnce
        <5>4. CASE i \in 1..Len(pending)
          BY <3>2, <5>3, <5>4
        <5>5. CASE i = Len(pending) + 1
          <6>1. pending'[i] = pushed + 1
            BY <3>2, <5>5
          <6> QED
            BY <3>2, <3>3, <5>2, <5>5, <6>1
        <5> QED
          BY <5>1, <5>4, <5>5
      <4> QED
        BY <2>0, <3>1, <3>2, <3>3, <4>1 DEF FifoExactlyOnce
    <3>5. EventLoopTypeOK' /\ LoopControlInv'
      BY <2>0, <3>1, <3>2 DEF EventLoopTypeOK, LoopControlInv
    <3> QED
      BY <3>4, <3>5 DEF LoopInv
  <2>5. ASSUME NEW b \in BOOLEAN, Quit(b) PROVE LoopInv'
    <3>1. /\ quit' = TRUE
          /\ UNCHANGED <<pc, looping, calling, pending, running, pushed, executed,
                         wakeupFd>>
      BY <2>5 DEF Quit, Wakeup
    <3>2. EventLoopTypeOK' /\ LoopControlInv'
      BY <2>0, <3>1 DEF EventLoopTypeOK, LoopControlInv
    <3> QED
      BY <2>u, <3>1, <3>2 DEF LoopInv
  <2>6. CASE UNCHANGED loopVars
    BY <2>0, <2>u, <2>6 DEF loopVars, LoopInv, EventLoopTypeOK, LoopControlInv
  <2> QED
    BY <1>2, <2>1, <2>2, <2>3, <2>4, <2>5, <2>6 DEF EventLoopNext, LoopThread,
       LoopProgress, OtherThread, UserCode
<1> QED
  BY <1>1, <1>2

\* The loop's own specification keeps LoopInv.
LEMMA LoopInvHolds == EventLoopSpec => []LoopInv
  BY LoopInvInductive, PTL DEF EventLoopSpec

\* A loop thread and its owner use the loop as EventLoop allows: every step of
\* threadFunc, of startLoop and of the destructor is one of its steps or
\* leaves it alone.
THEOREM ThreadUsesLoop == Spec => EventLoopSpec
<1>1. Init => EventLoopInit
  BY DEF Init
<1>2. [Next]_vars => [EventLoopNext]_loopVars
  <2> SUFFICES ASSUME [Next]_vars PROVE [EventLoopNext]_loopVars
    OBVIOUS
  <2>1. CASE Start \/ Lock \/ WaitReturns \/ Join \/ Construct
             \/ InitCallbackReturns \/ Publish \/ Exit
    BY <2>1 DEF Start, Lock, WaitReturns, Join, Construct, InitCallbackReturns,
       Publish, Exit
  <2>2. CASE Use
    BY <2>2 DEF Use, EventLoopNext, OtherThread
  <2>3. CASE DestructorQuits
    BY <2>3 DEF DestructorQuits, EventLoopNext, OtherThread
  <2>4. CASE Loop
    BY <2>4 DEF Loop, EventLoopNext
  <2>5. CASE CallbackQueues
    BY <2>5 DEF CallbackQueues, EventLoopNext, UserCode
  <2>6. CASE CallbackQuits
    BY <2>6 DEF CallbackQuits, EventLoopNext, UserCode
  <2>7. CASE UNCHANGED vars
    BY <2>7 DEF vars
  <2> QED
    BY <2>1, <2>2, <2>3, <2>4, <2>5, <2>6, <2>7 DEF Next
<1> QED
  BY <1>1, <1>2, PTL DEF Spec, EventLoopSpec

\* Functors queued by any thread at any moment, also before loop() runs and
\* while it ends, run exactly once, in order.
THEOREM ExactlyOnceInOrder == Spec => []FifoExactlyOnce
<1>1. LoopInv => FifoExactlyOnce
  BY DEF LoopInv
<1> QED
  BY <1>1, LoopInvHolds, ThreadUsesLoop, PTL

\* The batch of functors being run only shrinks.
THEOREM BatchShrinks == Spec => BatchOnlyShrinks
<1>1. LoopInv /\ [EventLoopNext]_loopVars =>
        [calling /\ running # <<>> /\ running' # running =>
           running' = Tail(running)]_loopVars
  BY DEF LoopInv, LoopControlInv, EventLoopNext, LoopThread, LoopProgress,
     OtherThread, UserCode, LoopStart, While, PollReturns, PollTimesOut,
     EventsDone, Swap, FunctorStarts, FunctorReturns, FunctorsDone, QueueInLoop,
     Quit, loopVars
<1>2. EventLoopSpec => BatchOnlyShrinks
  BY <1>1, LoopInvHolds, PTL DEF EventLoopSpec, BatchOnlyShrinks
<1> QED
  BY <1>2, ThreadUsesLoop, PTL

-----------------------------------------------------------------------------
\* What ties the loop's lifetime to the two threads: loop_ is set exactly from
\* Publish on, the loop ends only after a quit(), and a quit() was made either
\* by a callback or by the destructor.
LifetimeInv ==
  /\ owner = "created" => tpc = "unborn"
  /\ loopPtr <=> tpc \in {"loop", "exited"}
  /\ tpc \in {"unborn", "born", "init", "publish"} => pc = "ready"
  /\ tpc = "exited" => pc = "done"
  /\ pc = "done" => quit
  /\ quit => selfQuit \/ owner \in {"joining", "destroyed"}

ThreadInv == TypeOK /\ LifetimeInv /\ LoopReadyWhenStarted /\ NoDanglingUse

\* What the loop's own steps do to what LifetimeInv speaks of.
LEMMA LoopThreadEffect ==
  ASSUME TypeOK, LoopThread
  PROVE  /\ pc # "done" /\ pc' # "ready"
         /\ quit' => quit
         /\ pc' = "done" => quit'
  BY DEF TypeOK, EventLoopTypeOK, Places, LoopThread, LoopProgress, LoopStart, While,
     PollReturns, PollTimesOut, EventsDone, Swap, FunctorStarts, FunctorReturns,
     FunctorsDone

\* ThreadInv, but for the loop's own types, is inductive.
LEMMA ThreadInvInductive ==
  ASSUME ThreadInv, [Next]_vars, LoopInv'
  PROVE  ThreadInv'
<1> USE DEF ThreadInv
<1>0. EventLoopTypeOK'
  BY DEF LoopInv
<1>1. CASE Start
  BY <1>0, <1>1 DEF Start, loopVars, TypeOK, LifetimeInv, LoopReadyWhenStarted, NoDanglingUse
<1>2. CASE Lock
  BY <1>0, <1>2 DEF Lock, loopVars, TypeOK, LifetimeInv, LoopReadyWhenStarted, NoDanglingUse
<1>3. CASE WaitReturns
  BY <1>0, <1>3 DEF WaitReturns, loopVars, TypeOK, LifetimeInv, LoopReadyWhenStarted,
     NoDanglingUse
<1>4. CASE Use
  BY <1>0, <1>4 DEF Use, QueueInLoop, threadVars, TypeOK, LifetimeInv,
     LoopReadyWhenStarted, NoDanglingUse
<1>5. CASE DestructorQuits
  <2>1. CASE Alive
    <3>1. /\ quit' = TRUE /\ pc' = pc
          /\ owner' = IF loopPtr THEN "joining" ELSE "crashed"
          /\ owner \in {"created", "using"}
          /\ UNCHANGED <<dangling, tpc, loopPtr, notified, selfQuit>>
      BY <1>5, <2>1 DEF DestructorQuits, Quit
    <3>2. owner = "using" /\ loopPtr
      BY <2>1, <3>1 DEF Alive, LifetimeInv, LoopReadyWhenStarted
    <3> QED
      BY <1>0, <3>1, <3>2 DEF TypeOK, LifetimeInv, LoopReadyWhenStarted, NoDanglingUse
  <2>2. CASE ~Alive
    <3>1. /\ UNCHANGED <<pc, quit, tpc, loopPtr, notified, selfQuit>>
          /\ dangling' = loopPtr
          /\ owner' = IF loopPtr THEN "joining" ELSE "crashed"
          /\ owner \in {"created", "using"}
      BY <1>5, <2>2 DEF DestructorQuits, loopVars
    <3>2. loopPtr => tpc = "exited" /\ owner = "using" /\ selfQuit
      BY <2>2, <3>1 DEF Alive, TypeOK, LifetimeInv
    <3>3. ~loopPtr => tpc = "unborn"
      BY <2>2, <3>1 DEF Alive, LifetimeInv, LoopReadyWhenStarted
    <3> QED
      BY <1>0, <3>1, <3>2, <3>3 DEF TypeOK, LifetimeInv, LoopReadyWhenStarted,
         NoDanglingUse
  <2> QED
    BY <2>1, <2>2
<1>6. CASE Join
  BY <1>0, <1>6 DEF Join, loopVars, TypeOK, LifetimeInv, LoopReadyWhenStarted, NoDanglingUse
<1>7. CASE Construct \/ InitCallbackReturns
  BY <1>0, <1>7 DEF Construct, InitCallbackReturns, loopVars, TypeOK, LifetimeInv,
     LoopReadyWhenStarted, NoDanglingUse
<1>7a. CASE Publish
  <2>1. /\ tpc = "publish" /\ tpc' = "loop" /\ loopPtr' = TRUE
        /\ UNCHANGED <<pc, quit, owner, dangling, selfQuit>>
    BY <1>7a DEF Publish, loopVars
  <2>2. notified' \in BOOLEAN
    BY <1>7a, Zenon DEF Publish
  <2> QED
    BY <1>0, <2>1, <2>2 DEF TypeOK, LifetimeInv, LoopReadyWhenStarted, NoDanglingUse
<1>8. CASE Loop
  <2>1. tpc = "loop" /\ LoopThread /\ UNCHANGED threadVars
    BY <1>8 DEF Loop
  <2>2. /\ pc # "done" /\ pc' # "ready"
        /\ quit' => quit
        /\ pc' = "done" => quit'
    BY <2>1, LoopThreadEffect
  <2> QED
    BY <1>0, <2>1, <2>2 DEF threadVars, TypeOK, LifetimeInv, LoopReadyWhenStarted,
       NoDanglingUse
<1>9. CASE CallbackQueues
  BY <1>0, <1>9 DEF CallbackQueues, QueueInLoop, threadVars, TypeOK, LifetimeInv,
     LoopReadyWhenStarted, NoDanglingUse
<1>10. CASE CallbackQuits
  BY <1>0, <1>10 DEF CallbackQuits, Quit, TypeOK, LifetimeInv, LoopReadyWhenStarted,
     NoDanglingUse
<1>11. CASE Exit
  BY <1>0, <1>11 DEF Exit, loopVars, TypeOK, LifetimeInv, LoopReadyWhenStarted,
     NoDanglingUse
<1>12. CASE UNCHANGED vars
  BY <1>12 DEF vars, loopVars, threadVars, TypeOK, EventLoopTypeOK, LifetimeInv,
     LoopReadyWhenStarted, NoDanglingUse
<1> QED
  BY <1>1, <1>2, <1>3, <1>4, <1>5, <1>6, <1>7, <1>8, <1>9, <1>10, <1>11, <1>12, <1>7a
     DEF Next

\* ThreadInv holds throughout.
LEMMA ThreadInvHolds == Spec => []ThreadInv
<1>1. Init => ThreadInv
  <2> SUFFICES ASSUME Init PROVE ThreadInv
    OBVIOUS
  <2>1. EventLoopTypeOK
    BY LoopInvInductive DEF Init, LoopInv
  <2> QED
    BY <2>1 DEF Init, EventLoopInit, ThreadInv, TypeOK, LifetimeInv,
       LoopReadyWhenStarted, NoDanglingUse
<1>2. ThreadInv /\ [Next]_vars /\ LoopInv' => ThreadInv'
  BY ThreadInvInductive
<1>3. Spec => []LoopInv
  BY LoopInvHolds, ThreadUsesLoop, PTL
<1> QED
  BY <1>1, <1>2, <1>3, PTL DEF Spec

\* Type correctness of the loop, its thread and its owner.
THEOREM TypeCorrect == Spec => []TypeOK
<1>1. ThreadInv => TypeOK
  BY DEF ThreadInv
<1> QED
  BY <1>1, ThreadInvHolds, PTL

\* startLoop returns a loop that is constructed and initialised.
THEOREM StartedLoopIsReady == Spec => []LoopReadyWhenStarted
<1>1. ThreadInv => LoopReadyWhenStarted
  BY DEF ThreadInv
<1> QED
  BY <1>1, ThreadInvHolds, PTL

\* Unless a callback of the loop quits it, the owner and the destructor never
\* touch a loop that is gone.
THEOREM NoUseAfterExit == Spec => []NoDanglingUse
<1>1. ThreadInv => NoDanglingUse
  BY DEF ThreadInv
<1> QED
  BY <1>1, ThreadInvHolds, PTL
=============================================================================
