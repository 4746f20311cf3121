------------------------ MODULE EventLoopThreadPool ------------------------
(***************************************************************************)
(* The pool of event loop threads, src/port/EventLoopThreadPool.cpp, which *)
(* its base loop's thread alone uses.  Loop 0 is the base loop, loop i the *)
(* i-th of loops_.                                                         *)
(***************************************************************************)
EXTENDS Integers, FiniteSets

CONSTANTS MaxThreads  \* bound: threads of the pool

ASSUME MaxThreadsAssumption == MaxThreads \in Nat

VARIABLES
  numThreads,  \* numThreads_
  poolSize,    \* the size of threads_ and loops_
  next         \* next_

poolVars == <<numThreads, poolSize, next>>

Loops == 0 .. MaxThreads

PoolInit ==
  /\ numThreads = 0
  /\ poolSize = 0
  /\ next = 0

PoolSetThreadNum(n) ==
  /\ numThreads' = n
  /\ UNCHANGED <<poolSize, next>>

\* start(): every thread is started and its loop waited for.
PoolStart ==
  /\ poolSize' = numThreads
  /\ UNCHANGED <<numThreads, next>>

\* The loop getNextLoop() returns, and what it leaves behind.
NextLoop == IF poolSize = 0 THEN 0 ELSE next + 1

Advance ==
  /\ next' = IF poolSize = 0 \/ next + 1 >= poolSize THEN 0 ELSE next + 1
  /\ UNCHANGED <<numThreads, poolSize>>
=============================================================================
