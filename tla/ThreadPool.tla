----------------------------- MODULE ThreadPool -----------------------------
(***************************************************************************)
(* src/utils/ThreadPool.cpp with the Mutex and Condition it uses: callers  *)
(* of run(), the pool's threads and the owner that calls start() and       *)
(* stop().  What a thread does between locking mutex_ and unlocking it, or *)
(* waiting, is one step; condition variables may wake a waiter at any      *)
(* time.                                                                   *)
(***************************************************************************)
EXTENDS Integers, Sequences, FiniteSets

CONSTANTS
  Caller,        \* threads that call run()
  Worker,        \* the pool's threads
  MaxCalls,      \* how often a caller calls run()
  MaxQueueSize,  \* maxQueueSize_; 0 is no limit
  Debug          \* TRUE in the default build, which keeps the asserts

ASSUME PoolAssumption ==
  /\ Worker # {}
  /\ Caller \cap Worker = {} /\ IsFiniteSet(Caller)
  /\ MaxCalls \in Nat
  /\ MaxQueueSize \in Nat
  /\ Debug \in BOOLEAN

VARIABLES
  owner,     \* "new", "started", "joining" or "stopped"
  running,   \* running_
  queue,     \* queue_
  pc,        \* where each thread is; "waiting" is in Condition::wait
  calls,     \* calls of run() each caller has begun
  job,       \* the task a worker has taken
  holder,    \* MutexLock::holder_, "nobody" for 0
  aborted,   \* assertLocked failed
  accepted,  \* every task run() has queued, in order
  taken,     \* every task take() has returned, in order
  executed,  \* tasks that have been called
  late       \* tasks each worker took after stop() cleared running_

vars == <<owner, running, queue, pc, calls, job, holder, aborted,
          accepted, taken, executed, late>>

Nobody == "nobody"
NoTask == <<>>
Task == Caller \X (1 .. MaxCalls)
CurrentTask(c) == <<c, calls[c]>>

Init ==
  /\ owner = "new"
  /\ running = FALSE
  /\ queue = <<>>
  /\ pc = [t \in Caller \cup Worker |-> IF t \in Caller THEN "idle" ELSE "unborn"]
  /\ calls = [c \in Caller |-> 0]
  /\ job = [w \in Worker |-> NoTask]
  /\ holder = Nobody
  /\ aborted = FALSE
  /\ accepted = <<>>
  /\ taken = <<>>
  /\ executed = {}
  /\ late = [w \in Worker |-> 0]

\* start().
Start ==
  /\ owner = "new"
  /\ owner' = "started"
  /\ running' = TRUE
  /\ pc' = [t \in Caller \cup Worker |-> IF t \in Worker THEN "while" ELSE pc[t]]
  /\ UNCHANGED <<queue, calls, job, holder, aborted, accepted, taken, executed, late>>

\* pthread_cond_broadcast and pthread_cond_signal, for the waiters W of a
\* condition: they still have to lock the mutex again.
NotifyAll(p, W) ==
  [t \in DOMAIN p |-> IF t \in W /\ p[t] = "waiting" THEN "woken" ELSE p[t]]
Notify(p, W) ==
  LET Waiting == {t \in W : p[t] = "waiting"}
  IN  IF Waiting = {} THEN {p} ELSE {[p EXCEPT ![t] = "woken"] : t \in Waiting}

IsFull == MaxQueueSize > 0 /\ Len(queue) >= MaxQueueSize

\* run() in a pool without threads calls the task.
RunInline(c) ==
  /\ owner = "new" /\ pc[c] = "idle" /\ calls[c] < MaxCalls
  /\ calls' = [calls EXCEPT ![c] = @ + 1]
  /\ executed' = executed \cup {<<c, calls'[c]>>}
  /\ UNCHANGED <<owner, running, queue, pc, job, holder, aborted, accepted, taken, late>>

\* run() sees threads_ and goes for the mutex.
Run(c) ==
  /\ owner # "new" /\ pc[c] = "idle" /\ calls[c] < MaxCalls
  /\ calls' = [calls EXCEPT ![c] = @ + 1]
  /\ pc' = [pc EXCEPT ![c] = "lock"]
  /\ UNCHANGED <<owner, running, queue, job, holder, aborted, accepted, taken, executed, late>>

\* Waiting gives up the mutex and leaves holder_ as it is; the guard's
\* destructor sets it to 0.
Wait(t) == pc' = [pc EXCEPT ![t] = "waiting"] /\ holder' = t

Enqueue(c) ==
  /\ queue' = Append(queue, CurrentTask(c))
  /\ accepted' = Append(accepted, CurrentTask(c))
  /\ pc' = [NotifyAll(pc, Worker) EXCEPT ![c] = "idle"]
  /\ holder' = Nobody

\* Mutant: a caller that was woken does not look again whether there is room.
RunLockedOnce(c) ==
  /\ pc[c] \in {"lock", "woken"}
  /\ IF pc[c] = "lock" /\ IsFull THEN Wait(c) /\ UNCHANGED <<queue, accepted>> ELSE Enqueue(c)
  /\ UNCHANGED <<owner, running, calls, job, aborted, taken, executed, late>>

\* Mutant: run() queues without telling the threads.
RunLockedSilently(c) ==
  /\ pc[c] \in {"lock", "woken"}
  /\ IF IsFull THEN Wait(c) /\ UNCHANGED <<queue, accepted>>
     ELSE /\ queue' = Append(queue, CurrentTask(c))
          /\ accepted' = Append(accepted, CurrentTask(c))
          /\ pc' = [pc EXCEPT ![c] = "idle"]
          /\ holder' = Nobody
  /\ UNCHANGED <<owner, running, calls, job, aborted, taken, executed, late>>

\* run() with the mutex: isFull() first asserts that holder_ is the caller,
\* which wait() does not see to.
RunLocked(c) ==
  /\ pc[c] \in {"lock", "woken"}
  /\ aborted' = (Debug /\ pc[c] = "woken" /\ holder # c)
  /\ IF IsFull THEN Wait(c) /\ UNCHANGED <<queue, accepted>> ELSE Enqueue(c)
  /\ UNCHANGED <<owner, running, calls, job, taken, executed, late>>

\* The loop of runInThread looks at running_ without the mutex.
While(w) ==
  /\ pc[w] = "while"
  /\ pc' = [pc EXCEPT ![w] = IF running THEN "lock" ELSE "exited"]
  /\ UNCHANGED <<owner, running, queue, calls, job, holder, aborted, accepted, taken, executed, late>>

\* Mutant: take() does not signal notFull_.
DequeueSilently(w) ==
  /\ job' = [job EXCEPT ![w] = Head(queue)]
  /\ taken' = Append(taken, Head(queue))
  /\ queue' = Tail(queue)
  /\ late' = IF running THEN late ELSE [late EXCEPT ![w] = @ + 1]
  /\ pc' = [pc EXCEPT ![w] = "task"]

Dequeue(w) ==
  /\ job' = [job EXCEPT ![w] = Head(queue)]
  /\ taken' = Append(taken, Head(queue))
  /\ queue' = Tail(queue)
  /\ late' = IF running THEN late ELSE [late EXCEPT ![w] = @ + 1]
  /\ pc' \in {[p EXCEPT ![w] = "task"] : p \in Notify(pc, IF MaxQueueSize > 0 THEN Caller ELSE {})}

\* take() with the mutex; an empty task sends the thread back to its loop.
Take(w) ==
  /\ pc[w] \in {"lock", "woken"}
  /\ \/ /\ queue = <<>> /\ running
        /\ Wait(w)
        /\ UNCHANGED <<queue, job, taken, late>>
     \/ /\ queue # <<>>
        /\ Dequeue(w) /\ holder' = Nobody
     \/ /\ queue = <<>> /\ ~running
        /\ pc' = [pc EXCEPT ![w] = "while"] /\ holder' = Nobody
        /\ UNCHANGED <<queue, job, taken, late>>
  /\ UNCHANGED <<owner, running, calls, aborted, accepted, executed>>

\* Mutant: a thread looks for the next task without looking at running_.
TaskReturnsToTake(w) ==
  /\ pc[w] = "task"
  /\ executed' = executed \cup {job[w]}
  /\ job' = [job EXCEPT ![w] = NoTask]
  /\ pc' = [pc EXCEPT ![w] = IF queue # <<>> THEN "lock" ELSE "while"]
  /\ UNCHANGED <<owner, running, queue, calls, holder, aborted, accepted, taken, late>>

TaskReturns(w) ==
  /\ pc[w] = "task"
  /\ executed' = executed \cup {job[w]}
  /\ job' = [job EXCEPT ![w] = NoTask]
  /\ pc' = [pc EXCEPT ![w] = "while"]
  /\ UNCHANGED <<owner, running, queue, calls, holder, aborted, accepted, taken, late>>

\* A condition variable may wake a waiter for no reason.
SpuriousWakeup(t) ==
  /\ pc[t] = "waiting"
  /\ pc' = [pc EXCEPT ![t] = "woken"]
  /\ UNCHANGED <<owner, running, queue, calls, job, holder, aborted, accepted, taken, executed, late>>

\* Mutant: stop() does not wake the threads.
StopSilently ==
  /\ owner = "started"
  /\ owner' = "joining"
  /\ running' = FALSE
  /\ holder' = Nobody
  /\ UNCHANGED <<queue, pc, calls, job, aborted, accepted, taken, executed, late>>

\* stop(), up to the joins.
Stop ==
  /\ owner = "started"
  /\ owner' = "joining"
  /\ running' = FALSE
  /\ pc' = NotifyAll(pc, Worker)
  /\ holder' = Nobody
  /\ UNCHANGED <<queue, calls, job, aborted, accepted, taken, executed, late>>

\* Every thread has been joined.
Join ==
  /\ owner = "joining"
  /\ \A w \in Worker : pc[w] = "exited"
  /\ owner' = "stopped"
  /\ UNCHANGED <<running, queue, pc, calls, job, holder, aborted, accepted, taken, executed, late>>

CallerStep(c) == RunInline(c) \/ Run(c) \/ RunLocked(c)
WorkerStep(w) == While(w) \/ Take(w) \/ TaskReturns(w)

Next ==
  /\ ~aborted
  /\ \/ Start \/ Stop \/ Join
     \/ \E c \in Caller : CallerStep(c)
     \/ \E w \in Worker : WorkerStep(w)
     \/ \E t \in Caller \cup Worker : SpuriousWakeup(t)

Spec == Init /\ [][Next]_vars

\* Threads that are past a call go on: tasks return and the mutex is granted.
\* Nobody has to call run() or stop(), and no wakeup comes by itself.
Fairness ==
  /\ WF_vars(Join)
  /\ \A c \in Caller : WF_vars(RunLocked(c))
  /\ \A w \in Worker : WF_vars(WorkerStep(w))

FairSpec == Spec /\ Fairness

-----------------------------------------------------------------------------
TypeOK ==
  /\ owner \in {"new", "started", "joining", "stopped"}
  /\ running \in BOOLEAN
  /\ queue \in Seq(Task)
  /\ pc \in [Caller \cup Worker ->
              {"idle", "unborn", "while", "lock", "waiting", "woken", "task", "exited"}]
  /\ calls \in [Caller -> 0 .. MaxCalls]
  /\ job \in [Worker -> Task \cup {NoTask}]
  /\ holder \in Caller \cup Worker \cup {Nobody}
  /\ aborted \in BOOLEAN
  /\ accepted \in Seq(Task)
  /\ taken \in Seq(Task)
  /\ executed \subseteq Task
  /\ late \in [Worker -> Nat]

\* However callers and threads race for the mutex after a wakeup, the queue
\* never holds more than maxQueueSize_ tasks.
QueueBounded == MaxQueueSize > 0 => Len(queue) <= MaxQueueSize

\* The threads take the tasks in the order run() queued them, each once: what
\* was taken and what is queued make up what was accepted.
FifoHandOver == accepted = taken \o queue

\* No wakeup of a blocked caller is lost: while one sleeps in run(), as many
\* callers are on their way out of the wait as the queue has free places,
\* although take() signals one caller at a time, others may take the place a
\* signal was for, and the woken then sleep again.
NoWakeupLost ==
  MaxQueueSize > 0 /\ (\E c \in Caller : pc[c] = "waiting") =>
    Cardinality({c \in Caller : pc[c] = "woken"}) >= MaxQueueSize - Len(queue)

\* stop() does not drain the queue: once it has cleared running_, a thread that
\* had already passed the test of its loop takes at most one more task.
AtMostOneMoreTask == \A w \in Worker : late[w] <= 1

\* isFull()'s assertLocked() holds.
NeverAborts == ~aborted

\* A queued task is executed unless the pool is stopped.
TasksAreExecuted ==
  \A t \in Task : (\E i \in 1 .. Len(queue) : queue[i] = t) ~> (t \in executed \/ ~running)

\* stop() returns, whatever its threads were doing.
StopReturns == (owner = "joining") ~> (owner = "stopped")
=============================================================================
