-------------------------- MODULE ThreadPoolProofs --------------------------
(***************************************************************************)
(* The safety of ThreadPool, for any callers, threads and queue bound.     *)
(***************************************************************************)
EXTENDS ThreadPool, SequenceTheorems, FiniteSetTheorems, TLAPS

States == {"idle", "unborn", "while", "lock", "waiting", "woken", "task", "exited"}

\* What AtMostOneMoreTask rests on: a thread that took a task after stop() is
\* not between the test of running_ and the queue any more, and running_ is
\* not set again.
LateThreadsLeave ==
  /\ running <=> owner = "started"
  /\ owner = "new" => \A w \in Worker : pc[w] = "unborn"
  /\ \A w \in Worker : late[w] = 0 \/ ( /\ late[w] = 1
                                        /\ owner \in {"joining", "stopped"}
                                        /\ pc[w] \in {"task", "while", "exited"} )

\* A caller inside run() has a task to queue, and a thread that calls a task
\* has taken one.
InCall ==
  /\ \A c \in Caller : pc[c] # "idle" => calls[c] # 0
  /\ \A w \in Worker : pc[w] = "task" => job[w] # NoTask

IInv == TypeOK /\ InCall /\ QueueBounded /\ FifoHandOver /\ NoWakeupLost /\ LateThreadsLeave

LEMMA InitIInv == Init => IInv
  <1> SUFFICES ASSUME Init PROVE IInv
    OBVIOUS
  <1>0. <<>> \in Seq(Task) /\ Len(<<>>) = 0
    BY EmptySeq, Zenon
  <1>a. pc \in [Caller \cup Worker ->
              {"idle", "unborn", "while", "lock", "waiting", "woken", "task", "exited"}]
    BY DEF Init
  <1>b. calls \in [Caller -> 0 .. MaxCalls] /\ late \in [Worker -> Nat]
    BY PoolAssumption DEF Init
  <1>c. job \in [Worker -> Task \cup {NoTask}]
    BY DEF Init
  <1>1. TypeOK
    BY <1>0, <1>a, <1>b, <1>c DEF Init, TypeOK
  <1>2. QueueBounded /\ LateThreadsLeave /\ InCall /\ NoWakeupLost
    BY <1>0, PoolAssumption DEF Init, QueueBounded, LateThreadsLeave, InCall, NoWakeupLost
  <1>3. FifoHandOver
    BY <1>0, ConcatEmptySeq DEF Init, FifoHandOver
  <1> QED
    BY <1>1, <1>2, <1>3 DEF IInv

\* Waking threads moves them from "waiting" to "woken" and nowhere else.
Wakes(p, q) == q \in [Caller \cup Worker -> States] /\
  \A t \in Caller \cup Worker : q[t] = p[t] \/ (p[t] = "waiting" /\ q[t] = "woken")

LEMMA NotifyAllWakes ==
  ASSUME NEW p \in [Caller \cup Worker -> States], NEW W
  PROVE  Wakes(p, NotifyAll(p, W))
  BY DEF NotifyAll, Wakes, States

LEMMA NotifyWakes ==
  ASSUME NEW p \in [Caller \cup Worker -> States], NEW W \in SUBSET (Caller \cup Worker),
         NEW q \in Notify(p, W)
  PROVE  Wakes(p, q)
  <1> DEFINE Waiting == {t \in W : p[t] = "waiting"}
  <1>1. CASE Waiting = {}
    BY <1>1 DEF Notify, Wakes
  <1>2. CASE Waiting # {}
    <2>1. PICK t \in Waiting : q = [p EXCEPT ![t] = "woken"]
      BY <1>2 DEF Notify
    <2> QED
      BY <2>1 DEF Wakes, States
  <1> QED
    BY <1>1, <1>2

\* What a task taken from the queue changes.
LEMMA DequeueEffect ==
  ASSUME TypeOK, NEW w \in Worker, Dequeue(w)
  PROVE  \E p : /\ Wakes(pc, p)
                /\ pc' = [p EXCEPT ![w] = "task"]
  <1> DEFINE W == IF MaxQueueSize > 0 THEN Caller ELSE {}
  <1>1. PICK p \in Notify(pc, W) : pc' = [p EXCEPT ![w] = "task"]
    BY DEF Dequeue
  <1>2. W \in SUBSET (Caller \cup Worker)
    OBVIOUS
  <1>3. pc \in [Caller \cup Worker -> States]
    BY DEF TypeOK, States
  <1>4. Wakes(pc, p)
    BY <1>1, <1>2, <1>3, NotifyWakes
  <1> QED
    BY <1>1, <1>4

LEMMA TypeStep == TypeOK /\ InCall /\ [Next]_vars => TypeOK'
  <1> SUFFICES ASSUME TypeOK, InCall, [Next]_vars PROVE TypeOK'
    OBVIOUS
  <1>0. pc \in [Caller \cup Worker -> States]
    BY DEF TypeOK, States
  <1>p. pc' \in [Caller \cup Worker -> States] =>
          pc' \in [Caller \cup Worker ->
            {"idle", "unborn", "while", "lock", "waiting", "woken", "task", "exited"}]
    BY DEF States
  <1>1. CASE Start
    <2>1. pc' \in [Caller \cup Worker -> States]
      BY <1>0, <1>1 DEF Start, States
    <2> QED
      BY <1>1, <1>p, <2>1 DEF Start, TypeOK
  <1>2. CASE Stop
    <2>1. pc' \in [Caller \cup Worker -> States]
      BY <1>0, <1>2, NotifyAllWakes DEF Stop, Wakes
    <2> QED
      BY <1>2, <1>p, <2>1 DEF Stop, TypeOK
  <1>3. CASE Join
    BY <1>3 DEF Join, TypeOK
  <1>4. ASSUME NEW c \in Caller, RunInline(c) PROVE TypeOK'
    <2>1. calls' \in [Caller -> 0 .. MaxCalls] /\ calls'[c] \in 1 .. MaxCalls
      BY <1>4, PoolAssumption DEF RunInline, TypeOK
    <2>2. <<c, calls'[c]>> \in Task
      BY <2>1 DEF Task
    <2> QED
      BY <1>4, <2>1, <2>2 DEF RunInline, TypeOK
  <1>5. ASSUME NEW c \in Caller, Run(c) PROVE TypeOK'
    <2>1. calls' \in [Caller -> 0 .. MaxCalls]
      BY <1>5, PoolAssumption DEF Run, TypeOK
    <2>2. pc' \in [Caller \cup Worker -> States]
      BY <1>0, <1>5 DEF Run, States
    <2> QED
      BY <1>5, <1>p, <2>1, <2>2 DEF Run, TypeOK
  <1>6. ASSUME NEW c \in Caller, RunLocked(c) PROVE TypeOK'
    <2>1. aborted' \in BOOLEAN
      BY <1>6, PoolAssumption DEF RunLocked
    <2>2. CASE Enqueue(c)
      <3>1. CurrentTask(c) \in Task
        <4>1. calls[c] \in 0 .. MaxCalls /\ calls[c] # 0
          BY <1>6 DEF RunLocked, InCall, TypeOK
        <4> QED
          BY <4>1, PoolAssumption DEF CurrentTask, Task
      <3>2. queue' \in Seq(Task) /\ accepted' \in Seq(Task)
        BY <2>2, <3>1 DEF Enqueue, TypeOK
      <3>3. pc' \in [Caller \cup Worker -> States]
        <4>1. NotifyAll(pc, Worker) \in [Caller \cup Worker -> States]
          BY <1>0, NotifyAllWakes DEF Wakes
        <4> QED
          BY <2>2, <4>1 DEF Enqueue, States
      <3> QED
        BY <1>6, <1>p, <2>1, <2>2, <3>2, <3>3 DEF RunLocked, Enqueue, TypeOK
    <2>3. CASE Wait(c) /\ UNCHANGED <<queue, accepted>>
      <3>1. pc' \in [Caller \cup Worker -> States]
        BY <1>0, <2>3 DEF Wait, States
      <3> QED
        BY <1>6, <1>p, <2>1, <2>3, <3>1 DEF RunLocked, Wait, TypeOK
    <2> QED
      BY <1>6, <2>2, <2>3 DEF RunLocked
  <1>7. ASSUME NEW w \in Worker, While(w) PROVE TypeOK'
    <2>1. pc' \in [Caller \cup Worker -> States]
      BY <1>0, <1>7 DEF While, States
    <2> QED
      BY <1>7, <1>p, <2>1 DEF While, TypeOK
  <1>8. ASSUME NEW w \in Worker, Take(w) PROVE TypeOK'
    <2>1. CASE queue # <<>> /\ Dequeue(w) /\ holder' = Nobody
      <3>1. Head(queue) \in Task /\ Tail(queue) \in Seq(Task)
        BY <2>1 DEF TypeOK
      <3>2. taken' \in Seq(Task) /\ queue' \in Seq(Task) /\ job' \in [Worker -> Task \cup {NoTask}]
        BY <2>1, <3>1 DEF Dequeue, TypeOK
      <3>3. PICK p : Wakes(pc, p) /\ pc' = [p EXCEPT ![w] = "task"]
        BY <2>1, DequeueEffect
      <3>4. pc' \in [Caller \cup Worker -> States]
        BY <3>3 DEF Wakes, States
      <3>5. late' \in [Worker -> Nat]
        BY <2>1 DEF Dequeue, TypeOK
      <3> QED
        BY <1>8, <1>p, <2>1, <3>2, <3>4, <3>5 DEF Take, TypeOK
    <2>2. CASE Wait(w) /\ UNCHANGED <<queue, job, taken, late>>
      <3>1. pc' \in [Caller \cup Worker -> States]
        BY <1>0, <2>2 DEF Wait, States
      <3> QED
        BY <1>8, <1>p, <2>2, <3>1 DEF Take, TypeOK, Wait
    <2>3. CASE pc' = [pc EXCEPT ![w] = "while"] /\ holder' = Nobody /\ UNCHANGED <<queue, job, taken, late>>
      <3>1. pc' \in [Caller \cup Worker -> States]
        BY <1>0, <2>3 DEF States
      <3> QED
        BY <1>8, <1>p, <2>3, <3>1 DEF Take, TypeOK
    <2> QED
      BY <1>8, <2>1, <2>2, <2>3 DEF Take
  <1>9. ASSUME NEW w \in Worker, TaskReturns(w) PROVE TypeOK'
    <2>1. job[w] \in Task
      BY <1>9 DEF TaskReturns, InCall, TypeOK
    <2>2. pc' \in [Caller \cup Worker -> States]
      BY <1>0, <1>9 DEF TaskReturns, States
    <2>3. executed' \subseteq Task /\ job' \in [Worker -> Task \cup {NoTask}]
      BY <1>9, <2>1 DEF TaskReturns, TypeOK
    <2> QED
      BY <1>9, <1>p, <2>2, <2>3 DEF TaskReturns, TypeOK
  <1>10. ASSUME NEW t \in Caller \cup Worker, SpuriousWakeup(t) PROVE TypeOK'
    <2>1. pc' \in [Caller \cup Worker -> States]
      BY <1>0, <1>10 DEF SpuriousWakeup, States
    <2> QED
      BY <1>10, <1>p, <2>1 DEF SpuriousWakeup, TypeOK
  <1>11. CASE UNCHANGED vars
    BY <1>11 DEF vars, TypeOK
  <1> QED
    BY <1>1, <1>2, <1>3, <1>4, <1>5, <1>6, <1>7, <1>8, <1>9, <1>10, <1>11
       DEF Next, CallerStep, WorkerStep

LEMMA QueueStep == TypeOK /\ InCall /\ QueueBounded /\ FifoHandOver /\ [Next]_vars =>
                     QueueBounded' /\ FifoHandOver'
  <1> SUFFICES ASSUME TypeOK, InCall, QueueBounded, FifoHandOver, [Next]_vars
               PROVE  QueueBounded' /\ FifoHandOver'
    OBVIOUS
  <1>0. queue \in Seq(Task) /\ taken \in Seq(Task) /\ MaxQueueSize \in Nat
    BY PoolAssumption DEF TypeOK
  <1>1. CASE UNCHANGED <<queue, accepted, taken>>
    BY <1>1 DEF QueueBounded, FifoHandOver
  <1>2. ASSUME NEW c \in Caller, RunLocked(c)
        PROVE  QueueBounded' /\ FifoHandOver'
    <2>1. CASE ~IsFull /\ Enqueue(c)
      <3>1. calls[c] \in 0 .. MaxCalls /\ calls[c] # 0
        BY <1>2 DEF RunLocked, InCall, TypeOK
      <3>2. CurrentTask(c) \in Task
        BY <3>1, PoolAssumption DEF CurrentTask, Task
      <3>3. Len(queue') = Len(queue) + 1
        BY <1>0, <2>1, <3>2 DEF Enqueue
      <3>4. QueueBounded'
        BY <1>0, <2>1, <3>3 DEF IsFull, QueueBounded
      <3>5. Append(taken \o queue, CurrentTask(c)) = taken \o Append(queue, CurrentTask(c))
        BY <1>0, <3>2
      <3>6. taken' = taken
        BY <1>2 DEF RunLocked
      <3> QED
        BY <2>1, <3>4, <3>5, <3>6 DEF Enqueue, FifoHandOver
    <2>2. CASE UNCHANGED <<queue, accepted>>
      BY <1>1, <1>2, <2>2 DEF RunLocked
    <2> QED
      BY <1>2, <2>1, <2>2 DEF RunLocked
  <1>3. ASSUME NEW w \in Worker, Take(w)
        PROVE  QueueBounded' /\ FifoHandOver'
    <2>1. CASE queue # <<>> /\ Dequeue(w)
      <3>1. queue' = Tail(queue) /\ taken' = Append(taken, Head(queue)) /\ accepted' = accepted
        BY <1>3, <2>1 DEF Dequeue, Take
      <3>2. Len(queue') = Len(queue) - 1
        BY <1>0, <2>1, <3>1
      <3>3. QueueBounded'
        BY <1>0, <3>2 DEF QueueBounded
      <3>4. taken \o queue = Append(taken, Head(queue)) \o Tail(queue)
        BY <1>0, <2>1
      <3> QED
        BY <3>1, <3>3, <3>4 DEF FifoHandOver
    <2>2. CASE UNCHANGED <<queue, taken>>
      BY <1>1, <1>3, <2>2 DEF Take
    <2> QED
      BY <1>3, <2>1, <2>2 DEF Take
  <1>4. Start \/ Stop \/ Join \/ UNCHANGED vars => UNCHANGED <<queue, accepted, taken>>
    BY DEF Start, Stop, Join, vars
  <1>5. \A c \in Caller : RunInline(c) \/ Run(c) => UNCHANGED <<queue, accepted, taken>>
    BY DEF RunInline, Run
  <1>6. \A w \in Worker : While(w) \/ TaskReturns(w) => UNCHANGED <<queue, accepted, taken>>
    BY DEF While, TaskReturns
  <1>7. \A t \in Caller \cup Worker : SpuriousWakeup(t) => UNCHANGED <<queue, accepted, taken>>
    BY DEF SpuriousWakeup
  <1> QED
    BY <1>1, <1>2, <1>3, <1>4, <1>5, <1>6, <1>7 DEF Next, CallerStep, WorkerStep

\* The callers on their way out of the wait.
Woken(p) == {c \in Caller : p[c] = "woken"}
Asleep(p) == {c \in Caller : p[c] = "waiting"}

LEMMA FewerWoken ==
  ASSUME NEW p, NEW q, NEW c, Woken(p) \subseteq Woken(q) \cup {c}
  PROVE  /\ Cardinality(Woken(p)) \in Nat /\ Cardinality(Woken(q)) \in Nat
         /\ Cardinality(Woken(p)) <= Cardinality(Woken(q)) + 1
         /\ Woken(p) \subseteq Woken(q) => Cardinality(Woken(p)) <= Cardinality(Woken(q))
  <1>1. IsFiniteSet(Woken(p)) /\ IsFiniteSet(Woken(q))
    <2>1. Woken(p) \subseteq Caller /\ Woken(q) \subseteq Caller
      BY DEF Woken
    <2> QED
      BY <2>1, PoolAssumption, FS_Subset
  <1>2. /\ IsFiniteSet(Woken(q) \cup {c})
        /\ Cardinality(Woken(q) \cup {c}) = Cardinality(Woken(q))
           \/ Cardinality(Woken(q) \cup {c}) = Cardinality(Woken(q)) + 1
    BY <1>1, FS_AddElement
  <1>3. Cardinality(Woken(p)) <= Cardinality(Woken(q) \cup {c})
    BY <1>2, FS_Subset
  <1>4. Cardinality(Woken(p)) \in Nat /\ Cardinality(Woken(q)) \in Nat
    BY <1>1, FS_CardinalityType
  <1>5. Woken(p) \subseteq Woken(q) => Cardinality(Woken(p)) <= Cardinality(Woken(q))
    BY <1>1, FS_Subset
  <1> QED
    BY <1>2, <1>3, <1>4, <1>5

\* A signal given while somebody sleeps adds one to the woken.
LEMMA OneMoreWoken ==
  ASSUME NEW p, NEW q, NEW c \in Caller, c \notin Woken(p), Woken(q) = Woken(p) \cup {c}
  PROVE  /\ Cardinality(Woken(p)) \in Nat
         /\ Cardinality(Woken(q)) = Cardinality(Woken(p)) + 1
  <1>1. IsFiniteSet(Woken(p))
    <2>1. Woken(p) \subseteq Caller
      BY DEF Woken
    <2> QED
      BY <2>1, PoolAssumption, FS_Subset
  <1> QED
    BY <1>1, FS_AddElement, FS_CardinalityType

LEMMA WakeupStep == TypeOK /\ InCall /\ QueueBounded /\ NoWakeupLost /\ [Next]_vars => NoWakeupLost'
  <1> SUFFICES ASSUME TypeOK, InCall, QueueBounded, NoWakeupLost, [Next]_vars,
                      MaxQueueSize > 0, Asleep(pc') # {}
               PROVE  Cardinality(Woken(pc')) >= MaxQueueSize - Len(queue')
    BY DEF NoWakeupLost, Woken, Asleep
  <1>0. /\ pc \in [Caller \cup Worker -> States]
        /\ Caller \cap Worker = {} /\ MaxQueueSize \in Nat
        /\ queue \in Seq(Task) /\ Len(queue) \in Nat
    BY PoolAssumption DEF TypeOK, States
  <1>a. Asleep(pc) # {} => Cardinality(Woken(pc)) >= MaxQueueSize - Len(queue)
    BY DEF NoWakeupLost, Woken, Asleep
  <1>b. ASSUME queue' = queue, Woken(pc) \subseteq Woken(pc'), Asleep(pc') \subseteq Asleep(pc)
        PROVE  Cardinality(Woken(pc')) >= MaxQueueSize - Len(queue')
    <2>1. /\ Cardinality(Woken(pc)) \in Nat /\ Cardinality(Woken(pc')) \in Nat
          /\ Cardinality(Woken(pc)) <= Cardinality(Woken(pc'))
      BY <1>b, FewerWoken
    <2> QED
      BY <1>0, <1>a, <1>b, <2>1
  <1>1. ASSUME Start \/ Stop \/ Join \/ UNCHANGED vars
        PROVE  Cardinality(Woken(pc')) >= MaxQueueSize - Len(queue')
    BY <1>0, <1>1, <1>b DEF Start, Stop, Join, vars, NotifyAll, Woken, Asleep
  <1>2. ASSUME NEW c \in Caller, RunInline(c) \/ Run(c)
        PROVE  Cardinality(Woken(pc')) >= MaxQueueSize - Len(queue')
    BY <1>0, <1>2, <1>b DEF RunInline, Run, Woken, Asleep
  <1>3. ASSUME NEW c \in Caller, RunLocked(c)
        PROVE  Cardinality(Woken(pc')) >= MaxQueueSize - Len(queue')
    <2>1. CASE ~IsFull /\ Enqueue(c)
      <3>1. calls[c] \in 0 .. MaxCalls /\ calls[c] # 0
        BY <1>3 DEF RunLocked, InCall, TypeOK
      <3>2. CurrentTask(c) \in Task
        BY <3>1, PoolAssumption DEF CurrentTask, Task
      <3>3. Len(queue') = Len(queue) + 1
        BY <1>0, <2>1, <3>2 DEF Enqueue
      <3>4. \A d \in Caller : pc'[d] = IF d = c THEN "idle" ELSE pc[d]
        BY <1>0, <2>1 DEF Enqueue, NotifyAll
      <3>5. Woken(pc) \subseteq Woken(pc') \cup {c} /\ Asleep(pc) # {}
        BY <3>4 DEF Woken, Asleep
      <3>6. /\ Cardinality(Woken(pc)) \in Nat /\ Cardinality(Woken(pc')) \in Nat
            /\ Cardinality(Woken(pc)) <= Cardinality(Woken(pc')) + 1
        BY <3>5, FewerWoken
      <3> QED
        BY <1>0, <1>a, <3>3, <3>5, <3>6
    <2>2. CASE IsFull /\ queue' = queue
      <3>1. Cardinality(Woken(pc')) \in Nat
        BY FewerWoken
      <3> QED
        BY <1>0, <2>2, <3>1 DEF IsFull
    <2> QED
      BY <1>3, <2>1, <2>2 DEF RunLocked
  <1>4. ASSUME NEW w \in Worker, While(w) \/ TaskReturns(w)
        PROVE  Cardinality(Woken(pc')) >= MaxQueueSize - Len(queue')
    BY <1>0, <1>4, <1>b DEF While, TaskReturns, Woken, Asleep
  <1>5. ASSUME NEW w \in Worker, Take(w)
        PROVE  Cardinality(Woken(pc')) >= MaxQueueSize - Len(queue')
    <2>1. CASE queue # <<>> /\ Dequeue(w)
      <3>1. Len(queue') = Len(queue) - 1
        BY <1>0, <2>1 DEF Dequeue
      <3>2. PICK p \in Notify(pc, Caller) : pc' = [p EXCEPT ![w] = "task"]
        BY <2>1 DEF Dequeue
      <3>3. CASE Asleep(pc) = {}
        <4>1. p = pc
          BY <3>2, <3>3 DEF Notify, Asleep
        <4> QED
          BY <1>0, <3>2, <3>3, <4>1 DEF Asleep
      <3>4. CASE Asleep(pc) # {}
        <4>1. PICK c \in Asleep(pc) : p = [pc EXCEPT ![c] = "woken"]
          BY <3>2, <3>4 DEF Notify, Asleep
        <4>2. \A d \in Caller : pc'[d] = IF d = c THEN "woken" ELSE pc[d]
          BY <1>0, <3>2, <4>1 DEF Asleep
        <4>3. c \in Caller /\ c \notin Woken(pc) /\ Woken(pc') = Woken(pc) \cup {c}
          BY <4>1, <4>2 DEF Woken, Asleep
        <4>4. /\ Cardinality(Woken(pc)) \in Nat
              /\ Cardinality(Woken(pc')) = Cardinality(Woken(pc)) + 1
          BY <4>3, OneMoreWoken
        <4> QED
          BY <1>0, <1>a, <3>1, <3>4, <4>4
      <3> QED
        BY <3>3, <3>4
    <2>2. CASE queue' = queue /\ (Wait(w) \/ pc' = [pc EXCEPT ![w] = "while"])
      BY <1>0, <1>b, <2>2 DEF Wait, Woken, Asleep
    <2> QED
      BY <1>5, <2>1, <2>2 DEF Take
  <1>6. ASSUME NEW t \in Caller \cup Worker, SpuriousWakeup(t)
        PROVE  Cardinality(Woken(pc')) >= MaxQueueSize - Len(queue')
    BY <1>0, <1>6, <1>b DEF SpuriousWakeup, Woken, Asleep
  <1> QED
    BY <1>1, <1>2, <1>3, <1>4, <1>5, <1>6 DEF Next, CallerStep, WorkerStep

LEMMA LateStep == TypeOK /\ InCall /\ LateThreadsLeave /\ [Next]_vars =>
                    LateThreadsLeave' /\ InCall'
  <1> SUFFICES ASSUME TypeOK, InCall, LateThreadsLeave, [Next]_vars
               PROVE  LateThreadsLeave' /\ InCall'
    OBVIOUS
  <1>0. /\ pc \in [Caller \cup Worker -> States]
        /\ calls \in [Caller -> 0 .. MaxCalls]
        /\ job \in [Worker -> Task \cup {NoTask}]
        /\ late \in [Worker -> Nat]
        /\ Caller \cap Worker = {} /\ MaxCalls \in Nat
    BY PoolAssumption DEF TypeOK, States
  <1>1. CASE Start
    BY <1>0, <1>1 DEF Start, LateThreadsLeave, InCall
  <1>2. ASSUME Stop PROVE LateThreadsLeave' /\ InCall'
    <2>1. Wakes(pc, pc')
      BY <1>0, <1>2, NotifyAllWakes DEF Stop
    <2> QED
      BY <1>0, <1>2, <2>1 DEF Stop, Wakes, LateThreadsLeave, InCall
  <1>3. CASE Join
    BY <1>3 DEF Join, LateThreadsLeave, InCall
  <1>4. ASSUME NEW c \in Caller, RunInline(c) PROVE LateThreadsLeave' /\ InCall'
    BY <1>0, <1>4 DEF RunInline, LateThreadsLeave, InCall
  <1>5. ASSUME NEW c \in Caller, Run(c) PROVE LateThreadsLeave' /\ InCall'
    BY <1>0, <1>5 DEF Run, LateThreadsLeave, InCall
  <1>6. ASSUME NEW c \in Caller, RunLocked(c) PROVE LateThreadsLeave' /\ InCall'
    <2>0. pc[c] \in {"lock", "woken"} /\ UNCHANGED <<owner, running, calls, job, late>>
      BY <1>6 DEF RunLocked
    <2>1. CASE Enqueue(c)
      <3>1. Wakes(pc, NotifyAll(pc, Worker))
        BY <1>0, NotifyAllWakes
      <3>2. \A t \in Caller \cup Worker :
              \/ t = c /\ pc'[t] = "idle"
              \/ pc'[t] = pc[t]
              \/ pc[t] = "waiting" /\ pc'[t] = "woken"
        BY <2>1, <3>1 DEF Enqueue, Wakes
      <3> QED
        BY <1>0, <2>0, <3>2 DEF LateThreadsLeave, InCall
    <2>2. CASE Wait(c)
      BY <1>0, <2>0, <2>2 DEF Wait, LateThreadsLeave, InCall
    <2> QED
      BY <1>6, <2>1, <2>2 DEF RunLocked
  <1>7. ASSUME NEW w \in Worker, While(w) PROVE LateThreadsLeave' /\ InCall'
    BY <1>0, <1>7 DEF While, LateThreadsLeave, InCall
  <1>8. ASSUME NEW w \in Worker, Take(w) PROVE LateThreadsLeave' /\ InCall'
    <2>0. pc[w] \in {"lock", "woken"} /\ UNCHANGED <<owner, running, calls>>
      BY <1>8 DEF Take
    <2>a. late[w] = 0
      BY <2>0 DEF LateThreadsLeave
    <2>1. CASE queue # <<>> /\ Dequeue(w)
      <3>1. PICK p : Wakes(pc, p) /\ pc' = [p EXCEPT ![w] = "task"]
        BY <2>1, DequeueEffect
      <3>2. \A t \in Caller \cup Worker :
              \/ t = w /\ pc'[t] = "task"
              \/ t # w /\ pc'[t] = pc[t]
              \/ t # w /\ pc[t] = "waiting" /\ pc'[t] = "woken"
        BY <3>1 DEF Wakes
      <3>3. Head(queue) # NoTask
        <4>1. Head(queue) \in Task
          BY <2>1 DEF TypeOK
        <4>2. PICK c \in Caller, n \in 1 .. MaxCalls : Head(queue) = <<c, n>>
          BY <4>1 DEF Task
        <4> QED
          BY <4>2 DEF NoTask
      <3>4. job' = [job EXCEPT ![w] = Head(queue)]
        BY <2>1 DEF Dequeue
      <3>5. InCall'
        BY <1>0, <2>0, <3>2, <3>3, <3>4 DEF InCall
      <3>6. CASE running
        <4>1. late' = late
          BY <2>1, <3>6 DEF Dequeue
        <4>2. LateThreadsLeave'
          BY <1>0, <2>0, <2>a, <3>2, <4>1 DEF LateThreadsLeave
        <4> QED
          BY <3>5, <4>2
      <3>7. CASE ~running
        <4>1. late' = [late EXCEPT ![w] = @ + 1]
          BY <2>1, <3>7 DEF Dequeue
        <4>2. owner \in {"joining", "stopped"}
          BY <2>0, <3>7, <1>8 DEF LateThreadsLeave, TypeOK
        <4>3. LateThreadsLeave'
          BY <1>0, <2>0, <2>a, <3>2, <4>1, <4>2 DEF LateThreadsLeave
        <4> QED
          BY <3>5, <4>3
      <3> QED
        BY <3>6, <3>7
    <2>2. CASE Wait(w) /\ UNCHANGED <<job, late>>
      BY <1>0, <2>0, <2>a, <2>2 DEF Wait, LateThreadsLeave, InCall
    <2>3. CASE pc' = [pc EXCEPT ![w] = "while"] /\ UNCHANGED <<job, late>>
      BY <1>0, <2>0, <2>a, <2>3 DEF LateThreadsLeave, InCall
    <2> QED
      BY <1>8, <2>1, <2>2, <2>3 DEF Take
  <1>9. ASSUME NEW w \in Worker, TaskReturns(w) PROVE LateThreadsLeave' /\ InCall'
    BY <1>0, <1>9 DEF TaskReturns, LateThreadsLeave, InCall
  <1>10. ASSUME NEW t \in Caller \cup Worker, SpuriousWakeup(t) PROVE LateThreadsLeave' /\ InCall'
    BY <1>0, <1>10 DEF SpuriousWakeup, LateThreadsLeave, InCall
  <1>11. CASE UNCHANGED vars
    BY <1>11 DEF vars, LateThreadsLeave, InCall
  <1> QED
    BY <1>1, <1>2, <1>3, <1>4, <1>5, <1>6, <1>7, <1>8, <1>9, <1>10, <1>11
       DEF Next, CallerStep, WorkerStep

\* The inductive invariant.
THEOREM Inductive == Spec => []IInv
  <1>1. IInv /\ [Next]_vars => IInv'
    BY TypeStep, QueueStep, WakeupStep, LateStep DEF IInv
  <1> QED
    BY InitIInv, <1>1, PTL DEF Spec

\* The queue of run() never exceeds maxQueueSize_.
THEOREM Bounded == Spec => []QueueBounded
  BY Inductive, PTL DEF IInv

\* take() hands out the tasks run() queued, in order and each once.
THEOREM Fifo == Spec => []FifoHandOver
  BY Inductive, PTL DEF IInv

\* While a caller sleeps in run(), somebody who was woken is coming for every
\* free place of the queue: no interleaving of signals, callers that barge in
\* and spurious wakeups leaves it asleep beside room.
THEOREM WakeupsKept == Spec => []NoWakeupLost
  BY Inductive, PTL DEF IInv

\* After stop() cleared running_ a thread takes at most one more task.
THEOREM StopLeavesTasks == Spec => []AtMostOneMoreTask
  <1>1. IInv => AtMostOneMoreTask
    BY DEF IInv, LateThreadsLeave, AtMostOneMoreTask
  <1> QED
    BY Inductive, <1>1, PTL
=============================================================================
