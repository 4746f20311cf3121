--------------------------- MODULE TimerQueueProofs ---------------------------
(***************************************************************************)
(* Proofs about TimerQueue, for every set of addresses, delay, interval,   *)
(* clock step and bound.                                                   *)
(***************************************************************************)
EXTENDS TimerQueue, TLAPS

\* The expiration and interval of a new Timer are a Timestamp and a duration.
LEMMA NewTimersType ==
  ASSUME mono \in Nat, offset \in Int, Wall > 0, NEW t \in NewTimers
  PROVE  t[1] \in Nat /\ t[2] \in Nat
BY TimeAssumption DEF NewTimers, Wall

\* resetTimerfd arms the timerfd at a time of the monotonic clock.
LEMMA ResetTimerfdType ==
  ASSUME mono \in Nat, offset \in Int, NEW when \in Nat
  PROVE  /\ ResetTimerfd(when) \in Nat
         /\ ResetTimerfd(when) > mono
BY TimeAssumption DEF ResetTimerfd, Wall

\* new Timer keeps the memory's types.
LEMMA AllocateType ==
  ASSUME TypeOK, NEW a \in Addr, NEW t \in NewTimers, Allocate(a, t)
  PROVE  /\ heap' \in [Addr -> Timer]
         /\ live' \subseteq Addr
         /\ created' \in Nat
         /\ periodic' \subseteq Nat
<1>1. t[1] \in Nat /\ t[2] \in Nat /\ created + 1 \in Nat
  BY NewTimersType DEF TypeOK
<1>2. [exp |-> t[1], interval |-> t[2], seq |-> created + 1] \in Timer
  BY <1>1 DEF Timer
<1>3. heap' \in [Addr -> Timer]
  BY <1>2 DEF Allocate, TypeOK
<1> QED
  BY <1>1, <1>3 DEF Allocate, TypeOK

\* TypeOK holds initially, and every step keeps it.
LEMMA TypeInductive ==
  /\ Init => TypeOK
  /\ TypeOK /\ [Next]_vars => TypeOK'
<1>1. Init => TypeOK
  <2> SUFFICES ASSUME Init PROVE TypeOK
    OBVIOUS
  <2>1. heap \in [Addr -> Timer]
    BY DEF Init, Timer
  <2>2. mono \in Nat /\ offset \in Int /\ Wall > 0 /\ now \in Nat \ {0}
    BY TimeAssumption DEF Init, Wall
  <2>3. pending \in Seq(Functor) /\ running \in Seq(Functor)
    BY DEF Init
  <2> QED
    BY <2>1, <2>2, <2>3 DEF Init, TypeOK
<1>2. TypeOK /\ [Next]_vars => TypeOK'
  <2> SUFFICES ASSUME TypeOK, [Next]_vars PROVE TypeOK'
    OBVIOUS
  <2> USE AddrAssumption, DebugAssumption, TimeAssumption DEF TypeOK
  <2>1. CASE AddTimer
    <3>1. PICK a \in Addr, t \in NewTimers :
            /\ Allocate(a, t)
            /\ InsertAndArm(a, t[1])
            /\ ids' = ids \cup {[timer |-> a, seq |-> created + 1]}
      BY <2>1 DEF AddTimer
    <3>2. t[1] \in Nat /\ t[2] \in Nat
      BY NewTimersType
    <3>3. heap' \in [Addr -> Timer] /\ live' \subseteq Addr /\ created' \in Nat
          /\ periodic' \subseteq Nat
      BY <3>1, AllocateType
    <3>4. timers' \subseteq Entry /\ aborted' \in BOOLEAN
      BY <3>1, <3>2 DEF InsertAndArm, Entry
    <3>5. armed' \in Nat \cup {Never}
      BY <3>1, <3>2, ResetTimerfdType DEF InsertAndArm
    <3>6. ids' \subseteq TimerId
      BY <3>1 DEF TimerId
    <3> QED
      BY <2>1, <3>3, <3>4, <3>5, <3>6
         DEF AddTimer, Wall, loopVars, postVars, clockVars
  <2>2. CASE Cancel
    <3>1. PICK id \in TimerId : CancelInLoop(id)
      BY <2>2 DEF Cancel
    <3>2. /\ timers' \subseteq Entry /\ live' \subseteq Addr
          /\ activeTimers' \subseteq TimerId /\ canceling' \subseteq TimerId
      BY <3>1 DEF CancelInLoop
    <3>3. aborted' \in BOOLEAN
      BY <3>1 DEF CancelInLoop
    <3>4. asked' \subseteq Nat /\ stopped' \subseteq Nat
      BY <3>1 DEF CancelInLoop, TimerId
    <3> QED
      BY <2>2, <3>2, <3>3, <3>4
         DEF Cancel, loopVars, postVars, clockVars, Wall
  <2>3. CASE PostAddTimer
    <3>1. PICK a \in Addr, t \in NewTimers :
            /\ Allocate(a, t)
            /\ caller' = [timer |-> a, seq |-> created + 1]
            /\ pending' = Append(pending, [op |-> "add", id |-> caller'])
      BY <2>3 DEF PostAddTimer
    <3>2. t[1] \in Nat /\ t[2] \in Nat
      BY NewTimersType
    <3>3. heap' \in [Addr -> Timer] /\ live' \subseteq Addr /\ created' \in Nat
          /\ periodic' \subseteq Nat
      BY <3>1, AllocateType
    <3>4. caller' \in TimerId
      BY <3>1 DEF TimerId
    <3>5. pending' \in Seq(Functor)
      BY <3>1, <3>4 DEF Functor
    <3> QED
      BY <2>3, <3>3, <3>4, <3>5
         DEF PostAddTimer, Wall, loopVars, queueVars, clockVars
  <2>4. CASE ReturnTimerId
    <3>1. caller \in TimerId
      BY <2>4 DEF ReturnTimerId
    <3>2. caller.timer \in Addr /\ heap[caller.timer].seq \in Nat
      BY <3>1 DEF TimerId, Timer
    <3>3. PICK s \in Nat : ids' = ids \cup {[timer |-> caller.timer, seq |-> s]}
      BY <2>4, <3>2 DEF ReturnTimerId
    <3>4. ids' \subseteq TimerId
      BY <3>2, <3>3 DEF TimerId
    <3> QED
      BY <2>4, <3>4 DEF ReturnTimerId, Wall,
         loopVars, queueVars, clockVars, memVars, histVars
  <2>5. CASE PostCancel
    BY <2>5 DEF PostCancel, Functor, Wall,
       loopVars, queueVars, clockVars, memVars, histVars
  <2>6. CASE Poll
    BY <2>6 DEF Poll, Readable, Wall,
       postVars, queueVars, clockVars, memVars, histVars
  <2>7. CASE HandleRead
    BY <2>7 DEF HandleRead, Expired, Wall, Never,
       postVars, clockVars, memVars, histVars
  <2>8. CASE CallbackReturns
    <3>1. PICK e \in todo : todo' = todo \ {e} /\ ran' = ran \cup {heap[e.timer].seq}
      BY <2>8 DEF CallbackReturns
    <3>2. e \in Entry
      OBVIOUS
    <3>3. heap[e.timer] \in Timer
      BY <3>2 DEF Entry
    <3>4. ran' \subseteq Nat
      BY <3>1, <3>3 DEF Timer
    <3> QED
      BY <2>8, <3>1, <3>4 DEF CallbackReturns, Wall,
         loopVars, postVars, clockVars, memVars
  <2>9. CASE Reset
    <3>1. heap' \in [Addr -> Timer]
      <4>1. ASSUME NEW a \in Addr PROVE heap'[a] \in Timer
        <5>1. heap[a] \in Timer /\ now + heap[a].interval \in Nat
          BY DEF Timer
        <5>2. [heap[a] EXCEPT !.exp = now + heap[a].interval] \in Timer
          BY <5>1 DEF Timer
        <5> QED
          BY <2>9, <5>1, <5>2 DEF Reset
      <4> QED
        BY <2>9, <4>1 DEF Reset
    <3>2. timers' \subseteq Entry
      <4>1. ASSUME NEW e \in Restarted PROVE RestartedEntry(e) \in Entry
        <5>1. e \in Entry
          BY DEF Restarted
        <5>2. e.timer \in Addr
          BY <5>1 DEF Entry
        <5>3. heap[e.timer] \in Timer /\ now \in Nat
          BY <5>2
        <5>4. now + heap[e.timer].interval \in Nat
          BY <5>3 DEF Timer
        <5> QED
          BY <5>2, <5>4 DEF RestartedEntry, Entry
      <4> QED
        BY <2>9, <4>1 DEF Reset
    <3>3. armed' \in Nat \cup {Never}
      <4>1. \A e \in timers' : e.exp \in Nat
        BY <3>2 DEF Entry
      <4> QED
        BY <2>9, <4>1, ResetTimerfdType DEF Reset, Rearm
    <3> QED
      BY <2>9, <3>1, <3>2, <3>3 DEF Reset, Wall, postVars, clockVars, histVars
  <2>10. CASE EventsDone
    BY <2>10 DEF EventsDone, Wall, queueVars, clockVars, memVars, histVars
  <2>11. CASE RunAdd
    <3>1. Head(running) \in Functor /\ Tail(running) \in Seq(Functor)
      BY <2>11 DEF RunAdd
    <3> QED
      <4> DEFINE a == Head(running).id.timer
      <4>1. a \in Addr /\ heap[a].exp \in Nat
        BY <3>1 DEF Functor, TimerId, Timer
      <4>2. timers' \subseteq Entry /\ aborted' \in BOOLEAN
        BY <2>11, <4>1 DEF RunAdd, InsertAndArm, Entry
      <4>3. armed' \in Nat \cup {Never}
        BY <2>11, <4>1, ResetTimerfdType DEF RunAdd, InsertAndArm
      <4> QED
        BY <2>11, <3>1, <4>2, <4>3 DEF RunAdd, Wall, loopVars, memVars,
           clockVars, histVars
  <2>12. CASE RunCancel
    <3>1. Head(running) \in Functor /\ Tail(running) \in Seq(Functor)
      BY <2>12 DEF RunCancel
    <3> QED
      BY <2>12, <3>1 DEF RunCancel, CancelInLoop, Functor, TimerId, Wall,
         loopVars, clockVars
  <2>13. CASE FunctorsDone
    BY <2>13 DEF FunctorsDone, Wall,
       queueVars, clockVars, memVars, postVars, histVars
  <2>14. CASE Destroy
    BY <2>14 DEF Destroy, Wall, Never, clockVars, postVars, histVars
  <2>15. CASE Tick
    BY <2>15 DEF Tick, Wall, loopVars, queueVars, memVars, postVars, histVars
  <2>16. CASE StepWallClock
    BY <2>16 DEF StepWallClock, Wall,
       loopVars, queueVars, memVars, postVars, histVars
  <2>17. CASE UNCHANGED vars
    BY <2>17 DEF vars, Wall, loopVars, queueVars, memVars, postVars, clockVars,
       histVars
  <2> QED
    BY <2>1, <2>2, <2>3, <2>4, <2>5, <2>6, <2>7, <2>8, <2>9, <2>10, <2>11,
       <2>12, <2>13, <2>14, <2>15, <2>16, <2>17
       DEF Next, LoopStep, UserStep, Gone
<1> QED
  BY <1>1, <1>2

\* The timer queue's types: expirations stay Timestamps, the wall clock stays
\* positive, the timerfd is disarmed or armed at a time of the monotonic clock.
THEOREM TypeCorrect == Spec => []TypeOK
BY TypeInductive, PTL DEF Spec

-----------------------------------------------------------------------------
(***************************************************************************)
(* Queued functors.                                                        *)
(***************************************************************************)

\* push_back adds at most the new functor's Timer, and keeps the Timers of a
\* queue distinct if the new one is not in it.
LEMMA QueuedAppend ==
  ASSUME NEW q \in Seq(Functor), NEW f \in Functor
  PROVE  /\ f.op = "add" => Queued(Append(q, f)) = Queued(q) \cup {f.id.timer}
         /\ f.op # "add" => Queued(Append(q, f)) = Queued(q)
         /\ Unique(q) /\ (f.op = "add" => f.id.timer \notin Queued(q))
              => Unique(Append(q, f))
<1> DEFINE r == Append(q, f)
<1>1. /\ Len(r) = Len(q) + 1
      /\ Len(q) \in Nat
      /\ \A i \in 1..Len(q) : r[i] = q[i]
      /\ r[Len(q) + 1] = f
  OBVIOUS
<1> HIDE DEF r
<1>2. \A i \in 1..Len(r) : i \in 1..Len(q) \/ i = Len(q) + 1
  BY <1>1
<1>3. 1..Len(q) \subseteq 1..Len(r) /\ Len(q) + 1 \in 1..Len(r)
  BY <1>1
<1>4. \A a : a \in Queued(r) <=>
             a \in Queued(q) \/ (f.op = "add" /\ a = f.id.timer)
  BY <1>1, <1>2, <1>3, Zenon DEF Queued
<1>5. Unique(q) /\ (f.op = "add" => f.id.timer \notin Queued(q)) => Unique(r)
  BY <1>1, <1>2, <1>3 DEF Unique, Queued
<1> QED
  BY <1>4, <1>5 DEF r

\* Taking the first functor off a queue of distinct Timers takes its Timer off.
LEMMA QueuedTail ==
  ASSUME NEW q \in Seq(Functor), q # <<>>
  PROVE  /\ Head(q) \in Functor
         /\ Queued(Tail(q)) \subseteq Queued(q)
         /\ Unique(q) => Unique(Tail(q))
         /\ Head(q).op = "add" => Head(q).id.timer \in Queued(q)
         /\ Head(q).op = "add" /\ Unique(q) =>
              Queued(Tail(q)) = Queued(q) \ {Head(q).id.timer}
         /\ Head(q).op # "add" => Queued(Tail(q)) = Queued(q)
<1> DEFINE r == Tail(q)
           h == Head(q)
<1>1. /\ Len(r) = Len(q) - 1
      /\ Len(q) \in Nat /\ Len(q) >= 1
      /\ \A i \in 1..Len(r) : r[i] = q[i + 1]
      /\ h = q[1]
      /\ h \in Functor
  OBVIOUS
<1> HIDE DEF r, h
<1>2. \A i \in 1..Len(r) : i + 1 \in 1..Len(q) /\ i + 1 # 1
  BY <1>1
<1>3. \A i \in 1..Len(q) : i = 1 \/ (i - 1 \in 1..Len(r) /\ q[i] = r[i - 1])
  BY <1>1
<1>4. 1 \in 1..Len(q)
  BY <1>1
<1>5. Queued(r) \subseteq Queued(q)
  BY <1>1, <1>2, Zenon DEF Queued
<1>6. ASSUME Unique(q) PROVE Unique(r)
  BY <1>1, <1>2, <1>6 DEF Unique
<1>7. h.op = "add" => h.id.timer \in Queued(q)
  BY <1>1, <1>4 DEF Queued
<1>8. \A a \in Queued(q) : a \in Queued(r) \/ (h.op = "add" /\ a = h.id.timer)
  BY <1>1, <1>3 DEF Queued
<1>9. ASSUME h.op = "add", Unique(q) PROVE h.id.timer \notin Queued(r)
  <2> SUFFICES ASSUME NEW i \in 1..Len(r), r[i].op = "add",
                      r[i].id.timer = h.id.timer
               PROVE  FALSE
    BY DEF Queued
  <2>1. i + 1 \in 1..Len(q) /\ i + 1 # 1 /\ r[i] = q[i + 1]
    BY <1>1, <1>2
  <2>2. i + 1 = 1
    BY <1>1, <1>4, <1>9, <2>1 DEF Unique
  <2> QED
    BY <2>1, <2>2
<1> QED
  BY <1>1, <1>5, <1>6, <1>7, <1>8, <1>9 DEF r, h

\* An empty queue holds no Timer.
LEMMA QueuedEmpty == Queued(<<>>) = {} /\ Unique(<<>>)
BY DEF Queued, Unique

-----------------------------------------------------------------------------
(***************************************************************************)
(* Inv1: no dangling Timer.                                                *)
(***************************************************************************)

\* In the containers a Timer's address determines its entry.
LEMMA EntryOfTimer ==
  ASSUME TypeOK, NoDangling
  PROVE  \A e, f \in timers \cup batch : e.timer = f.timer => e = f
<1> SUFFICES ASSUME NEW e \in timers \cup batch, NEW f \in timers \cup batch,
                    e.timer = f.timer
             PROVE  e = f
  OBVIOUS
<1>1. e \in Entry /\ f \in Entry
  BY DEF TypeOK
<1>2. e.exp = f.exp
  BY DEF NoDangling
<1> QED
  BY <1>1, <1>2 DEF Entry

\* What insert needs and does: a Timer that no container holds is filed under
\* its expiration, and the assert on the set's result holds.
LEMMA InsertFresh ==
  ASSUME Inv1, NEW a \in Addr, NEW when \in Nat, InsertAndArm(a, when),
         \A e \in timers : e.timer # a
  PROVE  /\ timers' = timers \cup {[exp |-> when, timer |-> a]}
         /\ ~aborted'
BY DebugAssumption DEF InsertAndArm

\* activeTimers_ being empty, cancelInLoop changes cancelingTimers_ at most.
LEMMA CancelChangesNothing ==
  ASSUME ControlInv, NEW id, CancelInLoop(id)
  PROVE  /\ UNCHANGED <<timers, aborted, live, activeTimers>>
         /\ canceling' = IF calling THEN canceling \cup {id} ELSE canceling
BY DEF ControlInv, CancelInLoop

\* The Timers of a queue after a step are those of its new value.
LEMMA QueuePrimes ==
  ASSUME NEW q
  PROVE  /\ pending' = q => /\ Queued(pending)' = Queued(q)
                            /\ Unique(pending)' = Unique(q)
         /\ running' = q => /\ Queued(running)' = Queued(q)
                            /\ Unique(running)' = Unique(q)
BY DEF Queued, Unique

\* Queues that do not change keep their Timers.
LEMMA QueuesUnchanged ==
  ASSUME UNCHANGED <<pending, running>>
  PROVE  /\ Queued(pending)' = Queued(pending)
         /\ Queued(running)' = Queued(running)
         /\ Unique(pending)' = Unique(pending)
         /\ Unique(running)' = Unique(running)
BY DEF Queued, Unique

\* The variables Inv1 is about.
vars1 == <<heap, live, timers, activeTimers, calling, batch, loopVars, pending,
           running>>

\* Inv1 holds initially, and every step keeps it.
LEMMA Inv1Inductive ==
  /\ Init => Inv1
  /\ Inv1 /\ [Next]_vars => Inv1'
<1>1. Init => Inv1
  <2> SUFFICES ASSUME Init PROVE Inv1
    OBVIOUS
  <2> USE DEF Init
  <2>1. TypeOK
    BY TypeInductive
  <2>2. ControlInv
    BY DEF ControlInv
  <2>3. NoDangling /\ QueueInv
    BY QueuedEmpty DEF NoDangling, QueueInv
  <2> QED
    BY <2>1, <2>2, <2>3 DEF Inv1
<1>2. Inv1 /\ [Next]_vars => Inv1'
  <2> SUFFICES ASSUME Inv1, [Next]_vars PROVE (ControlInv /\ NoDangling /\ QueueInv)'
    BY TypeInductive DEF Inv1
  <2>0. TypeOK /\ ControlInv /\ NoDangling /\ QueueInv /\ TypeOK'
    BY TypeInductive DEF Inv1
  <2>u. ASSUME UNCHANGED vars1 PROVE (ControlInv /\ NoDangling /\ QueueInv)'
    <3>1. UNCHANGED <<heap, live, timers, activeTimers, calling, batch, pc,
                      tfdActive, pending, running>>
      BY <2>u DEF vars1, loopVars
    <3> QED
      BY <2>0, <3>1, QueuesUnchanged DEF ControlInv, NoDangling, QueueInv
  <2>1. CASE AddTimer
    <3>1. PICK a \in Addr, t \in NewTimers : Allocate(a, t) /\ InsertAndArm(a, t[1])
      BY <2>1 DEF AddTimer
    <3>2. t[1] \in Nat /\ t[2] \in Nat
      BY <2>0, NewTimersType DEF TypeOK
    <3>3. \A e \in timers \cup batch : e.timer # a
      BY <2>0, <3>1 DEF Allocate, NoDangling
    <3>4. timers' = timers \cup {[exp |-> t[1], timer |-> a]}
      BY <3>1, <3>2, <3>3, InsertFresh
    <3>5. /\ live' = live \cup {a}
          /\ heap'[a].exp = t[1]
          /\ \A b \in Addr \ {a} : heap'[b] = heap[b]
          /\ a \notin live
      BY <2>0, <3>1 DEF Allocate, TypeOK
    <3>6. UNCHANGED <<activeTimers, calling, batch, pc, tfdActive, pending, running>>
      BY <2>1 DEF AddTimer, loopVars, postVars
    <3>7. NoDangling'
      BY <2>0, <3>3, <3>4, <3>5, <3>6, QueuesUnchanged DEF NoDangling, TypeOK, Entry
    <3> QED
      BY <2>0, <3>6, <3>7, QueuesUnchanged DEF ControlInv, QueueInv
  <2>2. CASE Cancel
    <3>1. UNCHANGED <<timers, live, activeTimers>>
      BY <2>0, <2>2, CancelChangesNothing DEF Cancel
    <3> QED
      BY <2>2, <2>u, <3>1 DEF Cancel, vars1, postVars
  <2>3. CASE PostAddTimer
    <3>1. PICK a \in Addr, t \in NewTimers :
            /\ Allocate(a, t)
            /\ caller' = [timer |-> a, seq |-> created + 1]
            /\ pending' = Append(pending, [op |-> "add", id |-> caller'])
      BY <2>3 DEF PostAddTimer
    <3> DEFINE f == [op |-> "add", id |-> caller']
    <3>2. /\ live' = live \cup {a}
          /\ \A b \in Addr \ {a} : heap'[b] = heap[b]
          /\ a \notin live
      BY <2>0, <3>1 DEF Allocate, TypeOK
    <3>3. f \in Functor /\ f.op = "add" /\ f.id.timer = a
      BY <2>0, <3>1 DEF Functor, TimerId, TypeOK
    <3>4. UNCHANGED <<timers, activeTimers, calling, batch, pc, tfdActive, running>>
      BY <2>3 DEF PostAddTimer, loopVars, queueVars
    <3>5. a \notin Queued(pending) \cup Queued(running)
      BY <2>0, <3>2 DEF NoDangling
    <3>6. /\ Queued(pending)' = Queued(pending) \cup {a}
          /\ Unique(pending)'
          /\ Queued(running)' = Queued(running)
          /\ Unique(running)'
      <4>1. /\ Queued(Append(pending, f)) = Queued(pending) \cup {a}
            /\ Unique(Append(pending, f))
        BY <2>0, <3>3, <3>5, QueuedAppend DEF TypeOK, QueueInv
      <4> QED
        BY <2>0, <3>1, <3>4, <4>1, QueuePrimes DEF QueueInv
    <3> HIDE DEF f
    <3>7. NoDangling'
      BY <2>0, <3>2, <3>4, <3>6 DEF NoDangling, TypeOK, Entry
    <3>8. QueueInv'
      BY <2>0, <3>5, <3>6 DEF QueueInv
    <3> QED
      BY <2>0, <3>4, <3>7, <3>8 DEF ControlInv
  <2>4. CASE ReturnTimerId
    BY <2>4, <2>u DEF ReturnTimerId, vars1, queueVars, memVars
  <2>5. CASE PostCancel
    <3>1. PICK id \in ids : pending' = Append(pending, [op |-> "cancel", id |-> id])
      BY <2>5 DEF PostCancel
    <3> DEFINE f == [op |-> "cancel", id |-> id]
    <3>2. f \in Functor /\ f.op # "add"
      BY <2>0 DEF Functor, TypeOK
    <3>3. UNCHANGED <<heap, live, timers, activeTimers, calling, batch, pc,
                      tfdActive, running>>
      BY <2>5 DEF PostCancel, loopVars, queueVars, memVars
    <3>4. /\ Queued(pending)' = Queued(pending)
          /\ Unique(pending)'
          /\ Queued(running)' = Queued(running)
          /\ Unique(running)'
      <4>1. /\ Queued(Append(pending, f)) = Queued(pending)
            /\ Unique(Append(pending, f))
        BY <2>0, <3>2, QueuedAppend DEF TypeOK, QueueInv
      <4> QED
        BY <2>0, <3>1, <3>3, <4>1, QueuePrimes DEF QueueInv
    <3> HIDE DEF f
    <3> QED
      BY <2>0, <3>3, <3>4 DEF ControlInv, NoDangling, QueueInv
  <2>6. CASE Poll
    <3>1. UNCHANGED <<heap, live, timers, activeTimers, calling, batch, pending,
                      running>>
      BY <2>6 DEF Poll, queueVars, memVars, postVars
    <3>2. NoDangling' /\ QueueInv'
      BY <2>0, <3>1, QueuesUnchanged DEF NoDangling, QueueInv
    <3>3. pc = "poll" /\ pc' = "events" /\ ControlInv'
      BY <2>0, <2>6, <3>1 DEF Poll, ControlInv
    <3> QED
      BY <3>2, <3>3
  <2>7. CASE HandleRead
    <3>1. UNCHANGED <<heap, live, pending, running, tfdActive>>
      BY <2>7 DEF HandleRead, memVars, postVars
    <3>2. /\ batch' \subseteq timers
          /\ timers' = timers \ batch'
      BY <2>7 DEF HandleRead, Expired
    <3>3. \A e, f \in timers : e.timer = f.timer => e = f
      BY <2>0, EntryOfTimer
    <3>4. NoDangling'
      BY <2>0, <3>1, <3>2, <3>3, QueuesUnchanged DEF NoDangling
    <3>5. QueueInv'
      BY <2>0, <3>1, QueuesUnchanged DEF QueueInv
    <3>6. ControlInv'
      <4>1. activeTimers' = {} /\ pc = "events" /\ pc' = "calling" /\ tfdActive
        BY <2>0, <2>7 DEF HandleRead, ControlInv
      <4>2. calling' = (pc' = "calling")
        BY <2>7 DEF HandleRead
      <4> QED
        BY <2>0, <3>1, <4>1, <4>2 DEF ControlInv
    <3> QED
      BY <3>4, <3>5, <3>6
  <2>8. CASE CallbackReturns
    BY <2>8, <2>u DEF CallbackReturns, vars1, memVars, postVars
  <2>9. CASE Reset
    <3>1. UNCHANGED <<pending, running, activeTimers>>
      BY <2>9 DEF Reset, postVars
    <3>2. Restarted \subseteq batch /\ batch \subseteq Entry
      BY <2>0 DEF Restarted, TypeOK
    <3>3. \A e, f \in timers \cup batch : e.timer = f.timer => e = f
      BY <2>0, EntryOfTimer
    <3>4. ASSUME NEW e \in timers
          PROVE  e.timer \in live' /\ heap'[e.timer] = heap[e.timer]
      <4>1. e.timer \in live /\ e.timer \in Addr
        BY <2>0 DEF NoDangling, TypeOK, Entry
      <4>2. \A f \in batch : f.timer # e.timer
        BY <2>0 DEF NoDangling
      <4> QED
        BY <2>9, <3>2, <4>1, <4>2 DEF Reset, Deleted
    <3>5. ASSUME NEW e \in Restarted
          PROVE  /\ e.timer \in live'
                 /\ heap'[e.timer].exp = RestartedEntry(e).exp
                 /\ RestartedEntry(e).timer = e.timer
      <4>1. e.timer \in live /\ e.timer \in Addr
        BY <2>0, <3>2 DEF NoDangling, Entry
      <4>2. \A f \in batch \ Restarted : f.timer # e.timer
        BY <3>2, <3>3
      <4>3. heap'[e.timer] = [heap[e.timer] EXCEPT !.exp = now + heap[e.timer].interval]
        BY <2>9, <4>1 DEF Reset
      <4>4. heap[e.timer] \in Timer
        BY <2>0, <4>1 DEF TypeOK
      <4> QED
        BY <2>9, <4>1, <4>2, <4>3, <4>4 DEF Reset, Deleted, RestartedEntry, Timer
    <3>6. timers' = timers \cup {RestartedEntry(e) : e \in Restarted} /\ batch' = {}
      BY <2>9 DEF Reset
    <3>7. \A e \in timers' \cup batch' : e.timer \in live' /\ heap'[e.timer].exp = e.exp
      BY <2>0, <3>4, <3>5, <3>6 DEF NoDangling
    <3>8. /\ Queued(pending)' = Queued(pending)
          /\ Queued(running)' = Queued(running)
          /\ Unique(pending)' = Unique(pending)
          /\ Unique(running)' = Unique(running)
      BY <3>1, QueuesUnchanged
    <3>9. \A e \in timers' : e.timer \notin Queued(pending) \cup Queued(running)
      BY <2>0, <3>2, <3>5, <3>6 DEF NoDangling
    <3>10. Queued(pending) \cup Queued(running) \subseteq live'
      BY <2>0, <2>9 DEF NoDangling, Reset, Deleted
    <3>11. NoDangling'
      BY <3>6, <3>7, <3>8, <3>9, <3>10 DEF NoDangling
    <3>12. ControlInv'
      BY <2>0, <2>9, <3>1, <3>6 DEF Reset, ControlInv
    <3> QED
      BY <2>0, <3>8, <3>11, <3>12 DEF QueueInv
  <2>10. CASE EventsDone
    <3>1. UNCHANGED <<heap, live, timers, activeTimers, calling, batch, tfdActive>>
      BY <2>10 DEF EventsDone, queueVars, memVars
    <3>2. running = <<>> /\ running' = pending /\ pending' = <<>>
      BY <2>0, <2>10 DEF EventsDone, ControlInv
    <3>3. /\ Queued(running)' = Queued(pending) /\ Queued(pending)' = {}
          /\ Unique(running)' = Unique(pending) /\ Unique(pending)'
          /\ Queued(running) = {}
      BY <3>2, QueuedEmpty, QueuePrimes
    <3>4. NoDangling' /\ QueueInv'
      BY <2>0, <3>1, <3>3 DEF NoDangling, QueueInv
    <3>5. ControlInv'
      BY <2>0, <2>10, <3>1 DEF EventsDone, ControlInv
    <3> QED
      BY <3>4, <3>5
  <2>11. CASE RunAdd
    <3> DEFINE a == Head(running).id.timer
    <3>1. running \in Seq(Functor) /\ running # <<>> /\ running' = Tail(running)
          /\ Head(running).op = "add"
      BY <2>0, <2>11 DEF RunAdd, TypeOK
    <3>2. /\ Head(running) \in Functor
          /\ a \in Queued(running)
          /\ Queued(Tail(running)) = Queued(running) \ {a}
          /\ Unique(Tail(running))
      BY <2>0, <3>1, QueuedTail DEF QueueInv
    <3>3. InsertAndArm(a, heap[a].exp)
      BY <2>11 DEF RunAdd
    <3> HIDE DEF a
    <3>4. a \in Addr /\ heap[a].exp \in Nat
      BY <2>0, <3>2 DEF NoDangling, TypeOK, Timer
    <3>5. /\ \A e \in timers \cup batch : e.timer # a
          /\ a \in live
          /\ a \notin Queued(pending)
      BY <2>0, <3>2 DEF NoDangling, QueueInv
    <3>6. timers' = timers \cup {[exp |-> heap[a].exp, timer |-> a]}
      BY <3>3, <3>4, <3>5, InsertFresh
    <3>7. UNCHANGED <<heap, live, activeTimers, calling, batch, pc, tfdActive,
                      pending>>
      BY <2>11 DEF RunAdd, memVars, loopVars
    <3>8. /\ Queued(running)' = Queued(running) \ {a}
          /\ Unique(running)'
          /\ Queued(pending)' = Queued(pending)
          /\ Unique(pending)' = Unique(pending)
      BY <3>1, <3>2, <3>7, QueuePrimes
    <3>9. NoDangling' /\ QueueInv'
      BY <2>0, <3>4, <3>5, <3>6, <3>7, <3>8 DEF NoDangling, QueueInv
    <3>10. ControlInv'
      BY <2>0, <2>11, <3>7 DEF RunAdd, ControlInv
    <3> QED
      BY <3>9, <3>10
  <2>12. CASE RunCancel
    <3>1. running \in Seq(Functor) /\ running # <<>> /\ running' = Tail(running)
          /\ Head(running).op # "add"
      BY <2>0, <2>12 DEF RunCancel, TypeOK
    <3>2. UNCHANGED <<timers, live, activeTimers>>
      BY <2>0, <2>12, CancelChangesNothing DEF RunCancel
    <3>3. UNCHANGED <<heap, calling, batch, pc, tfdActive, pending>>
      BY <2>12 DEF RunCancel, loopVars
    <3>4. /\ Queued(running)' = Queued(running)
          /\ Unique(running)'
          /\ Queued(pending)' = Queued(pending)
          /\ Unique(pending)' = Unique(pending)
      <4>1. Queued(Tail(running)) = Queued(running) /\ Unique(Tail(running))
        BY <2>0, <3>1, QueuedTail DEF QueueInv
      <4> QED
        BY <3>1, <3>3, <4>1, QueuePrimes
    <3>5. NoDangling' /\ QueueInv'
      BY <2>0, <3>2, <3>3, <3>4 DEF NoDangling, QueueInv
    <3>6. ControlInv'
      BY <2>0, <2>12, <3>2, <3>3 DEF RunCancel, ControlInv
    <3> QED
      BY <3>5, <3>6
  <2>13. CASE FunctorsDone
    <3>1. UNCHANGED <<heap, live, timers, activeTimers, calling, batch, pending,
                      running, tfdActive>>
      BY <2>13 DEF FunctorsDone, queueVars, memVars, postVars
    <3>2. NoDangling' /\ QueueInv'
      BY <2>0, <3>1, QueuesUnchanged DEF NoDangling, QueueInv
    <3>3. ControlInv'
      BY <2>0, <2>13, <3>1 DEF FunctorsDone, ControlInv
    <3> QED
      BY <3>2, <3>3
  <2>14. CASE Destroy
    <3>1. UNCHANGED <<heap, activeTimers, calling, batch, pending, running, tfdActive>>
      BY <2>14 DEF Destroy, postVars
    <3>2. batch = {} /\ timers' = {} /\ live' = live \ {e.timer : e \in timers}
      BY <2>0, <2>14 DEF Destroy, ControlInv
    <3>3. /\ Queued(pending)' = Queued(pending) /\ Unique(pending)' = Unique(pending)
          /\ Queued(running)' = Queued(running) /\ Unique(running)' = Unique(running)
      BY <3>1, QueuesUnchanged
    <3>4. NoDangling' /\ QueueInv'
      BY <2>0, <3>1, <3>2, <3>3 DEF NoDangling, QueueInv
    <3>5. ControlInv'
      BY <2>0, <2>14, <3>1, <3>2 DEF Destroy, ControlInv
    <3> QED
      BY <3>4, <3>5
  <2>15. CASE Tick
    BY <2>15, <2>u DEF Tick, vars1, queueVars, memVars, postVars
  <2>16. CASE StepWallClock
    BY <2>16, <2>u DEF StepWallClock, vars1, queueVars, memVars, postVars
  <2>17. CASE UNCHANGED vars
    BY <2>17, <2>u DEF vars, vars1, queueVars, memVars, postVars
  <2> QED
    BY <2>1, <2>2, <2>3, <2>4, <2>5, <2>6, <2>7, <2>8, <2>9, <2>10, <2>11,
       <2>12, <2>13, <2>14, <2>15, <2>16, <2>17
       DEF Next, LoopStep, UserStep, Gone
<1> QED
  BY <1>1, <1>2

\* The queue never holds a pointer to a deleted Timer, nor two to the same.
THEOREM NoDanglingTimer == Spec => []NoDangling
<1>1. Inv1 => NoDangling
  BY DEF Inv1
<1> QED
  BY <1>1, Inv1Inductive, PTL DEF Spec

-----------------------------------------------------------------------------
(***************************************************************************)
(* Ownership: every Timer is held by something that will delete it.        *)
(***************************************************************************)

\* The addresses some container holds.
Held == {e.timer : e \in timers \cup batch} \cup Queued(pending) \cup Queued(running)

\* OwnerInv and DestructorFrees are kept by every step from an Inv1 state.
LEMMA OwnerInductive ==
  /\ Init => OwnerInv /\ DestructorFrees
  /\ Inv1 /\ OwnerInv /\ DestructorFrees /\ [Next]_vars
       => OwnerInv' /\ DestructorFrees'
<1>1. Init => OwnerInv /\ DestructorFrees
  BY DEF Init, OwnerInv, DestructorFrees
<1>2. ASSUME Inv1, OwnerInv, DestructorFrees, [Next]_vars
      PROVE  OwnerInv' /\ DestructorFrees'
  <2>0. TypeOK /\ ControlInv /\ NoDangling /\ QueueInv
    BY <1>2 DEF Inv1
  <2>o. pc # "gone" => live \subseteq Held
    BY <1>2 DEF OwnerInv, Held
  <2>s. ASSUME pc # "gone", pc' # "gone", live' \subseteq Held'
        PROVE  OwnerInv' /\ DestructorFrees'
    BY <2>s DEF OwnerInv, DestructorFrees, Held
  <2>u. ASSUME UNCHANGED <<live, timers, batch, pending, running>>,
               pc = "gone" <=> pc' = "gone"
        PROVE  OwnerInv' /\ DestructorFrees'
    BY <1>2, <2>u, QueuesUnchanged DEF OwnerInv, DestructorFrees
  <2>1. CASE AddTimer
    <3>1. PICK a \in Addr, t \in NewTimers : Allocate(a, t) /\ InsertAndArm(a, t[1])
      BY <2>1 DEF AddTimer
    <3>2. live' = live \cup {a} /\ timers' = timers \cup {[exp |-> t[1], timer |-> a]}
      BY <3>1 DEF Allocate, InsertAndArm
    <3>3. UNCHANGED <<batch, pending, running, pc>> /\ pc # "gone"
      BY <2>1 DEF AddTimer, InUserCode, loopVars, postVars
    <3>4. live' \subseteq Held'
      <4>1. Held' = {e.timer : e \in timers' \cup batch} \cup Queued(pending)
                      \cup Queued(running)
        BY <3>3, QueuesUnchanged DEF Held
      <4>n. PICK n : n.timer = a /\ timers' = timers \cup {n}
        BY <3>2
      <4>2. a \in Held' /\ Held \subseteq Held'
        BY <4>n, <4>1 DEF Held
      <4> QED
        BY <2>o, <3>2, <3>3, <4>2
    <3> QED
      BY <2>s, <3>3, <3>4
  <2>2. CASE Cancel
    <3>1. UNCHANGED <<timers, live>>
      BY <2>0, <2>2, CancelChangesNothing DEF Cancel
    <3> QED
      BY <2>2, <2>u, <3>1 DEF Cancel, loopVars, postVars
  <2>3. CASE PostAddTimer
    <3>1. PICK a \in Addr, t \in NewTimers :
            /\ Allocate(a, t)
            /\ caller' = [timer |-> a, seq |-> created + 1]
            /\ pending' = Append(pending, [op |-> "add", id |-> caller'])
      BY <2>3 DEF PostAddTimer
    <3>2. [op |-> "add", id |-> caller'] \in Functor
      BY <2>0, <3>1 DEF Functor, TimerId, TypeOK
    <3>3. Queued(Append(pending, [op |-> "add", id |-> caller']))
            = Queued(pending) \cup {a}
      BY <2>0, <3>1, <3>2, QueuedAppend DEF TypeOK
    <3>4. Queued(pending)' = Queued(pending) \cup {a}
      BY <3>1, <3>3, QueuePrimes
    <3>5. UNCHANGED <<timers, batch, running, pc>> /\ pc # "gone"
      BY <2>3 DEF PostAddTimer, loopVars, queueVars
    <3>6. Queued(running)' = Queued(running)
      BY <3>5, QueuePrimes
    <3>7. live' \subseteq Held'
      BY <2>o, <3>1, <3>4, <3>5, <3>6 DEF Held, Allocate
    <3> QED
      BY <2>s, <3>5, <3>7
  <2>4. CASE ReturnTimerId
    BY <2>4, <2>u DEF ReturnTimerId, queueVars, memVars, loopVars
  <2>5. CASE PostCancel
    <3>1. PICK id \in ids : pending' = Append(pending, [op |-> "cancel", id |-> id])
      BY <2>5 DEF PostCancel
    <3>2. [op |-> "cancel", id |-> id] \in Functor
      BY <2>0 DEF Functor, TypeOK
    <3>3. Queued(Append(pending, [op |-> "cancel", id |-> id])) = Queued(pending)
      BY <2>0, <3>2, QueuedAppend DEF TypeOK
    <3>4. UNCHANGED <<live, timers, batch, running, pc>> /\ pc # "gone"
      BY <2>5 DEF PostCancel, loopVars, queueVars, memVars
    <3>5. Queued(pending)' = Queued(pending) /\ Queued(running)' = Queued(running)
      BY <3>1, <3>3, <3>4, QueuePrimes
    <3> QED
      BY <2>o, <2>s, <3>4, <3>5 DEF Held
  <2>6. CASE Poll
    BY <2>6, <2>u DEF Poll, queueVars, memVars, postVars
  <2>7. CASE HandleRead
    <3>1. UNCHANGED <<live, pending, running>>
      BY <2>7 DEF HandleRead, memVars, postVars
    <3>2. timers \subseteq timers' \cup batch' /\ pc # "gone" /\ pc' # "gone" /\ batch = {}
      BY <2>0, <2>7 DEF HandleRead, ControlInv
    <3> QED
      BY <2>o, <2>s, <3>1, <3>2, QueuesUnchanged DEF Held
  <2>8. CASE CallbackReturns
    BY <2>8, <2>u DEF CallbackReturns, loopVars, memVars, postVars
  <2>9. CASE Reset
    <3>1. UNCHANGED <<pending, running>> /\ pc # "gone" /\ pc' # "gone"
      BY <2>9 DEF Reset, postVars
    <3>2. timers' = timers \cup {RestartedEntry(e) : e \in Restarted}
          /\ live' = live \ {e.timer : e \in batch \ Restarted}
      BY <2>9 DEF Reset, Deleted
    <3>3. \A e \in Restarted : RestartedEntry(e).timer = e.timer
      BY DEF RestartedEntry
    <3>4. live' \subseteq Held'
      BY <2>o, <3>1, <3>2, <3>3, QueuesUnchanged DEF Held
    <3> QED
      BY <2>s, <3>1, <3>4
  <2>10. CASE EventsDone
    <3>1. UNCHANGED <<live, timers, batch>> /\ pc # "gone" /\ pc' # "gone"
      BY <2>10 DEF EventsDone, queueVars, memVars
    <3>2. running = <<>> /\ running' = pending
      BY <2>0, <2>10 DEF EventsDone, ControlInv
    <3>3. Queued(running)' = Queued(pending) /\ Queued(running) = {}
      BY <3>2, QueuedEmpty, QueuePrimes
    <3> QED
      BY <2>o, <2>s, <3>1, <3>3 DEF Held
  <2>11. CASE RunAdd
    <3> DEFINE a == Head(running).id.timer
    <3>1. running \in Seq(Functor) /\ running # <<>> /\ running' = Tail(running)
          /\ Head(running).op = "add"
      BY <2>0, <2>11 DEF RunAdd, TypeOK
    <3>2. Queued(Tail(running)) = Queued(running) \ {a}
      BY <2>0, <3>1, QueuedTail DEF QueueInv
    <3>3. timers' = timers \cup {[exp |-> heap[a].exp, timer |-> a]}
      BY <2>11 DEF RunAdd, InsertAndArm
    <3>4. UNCHANGED <<live, batch, pending, pc>> /\ pc # "gone"
      BY <2>11 DEF RunAdd, memVars, loopVars
    <3>5. Queued(running)' = Queued(running) \ {a} /\ Queued(pending)' = Queued(pending)
      BY <3>1, <3>2, <3>4, QueuePrimes
    <3> HIDE DEF a
    <3>6. live' \subseteq Held'
      <4>1. Held' = {e.timer : e \in timers' \cup batch} \cup Queued(pending)
                      \cup (Queued(running) \ {a})
        BY <3>4, <3>5 DEF Held
      <4>n. PICK n : n.timer = a /\ timers' = timers \cup {n}
        BY <3>3
      <4>2. a \in Held' /\ Held \subseteq Held' \cup {a}
        BY <4>n, <4>1 DEF Held
      <4> QED
        BY <2>o, <3>4, <4>2
    <3> QED
      BY <2>s, <3>4, <3>6
  <2>12. CASE RunCancel
    <3>1. running \in Seq(Functor) /\ running # <<>> /\ running' = Tail(running)
          /\ Head(running).op # "add"
      BY <2>0, <2>12 DEF RunCancel, TypeOK
    <3>2. UNCHANGED <<timers, live>>
      BY <2>0, <2>12, CancelChangesNothing DEF RunCancel
    <3>3. UNCHANGED <<batch, pending, pc>> /\ pc # "gone"
      BY <2>12 DEF RunCancel, loopVars
    <3>4. Queued(Tail(running)) = Queued(running)
      BY <3>1, QueuedTail
    <3>5. Queued(running)' = Queued(running) /\ Queued(pending)' = Queued(pending)
      BY <3>1, <3>3, <3>4, QueuePrimes
    <3> QED
      BY <2>o, <2>s, <3>2, <3>3, <3>5 DEF Held
  <2>13. CASE FunctorsDone
    BY <2>13, <2>u DEF FunctorsDone, queueVars, memVars, postVars
  <2>14. CASE Destroy
    <3>1. UNCHANGED <<pending, running>> /\ pc = "poll" /\ pc' = "gone"
      BY <2>14 DEF Destroy, postVars
    <3>2. batch = {} /\ running = <<>> /\ live' = live \ {e.timer : e \in timers}
      BY <2>0, <2>14 DEF Destroy, ControlInv
    <3>3. Queued(running) = {} /\ Queued(pending)' = Queued(pending)
      BY <3>1, <3>2, QueuedEmpty, QueuesUnchanged
    <3> QED
      BY <2>o, <3>1, <3>2, <3>3 DEF Held, OwnerInv, DestructorFrees
  <2>15. CASE Tick
    BY <2>15, <2>u DEF Tick, loopVars, queueVars, memVars, postVars
  <2>16. CASE StepWallClock
    BY <2>16, <2>u DEF StepWallClock, loopVars, queueVars, memVars, postVars
  <2>17. CASE UNCHANGED vars
    BY <2>17, <2>u DEF vars, loopVars, queueVars, memVars, postVars
  <2> QED
    BY <1>2, <2>1, <2>2, <2>3, <2>4, <2>5, <2>6, <2>7, <2>8, <2>9, <2>10, <2>11,
       <2>12, <2>13, <2>14, <2>15, <2>16, <2>17
       DEF Next, LoopStep, UserStep, Gone
<1> QED
  BY <1>1, <1>2

\* The destructor frees every Timer whose addTimerInLoop has run.
THEOREM NoLeak == Spec => []DestructorFrees
BY Inv1Inductive, OwnerInductive, PTL DEF Spec

-----------------------------------------------------------------------------
(***************************************************************************)
(* The alarm: a non-empty queue has its timerfd armed, and in time.        *)
(***************************************************************************)

AlarmInv == ZeroInv /\ TimerfdArmed /\ TimerfdInTime

\* The latest deadline that is in time for an entry expiring at x.
Bound(x) == mono + (IF x - Wall < MinDelay THEN MinDelay ELSE x - Wall)

\* An earlier expiration has an earlier bound, and resetTimerfd meets it.
LEMMA BoundMonotone ==
  ASSUME TypeOK, NEW x \in Nat, NEW y \in Nat, x <= y
  PROVE  /\ Bound(x) <= Bound(y)
         /\ Bound(x) = ResetTimerfd(x)
         /\ Bound(x) \in Nat
         /\ Bound(x) # Never
         /\ Bound(0) = mono + MinDelay
BY TimeAssumption DEF Bound, ResetTimerfd, TypeOK, Wall, Never

\* insert, with the resetTimerfd of addTimerInLoop, keeps the alarm.
LEMMA InsertAlarm ==
  ASSUME TypeOK, AlarmInv, NEW a \in Addr, NEW when \in Nat,
         InsertAndArm(a, when), UNCHANGED <<pc, tfdActive, mono, offset, jumps>>
  PROVE  AlarmInv'
<1> DEFINE n == [exp |-> when, timer |-> a]
<1>1. timers' = timers \cup {n} /\ n.exp = when
  BY DEF InsertAndArm
<1> HIDE DEF n
<1>2. \A e \in timers : e.exp \in Nat
  BY DEF TypeOK, Entry
<1>t. TimerfdInTime => (jumps = 0 /\ ~tfdActive => \A e \in timers : armed <= Bound(e.exp))
  BY DEF TimerfdInTime, Bound
<1>p. (jumps' = 0 /\ ~tfdActive' => \A e \in timers' : armed' <= Bound(e.exp))
        => TimerfdInTime'
  BY DEF TimerfdInTime, Bound, Wall
<1>3. CASE EarliestChanged(when)
  <2>1. armed' = Bound(when) /\ armed' # Never
    BY <1>3, BoundMonotone DEF InsertAndArm
  <2>2. \A e \in timers' : when <= e.exp /\ e.exp \in Nat
    BY <1>1, <1>2, <1>3 DEF EarliestChanged
  <2>3. \A e \in timers' : armed' <= Bound(e.exp)
    BY <2>1, <2>2, BoundMonotone
  <2>4. ZeroInv'
    <3> SUFFICES ASSUME NEW e \in timers', e.exp = 0
                 PROVE  armed' # Never /\ armed' <= mono + MinDelay
      BY DEF ZeroInv
    <3>1. Bound(0) = mono + MinDelay
      BY BoundMonotone
    <3> QED
      BY <2>1, <2>3, <3>1
  <2> QED
    BY <1>p, <2>1, <2>3, <2>4 DEF AlarmInv, TimerfdArmed
<1>4. CASE ~EarliestChanged(when)
  <2>1. armed' = armed
    BY <1>4 DEF InsertAndArm
  <2>2. PICK f \in timers : f.exp <= when /\ f.exp \in Nat
    BY <1>2, <1>4 DEF EarliestChanged
  <2>3. Bound(f.exp) <= Bound(when) /\ Bound(f.exp) \in Nat /\ Bound(when) \in Nat
    BY <2>2, BoundMonotone
  <2>4. TimerfdArmed'
    BY <2>1, <2>2 DEF AlarmInv, TimerfdArmed
  <2>5. TimerfdInTime'
    <3> SUFFICES ASSUME jumps = 0, ~tfdActive, NEW e \in timers'
                 PROVE  armed <= Bound(e.exp)
      BY <1>p, <2>1
    <3>1. armed <= Bound(f.exp) /\ (e \in timers => armed <= Bound(e.exp))
      BY <1>t DEF AlarmInv
    <3>2. armed \in Int
      BY DEF TypeOK, Never
    <3> QED
      BY <1>1, <2>3, <3>1, <3>2
  <2>6. ZeroInv'
    <3> SUFFICES ASSUME pc = "calling", NEW e \in timers', e.exp = 0
                 PROVE  armed # Never /\ armed <= mono + MinDelay
      BY <2>1 DEF ZeroInv
    <3>1. e \in timers \/ (when = 0 /\ f.exp = 0)
      BY <1>1, <2>2
    <3> QED
      BY <3>1 DEF AlarmInv, ZeroInv
  <2> QED
    BY <2>4, <2>5, <2>6 DEF AlarmInv
<1> QED
  BY <1>3, <1>4

\* AlarmInv is kept by every step from an Inv1 state.
LEMMA AlarmInductive ==
  /\ Init => AlarmInv
  /\ Inv1 /\ AlarmInv /\ [Next]_vars => AlarmInv'
<1>1. Init => AlarmInv
  BY DEF Init, AlarmInv, ZeroInv, TimerfdArmed, TimerfdInTime
<1>2. ASSUME Inv1, AlarmInv, [Next]_vars PROVE AlarmInv'
  <2>0. TypeOK /\ ControlInv /\ NoDangling /\ QueueInv /\ TypeOK'
    BY <1>2, Inv1Inductive DEF Inv1
  <2>u. ASSUME UNCHANGED <<timers, pc, tfdActive, armed, mono, offset, jumps>>
        PROVE  AlarmInv'
    BY <1>2, <2>u DEF AlarmInv, ZeroInv, TimerfdArmed, TimerfdInTime, Wall
  <2>1. CASE AddTimer
    <3>1. PICK a \in Addr, t \in NewTimers : InsertAndArm(a, t[1])
      BY <2>1 DEF AddTimer
    <3>2. t[1] \in Nat
      BY <2>0, NewTimersType DEF TypeOK
    <3>3. UNCHANGED <<pc, tfdActive, mono, offset, jumps>>
      BY <2>1 DEF AddTimer, loopVars, clockVars
    <3> QED
      BY <1>2, <2>0, <3>1, <3>2, <3>3, InsertAlarm
  <2>2. CASE Cancel
    <3>1. UNCHANGED timers
      BY <2>0, <2>2, CancelChangesNothing DEF Cancel
    <3> QED
      BY <2>2, <2>u, <3>1 DEF Cancel, loopVars, clockVars
  <2>3. CASE PostAddTimer
    BY <2>3, <2>u DEF PostAddTimer, loopVars, clockVars, queueVars
  <2>4. CASE ReturnTimerId
    BY <2>4, <2>u DEF ReturnTimerId, loopVars, clockVars, queueVars
  <2>5. CASE PostCancel
    BY <2>5, <2>u DEF PostCancel, loopVars, clockVars, queueVars
  <2>6. CASE Poll
    <3>1. UNCHANGED <<timers, armed, mono, offset, jumps>> /\ pc' = "events" /\ ~tfdActive
      BY <2>0, <2>6 DEF Poll, clockVars, queueVars, ControlInv
    <3> QED
      BY <1>2, <3>1 DEF AlarmInv, ZeroInv, TimerfdArmed, TimerfdInTime, Wall
  <2>7. CASE HandleRead
    <3>1. tfdActive' /\ timers' = timers \ Expired(Wall)
      BY <2>7 DEF HandleRead
    <3>2. ASSUME NEW e \in timers' PROVE e.exp # 0
      <4>1. e \in timers /\ e \notin Expired(Wall)
        BY <3>1
      <4> QED
        BY <2>0, <4>1 DEF Expired, TypeOK, Wall
    <3> QED
      BY <3>1, <3>2 DEF AlarmInv, ZeroInv, TimerfdArmed, TimerfdInTime
  <2>8. CASE CallbackReturns
    BY <2>8, <2>u DEF CallbackReturns, loopVars, clockVars
  <2>9. CASE Reset
    <3>1. /\ pc = "calling" /\ pc' = "events" /\ UNCHANGED <<mono, offset, jumps>>
          /\ timers' = timers \cup {RestartedEntry(e) : e \in Restarted}
          /\ Rearm(timers')
      BY <2>9 DEF Reset, clockVars
    <3>2. \A e \in timers' : e.exp \in Nat
      BY <2>0 DEF TypeOK, Entry
    <3>3. \A e \in Restarted : RestartedEntry(e).exp # 0
      <4> SUFFICES ASSUME NEW e \in Restarted PROVE now + heap[e.timer].interval # 0
        BY DEF RestartedEntry
      <4>1. e \in batch /\ batch \subseteq Entry /\ now \in Nat \ {0}
        BY <2>0 DEF Restarted, TypeOK
      <4>2. e.timer \in Addr
        BY <4>1 DEF Entry
      <4>3. heap[e.timer] \in Timer
        BY <2>0, <4>2 DEF TypeOK
      <4> QED
        BY <4>1, <4>3 DEF Timer
    <3>z. ZeroInv'
      BY <3>1 DEF ZeroInv
    <3>4. CASE timers' = {}
      BY <3>4, <3>z DEF AlarmInv, TimerfdArmed, TimerfdInTime
    <3>5. CASE timers' # {}
      <4>1. PICK m \in timers' :
              /\ \A f \in timers' : m.exp <= f.exp
              /\ armed' = IF m.exp > 0 THEN ResetTimerfd(m.exp) ELSE armed
        BY <3>1, <3>5 DEF Rearm
      <4>2. armed' # Never /\ armed' <= Bound(m.exp)
        <5>1. CASE m.exp > 0
          BY <2>0, <3>2, <4>1, <5>1, BoundMonotone
        <5>2. CASE m.exp = 0
          <6>1. m \in timers
            BY <3>1, <3>3, <5>2
          <6>2. Bound(0) = mono + MinDelay
            BY <2>0, BoundMonotone
          <6>3. armed' = armed
            BY <4>1, <5>2
          <6> QED
            BY <1>2, <3>1, <5>2, <6>1, <6>2, <6>3 DEF AlarmInv, ZeroInv
        <5> QED
          BY <3>2, <5>1, <5>2
      <4>3. ASSUME NEW e \in timers' PROVE armed' <= Bound(e.exp)
        <5>1. Bound(m.exp) <= Bound(e.exp) /\ Bound(m.exp) \in Nat /\ Bound(e.exp) \in Nat
          BY <2>0, <3>2, <4>1, BoundMonotone
        <5>2. armed' \in Int
          BY <2>0 DEF TypeOK, Never
        <5> QED
          BY <4>2, <5>1, <5>2
      <4>4. TimerfdInTime'
        BY <3>1, <4>3 DEF TimerfdInTime, Bound, Wall
      <4> QED
        BY <3>z, <4>2, <4>4 DEF AlarmInv, TimerfdArmed
    <3> QED
      BY <3>4, <3>5
  <2>10. CASE EventsDone
    <3>1. UNCHANGED <<timers, tfdActive, armed, mono, offset, jumps>> /\ pc' = "functors"
      BY <2>10 DEF EventsDone, clockVars, queueVars
    <3> QED
      BY <1>2, <3>1 DEF AlarmInv, ZeroInv, TimerfdArmed, TimerfdInTime, Wall
  <2>11. CASE RunAdd
    <3> DEFINE a == Head(running).id.timer
    <3>1. InsertAndArm(a, heap[a].exp) /\ UNCHANGED <<pc, tfdActive, mono, offset, jumps>>
      BY <2>11 DEF RunAdd, loopVars, clockVars
    <3>2. Head(running) \in Functor
      BY <2>0, <2>11, QueuedTail DEF RunAdd, TypeOK
    <3>3. a \in Addr /\ heap[a].exp \in Nat
      BY <2>0, <3>2 DEF Functor, TimerId, TypeOK, Timer
    <3> QED
      BY <1>2, <2>0, <3>1, <3>3, InsertAlarm
  <2>12. CASE RunCancel
    <3>1. UNCHANGED timers
      BY <2>0, <2>12, CancelChangesNothing DEF RunCancel
    <3> QED
      BY <2>12, <2>u, <3>1 DEF RunCancel, loopVars, clockVars
  <2>13. CASE FunctorsDone
    <3>1. UNCHANGED <<timers, tfdActive, armed, mono, offset, jumps>> /\ pc' = "poll"
      BY <2>13 DEF FunctorsDone, clockVars, queueVars
    <3> QED
      BY <1>2, <3>1 DEF AlarmInv, ZeroInv, TimerfdArmed, TimerfdInTime, Wall
  <2>14. CASE Destroy
    BY <2>14 DEF Destroy, AlarmInv, ZeroInv, TimerfdArmed, TimerfdInTime
  <2>15. CASE Tick
    <3>1. UNCHANGED <<timers, pc, tfdActive, armed, offset, jumps>> /\ mono' = mono + 1
      BY <2>15 DEF Tick, loopVars, queueVars
    <3>2. \A e \in timers : e.exp \in Nat
      BY <2>0 DEF TypeOK, Entry
    <3>3. mono \in Nat /\ offset \in Int /\ armed \in Int
      BY <2>0 DEF TypeOK, Never
    <3>4. ZeroInv' /\ TimerfdArmed'
      BY <1>2, <3>1, <3>3, TimeAssumption DEF AlarmInv, ZeroInv, TimerfdArmed
    <3>5. TimerfdInTime'
      BY <1>2, <3>1, <3>2, <3>3, TimeAssumption DEF AlarmInv, TimerfdInTime, Wall
    <3> QED
      BY <3>4, <3>5 DEF AlarmInv
  <2>16. CASE StepWallClock
    <3>1. UNCHANGED <<timers, pc, tfdActive, armed, mono>> /\ jumps' # 0
      BY <2>0, <2>16 DEF StepWallClock, loopVars, queueVars, TypeOK
    <3> QED
      BY <1>2, <3>1 DEF AlarmInv, ZeroInv, TimerfdArmed, TimerfdInTime
  <2>17. CASE UNCHANGED vars
    BY <2>17, <2>u DEF vars, loopVars, queueVars, clockVars
  <2> QED
    BY <1>2, <2>1, <2>2, <2>3, <2>4, <2>5, <2>6, <2>7, <2>8, <2>9, <2>10, <2>11,
       <2>12, <2>13, <2>14, <2>15, <2>16, <2>17
       DEF Next, LoopStep, UserStep, Gone
<1> QED
  BY <1>1, <1>2

\* The timerfd is armed whenever an entry waits and control is in the loop,
\* and without steps of the wall clock it is armed in time.
THEOREM AlarmNeverLost == Spec => []AlarmInTime
<1>1. AlarmInv => AlarmInTime
  BY DEF AlarmInv, AlarmInTime
<1> QED
  BY <1>1, Inv1Inductive, AlarmInductive, PTL DEF Spec

-----------------------------------------------------------------------------
(***************************************************************************)
(* Histories: cancelled in the batch, and not lost.                        *)
(***************************************************************************)

\* Allocating a Timer keeps Inv3: its sequence number is new.
LEMMA AllocateInv3 ==
  ASSUME Inv1, Inv3, NEW a \in Addr, NEW t \in NewTimers, Allocate(a, t),
         timers' \subseteq timers \cup {[exp |-> t[1], timer |-> a]},
         UNCHANGED <<batch, todo, canceling, ran, asked, stopped>>,
         pc # "gone"
  PROVE  Inv3'
<1>0. TypeOK /\ NoDangling
  BY DEF Inv1
<1> DEFINE s == created + 1
<1>1. /\ a \notin live /\ live' = live \cup {a}
      /\ heap'[a].seq = s /\ heap'[a].interval = t[2]
      /\ \A b \in Addr \ {a} : heap'[b] = heap[b]
      /\ periodic' = IF t[2] > 0 THEN periodic \cup {s} ELSE periodic
      /\ created' = s /\ s \in Nat
  BY <1>0 DEF Allocate, TypeOK
<1>2. live \subseteq Addr \ {a} /\ s \notin 1..created /\ 1..created \subseteq 1..s /\ s \in 1..s
  BY <1>0, <1>1 DEF TypeOK
<1>3. \A b \in live : heap'[b] = heap[b] /\ heap[b].seq # s
  BY <1>1, <1>2 DEF Inv3, SeqInv
<1>4. \A e \in timers \cup batch : e.timer \in live
  BY <1>0 DEF NoDangling
<1>5. SeqInv'
  <2>1. \A b \in live' : heap'[b].seq \in 1..created'
    BY <1>1, <1>2, <1>3 DEF Inv3, SeqInv
  <2>2. \A b, c \in live' : heap'[b].seq = heap'[c].seq => b = c
    BY <1>1, <1>3 DEF Inv3, SeqInv
  <2>3. \A b \in live' : (heap'[b].interval > 0) <=> (heap'[b].seq \in periodic')
    BY <1>1, <1>2, <1>3 DEF Inv3, SeqInv
  <2>4. periodic' \subseteq 1..created' /\ stopped' \subseteq 1..created'
    BY <1>1, <1>2 DEF Inv3, SeqInv
  <2> QED
    BY <2>1, <2>2, <2>3, <2>4 DEF SeqInv
<1>6. HistoryInv'
  <2>1. \A e \in batch' \ todo' : heap'[e.timer].seq \in ran'
    BY <1>3, <1>4 DEF Inv3, HistoryInv
  <2>2. \A b \in live' : heap'[b].seq \in stopped' =>
          (\E e \in batch' : e.timer = b) /\ Id(b)' \in canceling'
    <3> SUFFICES ASSUME NEW b \in live', heap'[b].seq \in stopped'
                 PROVE  (\E e \in batch : e.timer = b) /\ Id(b)' \in canceling
      OBVIOUS
    <3>1. b \in live /\ heap'[b] = heap[b]
      BY <1>1, <1>2, <1>3 DEF Inv3, SeqInv
    <3>2. Id(b)' = Id(b)
      BY <3>1 DEF Id
    <3> QED
      BY <3>1, <3>2 DEF Inv3, HistoryInv
  <2>3. \A id \in canceling' : id.seq \in asked'
    BY DEF Inv3, HistoryInv
  <2> QED
    BY <2>1, <2>2, <2>3 DEF HistoryInv
<1>7. CancelInBatchStops'
  <2> SUFFICES ASSUME NEW e \in timers' PROVE heap'[e.timer].seq \notin stopped
    BY DEF CancelInBatchStops
  <2>1. e \in timers \/ e.timer = a
    OBVIOUS
  <2>2. e.timer = a => heap'[e.timer].seq \notin stopped
    BY <1>1, <1>2 DEF Inv3, SeqInv
  <2> QED
    BY <1>3, <1>4, <2>1, <2>2 DEF Inv3, CancelInBatchStops
<1>8. NoTimerLost'
  <2> SUFFICES ASSUME NEW r \in 1..s
               PROVE  \/ \E b \in live' : heap'[b].seq = r
                      \/ r \in ran /\ (r \in periodic' => r \in asked)
    BY <1>1 DEF NoTimerLost
  <2>1. CASE r = s
    BY <1>1, <2>1
  <2>2. CASE r # s
    <3>1. r \in 1..created
      BY <1>0, <2>2 DEF TypeOK
    <3>2. r \in periodic' => r \in periodic
      BY <1>1, <2>2
    <3> QED
      BY <1>1, <1>3, <3>1, <3>2 DEF Inv3, NoTimerLost
  <2> QED
    BY <2>1, <2>2
<1> QED
  BY <1>5, <1>6, <1>7, <1>8 DEF Inv3

\* cancelInLoop keeps Inv3.
LEMMA CancelInv3 ==
  ASSUME Inv1, Inv3, NEW id \in TimerId, CancelInLoop(id), pc' = pc,
         UNCHANGED <<heap, created, batch, todo, ran, periodic>>
  PROVE  Inv3'
<1>0. TypeOK /\ ControlInv /\ NoDangling
  BY DEF Inv1
<1>1. UNCHANGED <<timers, live>>
      /\ canceling' = IF calling THEN canceling \cup {id} ELSE canceling
  BY <1>0, CancelChangesNothing
<1>2. asked' = asked \cup {id.seq}
      /\ stopped' = IF calling /\ \E e \in batch : Id(e.timer) = id
                    THEN stopped \cup {id.seq} ELSE stopped
  BY DEF CancelInLoop
<1>3. \A b : Id(b)' = Id(b)
  BY DEF Id
<1>4. ASSUME NEW b \in live, heap[b].seq \in stopped'
      PROVE  (\E e \in batch : e.timer = b) /\ Id(b) \in canceling'
  <2>1. CASE heap[b].seq \in stopped
    BY <1>1, <2>1 DEF Inv3, HistoryInv
  <2>2. CASE heap[b].seq \notin stopped
    <3>1. PICK e \in batch : calling /\ Id(e.timer) = id /\ heap[b].seq = id.seq
      BY <1>2, <1>4, <2>2
    <3>2. e.timer \in live /\ heap[e.timer].seq = heap[b].seq
      BY <1>0, <3>1 DEF NoDangling, Id
    <3>3. e.timer = b
      BY <3>2 DEF Inv3, SeqInv
    <3> QED
      BY <1>1, <3>1, <3>3
  <2> QED
    BY <2>1, <2>2
<1>5. stopped' \subseteq 1..created
  <2>1. \A e \in batch : Id(e.timer).seq \in 1..created
    BY <1>0 DEF NoDangling, Id, Inv3, SeqInv
  <2> QED
    BY <1>2, <2>1 DEF Inv3, SeqInv
<1>6. SeqInv'
  BY <1>1, <1>5 DEF Inv3, SeqInv
<1>7. HistoryInv'
  BY <1>1, <1>2, <1>3, <1>4 DEF Inv3, HistoryInv
<1>8. CancelInBatchStops'
  BY <1>0, <1>1, <1>4 DEF CancelInBatchStops, NoDangling
<1>9. NoTimerLost'
  BY <1>1, <1>2 DEF Inv3, NoTimerLost
<1> QED
  BY <1>6, <1>7, <1>8, <1>9 DEF Inv3

\* Inv3 is kept by every step from an Inv1 state.
LEMMA Inv3Inductive ==
  /\ Init => Inv3
  /\ Inv1 /\ Inv3 /\ [Next]_vars => Inv3'
<1>1. Init => Inv3
  BY DEF Init, Inv3, SeqInv, HistoryInv, CancelInBatchStops, NoTimerLost
<1>2. ASSUME Inv1, Inv3, [Next]_vars PROVE Inv3'
  <2>0. TypeOK /\ ControlInv /\ NoDangling
    BY <1>2 DEF Inv1
  <2>u. ASSUME UNCHANGED <<heap, live, created, timers, batch, todo, canceling, ran,
                           periodic, asked, stopped>>,
               pc' # "gone" => pc # "gone"
        PROVE  Inv3'
    <3>1. \A b : Id(b)' = Id(b)
      BY <2>u DEF Id
    <3>2. SeqInv' /\ HistoryInv'
      BY <1>2, <2>u, <3>1 DEF Inv3, SeqInv, HistoryInv
    <3>3. CancelInBatchStops' /\ NoTimerLost'
      BY <1>2, <2>u DEF Inv3, CancelInBatchStops, NoTimerLost
    <3> QED
      BY <3>2, <3>3 DEF Inv3
  <2>1. CASE AddTimer
    <3>1. PICK a \in Addr, t \in NewTimers : Allocate(a, t) /\ InsertAndArm(a, t[1])
      BY <2>1 DEF AddTimer
    <3>2. timers' = timers \cup {[exp |-> t[1], timer |-> a]}
      BY <3>1 DEF InsertAndArm
    <3>3. UNCHANGED <<batch, todo, canceling, ran, asked, stopped>> /\ pc # "gone"
      BY <2>1 DEF AddTimer, InUserCode
    <3> QED
      BY <1>2, <3>1, <3>2, <3>3, AllocateInv3
  <2>2. CASE Cancel
    <3>1. PICK id \in ids : CancelInLoop(id)
      BY <2>2 DEF Cancel
    <3>2. id \in TimerId
      BY <2>0 DEF TypeOK
    <3>3. UNCHANGED <<heap, created, batch, todo, ran, periodic, pc>>
      BY <2>2 DEF Cancel, loopVars
    <3> QED
      BY <1>2, <3>1, <3>2, <3>3, CancelInv3
  <2>3. CASE PostAddTimer
    <3>1. PICK a \in Addr, t \in NewTimers : Allocate(a, t)
      BY <2>3 DEF PostAddTimer
    <3>2. UNCHANGED <<timers, batch, todo, canceling, ran, asked, stopped>> /\ pc # "gone"
      BY <2>3 DEF PostAddTimer, queueVars
    <3> QED
      BY <1>2, <3>1, <3>2, AllocateInv3
  <2>4. CASE ReturnTimerId
    BY <2>4, <2>u DEF ReturnTimerId, queueVars, memVars, loopVars, histVars
  <2>5. CASE PostCancel
    BY <2>5, <2>u DEF PostCancel, queueVars, memVars, loopVars, histVars
  <2>6. CASE Poll
    BY <2>6, <2>u DEF Poll, queueVars, memVars, histVars
  <2>7. CASE HandleRead
    <3>1. UNCHANGED <<heap, live, created, ran, periodic, asked, stopped>>
      BY <2>7 DEF HandleRead, memVars, histVars
    <3>2. /\ batch = {} /\ canceling' = {} /\ batch' = todo'
          /\ timers' \subseteq timers /\ pc # "gone"
      BY <2>0, <2>7 DEF HandleRead, ControlInv
    <3>3. \A b \in live : heap[b].seq \notin stopped
      BY <1>2, <3>2 DEF Inv3, HistoryInv
    <3>4. SeqInv' /\ HistoryInv'
      BY <1>2, <3>1, <3>2, <3>3 DEF Inv3, SeqInv, HistoryInv
    <3>5. CancelInBatchStops' /\ NoTimerLost'
      BY <1>2, <3>1, <3>2 DEF Inv3, CancelInBatchStops, NoTimerLost
    <3> QED
      BY <3>4, <3>5 DEF Inv3
  <2>8. CASE CallbackReturns
    <3>1. UNCHANGED <<heap, live, created, timers, batch, canceling, periodic, asked,
                      stopped, pc>>
      BY <2>8 DEF CallbackReturns, loopVars, memVars
    <3>2. PICK e \in todo : todo' = todo \ {e} /\ ran' = ran \cup {heap[e.timer].seq}
      BY <2>8 DEF CallbackReturns
    <3>3. \A b : Id(b)' = Id(b)
      BY <3>1 DEF Id
    <3>4. SeqInv' /\ CancelInBatchStops' /\ NoTimerLost'
      BY <1>2, <3>1, <3>2 DEF Inv3, SeqInv, CancelInBatchStops, NoTimerLost
    <3>5. HistoryInv'
      BY <1>2, <3>1, <3>2, <3>3 DEF Inv3, HistoryInv
    <3> QED
      BY <3>4, <3>5 DEF Inv3
  <2>9. CASE Reset
    <3>1. /\ UNCHANGED <<created, canceling, todo, ran, periodic, asked, stopped>>
          /\ todo = {} /\ batch' = {} /\ pc # "gone"
          /\ live' = live \ {e.timer : e \in batch \ Restarted}
          /\ timers' = timers \cup {RestartedEntry(e) : e \in Restarted}
      BY <2>9 DEF Reset, Deleted, histVars
    <3>2. ASSUME NEW b \in Addr
          PROVE  heap'[b].seq = heap[b].seq /\ heap'[b].interval = heap[b].interval
      <4>1. heap[b] \in Timer
        BY <2>0 DEF TypeOK
      <4>2. heap'[b] = heap[b] \/
            heap'[b] = [heap[b] EXCEPT !.exp = now + heap[b].interval]
        BY <2>9 DEF Reset
      <4> QED
        BY <4>1, <4>2 DEF Timer
    <3>3. live \subseteq Addr /\ live' \subseteq live
      BY <2>0, <3>1 DEF TypeOK
    <3>4. \A e \in timers \cup batch : e.timer \in live
      BY <2>0 DEF NoDangling
    <3>5. ASSUME NEW b \in live, heap[b].seq \in stopped PROVE b \notin live'
      <4>1. PICK e \in batch : e.timer = b /\ Id(b) \in canceling
        BY <1>2, <3>5 DEF Inv3, HistoryInv
      <4>2. e \notin Restarted
        BY <4>1 DEF Restarted
      <4> QED
        BY <3>1, <4>1, <4>2
    <3>6. SeqInv'
      BY <1>2, <3>1, <3>2, <3>3 DEF Inv3, SeqInv
    <3>7. HistoryInv'
      <4>1. \A b \in live' : heap'[b].seq \notin stopped'
        BY <3>1, <3>2, <3>3, <3>5
      <4> QED
        BY <1>2, <3>1, <4>1 DEF Inv3, HistoryInv
    <3>8. CancelInBatchStops'
      <4> SUFFICES ASSUME NEW e \in timers' PROVE heap'[e.timer].seq \notin stopped
        BY <3>1 DEF CancelInBatchStops
      <4>1. CASE e \in timers
        BY <1>2, <3>2, <3>3, <3>4, <4>1 DEF Inv3, CancelInBatchStops
      <4>2. CASE e \notin timers
        <5>1. PICK f \in Restarted : e = RestartedEntry(f)
          BY <3>1, <4>2
        <5>2. e.timer = f.timer /\ f \in batch /\ Id(f.timer) \notin canceling
          BY <5>1 DEF RestartedEntry, Restarted
        <5> QED
          BY <1>2, <3>2, <3>3, <3>4, <5>2 DEF Inv3, HistoryInv
      <4> QED
        BY <4>1, <4>2
    <3>9. NoTimerLost'
      <4> SUFFICES ASSUME NEW r \in 1..created
                   PROVE  \/ \E b \in live' : heap'[b].seq = r
                          \/ r \in ran /\ (r \in periodic => r \in asked)
        BY <3>1 DEF NoTimerLost
      <4>1. CASE \E b \in live : heap[b].seq = r /\ b \notin live'
        <5>1. PICK e \in batch \ Restarted : heap[e.timer].seq = r
          BY <3>1, <4>1
        <5>2. r \in ran
          BY <1>2, <3>1, <5>1 DEF Inv3, HistoryInv
        <5>3. heap[e.timer].interval > 0 => Id(e.timer) \in canceling
          BY <5>1 DEF Restarted
        <5>4. Id(e.timer).seq = r
          BY <5>1 DEF Id
        <5>5. r \in periodic => heap[e.timer].interval > 0
          BY <1>2, <3>4, <5>1 DEF Inv3, SeqInv
        <5> QED
          BY <1>2, <5>2, <5>3, <5>4, <5>5 DEF Inv3, HistoryInv
      <4>2. CASE \A b \in live : heap[b].seq = r => b \in live'
        BY <1>2, <3>1, <3>2, <3>3, <4>2 DEF Inv3, NoTimerLost
      <4> QED
        BY <4>1, <4>2
    <3> QED
      BY <3>6, <3>7, <3>8, <3>9 DEF Inv3
  <2>10. CASE EventsDone
    BY <2>10, <2>u DEF EventsDone, queueVars, memVars, histVars
  <2>11. CASE RunAdd
    <3> DEFINE a == Head(running).id.timer
    <3>1. UNCHANGED <<heap, live, created, batch, todo, canceling, ran, periodic,
                      asked, stopped, pc>>
      BY <2>11 DEF RunAdd, memVars, loopVars, histVars
    <3>2. PICK n : n.timer = a /\ timers' = timers \cup {n}
      BY <2>11 DEF RunAdd, InsertAndArm
    <3>3. a \in Queued(running)
      BY <2>0, <2>11, QueuedTail DEF RunAdd, TypeOK
    <3> HIDE DEF a
    <3>4. heap[a].seq \notin stopped
      BY <1>2, <2>0, <3>3 DEF NoDangling, Inv3, HistoryInv
    <3>5. \A b : Id(b)' = Id(b)
      BY <3>1 DEF Id
    <3>6. SeqInv' /\ HistoryInv'
      BY <1>2, <3>1, <3>5 DEF Inv3, SeqInv, HistoryInv
    <3>7. CancelInBatchStops' /\ NoTimerLost'
      BY <1>2, <3>1, <3>2, <3>4 DEF Inv3, CancelInBatchStops, NoTimerLost
    <3> QED
      BY <3>6, <3>7 DEF Inv3
  <2>12. CASE RunCancel
    <3>1. CancelInLoop(Head(running).id)
      BY <2>12 DEF RunCancel
    <3>2. Head(running).id \in TimerId
      BY <2>0, <2>12, QueuedTail DEF RunCancel, TypeOK, Functor
    <3>3. UNCHANGED <<heap, created, batch, todo, ran, periodic, pc>>
      BY <2>12 DEF RunCancel, loopVars
    <3> QED
      BY <1>2, <3>1, <3>2, <3>3, CancelInv3
  <2>13. CASE FunctorsDone
    BY <2>13, <2>u DEF FunctorsDone, queueVars, memVars, histVars
  <2>14. CASE Destroy
    <3>1. /\ UNCHANGED <<heap, created, batch, todo, canceling, ran, periodic, asked,
                         stopped>>
          /\ live' \subseteq live /\ timers' = {} /\ pc' = "gone"
      BY <2>14 DEF Destroy, histVars
    <3>2. \A b : Id(b)' = Id(b)
      BY <3>1 DEF Id
    <3>3. SeqInv' /\ HistoryInv'
      BY <1>2, <3>1, <3>2 DEF Inv3, SeqInv, HistoryInv
    <3> QED
      BY <3>1, <3>3 DEF Inv3, CancelInBatchStops, NoTimerLost
  <2>15. CASE Tick
    BY <2>15, <2>u DEF Tick, loopVars, queueVars, memVars, histVars
  <2>16. CASE StepWallClock
    BY <2>16, <2>u DEF StepWallClock, loopVars, queueVars, memVars, histVars
  <2>17. CASE UNCHANGED vars
    BY <2>17, <2>u DEF vars, loopVars, queueVars, memVars, histVars
  <2> QED
    BY <1>2, <2>1, <2>2, <2>3, <2>4, <2>5, <2>6, <2>7, <2>8, <2>9, <2>10, <2>11,
       <2>12, <2>13, <2>14, <2>15, <2>16, <2>17
       DEF Next, LoopStep, UserStep, Gone
<1> QED
  BY <1>1, <1>2

LEMMA HistoriesHold == Spec => []Inv3
  BY Inv1Inductive, Inv3Inductive, PTL DEF Spec

\* A Timer cancelled while its batch is being called never runs again.
THEOREM CancelIsFinal == Spec => []CancelInBatchStops
<1>1. Inv3 => CancelInBatchStops
  BY DEF Inv3
<1> QED
  BY <1>1, HistoriesHold, PTL

\* No Timer disappears that has not run or, if it repeats, was not cancelled:
\* a cancel made with the id of an older Timer at its address does not take it.
THEOREM NoneLost == Spec => []NoTimerLost
<1>1. Inv3 => NoTimerLost
  BY DEF Inv3
<1> QED
  BY <1>1, HistoriesHold, PTL

-----------------------------------------------------------------------------
\* With every Timer below UINT32_MAX the asserts of getExpired, insert and
\* cancelInLoop hold, in any order of calls from any thread.
THEOREM AssertsHold ==
  ASSUME \A a \in Addr : a < Sentry
  PROVE  Spec => []NeverAborts
<1>1. Init => NeverAborts
  BY DEF Init, NeverAborts
<1>2. ASSUME Inv1, NeverAborts, [Next]_vars PROVE NeverAborts'
  <2>0. TypeOK /\ ControlInv /\ NoDangling /\ QueueInv
    BY <1>2 DEF Inv1
  <2>1. CASE AddTimer
    <3>1. PICK a \in Addr, t \in NewTimers : Allocate(a, t) /\ InsertAndArm(a, t[1])
      BY <2>1 DEF AddTimer
    <3>2. t[1] \in Nat /\ \A e \in timers : e.timer # a
      BY <2>0, <3>1, NewTimersType DEF TypeOK, Allocate, NoDangling
    <3> QED
      BY <1>2, <3>1, <3>2, InsertFresh DEF NeverAborts
  <2>2. CASE Cancel \/ RunCancel
    BY <1>2, <2>0, <2>2, CancelChangesNothing DEF Cancel, RunCancel, NeverAborts
  <2>3. CASE HandleRead
    <3>1. ASSUME NEW e \in timers \ Expired(Wall) PROVE ~(e.exp <= Wall)
      <4>1. e.exp \in Nat /\ e.timer \in Addr /\ Wall \in Int
        BY <2>0, <3>1 DEF TypeOK, Entry, Wall
      <4> QED
        BY <3>1, <4>1 DEF Expired
    <3> QED
      BY <2>3, <3>1 DEF HandleRead, NeverAborts
  <2>4. CASE Reset
    <3>1. \A e \in Restarted : RestartedEntry(e) \notin timers
      BY <2>0 DEF NoDangling, Restarted, RestartedEntry
    <3> QED
      BY <2>4, <3>1 DEF Reset, NeverAborts
  <2>5. CASE RunAdd
    <3> DEFINE a == Head(running).id.timer
    <3>1. a \in Queued(running) /\ InsertAndArm(a, heap[a].exp)
      BY <2>0, <2>5, QueuedTail DEF RunAdd, TypeOK
    <3> HIDE DEF a
    <3>2. a \in Addr /\ heap[a].exp \in Nat /\ \A e \in timers : e.timer # a
      BY <2>0, <3>1 DEF NoDangling, TypeOK, Timer
    <3> QED
      BY <1>2, <3>1, <3>2, InsertFresh DEF NeverAborts
  <2>6. CASE UNCHANGED aborted
    BY <1>2, <2>6 DEF NeverAborts
  <2> QED
    BY <1>2, <2>1, <2>2, <2>3, <2>4, <2>5, <2>6
       DEF Next, LoopStep, UserStep, Gone, PostAddTimer, ReturnTimerId, PostCancel,
           Poll, CallbackReturns, EventsDone, FunctorsDone, Destroy, Tick,
           StepWallClock, vars
<1> QED
  BY <1>1, <1>2, Inv1Inductive, PTL DEF Spec
=============================================================================
