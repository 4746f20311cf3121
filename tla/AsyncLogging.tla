---------------------------- MODULE AsyncLogging ----------------------------
(***************************************************************************)
(* src/utils/AsyncLogging.cpp: threads append log lines to a buffer under  *)
(* a mutex and a back-end thread swaps the full buffers out and writes     *)
(* them, two spare buffers going round between the two sides.  A message   *)
(* stands for a log line and takes one unit of a buffer.                   *)
(***************************************************************************)
EXTENDS Integers, Sequences, SequencesExt

CONSTANTS
  Cap,         \* messages that fit a buffer
  DropLimit,   \* more buffers than this and the back end drops; 25 in the code
  MaxMessages  \* bound on the messages appended

ASSUME LogAssumption ==
  /\ Cap \in Nat \ {0}
  /\ DropLimit \in Nat /\ DropLimit >= 2
  /\ MaxMessages \in Nat

VARIABLES
  owner,      \* of the AsyncLogging: "new", "starting", "started", "joining", "stopped"
  running,    \* running_
  latch,      \* latch_
  appended,   \* number of messages appended so far; they are 1, 2, ...
  current,    \* currentBuffer_
  next,       \* nextBuffer_; a pointer is a sequence of at most one buffer
  buffers,    \* buffers_
  pc,         \* where the back end is
  new1,       \* newBuffer1
  new2,       \* newBuffer2
  toWrite,    \* buffersToWrite
  blocks,     \* what was written to the LogFile, a buffer at a time
  dropped,    \* messages the back end dropped
  owed,       \* messages appended before a stop() that found the back end idle
  aborted     \* an assert failed

vars == <<owner, running, latch, appended, current, next, buffers, pc, new1, new2,
          toWrite, blocks, dropped, owed, aborted>>
frontVars == <<appended, current, next, buffers>>
backVars == <<pc, new1, new2, toWrite, blocks, dropped, aborted>>
ownerVars == <<owner, running, owed>>

Message == 1 .. MaxMessages
EmptyBuffer == <<>>
Null == <<>>
Ptr(b) == <<b>>

Init ==
  /\ owner = "new"
  /\ running = FALSE
  /\ latch = 1
  /\ appended = 0
  /\ current = EmptyBuffer
  /\ next = Ptr(EmptyBuffer)
  /\ buffers = <<>>
  /\ pc = "unborn"
  /\ new1 = Null /\ new2 = Null
  /\ toWrite = <<>>
  /\ blocks = <<>>
  /\ dropped = {}
  /\ owed = {}
  /\ aborted = FALSE

\* FixedBuffer::append: a message that does not fit is left out.
Fits(b) == Len(b) < Cap
Put(b, m) == IF Fits(b) THEN Append(b, m) ELSE b

\* append(), by any thread, at any time.
AppendMessage ==
  /\ appended < MaxMessages
  /\ appended' = appended + 1
  /\ IF Fits(current)
     THEN current' = Put(current, appended') /\ UNCHANGED <<next, buffers>>
     ELSE /\ buffers' = Append(buffers, current)
          /\ current' = Put(IF next # Null THEN Head(next) ELSE EmptyBuffer, appended')
          /\ next' = Null
  /\ UNCHANGED <<backVars, ownerVars, latch>>

\* start(), which waits for the back end to count the latch down.
Start ==
  /\ owner = "new"
  /\ owner' = "starting"
  /\ running' = TRUE
  /\ pc' = "begin"
  /\ UNCHANGED <<frontVars, latch, new1, new2, toWrite, blocks, dropped, owed, aborted>>

StartReturns ==
  /\ owner = "starting" /\ latch = 0
  /\ owner' = "started"
  /\ UNCHANGED <<frontVars, backVars, running, latch, owed>>

\* stop(): running_ is cleared without the mutex.
Stop ==
  /\ owner = "started"
  /\ owner' = "joining"
  /\ running' = FALSE
  /\ owed' = IF pc \in {"lock", "waiting"} THEN 1 .. appended ELSE {}
  /\ UNCHANGED <<frontVars, backVars, latch>>

Join ==
  /\ owner = "joining" /\ pc = "done"
  /\ owner' = "stopped"
  /\ UNCHANGED <<frontVars, backVars, running, latch, owed>>

\* The back end: threadFunc up to its loop.
Begin ==
  /\ pc = "begin"
  /\ aborted' = ~running
  /\ latch' = latch - 1
  /\ new1' = Ptr(EmptyBuffer)
  /\ new2' = Ptr(EmptyBuffer)
  /\ pc' = "while"
  /\ UNCHANGED <<frontVars, ownerVars, toWrite, blocks, dropped>>

\* The head of the loop and the asserts that follow it.
While ==
  /\ pc = "while"
  /\ pc' = IF running THEN "lock" ELSE "done"
  /\ aborted' = (running /\ (new1 # Ptr(EmptyBuffer) \/ new2 # Ptr(EmptyBuffer) \/ toWrite # <<>>))
  /\ UNCHANGED <<frontVars, ownerVars, latch, new1, new2, toWrite, blocks, dropped>>

\* Mutant: the current buffer goes in front of the full ones.
SwapCurrentFirst ==
  /\ toWrite' = <<current>> \o buffers
  /\ buffers' = <<>>
  /\ current' = Head(new1)
  /\ new1' = Null
  /\ IF next = Null THEN next' = new2 /\ new2' = Null ELSE UNCHANGED <<next, new2>>
  /\ pc' = "write"

\* The critical section, after the wait if there is one.
Swap ==
  /\ toWrite' = Append(buffers, current)
  /\ buffers' = <<>>
  /\ current' = Head(new1)
  /\ new1' = Null
  /\ IF next = Null THEN next' = new2 /\ new2' = Null ELSE UNCHANGED <<next, new2>>
  /\ pc' = "write"

\* The back end locks the mutex; with nothing in buffers_ it waits.
Lock ==
  /\ pc = "lock"
  /\ IF buffers = <<>> THEN pc' = "waiting" /\ UNCHANGED <<current, next, buffers, new1, new2, toWrite>>
     ELSE Swap
  /\ UNCHANGED <<ownerVars, latch, appended, blocks, dropped, aborted>>

\* Mutant: the wait has no timeout.
WaitReturnsNotified ==
  /\ pc = "waiting" /\ buffers # <<>>
  /\ Swap
  /\ UNCHANGED <<ownerVars, latch, appended, blocks, dropped, aborted>>

\* Mutant: a back end that finds running_ cleared after its wait leaves at once.
WaitReturnsLeaving ==
  /\ pc = "waiting"
  /\ IF running THEN Swap
     ELSE pc' = "while" /\ UNCHANGED <<current, next, buffers, new1, new2, toWrite>>
  /\ UNCHANGED <<ownerVars, latch, appended, blocks, dropped, aborted>>

\* waitForSeconds returns, because of notify() or because its time is up;
\* buffers_ is not looked at again.
WaitReturns ==
  /\ pc = "waiting"
  /\ Swap
  /\ UNCHANGED <<ownerVars, latch, appended, blocks, dropped, aborted>>

\* The messages in a sequence of buffers.
MessagesIn(bs) == UNION {ToSet(bs[i]) : i \in DOMAIN bs}

\* What is left of the buffers when there are too many.
Kept(bs) == IF Len(bs) > DropLimit THEN SubSeq(bs, 1, 2) ELSE bs

\* Mutant: only the first spare buffer is replaced.
SparesFirstOnly ==
  /\ new1' = IF new1 = Null THEN Ptr(EmptyBuffer) ELSE new1
  /\ UNCHANGED new2

\* The missing spare buffers are written buffers, reset.
Spares ==
  /\ new1' = IF new1 = Null THEN Ptr(EmptyBuffer) ELSE new1
  /\ new2' = IF new2 = Null THEN Ptr(EmptyBuffer) ELSE new2

\* The asserts that the (at most two) written buffers left are enough for that.
TooFew(kept) ==
  LET left == IF Len(kept) > 2 THEN 2 ELSE Len(kept)
  IN  left < (IF new1 = Null THEN 1 ELSE 0) + (IF new2 = Null THEN 1 ELSE 0)

\* From the end of the critical section to the end of the loop's body.  After an
\* idle wait there is one buffer and it is empty: writing it leaves the file as
\* it was.
Write ==
  LET kept == Kept(toWrite)
  IN
  /\ pc = "write"
  /\ dropped' = dropped \cup MessagesIn(SubSeq(toWrite, Len(kept) + 1, Len(toWrite)))
  /\ blocks' = IF kept = <<EmptyBuffer>> THEN blocks ELSE blocks \o kept
  /\ Spares
  /\ aborted' = (toWrite = <<>> \/ TooFew(kept))
  /\ toWrite' = <<>>
  /\ pc' = "while"
  /\ UNCHANGED <<frontVars, ownerVars, latch>>

BackEnd == Begin \/ While \/ Lock \/ WaitReturns \/ Write

Next ==
  /\ ~aborted
  /\ AppendMessage \/ Start \/ StartReturns \/ Stop \/ Join \/ BackEnd

Spec == Init /\ [][Next]_vars

\* The back end runs, its wait ends with the flush interval, and joins return.
FairSpec == Spec /\ WF_vars(BackEnd) /\ WF_vars(Join) /\ WF_vars(StartReturns)

-----------------------------------------------------------------------------
Buffer == Seq(Message)
Pointer == {p \in Seq(Buffer) : Len(p) <= 1}
TypeOK ==
  /\ owner \in {"new", "starting", "started", "joining", "stopped"}
  /\ running \in BOOLEAN
  /\ latch \in {0, 1}
  /\ appended \in 0 .. MaxMessages
  /\ current \in Buffer
  /\ next \in Pointer
  /\ buffers \in Seq(Buffer)
  /\ pc \in {"unborn", "begin", "while", "lock", "waiting", "write", "done"}
  /\ new1 \in Pointer /\ new2 \in Pointer
  /\ toWrite \in Seq(Buffer)
  /\ aborted \in BOOLEAN

\* The asserts of threadFunc hold: it starts with running_ set, every round
\* begins with two empty spare buffers and nothing left to write, and enough
\* buffers come back from the writers' side to make the spares again.
AssertsHold == ~aborted

\* The log, from the LogFile to the buffer that is being filled.
Log == blocks \o toWrite \o buffers \o <<current>>

\* A sequence of buffers holds its messages in increasing order.
Increasing(bs) ==
  \A p, q \in DOMAIN bs : \A i \in DOMAIN bs[p], j \in DOMAIN bs[q] :
    p < q \/ (p = q /\ i < j) => bs[p][i] < bs[q][j]

\* Whatever the interleaving of appends and swaps, the messages written, being
\* written and still in memory are the messages appended, in order and each
\* once, without the ones that were dropped.
InOrderOnce ==
  /\ Increasing(Log)
  /\ MessagesIn(Log) = (1 .. appended) \ dropped

\* A stop() that finds the back end about to collect or waiting loses nothing
\* appended before it.  (One that finds it writing loses what was appended
\* since the last swap.)
IdleStopFlushes == owner = "stopped" => owed \subseteq MessagesIn(blocks) \cup dropped

\* A message appended while the back end runs is written or dropped, unless
\* the logging is stopped.
MessagesWritten ==
  \A m \in Message : (appended >= m /\ running) ~>
    (m \in MessagesIn(blocks) \cup dropped \/ ~running)

\* start() and stop() return.
StartAndStopReturn ==
  /\ (owner = "starting") ~> (owner = "started")
  /\ (owner = "joining") ~> (owner = "stopped")
=============================================================================
