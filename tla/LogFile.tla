------------------------------ MODULE LogFile ------------------------------
(***************************************************************************)
(* The log file that rolls, src/utils/LogFile.h and LogFile.cpp: one       *)
(* append or flush at a time (the mutex of a thread-safe LogFile, or the   *)
(* single back end thread of AsyncLogging), while the wall clock moves on, *)
(* or is set back, between any two of its steps.                           *)
(*                                                                         *)
(* A line is its length.  A file is the second in its name, lastRoll_.     *)
(***************************************************************************)
EXTENDS Integers

CONSTANTS
  kCheckTimeRoll,   \* kCheckTimeRoll_, 1024
  kRollPerSeconds,  \* kRollPerSeconds_, a day
  FlushInterval,    \* flushInterval_, 3
  RollSize,         \* rollSize_
  Lens,             \* lengths of lines
  MaxNow,           \* bound: the clock
  MaxWritten        \* bound: writtenBytes_ beyond which a retry writes nothing

ASSUME LogFileAssumption ==
  /\ kCheckTimeRoll \in Nat /\ FlushInterval \in Nat /\ RollSize \in Nat
  /\ kRollPerSeconds \in Nat \ {0}
  /\ Lens \subseteq Nat \ {0}
  /\ MaxNow \in Nat /\ MaxWritten \in Nat

VARIABLES
  now,            \* time(NULL)
  stage,          \* "idle", in File::append's loop, after it, or "faulted"
  line,           \* the append in progress: len, and whether n + remain > len
  written,        \* writtenBytes_ of the file
  count,          \* count_
  startOfPeriod,  \* startOfPeriod_
  lastRoll,       \* lastRoll_
  lastFlush,      \* lastFlush_
  stepped,        \* history: the clock was set back
  waiting,        \* history: when the oldest line not yet flushed came, or 0 if none
  stale,          \* history: lines appended to this file on a later day
  overdue         \* history: appends since that line has waited too long

logFileVars == <<now, stage, line, written, count, startOfPeriod, lastRoll, lastFlush,
                 stepped, waiting, stale, overdue>>

NoLine == [len |-> 0, past |-> FALSE]

\* Both histories are counted up to this bound, which the properties exclude,
\* and no more once the clock was set back.
CountCap == kCheckTimeRoll + 3
Counted(event, counter) ==
  IF event /\ ~stepped /\ counter < CountCap THEN counter + 1 ELSE counter

Period(t) == (t \div kRollPerSeconds) * kRollPerSeconds

\* The constructor's rollFile().
FileInit ==
  /\ now \in 1 .. kRollPerSeconds
  /\ stage = "idle"
  /\ line = NoLine
  /\ written = 0
  /\ count = 0
  /\ startOfPeriod = Period(now)
  /\ lastRoll = now
  /\ lastFlush = now
  /\ stepped = FALSE
  /\ waiting = 0
  /\ stale = 0
  /\ overdue = 0

(***************************************************************************)
(* File::append.  fwrite returns less than it was asked for when the       *)
(* device refuses the rest.                                                *)
(***************************************************************************)

\* The first write, of n bytes; what remain is does not matter, only whether
\* it is 0.
FileAppend(len, n) ==
  /\ stage = "idle"
  /\ n <= len
  /\ line' = [len |-> len, past |-> FALSE]
  /\ stage' = IF n = len THEN "check" ELSE "retry"
  /\ stale' = Counted(Period(now) > Period(lastRoll), stale)
  /\ waiting' = IF waiting # 0 THEN waiting ELSE IF stepped THEN 1 ELSE now
  /\ overdue' = Counted(now - waiting' > FlushInterval, overdue)
  /\ UNCHANGED <<now, written, count, startOfPeriod, lastRoll, lastFlush, stepped>>

\* A turn of the loop `while (remain > 0)' that writes something.  remain
\* stays what it was, so that the loop goes on, from then on past the end of
\* the line, and each such turn counts the whole line.
Retry ==
  /\ stage = "retry"
  /\ written <= MaxWritten
  /\ line' = [line EXCEPT !.past = TRUE]
  /\ written' = written + line.len
  /\ UNCHANGED <<now, stage, count, startOfPeriod, lastRoll, lastFlush, stepped, waiting,
                 stale, overdue>>

\* The turn whose write returns 0 is the last.
RetryFails ==
  /\ stage = "retry"
  /\ stage' = "check"
  /\ UNCHANGED <<now, line, written, count, startOfPeriod, lastRoll, lastFlush, stepped,
                 waiting, stale, overdue>>

\* Reading past the end of the line may be harmless, as above, or end the
\* process.
ReadFaults ==
  /\ stage = "retry"
  /\ line.past
  /\ stage' = "faulted"
  /\ UNCHANGED <<now, line, written, count, startOfPeriod, lastRoll, lastFlush, stepped,
                 waiting, stale, overdue>>

(***************************************************************************)
(* append_unlocked after File::append.                                     *)
(***************************************************************************)

\* The buffer reaches the file: fflush, or fclose.
Flushed == waiting' = 0 /\ overdue' = 0

\* A new file, unless one with this second in its name has been opened.
\* rollFile asks for the time itself: a second that passes in between is the
\* same as one that passed before append_unlocked asked.
RollFile ==
  IF now > lastRoll
  THEN /\ lastRoll' = now /\ lastFlush' = now
       /\ startOfPeriod' = Period(now)
       /\ written' = 0
       /\ stale' = 0
       /\ Flushed
  ELSE UNCHANGED <<lastRoll, lastFlush, startOfPeriod, written, waiting, stale, overdue>>

\* Mutant: lastFlush_ moves on though nothing is flushed.
FlushIfDueRestarted ==
  /\ lastFlush' = now
  /\ IF now - lastFlush > FlushInterval THEN Flushed ELSE UNCHANGED <<waiting, overdue>>

FlushIfDue ==
  IF now - lastFlush > FlushInterval
  THEN lastFlush' = now /\ Flushed
  ELSE UNCHANGED <<lastFlush, waiting, overdue>>

\* Mutant: a new day is looked for only when a flush is due.
CheckTimeFlushFirst ==
  IF count > kCheckTimeRoll
  THEN /\ count' = 0
       /\ IF now - lastFlush > FlushInterval
          THEN FlushIfDue /\ UNCHANGED <<startOfPeriod, lastRoll, written, stale>>
          ELSE IF Period(now) # startOfPeriod THEN RollFile
          ELSE UNCHANGED <<startOfPeriod, lastRoll, lastFlush, written, waiting, stale,
                           overdue>>
  ELSE /\ count' = count + 1
       /\ UNCHANGED <<startOfPeriod, lastRoll, lastFlush, written, waiting, stale, overdue>>

\* The time is looked at once in kCheckTimeRoll_ + 2 appends.
CheckTime ==
  IF count > kCheckTimeRoll
  THEN /\ count' = 0
       /\ IF Period(now) # startOfPeriod
          THEN RollFile
          ELSE FlushIfDue /\ UNCHANGED <<startOfPeriod, lastRoll, written, stale>>
  ELSE /\ count' = count + 1
       /\ UNCHANGED <<startOfPeriod, lastRoll, lastFlush, written, waiting, stale, overdue>>

AppendUnlocked ==
  /\ stage = "check"
  /\ stage' = "idle"
  /\ line' = NoLine
  /\ IF written > RollSize THEN RollFile /\ UNCHANGED count ELSE CheckTime
  /\ UNCHANGED <<now, stepped>>

\* LogFile::flush(), which leaves lastFlush_ alone.
Flush ==
  /\ stage = "idle"
  /\ Flushed
  /\ UNCHANGED <<now, stage, line, written, count, startOfPeriod, lastRoll, lastFlush,
                 stepped, stale>>

ClockMoves ==
  /\ now' \in now + 1 .. MaxNow
  /\ UNCHANGED <<stage, line, written, count, startOfPeriod, lastRoll, lastFlush,
                 stepped, waiting, stale, overdue>>

ClockSetBack ==
  /\ now' \in 1 .. now - 1
  /\ stepped' = TRUE
  /\ waiting' = IF waiting = 0 THEN 0 ELSE 1
  /\ stale' = 0 /\ overdue' = 0
  /\ UNCHANGED <<stage, line, written, count, startOfPeriod, lastRoll, lastFlush>>

FileNext ==
  \/ \E len \in Lens : \E n \in 0 .. len : FileAppend(len, n)
  \/ Retry \/ RetryFails \/ ReadFaults
  \/ AppendUnlocked \/ Flush
  \/ ClockMoves \/ ClockSetBack

FileSpec == FileInit /\ [][FileNext]_logFileVars

-----------------------------------------------------------------------------
FileTypeOK ==
  /\ now \in Nat \ {0}
  /\ stage \in {"idle", "retry", "check", "faulted"}
  /\ line \in [len : Nat, past : BOOLEAN]
  /\ written \in Nat
  /\ count \in 0 .. kCheckTimeRoll + 1
  /\ startOfPeriod \in Nat
  /\ lastRoll \in Nat \ {0}
  /\ lastFlush \in Nat \ {0}
  /\ stepped \in BOOLEAN
  /\ waiting \in Nat
  /\ stale \in 0 .. CountCap
  /\ overdue \in 0 .. CountCap

\* While the clock is not set back, a new day begins a new file before more
\* than kCheckTimeRoll_ + 2 of its lines have gone to the old one, although
\* append_unlocked looks at the time only now and then, does not count an
\* append that finds the file too large, and rollFile refuses a second roll
\* in the same second.
DayRollInTime == ~stepped => stale <= kCheckTimeRoll + 2

\* While the clock is not set back, a line that has waited longer than
\* flushInterval_ reaches the file within kCheckTimeRoll_ + 2 more appends,
\* however the time checks fall between rolls and the caller's own flushes.
FlushInTime == ~stepped => overdue <= kCheckTimeRoll + 2
=============================================================================
