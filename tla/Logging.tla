------------------------------ MODULE Logging ------------------------------
(***************************************************************************)
(* The log statements of the program's threads, src/utils/Logging.h and    *)
(* Logging.cpp, over the stream of LogStream and, once setOutput has named *)
(* a function that appends to it, the LogFile that all of them share.      *)
(*                                                                         *)
(* A statement is built by one thread out of thread-local data, the level  *)
(* and the time; g_output hands it over and returns before FATAL flushes   *)
(* and aborts.                                                             *)
(***************************************************************************)
EXTENDS LogFile, LogStream

CONSTANTS
  Threads,      \* threads that log
  Levels,       \* severities in use, of 0 (TRACE) .. 5 (FATAL)
  Messages,     \* what is put into a statement: sequences of pieces
  Numbers       \* the integers that occur, those on convert's way included

TRACE == 0
DEBUG == 1
INFO == 2
WARN == 3
FATAL == 5

\* A piece: a text, by its length, or an integer.
Piece == [kind : {"text"}, len : Nat] \cup [kind : {"number"}, value : Numbers]

\* staticCheck() sees to it that kMaxNumericSize has room to spare for the
\* digits, the sign and the '\0' of every integer.
ASSUME LoggingAssumption ==
  /\ Levels \subseteq TRACE .. FATAL
  /\ kMaxNumericSize >= 3 /\ 1 \in Numbers
  /\ \A v \in Numbers :
       /\ v \in Int /\ Quotient(v, 10) \in Numbers
       /\ v < TenToThe(kMaxNumericSize - 2) /\ -v < TenToThe(kMaxNumericSize - 2)
  /\ Messages \subseteq Seq(Piece)

VARIABLES
  logLevel,    \* g_logLevel
  output,      \* where g_output writes: "stdout" or "file"
  flush,       \* what g_flush flushes: "stdout" or "file"
  lastSecond,  \* each thread's t_lastSecond
  timeText,    \* the second each thread's t_time shows, 0 before the first
  at,          \* where each thread is in a statement's destructor
  sent,        \* what the FATAL line of a thread went to and was flushed from
  writer,      \* the thread that has LogFile's mutex with its line, or Nobody
  held         \* history: threads whose FATAL line waits in the file's buffer

fileVars == <<stage, line, written, count, startOfPeriod, lastRoll, lastFlush, waiting, stale,
              overdue>>
clockVars == <<now, stepped>>
setVars == <<logLevel, output, flush>>
timeVars == <<lastSecond, timeText>>
loggingVars == <<fileVars, clockVars, setVars, timeVars, at, sent, writer, held>>

Nobody == [thread |-> "none", fatal |-> FALSE]

LoggingInit ==
  /\ FileInit
  /\ logLevel \in Levels \cap {TRACE, DEBUG, INFO}
  /\ output = "stdout" /\ flush = "stdout"
  /\ lastSecond = [t \in Threads |-> 0]
  /\ timeText = [t \in Threads |-> 0]
  /\ at = [t \in Threads |-> "idle"]
  /\ sent = [t \in Threads |-> "stdout"]
  /\ writer = Nobody
  /\ held = {}

Running == stage # "faulted" /\ \A t \in Threads : at[t] # "aborted"

\* The lines in the file's buffer after a step that adds those of `new'.
Keep(new) == held' = IF waiting' = 0 THEN {} ELSE held \cup new

-----------------------------------------------------------------------------
(***************************************************************************)
(* The static functions of Logger.                                         *)
(***************************************************************************)
SetLogLevel ==
  /\ logLevel' \in Levels
  /\ UNCHANGED <<fileVars, clockVars, output, flush, timeVars, at, sent, writer, held>>

\* setOutput and setFlush, with functions that call append and flush of a LogFile.
SetOutput ==
  /\ output' = "file"
  /\ UNCHANGED <<fileVars, clockVars, logLevel, flush, timeVars, at, sent, writer, held>>

SetFlush ==
  /\ flush' = "file"
  /\ UNCHANGED <<fileVars, clockVars, logLevel, output, timeVars, at, sent, writer, held>>

-----------------------------------------------------------------------------
(***************************************************************************)
(* A statement.                                                            *)
(***************************************************************************)

\* The macros: severities from LOG_WARN on are never filtered.
Enabled(level) == level >= WARN \/ logLevel <= level

\* Mutant: t_lastSecond is not __thread.
FormatTimeShared(t) ==
  IF now # lastSecond[t]
  THEN /\ lastSecond' = [u \in Threads |-> now]
       /\ timeText' = [timeText EXCEPT ![t] = now]
  ELSE UNCHANGED timeVars

\* Impl::formatTime: the text of a second is kept for the thread's next lines.
FormatTime(t) ==
  IF now # lastSecond[t]
  THEN /\ lastSecond' = [lastSecond EXCEPT ![t] = now]
       /\ timeText' = [timeText EXCEPT ![t] = now]
  ELSE UNCHANGED timeVars

\* operator<<.
Insert(s, piece) ==
  IF piece.kind = "text" THEN AppendText(s, piece.len)
  ELSE AppendNumber(s, Len(convert(piece.value, Numbers)))

Text(len) == [kind |-> "text", len |-> len]

\* Impl's constructor: time, thread id and level, which always fit and are
\* one character here, then the function's name for the finer levels.
Header(level) == <<Text(1)>> \o (IF level <= DEBUG THEN <<Text(1)>> ELSE <<>>)

\* Impl::finish: " - " basename ":" line '\n'.
Footer == <<Text(1), Text(1), Text(1), [kind |-> "number", value |-> 1], Text(1)>>

\* The stream after each of the pieces.
Inserted(pieces) ==
  LET s[n \in 0 .. Len(pieces)] ==
        IF n = 0 THEN EmptyStream ELSE Insert(s[n - 1], pieces[n])
  IN  s

Formatted(level, message) ==
  LET pieces == Header(level) \o message \o Footer IN Inserted(pieces)[Len(pieces)]

\* The streams a statement of each severity can leave.
Streams == [level \in Levels |-> {Formatted(level, m) : m \in Messages}]

\* A statement's constructor, its insertions and finish(), up to g_output: all
\* of it but the level and the time is the thread's own.
Build(t, level) ==
  /\ at[t] = "idle"
  /\ Enabled(level)
  /\ FormatTime(t)

\* After g_output: FATAL goes on to g_flush.
AfterOutput(t, fatal, to) ==
  /\ at' = [at EXCEPT ![t] = IF fatal THEN "output" ELSE "idle"]
  /\ sent' = [sent EXCEPT ![t] = IF fatal THEN to ELSE @]

\* With defaultOutput.
LogToStdout(t, level) ==
  /\ Build(t, level)
  /\ output = "stdout"
  /\ AfterOutput(t, level = FATAL, "stdout")
  /\ UNCHANGED <<fileVars, clockVars, setVars, writer, held>>

\* With a function that appends to the LogFile: the line goes in (the device
\* takes some or all of it) ...
LogToFile(t, level, len) ==
  /\ Build(t, level)
  /\ output = "file"
  /\ \E n \in {1, len} : FileAppend(len, n)
  /\ at' = [at EXCEPT ![t] = "file"]
  /\ writer' = [thread |-> t, fatal |-> level = FATAL]
  /\ Keep(IF level = FATAL THEN {t} ELSE {})
  /\ UNCHANGED <<setVars, sent>>

\* ... the loop of File::append goes on ...
OutputRetry ==
  /\ Retry \/ RetryFails \/ ReadFaults
  /\ UNCHANGED <<setVars, timeVars, at, sent, writer, held>>

\* ... and append returns.
OutputReturns ==
  /\ AppendUnlocked
  /\ AfterOutput(writer.thread, writer.fatal, "file")
  /\ writer' = Nobody
  /\ Keep({})
  /\ UNCHANGED <<setVars, timeVars>>

\* Mutant: abort comes before g_flush.
FatalFlushSkipped(t) ==
  /\ at[t] = "output"
  /\ at' = [at EXCEPT ![t] = "flushed"]
  /\ UNCHANGED <<fileVars, clockVars, setVars, timeVars, sent, writer, held>>

\* g_flush(); a function that flushes something else leaves the line unsafe.
FatalFlush(t) ==
  /\ at[t] = "output"
  /\ at' = [at EXCEPT ![t] = "flushed"]
  /\ \/ /\ flush = "file"
        /\ Flush /\ Keep({})
        /\ UNCHANGED sent
     \/ /\ flush = "stdout"
        /\ sent' = [sent EXCEPT ![t] = "stdout"]
        /\ UNCHANGED <<fileVars, clockVars, held>>
  /\ UNCHANGED <<setVars, timeVars, writer>>

Abort(t) ==
  /\ at[t] = "flushed"
  /\ at' = [at EXCEPT ![t] = "aborted"]
  /\ UNCHANGED <<fileVars, clockVars, setVars, timeVars, sent, writer, held>>

\* Somebody flushes the LogFile, or the clock moves.
FlushFile == Flush /\ Keep({}) /\ UNCHANGED <<setVars, timeVars, at, sent, writer>>
Time ==
  /\ ClockMoves \/ ClockSetBack
  /\ UNCHANGED <<setVars, timeVars, at, sent, writer, held>>

LoggingNext ==
  /\ Running
  /\ \/ SetLogLevel \/ SetOutput \/ SetFlush
     \/ \E t \in Threads, level \in Levels :
          \/ LogToStdout(t, level)
          \/ \E s \in Streams[level] : LogToFile(t, level, s.length)
     \/ \E t \in Threads : FatalFlush(t) \/ Abort(t)
     \/ OutputRetry \/ OutputReturns \/ FlushFile \/ Time

LoggingSpec == LoggingInit /\ [][LoggingNext]_loggingVars

-----------------------------------------------------------------------------
LoggingTypeOK ==
  /\ FileTypeOK
  /\ logLevel \in TRACE .. FATAL
  /\ output \in {"stdout", "file"} /\ flush \in {"stdout", "file"}
  /\ lastSecond \in [Threads -> Nat] /\ timeText \in [Threads -> Nat]
  /\ at \in [Threads -> {"idle", "file", "output", "flushed", "aborted"}]
  /\ sent \in [Threads -> {"stdout", "file"}]
  /\ writer \in [thread : Threads, fatal : BOOLEAN] \cup {Nobody}
  /\ held \subseteq Threads

\* No statement that the level lets through writes past the end of its stream,
\* the '\0' of a number included, though a number is converted in place before
\* its length is known; and every line has a byte to spare.
StreamInBounds ==
  \A level \in Levels : Enabled(level) =>
    \A s \in Streams[level] : s.length < kSmallBuffer /\ s.top <= kSmallBuffer

\* A line is headed by the second in which it is logged, though the text is
\* cached per thread and the clock may be set back between two lines.
LineShowsItsSecond ==
  [][\A t \in Threads :
       at[t] = "idle" /\ (at'[t] # "idle" \/ lastSecond'[t] # lastSecond[t]) =>
         timeText'[t] = now]_loggingVars

\* When FATAL aborts the process its line has left the LogFile's buffer, if
\* g_output and g_flush were both for the file: no roll, flush or other
\* thread's line can come between the append, g_flush and the end so that the
\* line is lost.
FatalLineIsOut ==
  \A t \in Threads :
    at[t] \in {"flushed", "aborted"} /\ sent[t] = "file" => t \notin held
=============================================================================
