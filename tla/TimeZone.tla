------------------------------ MODULE TimeZone ------------------------------
(***************************************************************************)
(* TimeZone::toUtcTime and fromUtcTime of src/utils/TimeZone.cpp, on top   *)
(* of Date, beside a calendar that is advanced day by day as the Gregorian *)
(* rules say.  Local time is left out: readTimeZoneFile never fills its    *)
(* tables.                                                                 *)
(***************************************************************************)
EXTENDS Date

CONSTANTS
  LastYear,             \* the last year walked through
  UtcFirst, UtcLast,    \* years whose seconds are checked (they fit 32 bits)
  Seconds               \* seconds of a day that are checked

VARIABLES
  jdn,   \* julianDayNumber_
  cal    \* the calendar: year, month, day, wday (0 is Sunday), yday

calendarVars == <<jdn, cal>>

kSecondsPerDay == 24 * 60 * 60

ASSUME CalendarAssumption ==
  LastYear \in Int /\ \A s \in Seconds : s \in Nat /\ s < kSecondsPerDay

\* C's division and remainder, which round towards zero.
CDiv(a, b) == IF a >= 0 THEN a \div b ELSE -((-a) \div b)
CMod(a, b) == a - b * CDiv(a, b)

FillHMS(seconds) ==
  LET minutes == seconds \div 60
  IN  [tm_sec |-> seconds % 60, tm_min |-> minutes % 60, tm_hour |-> minutes \div 60]

\* Mutant: time before 1970 is not carried into the previous day.
DaysAndSecondsUncarried(t) ==
  [days |-> CDiv(t, kSecondsPerDay), seconds |-> CMod(t, kSecondsPerDay)]

\* The split into days and the seconds of the day.
DaysAndSeconds(t) ==
  LET seconds == CMod(t, kSecondsPerDay)
      days == CDiv(t, kSecondsPerDay)
  IN  IF seconds < 0 THEN [days |-> days - 1, seconds |-> seconds + kSecondsPerDay]
      ELSE [days |-> days, seconds |-> seconds]

\* toUtcTime(t, true)
ToUtcTime(t) ==
  LET split == DaysAndSeconds(t)
      hms == FillHMS(split.seconds)
      date == split.days + kJulianDayOf1970_01_01
      ymd == GetYearMonthDay(date)
  IN  [tm_sec |-> hms.tm_sec, tm_min |-> hms.tm_min, tm_hour |-> hms.tm_hour,
       tm_year |-> ymd.year - 1900, tm_mon |-> ymd.month - 1, tm_mday |-> ymd.day,
       tm_wday |-> WeekDay(date),
       tm_yday |-> date - GetJulianDayNumber(ymd.year, 1, 1)]

FromUtcTime(utc) ==
  (GetJulianDayNumber(utc.tm_year + 1900, utc.tm_mon + 1, utc.tm_mday)
     - kJulianDayOf1970_01_01) * kSecondsPerDay
    + utc.tm_hour * 3600 + utc.tm_min * 60 + utc.tm_sec

-----------------------------------------------------------------------------
\* The Gregorian calendar, the reference.
Leap(y) == y % 4 = 0 /\ (y % 100 # 0 \/ y % 400 = 0)
DaysIn(y, m) == IF m = 2 THEN IF Leap(y) THEN 29 ELSE 28
                ELSE IF m \in {4, 6, 9, 11} THEN 30 ELSE 31

\* 1 January 1900 was a Monday.
CalendarInit ==
  /\ cal = [year |-> 1900, month |-> 1, day |-> 1, wday |-> 1, yday |-> 0]
  /\ jdn = GetJulianDayNumber(1900, 1, 1)

SameMonth ==
  /\ cal.day < DaysIn(cal.year, cal.month)
  /\ cal' = [cal EXCEPT !.day = @ + 1, !.wday = (@ + 1) % 7, !.yday = @ + 1]

NextMonth ==
  /\ cal.day = DaysIn(cal.year, cal.month) /\ cal.month < 12
  /\ cal' = [cal EXCEPT !.day = 1, !.month = @ + 1, !.wday = (@ + 1) % 7, !.yday = @ + 1]

NextYear ==
  /\ cal.day = 31 /\ cal.month = 12 /\ cal.year < LastYear
  /\ cal' = [year |-> cal.year + 1, month |-> 1, day |-> 1,
             wday |-> (cal.wday + 1) % 7, yday |-> 0]

NextDay == jdn' = jdn + 1 /\ (SameMonth \/ NextMonth \/ NextYear)

CalendarSpec == CalendarInit /\ [][NextDay]_calendarVars

-----------------------------------------------------------------------------
\* Date's closed formulas are the Gregorian calendar, in both directions, and
\* the weekday follows, over the years its comment gives and their leap days.
DateIsGregorian ==
  /\ GetYearMonthDay(jdn) = [year |-> cal.year, month |-> cal.month, day |-> cal.day]
  /\ GetJulianDayNumber(cal.year, cal.month, cal.day) = jdn
  /\ WeekDay(jdn) = cal.wday

InUtcYears == UtcFirst <= cal.year /\ cal.year <= UtcLast
SecondsAt(s) == (jdn - kJulianDayOf1970_01_01) * kSecondsPerDay + s

\* toUtcTime gives every field of the calendar and a time of day in range,
\* before 1970 as after, and fromUtcTime takes it back.
UtcIsCalendar ==
  InUtcYears =>
    \A s \in Seconds :
      LET utc == ToUtcTime(SecondsAt(s))
      IN  /\ utc.tm_year = cal.year - 1900 /\ utc.tm_mon = cal.month - 1
          /\ utc.tm_mday = cal.day /\ utc.tm_wday = cal.wday /\ utc.tm_yday = cal.yday
          /\ utc.tm_hour \in 0 .. 23 /\ utc.tm_min \in 0 .. 59 /\ utc.tm_sec \in 0 .. 59
          /\ FromUtcTime(utc) = SecondsAt(s)
=============================================================================
