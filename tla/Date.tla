-------------------------------- MODULE Date --------------------------------
(***************************************************************************)
(* src/utils/Date.h and Date.cpp: a day as its Julian day number, and the  *)
(* two conversions between that number and year, month and day.  Years     *)
(* after -4800 make every operand positive, so that C's division is \div.  *)
(***************************************************************************)
EXTENDS Integers

kDaysPerWeek == 7

GetJulianDayNumber(year, month, day) ==
  LET a == (14 - month) \div 12
      y == year + 4800 - a
      m == month + 12 * a - 3
  IN  day + (153 * m + 2) \div 5 + y * 365 + y \div 4 - y \div 100 + y \div 400 - 32045

\* Mutant: the year within the century is rounded the wrong way.
GetYearMonthDayRounded(julianDayNumber) ==
  LET a == julianDayNumber + 32044
      b == (4 * a + 3) \div 146097
      c == a - ((b * 146097) \div 4)
      d == (4 * c) \div 1461
      e == c - ((1461 * d) \div 4)
      m == (5 * e + 2) \div 153
  IN  [day   |-> e - ((153 * m + 2) \div 5) + 1,
       month |-> m + 3 - 12 * (m \div 10),
       year  |-> b * 100 + d - 4800 + (m \div 10)]

GetYearMonthDay(julianDayNumber) ==
  LET a == julianDayNumber + 32044
      b == (4 * a + 3) \div 146097
      c == a - ((b * 146097) \div 4)
      d == (4 * c + 3) \div 1461
      e == c - ((1461 * d) \div 4)
      m == (5 * e + 2) \div 153
  IN  [day   |-> e - ((153 * m + 2) \div 5) + 1,
       month |-> m + 3 - 12 * (m \div 10),
       year  |-> b * 100 + d - 4800 + (m \div 10)]

kJulianDayOf1970_01_01 == GetJulianDayNumber(1970, 1, 1)

WeekDay(julianDayNumber) == (julianDayNumber + 1) % kDaysPerWeek
=============================================================================
