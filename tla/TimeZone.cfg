SPECIFICATION CalendarSpec
CONSTANTS
  LastYear = 2500
  UtcFirst = 1903
  UtcLast = 2037
  Seconds <- McSeconds
CHECK_DEADLOCK FALSE
INVARIANTS
  DateIsGregorian
  UtcIsCalendar
