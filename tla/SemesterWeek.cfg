CONSTANTS
  FirstYear = 1996
  LastYear = 2030
SPECIFICATION Spec
INVARIANT IsoWeek
PROPERTY WeekByWeek
CHECK_DEADLOCK FALSE
