CONSTANTS
  FirstYear = 2024
  LastYear = 2026
SPECIFICATION Spec
INVARIANT NumberInSemester
CHECK_DEADLOCK FALSE
