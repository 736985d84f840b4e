CONSTANTS
  Dates = {2, 3, 14}
  Trainings <- FoundWithoutRoom
  Weeks <- RowWeeks
  SemWeek <- ExamWeek
  WeekDay <- DayInWeek
  Bell <- Bells
  ExamAt <- ExamHours
  Groups = {"g1", "g2"}
  Examined = {"g1", "null"}
  Null = "null"
  MaxRows = 3
  MaxExams = 1
SPECIFICATION Spec
CHECK_DEADLOCK FALSE
INVARIANT PairsUnited
