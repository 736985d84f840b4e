CONSTANTS
  Dates = {2, 3, 14}
  Trainings <- Found
  Weeks <- RowWeeks
  SemWeek <- ExamWeek
  WeekDay <- DayInWeek
  Bell <- Bells
  ExamAt <- ExamHours
  Groups = {"g1", "g2", "g3"}
  Examined = {"g1", "null"}
  Null = "null"
  MaxRows = 3
  MaxExams = 2
SPECIFICATION Spec
CHECK_DEADLOCK FALSE
INVARIANTS
  TypeOK
  DaysAsNumbered
  EveryRowShown
  EveryGroupNamed
  TaughtTogether
  StreamJoined
  EndsWithLastPair
  DayTypesDiffer
  ParityHolds
  AllDayIffExam
  EventForEach
