CONSTANTS
  Null = Null
  Institutes = {1, 2, Null}
  Names = {1, 2}
  GroupIds = {10, 11}
  Semesters = {"autumn", "session"}
  PersonName <- TwoNamed
  MaxRows = 3
SPECIFICATION Spec
CHECK_DEADLOCK FALSE
INVARIANTS
  FormsAgree
  LectureIfAny
  CountsAreTrue
