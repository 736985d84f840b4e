-------------------------- MODULE WeekTimetableMC --------------------------
(***************************************************************************)
(* Instances of WeekTimetable and CalendarEvents for TLC. The days of the  *)
(* week and the numbers of the exams' weeks are those of SemesterWeek.     *)
(***************************************************************************)
EXTENDS CalendarEvents

(* Tuesday 31 December 2024, Wednesday 1 January and Sunday 12 January 2025*)
CalendarDay ==
  [d \in {2, 3, 14} |-> IF d = 2 THEN [year |-> 2024, day |-> 366]
                        ELSE [year |-> 2025, day |-> d - 2]]

Semester ==
  INSTANCE SemesterWeek WITH
    FirstYear <- 2024, LastYear <- 2025, date <- CalendarDay[2]

(* Raspzv has the first two in week 19 of the semester, the last in 20, and*)
(* another published schedule, of a shorter semester, has the second in 18;*)
(* the arithmetic of scheduler.util.ts numbers them 19, -32 and -31.       *)
RowWeeks ==
  [d \in {2, 3, 14} |-> CASE d = 2 -> {19} [] d = 3 -> {18, 19} [] d = 14 -> {20}]
ExamWeek == [d \in {2, 3, 14} |-> Semester!weekNumber(CalendarDay[d])]
DayInWeek == [d \in {2, 3, 14} |-> Semester!DayOfWeek(CalendarDay[d]) % 7]

(* The bells of the university, as far as the examples of the DTOs tell    *)
(* (08:30-10:00, 12:20-15:30) and the constants of createWeek suggest.     *)
Pairs == {1, 2, 4, 5, 6, 7, 8}
Begins ==
  [n \in Pairs |-> CASE n = 1 -> 510 [] n = 2 -> 610 [] n = 4 -> 740
                     [] n = 5 -> 840 [] n = 6 -> 940 [] n = 7 -> 1050
                     [] n = 8 -> 1150]
Bells == [n \in Pairs |-> [start |-> Begins[n], end |-> Begins[n] + 90]]

(* The dates of two of the exams have no time of day, the third does.      *)
ExamHours == [d \in {2, 3, 14} |-> IF d = 3 THEN 540 ELSE 0]

Of(id, slot, hours, stream, lesson, teacher, room, group) ==
  [id |-> id, slot |-> slot, hours |-> hours, stream |-> stream,
   lesson |-> lesson, typed |-> TRUE, info |-> "null", teacher |-> teacher,
   room |-> room, group |-> group]
Nameless(id, typed, info, group) ==
  [Of(id, 1, 1, 0, "null", "Ivanov", "G1", group)
     EXCEPT !.typed = typed, !.info = info]

(* Ivanov's: two groups taught together (1, 2), one that a stream joins to *)
(* them (3), a longer lesson without a room (5), and two without a name    *)
(* (7, 8), one of them with a type.                                        *)
OfIvanov == {
  Of(1, 1, 1, 0, "maths", "Ivanov", "G1", "g1"),
  Of(2, 1, 1, 0, "maths", "Ivanov", "G1", "g2"),
  Of(3, 1, 1, 1, "maths", "Ivanov", "G1", "g3"),
  Of(5, 4, 2, 0, "physics", "Ivanov", "null", "g1"),
  Nameless(7, FALSE, "info", "null"),
  Nameless(8, TRUE, "other", "g2")}

(* In room G1: also the same lesson an hour later.                         *)
InG1 ==
  {x \in OfIvanov : x.id \in {1, 2, 7}}
    \cup {Of(4, 2, 1, 0, "maths", "Ivanov", "G1", "g1")}

(* Found by the name of one group: lessons of one, two and three pairs.    *)
OfOneGroup == {
  Of(1, 1, 1, 0, "maths", "Ivanov", "G1", "g1"),
  Of(3, 1, 1, 1, "maths", "Ivanov", "G1", "g1"),
  Of(10, 2, 2, 0, "maths", "Ivanov", "G1", "g1"),
  Of(8, 5, 3, 0, "physics", "Ivanov", "G1", "g1"),
  Of(9, 6, 2, 0, "physics", "Ivanov", "null", "g1")}

Found == [group |-> OfOneGroup, teacher |-> OfIvanov, audience |-> InG1]

(* Two pairs without a room that no stream unites.                         *)
FoundWithoutRoom ==
  LET pairs == {Of(1, 1, 1, 0, "maths", "Ivanov", "null", "g1"),
                Of(2, 1, 1, 0, "maths", "Ivanov", "null", "g2")}
  IN  [group |-> {}, teacher |-> pairs, audience |-> {}]

(* The theorems about day types, ends and whole days speak of this data.   *)
ASSUME HypothesesAssumption == WeeksOfDays /\ BellsOfPairs /\ EveningFree
=============================================================================
