--------------------------- MODULE WeekTimetable ---------------------------
(***************************************************************************)
(* How ScheduleService makes a timetable out of the rows of raspzv and of  *)
(* examen: createWeek groups lesson rows into weeks and days and merges    *)
(* the rows of groups that sit in one lesson, injectExams then puts every  *)
(* exam into the day it falls on. Both are loops; one iteration is a step, *)
(* and the rows a query returns are chosen as the loop reaches them, in    *)
(* the order the query asks for.                                           *)
(*                                                                         *)
(* `lesson' stands for the lessonName and isDistant of a row, which are    *)
(* only ever compared together (rows without a name are all distant or all *)
(* not); times of day are minutes from midnight of the lesson's day; the   *)
(* flags and texts that are copied from the row whatever happens are left  *)
(* out.                                                                    *)
(***************************************************************************)
EXTENDS Integers, Sequences, SequencesExt

CONSTANTS
  Dates,      \* calendar days with lessons or exams
  Trainings,  \* Trainings[t]: what a row found for a timetable of type t holds
  Weeks,      \* Weeks[d]: the numbers that rows of raspzv, of all the
              \* schedules that are published, have for the week of day d
  SemWeek,    \* SemWeek[d]: its number according to scheduler.util.ts
  WeekDay,    \* WeekDay[d]: moment(d).day(), 0 on a Sunday
  Bell,       \* Bell[n]: when pair n of raspzv starts and ends
  ExamAt,     \* ExamAt[d]: the time of day in the dates of the exams of d
  Groups,     \* the groups that have lessons, and
  Examined,   \* what stands for a group in the rows of examen
  Null,       \* a column without a value
  MaxRows,    \* bound: the rows of one timetable
  MaxExams    \* bound: the exams of one timetable

RTypes == {"group", "teacher", "audience"}
Undefined == "undefined"

Training ==
  [id : Nat \ {0}, slot : DOMAIN Bell, hours : Nat \ {0}, stream : Nat,
   lesson : STRING,
   typed : BOOLEAN, \* a type was found, in its column or in its text
   info : STRING,   \* what is left of the text without the types
   teacher : STRING, room : STRING, group : Groups \cup {Null}]

DayMinutes == 24 * 60

(* The last pair of those that a lesson of so many takes, from pair n on.  *)
PairsFrom(n, m) == {k \in DOMAIN Bell : n <= k /\ k <= m}
LastPair(n, hours) ==
  CHOOSE m \in DOMAIN Bell : Cardinality(PairsFrom(n, m)) = hours

ASSUME DatesAssumption ==
  /\ Dates \subseteq Nat
  /\ Weeks \in [Dates -> SUBSET Int] /\ SemWeek \in [Dates -> Int]
  /\ WeekDay \in [Dates -> 0..6] /\ ExamAt \in [Dates -> 0..(DayMinutes - 1)]
  /\ MaxRows \in Nat /\ MaxExams \in Nat /\ Examined \subseteq Groups \cup {Null}
(* Every row has a text, maybe an empty one: createWeek throws at a null.  *)
ASSUME TrainingsAssumption ==
  \A t \in RTypes : Trainings[t] \subseteq Training
(* A missing value is no name; an ID is that of one training.              *)
ASSUME NamesAssumption ==
  /\ Null \notin Groups
  /\ \A t \in RTypes : \A x, y \in Trainings[t] :
       Undefined \notin {x.teacher, x.room} /\ (x.id = y.id => x = y)
(* A training has one slot; the members of a stream sit in one lesson.     *)
ASSUME StreamsAssumption ==
  \A t \in RTypes : \A x, y \in Trainings[t] :
    x.stream = y.id => /\ x.slot = y.slot /\ x.hours = y.hours
                       /\ x.lesson = y.lesson
                       /\ x.typed = y.typed /\ x.info = y.info
(* There is no third pair in raspzv, that is lunch; pairs follow one       *)
(* another within the day, and no lesson goes on after the last of them.   *)
ASSUME BellsAssumption ==
  /\ DOMAIN Bell \subseteq Nat \ {0, 3}
  /\ \A n \in DOMAIN Bell :
       /\ Bell[n] \in [start : Nat, end : 0..(DayMinutes - 1)]
       /\ Bell[n].start < Bell[n].end
       /\ \A m \in DOMAIN Bell : n < m => Bell[n].end < Bell[m].start
  /\ \A t \in RTypes : \A x \in Trainings[t] :
       \E m \in DOMAIN Bell : Cardinality(PairsFrom(x.slot, m)) = x.hours

VARIABLES
  rType,  \* whose timetable it is
  rows,   \* the lesson rows dealt with so far, and
  exams,  \* the exams: history variables
  weeks   \* the timetable: weeks of days of lessons, in the order of pushing

vars == <<rType, rows, exams, weeks>>

-----------------------------------------------------------------------------
(* createWeek                                                              *)

Row(d, n, x) == [date |-> d, week |-> n, of |-> x]

OrUndefined(x) == IF x = Null THEN Undefined ELSE x

(* A lesson without a name and a type is given what its text says, if it   *)
(* says anything; one with a type stays without a name.                    *)
NameOf(x) ==
  IF x.lesson = Null /\ ~x.typed /\ x.info # Null THEN x.info ELSE x.lesson

(* The pair of raspzv shown as it is.                                      *)
LunchCountsMutant(slot) == slot

(* Raspzv counts the lunch between the second and the third pair.          *)
Number(slot) == IF slot > 2 THEN slot - 1 ELSE slot

(* 90 minutes a pair and 10 between two, lunch after the second pair of the*)
(* day and 20 minutes after the fifth, if they end the lesson's first pair.*)
DurationMinutes(hours, number) ==
  LET fixT == CASE hours > 1 /\ number = 2 -> -2
                [] hours > 1 /\ number = 5 -> 0
                [] OTHER -> 1
  IN  hours * 90 + (hours - fixT) * 10

(* The lesson a row becomes unless it is merged into another; `slot' is in *)
(* its original title. The end that timeRange shows is that of the row's   *)
(* own interval unless the lesson is longer than a pair.                   *)
Lesson(row) ==
  LET number == Number(row.of.slot)
      start == Bell[row.of.slot].start
      end == start + DurationMinutes(row.of.hours, number)
  IN  [id |-> row.of.id, date |-> row.date, slot |-> row.of.slot,
       number |-> number, start |-> start, end |-> end, hours |-> row.of.hours,
       until |-> IF row.of.hours > 1 THEN end % DayMinutes
                 ELSE Bell[row.of.slot].end,
       lesson |-> NameOf(row.of),
       teacher |-> OrUndefined(row.of.teacher), room |-> OrUndefined(row.of.room),
       groups |-> IF rType # "group" /\ row.of.group # Null
                  THEN <<row.of.group>> ELSE << >>]

(* Only the raw columns are compared with the stored lesson.               *)
SameSlot(e, row) ==
  /\ e.date = row.date /\ e.start = Bell[row.of.slot].start
  /\ e.hours = row.of.hours /\ e.lesson = row.of.lesson
  /\ e.teacher = row.of.teacher /\ e.room = row.of.room

(* Any lesson of the day of the same name, teacher and room.               *)
AnyHourMutant(e, row) ==
  /\ row.of.stream # 0 \/ rType # "group"
  /\ \/ row.of.stream # 0 /\ e.id = row.of.stream
     \/ SameSlot([e EXCEPT !.start = Bell[row.of.slot].start], row)

(* Only the streams of the database, or only the rows that look alike.     *)
StreamOnlyMutant(e, row) == row.of.stream # 0 /\ e.id = row.of.stream
LookAlikeMutant(e, row) == rType # "group" /\ SameSlot(e, row)

(* A row of a stream joins the lesson it refers to; a row of a timetable   *)
(* that is not a group's, or of a stream, joins the lesson it looks like.  *)
Merges(e, row) ==
  /\ row.of.stream # 0 \/ rType # "group"
  /\ \/ row.of.stream # 0 /\ e.id = row.of.stream
     \/ SameSlot(e, row)

(* find, or push a new one: the sequence with the wanted element in it.    *)
WithWeek(ws, n) ==
  IF \E i \in DOMAIN ws : ws[i].number = n THEN ws
  ELSE Append(ws, [number |-> n, days |-> << >>])

WithDay(days, d, n) ==
  IF \E i \in DOMAIN days : days[i].date = d THEN days
  ELSE Append(days, [date |-> d, type |-> WeekDay[d] - 1, weekNumber |-> n,
                     lessons |-> << >>])

(* A merged row that does not name its group.                              *)
SilentMutant(lessons, row) ==
  LET k == SelectInSeq(lessons, LAMBDA e : Merges(e, row))
  IN  IF k = 0 THEN Append(lessons, Lesson(row)) ELSE lessons

WithLesson(lessons, row) ==
  LET k == SelectInSeq(lessons, LAMBDA e : Merges(e, row))
  IN  IF k = 0 THEN Append(lessons, Lesson(row))
      ELSE IF rType # "group"
           THEN [lessons EXCEPT ![k].groups = Append(@, row.of.group)]
           ELSE lessons

WithRow(ws, row) ==
  LET opened == WithWeek(ws, row.week)
      w == SelectInSeq(opened, LAMBDA e : e.number = row.week)
      days == WithDay(opened[w].days, row.date, row.week)
      d == SelectInSeq(days, LAMBDA e : e.date = row.date)
  IN  [opened EXCEPT ![w].days =
         [days EXCEPT ![d].lessons = WithLesson(@, row)]]

(* What -1 % 2 === 1 says in JavaScript.                                   *)
IsOdd(n) == n > 0 /\ n % 2 = 1

(* Only the row the lesson was made of.                                    *)
FirstRowMutant(id) ==
  LET first == SelectInSeq(rows, LAMBDA row : row.of.id = id)
  IN  IF IsOdd(rows[first].week) THEN "odd" ELSE "even"

(* The parity of a training is that of all its rows, those that the loop   *)
(* has not reached and those merged into another lesson included.          *)
parityOnWeek(id) ==
  LET total == {i \in DOMAIN rows : rows[i].of.id = id}
      odd == {i \in total : IsOdd(rows[i].week)}
  IN  CASE odd = total -> "odd" [] odd = {} /\ total # {} -> "even"
        [] OTHER -> "custom"

(* ORDER BY datz, nned, npar; ties come in any order, and getMany makes one*)
(* of rows that agree in every column.                                     *)
InOrder(row) ==
  /\ row \notin {rows[i] : i \in DOMAIN rows}
  /\ rows # << >> =>
       \/ Last(rows).date < row.date
       \/ Last(rows).date = row.date /\ Last(rows).week < row.week
       \/ /\ Last(rows).date = row.date /\ Last(rows).week = row.week
          /\ Last(rows).of.slot <= row.of.slot

createWeek(row) ==
  /\ exams = << >>
  /\ Len(rows) < MaxRows
  /\ InOrder(row)
  /\ rows' = Append(rows, row)
  /\ weeks' = WithRow(weeks, row)
  /\ UNCHANGED <<rType, exams>>

-----------------------------------------------------------------------------
(* injectExams                                                             *)

(* The exams' own query has no ORDER BY.                                   *)
Exam(d, g) == [date |-> d, group |-> g]

(* The date shifted by the time zone on its way.                           *)
MidnightMutant(exam) ==
  [id |-> 0, date |-> exam.date - 1, slot |-> 0, number |-> 0,
   start |-> ExamAt[exam.date], end |-> ExamAt[exam.date] + 23 * 60,
   hours |-> 0, until |-> 0, lesson |-> "exam",
   teacher |-> Undefined, room |-> Undefined, groups |-> << >>]

(* An exam takes 23 hours; its number, duration and timeRange are null.    *)
ExamLesson(exam) ==
  [id |-> 0, date |-> exam.date, slot |-> 0, number |-> 0,
   start |-> ExamAt[exam.date], end |-> ExamAt[exam.date] + 23 * 60,
   hours |-> 0, until |-> 0, lesson |-> "exam",
   teacher |-> Undefined, room |-> Undefined,
   groups |-> IF rType # "group" /\ exam.group # Null
              THEN <<exam.group>> ELSE << >>]

OnDay(day, d) ==
  day.date = d \/ \E k \in DOMAIN day.lessons : day.lessons[k].date = d

(* The search for the day confined to the week the exam is numbered with.  *)
OwnWeekMutant(ws, d) ==
  SelectInSeq(ws, LAMBDA e : /\ e.number = SemWeek[d]
                             /\ \E i \in DOMAIN e.days : OnDay(e.days[i], d))

(* The first week with a day the exam falls on; 0 if there is none.        *)
WeekOfDay(ws, d) ==
  SelectInSeq(ws, LAMBDA e : \E i \in DOMAIN e.days : OnDay(e.days[i], d))

(* The type of the day by the number that moment has for it.               *)
PlainDayMutant(exam) ==
  [date |-> exam.date, type |-> WeekDay[exam.date],
   weekNumber |-> SemWeek[exam.date], lessons |-> <<ExamLesson(exam)>>]

OneDayExam(exam) ==
  [date |-> exam.date, type |-> WeekDay[exam.date] - 1,
   weekNumber |-> SemWeek[exam.date], lessons |-> <<ExamLesson(exam)>>]

(* The exam takes the place of what else happens on its day.               *)
OnlyExamMutant(ws, exam) ==
  LET w == WeekOfDay(ws, exam.date)
      k == SelectInSeq(ws[w].days, LAMBDA day : OnDay(day, exam.date))
      opened == WithWeek(ws, SemWeek[exam.date])
      n == SelectInSeq(opened, LAMBDA e : e.number = SemWeek[exam.date])
  IN  IF w # 0
      THEN [ws EXCEPT ![w].days[k].lessons = <<ExamLesson(exam)>>]
      ELSE [opened EXCEPT ![n].days = Append(@, OneDayExam(exam))]

WithExam(ws, exam) ==
  LET w == WeekOfDay(ws, exam.date)
      k == SelectInSeq(ws[w].days, LAMBDA day : OnDay(day, exam.date))
      opened == WithWeek(ws, SemWeek[exam.date])
      n == SelectInSeq(opened, LAMBDA e : e.number = SemWeek[exam.date])
  IN  IF w # 0
      THEN [ws EXCEPT ![w].days[k].lessons = Append(@, ExamLesson(exam))]
      ELSE [opened EXCEPT ![n].days = Append(@, OneDayExam(exam))]

injectExams(exam) ==
  /\ Len(exams) < MaxExams
  /\ exams' = Append(exams, exam)
  /\ weeks' = WithExam(weeks, exam)
  /\ UNCHANGED <<rType, rows>>

-----------------------------------------------------------------------------
Init ==
  /\ rType \in RTypes
  /\ rows = << >> /\ exams = << >> /\ weeks = << >>

Next ==
  \/ \E d \in Dates, x \in Trainings[rType] :
       \E n \in Weeks[d] : createWeek(Row(d, n, x))
  \/ \E d \in Dates, g \in Examined : injectExams(Exam(d, g))

Spec == Init /\ [][Next]_vars

-----------------------------------------------------------------------------
(* What some of the properties need of dates and bells: the rest holds     *)
(* without it.                                                             *)

(* Days that a timetable may have in one week fall on different weekdays:  *)
(* the numbers of raspzv and of scheduler.util.ts are those of weeks.      *)
WeeksOfDays ==
  \A d, e \in Dates :
    d # e /\ (Weeks[d] \cup {SemWeek[d]}) \cap (Weeks[e] \cup {SemWeek[e]}) # {} =>
      WeekDay[d] # WeekDay[e]

(* The bells that the constants of createWeek presuppose: pairs of 90      *)
(* minutes, 10 between two, 40 for the lunch after the second and 20 after *)
(* the fifth, which raspzv counts as its sixth.                            *)
Break(n) == IF n = 2 THEN 40 ELSE IF n = 6 THEN 20 ELSE 10
BellsOfPairs ==
  /\ \A n \in DOMAIN Bell : Bell[n].end = Bell[n].start + 90
  /\ \A n, m \in DOMAIN Bell :
       n < m /\ (\A k \in DOMAIN Bell : ~(n < k /\ k < m)) =>
         Bell[m].start = Bell[n].end + Break(n)

(* The last pair of a day ends more than an hour before midnight.          *)
EveningFree == \A n \in DOMAIN Bell : Bell[n].end + 60 < DayMinutes

-----------------------------------------------------------------------------
(* Properties.                                                             *)

(* A column's text or one of the code's own; 0 is null, in an exam.        *)
Text == STRING \cup {Undefined, "exam"}
Time == 0..(DayMinutes - 1)

LessonType ==
  [id : Nat, date : Dates, slot : {0} \cup DOMAIN Bell,
   number : {0} \cup {Number(n) : n \in DOMAIN Bell}, start : Time, end : Nat,
   hours : Nat, until : Time, lesson : Text, teacher : Text, room : Text,
   groups : Seq(Groups \cup {Null})]
DayType == [date : Dates, type : -1..5, weekNumber : Int, lessons : Seq(LessonType)]

(* The lists of weeks, days and lessons hold what the loops put there. The *)
(* type of a day is that of moment less one, Monday 0 to Saturday 5 as in  *)
(* WeekNumberType, but -1 on a Sunday, which is 6 there.                   *)
TypeOK ==
  /\ rType \in RTypes
  /\ rows \in Seq([date : Dates, week : Int, of : Trainings[rType]])
  /\ exams \in Seq([date : Dates, group : Groups \cup {Null}])
  /\ weeks \in Seq([number : Int, days : Seq(DayType)])

(* The positions of the days and of the lessons of the timetable.          *)
DayPlaces == UNION {{<<w, d>> : d \in DOMAIN weeks[w].days} : w \in DOMAIN weeks}
DayIn(p) == weeks[p[1]].days[p[2]]
LessonPlaces ==
  UNION {{<<p[1], p[2], k>> : k \in DOMAIN DayIn(p).lessons} : p \in DayPlaces}
LessonIn(p) == weeks[p[1]].days[p[2]].lessons[p[3]]

(* The weeks that the rows of a day number it with, and those that show it.*)
WeeksOfRows(d) == {rows[i].week : i \in {j \in DOMAIN rows : rows[j].date = d}}
WeeksWith(d) ==
  {weeks[p[1]].number : p \in {q \in DayPlaces : DayIn(q).date = d}}

(* A calendar day is shown once, with all that happens on it, in each of   *)
(* the weeks that its rows number it with (createWeek), and in no other:   *)
(* an exam joins the lessons of its day whatever number the arithmetic of  *)
(* injectExams has for it, and opens the day only where there are no rows, *)
(* once for all exams.                                                     *)
DaysAsNumbered ==
  /\ \A v, w \in DOMAIN weeks : weeks[v].number = weeks[w].number => v = w
  /\ \A p, q \in DayPlaces :
       p[1] = q[1] /\ DayIn(p).date = DayIn(q).date => p = q
  /\ \A p \in LessonPlaces : LessonIn(p).date = DayIn(<<p[1], p[2]>>).date
  /\ \A d \in Dates :
       WeeksWith(d) =
         IF WeeksOfRows(d) # {} THEN WeeksOfRows(d)
         ELSE {SemWeek[d] : i \in {j \in DOMAIN exams : exams[j].date = d}}

(* Merging loses no row: in its week, at its hour, there is a lesson of its*)
(* name (if it has none, with that of its text or without one), and it has *)
(* the row's teacher and room unless the row is in a stream. For a group,  *)
(* it is then the row's own lesson.                                        *)
EveryRowShown ==
  \A i \in DOMAIN rows : \E p \in LessonPlaces :
    LET e == LessonIn(p)
        row == rows[i]
    IN  /\ weeks[p[1]].number = row.week /\ e.date = row.date
        /\ e.slot = row.of.slot /\ e.hours = row.of.hours
        /\ e.lesson \in {NameOf(row.of), row.of.lesson}
        /\ row.of.stream = 0 =>
             /\ e.teacher = OrUndefined(row.of.teacher)
             /\ e.room = OrUndefined(row.of.room)
             /\ rType = "group" => e.id = row.of.id

(* The listings of a group at one hour.                                    *)
LessonsAtHour(d, slot) ==
  {p \in LessonPlaces : LessonIn(p).date = d /\ LessonIn(p).slot = slot}
Listings(d, slot, g) ==
  {l \in LessonsAtHour(d, slot) \X (1..(MaxRows + 1)) :
     /\ l[2] \in DOMAIN LessonIn(l[1]).groups
     /\ LessonIn(l[1]).groups[l[2]] = g}

(* The timetable of a teacher or a room names each group it concerns where *)
(* it concerns it, exactly as often as the query's rows and the exams do.  *)
EveryGroupNamed ==
  rType # "group" => \A d \in Dates, g \in Groups :
    /\ \A s \in {rows[i].of.slot : i \in DOMAIN rows} :
         Cardinality(Listings(d, s, g)) =
           Cardinality({i \in DOMAIN rows :
             rows[i].date = d /\ rows[i].of.slot = s /\ rows[i].of.group = g})
    /\ Cardinality(Listings(d, 0, g)) =
         Cardinality({i \in DOMAIN exams :
           exams[i].date = d /\ exams[i].group = g})

(* The lessons that look like the one a row stands for.                    *)
LessonsOf(row) ==
  {p \in LessonPlaces :
     /\ weeks[p[1]].number = row.week /\ LessonIn(p).date = row.date
     /\ LessonIn(p).slot = row.of.slot /\ LessonIn(p).hours = row.of.hours
     /\ LessonIn(p).lesson = NameOf(row.of)
     /\ LessonIn(p).teacher = OrUndefined(row.of.teacher)
     /\ LessonIn(p).room = OrUndefined(row.of.room)}

(* In the timetable of a teacher or a room, groups that are taught together*)
(* are one lesson, in a stream of the database's or not: whatever comes    *)
(* between their rows, if these have a name, a teacher and a room, and no  *)
(* row without a name has it for a text.                                   *)
TaughtTogether ==
  rType # "group" => \A i \in DOMAIN rows :
    /\ Null \notin {rows[i].of.teacher, rows[i].of.room}
    /\ \A j \in DOMAIN rows :
         NameOf(rows[j].of) = NameOf(rows[i].of) => rows[j].of.lesson # Null
    => Cardinality(LessonsOf(rows[i])) <= 1

(* The lesson that a row was made into, unless it was merged.              *)
OwnLesson(row) ==
  {p \in LessonPlaces : /\ weeks[p[1]].number = row.week
                        /\ LessonIn(p).date = row.date
                        /\ LessonIn(p).id = row.of.id}

(* A row in a stream whose head came first, in the same week, and was made *)
(* into a lesson is never a lesson of its own.                             *)
StreamJoined ==
  \A i, j \in DOMAIN rows :
    /\ i < j /\ rows[i].date = rows[j].date /\ rows[i].week = rows[j].week
    /\ rows[j].of.stream = rows[i].of.id /\ OwnLesson(rows[i]) # {}
    => OwnLesson(rows[j]) = {}

(* The ends that createWeek computes with constants of its own agree with  *)
(* the bells of raspzv: a lesson of one or two pairs ends when its last    *)
(* pair does, in endAt and in timeRange alike, and a longer one, for which *)
(* the code says "need fix" (line 925), never runs into the pair after it. *)
EndsWithLastPair ==
  \A p \in LessonPlaces : LessonIn(p).id # 0 =>
    LET e == LessonIn(p)
        bell == Bell[LastPair(e.slot, e.hours)].end
    IN  /\ e.start < e.end /\ e.end <= bell
        /\ e.hours <= 2 => e.end = bell /\ e.until = bell

(* The days of a week are told apart by their type, which createWeek and   *)
(* injectExams compute apart from each other.                              *)
DayTypesDiffer ==
  \A p, q \in DayPlaces :
    p[1] = q[1] /\ DayIn(p).type = DayIn(q).type => p = q

(* What a lesson says of its parity when the first row of its training is  *)
(* met holds of every week it is shown in, whatever rows follow and        *)
(* whatever lessons they are merged into.                                  *)
ParityHolds ==
  \A p \in LessonPlaces : LessonIn(p).id # 0 =>
    /\ parityOnWeek(LessonIn(p).id) = "odd" => IsOdd(weeks[p[1]].number)
    /\ parityOnWeek(LessonIn(p).id) = "even" => ~IsOdd(weeks[p[1]].number)

(* "A fix for pairs that were not united in a stream" (schedule.service.ts,*)
(* line 903): rows that differ in nothing but the group are one lesson. It *)
(* misses the pairs without a teacher or a room: the stored undefined is   *)
(* compared with the null of the row. It also misses those whose text is   *)
(* all that names them.                                                    *)
PairsUnited ==
  rType # "group" =>
    \A i \in DOMAIN rows : Cardinality(LessonsOf(rows[i])) <= 1
=============================================================================
