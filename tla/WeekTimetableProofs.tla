------------------------ MODULE WeekTimetableProofs ------------------------
(***************************************************************************)
(* Proofs that createWeek and injectExams show each calendar day once in   *)
(* every week that its rows number it with, that they show every row of    *)
(* the query, and that the parity shown with a lesson is true, for any     *)
(* dates, rows and exams. What one round of either loop does to the        *)
(* nested lists is one relation, Adds: a lesson may come to one day,       *)
(* which may come to one week; the rest is kept.                           *)
(***************************************************************************)
EXTENDS WeekTimetable, WellFoundedInduction, TLAPS

WeekShape == [number : Int, days : Seq(DayType)]
RowShape == [date : Dates, week : Int, of : Trainings[rType]]
ExamShape == [date : Dates, group : Groups \cup {Null}]

(* What a row says of a lesson, its groups aside.                          *)
FromRow(e, row) ==
  /\ e.id = row.of.id /\ e.date = row.date /\ e.slot = row.of.slot
  /\ e.start = Bell[row.of.slot].start /\ e.hours = row.of.hours
  /\ e.lesson = NameOf(row.of)
  /\ e.teacher = OrUndefined(row.of.teacher) /\ e.room = OrUndefined(row.of.room)

(* The lesson e, maybe with more groups.                                   *)
Kept(e, f) ==
  /\ f.id = e.id /\ f.date = e.date /\ f.slot = e.slot /\ f.start = e.start
  /\ f.hours = e.hours /\ f.lesson = e.lesson
  /\ f.teacher = e.teacher /\ f.room = e.room

(* Where find finds the week of a number and the day of a date.            *)
WeekAt(ws, n) == SelectInSeq(ws, LAMBDA e : e.number = n)
DayAt(days, d) == SelectInSeq(days, LAMBDA e : e.date = d)

(* The type of a day, as both loops compute it.                            *)
TypeOfDay(d) == WeekDay[d] - 1

IsDay(ws, w, i) == w \in DOMAIN ws /\ i \in DOMAIN ws[w].days
IsLesson(ws, w, i, k) == IsDay(ws, w, i) /\ k \in DOMAIN ws[w].days[i].lessons

(* From ws to r nothing is lost and only lesson e, of day i of week w, and *)
(* that day and that week are new, if they are.                            *)
Adds(ws, r, w, i, e) ==
  /\ r \in Seq(WeekShape) /\ IsDay(r, w, i) /\ r[w].days[i].date = e.date
  /\ IsDay(ws, w, i) \/ r[w].days[i].type = TypeOfDay(e.date)
  /\ \A v \in DOMAIN ws : v \in DOMAIN r /\ r[v].number = ws[v].number
  /\ \A v \in DOMAIN r : v \in DOMAIN ws \/ v = w
  /\ \A v, j : IsDay(ws, v, j) =>
       /\ IsDay(r, v, j) /\ r[v].days[j].date = ws[v].days[j].date
       /\ r[v].days[j].type = ws[v].days[j].type
  /\ \A v, j : IsDay(r, v, j) => IsDay(ws, v, j) \/ (v = w /\ j = i)
  /\ \A v, j, k : IsLesson(ws, v, j, k) =>
       IsLesson(r, v, j, k) /\ Kept(ws[v].days[j].lessons[k], r[v].days[j].lessons[k])
  /\ \A v, j, k : IsLesson(r, v, j, k) =>
       IsLesson(ws, v, j, k) \/ (v = w /\ j = i /\ r[w].days[i].lessons[k] = e)

(* From ws to r no lesson changes but the one at place k of day i of week  *)
(* w, which may be new.                                                    *)
OnlyAt(ws, r, w, i, k) ==
  /\ IsLesson(r, w, i, k)
  /\ \A v, j, m : IsLesson(ws, v, j, m) =>
       \/ v = w /\ j = i /\ m = k
       \/ r[v].days[j].lessons[m] = ws[v].days[j].lessons[m]
  /\ \A v, j, m : IsLesson(r, v, j, m) =>
       IsLesson(ws, v, j, m) \/ (v = w /\ j = i /\ m = k)

(* What becomes of the lesson that a row is merged into.                   *)
Joined(e, row) ==
  IF rType # "group" THEN [e EXCEPT !.groups = Append(@, row.of.group)] ELSE e

(* In a round of createWeek the lesson is a new one of the row, which none *)
(* of its day would take in, or one that does.                             *)
RowPut(ws, r, w, i, k, row) ==
  \/ /\ ~IsLesson(ws, w, i, k) /\ r[w].days[i].lessons[k] = Lesson(row)
     /\ \A m : IsLesson(ws, w, i, m) => ~Merges(ws[w].days[i].lessons[m], row)
  \/ /\ IsLesson(ws, w, i, k) /\ Merges(ws[w].days[i].lessons[k], row)
     /\ r[w].days[i].lessons[k] = Joined(ws[w].days[i].lessons[k], row)

-----------------------------------------------------------------------------
(* A set of positions that is not empty has a first one.                   *)
LEMMA FirstPosition ==
  ASSUME NEW n \in Nat, NEW I \in SUBSET (1..n), I # {}
  PROVE  Min(I) \in I
<1> DEFINE Less == {p \in Nat \X Nat : p[1] < p[2]}
<1>1. I \subseteq Nat
  OBVIOUS
<1>2. IsWellFoundedOn(Less, Nat)
  BY NatLessThanWellFounded DEF OpToRel
<1>3. PICK x \in I : \A y \in I : <<y, x>> \notin Less
  <2> HIDE DEF Less
  <2> QED
    BY <1>1, <1>2, WFMin, Zenon
<1>4. ASSUME NEW y \in I PROVE x =< y
  <2>1. <<y, x>> \in Nat \X Nat /\ <<y, x>> \notin Less /\ x \in Nat /\ y \in Nat
    BY <1>1, <1>3
  <2>2. ~(y < x)
    BY <2>1
  <2> QED
    BY <2>1, <2>2
<1>5. Min(I) = CHOOSE z \in I : \A y \in I : z =< y
  BY DEF Min
<1> QED
  BY <1>4, <1>5

(* The week of a number is found, or opened without days.                  *)
LEMMA WeekOpened ==
  ASSUME NEW ws \in Seq(WeekShape), NEW n \in Int
  PROVE LET r == WithWeek(ws, n)
            w == WeekAt(r, n)
        IN  /\ r \in Seq(WeekShape) /\ w \in DOMAIN r /\ r[w].number = n
            /\ \A v \in DOMAIN ws : v \in DOMAIN r /\ r[v] = ws[v]
            /\ \A v \in DOMAIN r : v \in DOMAIN ws \/ (v = w /\ r[v].days = << >>)
            /\ w \notin DOMAIN ws => \A v \in DOMAIN ws : ws[v].number # n
<1> DEFINE r == WithWeek(ws, n)
           new == [number |-> n, days |-> << >>]
           I == {v \in 1..Len(r) : r[v].number = n}
           w == WeekAt(r, n)
<1>1. new \in WeekShape
  <2>1. << >> \in Seq(DayType)
    OBVIOUS
  <2> QED
    BY <2>1 DEF WeekShape
<1>2. new.number = n /\ new.days = << >>
  OBVIOUS
<1>3. \/ \E v \in DOMAIN ws : ws[v].number = n /\ r = ws
      \/ (\A v \in DOMAIN ws : ws[v].number # n) /\ r = Append(ws, new)
  BY DEF WithWeek
<1> HIDE DEF r, new
<1>4. /\ r \in Seq(WeekShape) /\ DOMAIN r = 1..Len(r) /\ Len(r) \in Nat
      /\ \A v \in DOMAIN ws : v \in DOMAIN r /\ r[v] = ws[v]
      /\ \A v \in DOMAIN r : v \in DOMAIN ws \/ r[v] = new
  BY <1>1, <1>3
<1>5. I # {}
  <2>1. CASE r = Append(ws, new)
    <3>1. Len(ws) + 1 \in DOMAIN r /\ r[Len(ws) + 1] = new
      BY <1>1, <2>1
    <3> QED
      BY <1>2, <1>4, <3>1
  <2> QED
    BY <1>3, <1>4, <2>1
<1>6. w = Min(I)
  BY <1>5 DEF SelectInSeq, WeekAt
<1>7. Min(I) \in I
  BY <1>4, <1>5, FirstPosition
<1>8. w \in DOMAIN r /\ r[w].number = n
  BY <1>4, <1>6, <1>7
<1>9. CASE \E v \in DOMAIN ws : ws[v].number = n /\ r = ws
  BY <1>4, <1>8, <1>9 DEF r
<1>10. CASE (\A v \in DOMAIN ws : ws[v].number # n) /\ r = Append(ws, new)
  <2>1. \A v \in DOMAIN r : v \in DOMAIN ws \/ v = Len(ws) + 1
    BY <1>1, <1>10
  <2>2. w = Len(ws) + 1
    BY <1>4, <1>8, <1>10, <2>1
  <2> QED
    BY <1>2, <1>4, <1>8, <1>10, <2>1, <2>2 DEF r
<1> QED
  BY <1>3, <1>9, <1>10

(* From days to r only the day of date d is new, if it is, without lessons.*)
OpensDay(days, r, i, d) ==
  /\ r \in Seq(DayType) /\ i \in DOMAIN r /\ r[i].date = d
  /\ \A j \in DOMAIN days : j \in DOMAIN r /\ r[j] = days[j]
  /\ \A j \in DOMAIN r : j \in DOMAIN days \/ (j = i /\ r[j].lessons = << >>)
  /\ i \notin DOMAIN days =>
       r[i].type = TypeOfDay(d) /\ \A j \in DOMAIN days : days[j].date # d

(* The day of a date is found as well, or opened.                          *)
LEMMA DayOpened ==
  ASSUME NEW days \in Seq(DayType), NEW d \in Dates, NEW n \in Int
  PROVE LET r == WithDay(days, d, n) IN OpensDay(days, r, DayAt(r, d), d)
<1> DEFINE r == WithDay(days, d, n)
           new == [date |-> d, type |-> WeekDay[d] - 1, weekNumber |-> n,
                   lessons |-> << >>]
           I == {j \in 1..Len(r) : r[j].date = d}
           i == DayAt(r, d)
<1> SUFFICES OpensDay(days, r, i, d)
  OBVIOUS
<1>1. new \in DayType
  <2>1. << >> \in Seq(LessonType) /\ WeekDay[d] - 1 \in -1..5
    <3>1. WeekDay[d] \in 0..6
      BY DatesAssumption
    <3> QED
      BY <3>1
  <2> QED
    BY <2>1 DEF DayType
<1>2. new.date = d /\ new.lessons = << >> /\ new.type = TypeOfDay(d)
  BY DEF TypeOfDay
<1>3. \/ \E j \in DOMAIN days : days[j].date = d /\ r = days
      \/ (\A j \in DOMAIN days : days[j].date # d) /\ r = Append(days, new)
  BY DEF WithDay
<1> HIDE DEF r, new
<1>4. /\ r \in Seq(DayType) /\ DOMAIN r = 1..Len(r) /\ Len(r) \in Nat
      /\ \A j \in DOMAIN days : j \in DOMAIN r /\ r[j] = days[j]
      /\ \A j \in DOMAIN r : j \in DOMAIN days \/ r[j] = new
  BY <1>1, <1>3
<1>5. I # {}
  <2>1. CASE r = Append(days, new)
    <3>1. Len(days) + 1 \in DOMAIN r /\ r[Len(days) + 1] = new
      BY <1>1, <2>1
    <3> QED
      BY <1>2, <1>4, <3>1
  <2> QED
    BY <1>3, <1>4, <2>1
<1>6. i = Min(I)
  BY <1>5 DEF SelectInSeq, DayAt
<1>7. Min(I) \in I
  BY <1>4, <1>5, FirstPosition
<1>8. i \in DOMAIN r /\ r[i].date = d
  BY <1>4, <1>6, <1>7
<1>9. CASE \E j \in DOMAIN days : days[j].date = d /\ r = days
  BY <1>4, <1>8, <1>9 DEF OpensDay
<1>10. CASE (\A j \in DOMAIN days : days[j].date # d) /\ r = Append(days, new)
  <2>1. \A j \in DOMAIN r : j \in DOMAIN days \/ j = Len(days) + 1
    BY <1>1, <1>10
  <2>2. i = Len(days) + 1
    BY <1>4, <1>8, <1>10, <2>1
  <2> QED
    BY <1>2, <1>4, <1>8, <1>10, <2>1, <2>2 DEF OpensDay
<1> QED
  BY <1>3, <1>9, <1>10

-----------------------------------------------------------------------------
(* The lesson a row is made into says what the row says.                   *)
LEMMA LessonMade ==
  ASSUME rType \in RTypes, NEW row \in RowShape
  PROVE  /\ Lesson(row) \in LessonType /\ FromRow(Lesson(row), row)
         /\ row.of \in Training /\ row.of.id # 0
<1>1. /\ row.of \in Training /\ row.date \in Dates /\ row.of.slot \in DOMAIN Bell
      /\ row.of.id \in Nat \ {0} /\ row.of.hours \in Nat \ {0}
      /\ row.of.lesson \in STRING /\ row.of.info \in STRING
      /\ row.of.teacher \in STRING /\ row.of.room \in STRING
      /\ row.of.group \in Groups \cup {Null}
  BY TrainingsAssumption DEF RowShape, Training
<1> DEFINE slot == row.of.slot
           start == Bell[slot].start
           end == start + DurationMinutes(row.of.hours, Number(slot))
           until == IF row.of.hours > 1 THEN end % DayMinutes ELSE Bell[slot].end
           groups == IF rType # "group" /\ row.of.group # Null
                     THEN <<row.of.group>> ELSE << >>
<1>2. start \in Time /\ Bell[slot].end \in Time
  <2>1. /\ Bell[slot] \in [start : Nat, end : 0..(DayMinutes - 1)]
        /\ Bell[slot].start < Bell[slot].end
    BY <1>1, BellsAssumption
  <2>2. Bell[slot].start \in Nat /\ Bell[slot].end \in 0..(DayMinutes - 1)
    BY <2>1
  <2>3. \A a \in Nat, b \in 0..(DayMinutes - 1) : a < b => a \in Time /\ b \in Time
    BY DEF DayMinutes, Time
  <2> QED
    BY <2>1, <2>2, <2>3
<1>3. /\ NameOf(row.of) \in Text /\ OrUndefined(row.of.teacher) \in Text
      /\ OrUndefined(row.of.room) \in Text
  BY <1>1 DEF NameOf, OrUndefined, Text
<1>4. DurationMinutes(row.of.hours, Number(slot)) \in Nat
  <2>1. \A h \in Nat \ {0}, f \in {-2, 0, 1} : h * 90 + (h - f) * 10 \in Nat
    OBVIOUS
  <2>2. \E f \in {-2, 0, 1} :
          DurationMinutes(row.of.hours, Number(slot)) =
            row.of.hours * 90 + (row.of.hours - f) * 10
    BY DEF DurationMinutes
  <2> QED
    BY <1>1, <2>1, <2>2
<1>5. end \in Nat /\ end % DayMinutes \in Time
  <2>1. \A a \in Time, b \in Nat : a + b \in Nat /\ (a + b) % DayMinutes \in Time
    BY DEF DayMinutes, Time
  <2> QED
    BY <1>2, <1>4, <2>1
<1>6. until \in Time
  <2> HIDE DEF end
  <2> QED
    BY <1>2, <1>5
<1>7. groups \in Seq(Groups \cup {Null})
  <2>1. << >> \in Seq(Groups \cup {Null})
    OBVIOUS
  <2>2. <<row.of.group>> \in Seq(Groups \cup {Null})
    BY <1>1
  <2> QED
    BY <2>1, <2>2
<1>8. Lesson(row) =
        [id |-> row.of.id, date |-> row.date, slot |-> slot,
         number |-> Number(slot), start |-> start, end |-> end,
         hours |-> row.of.hours, until |-> until, lesson |-> NameOf(row.of),
         teacher |-> OrUndefined(row.of.teacher), room |-> OrUndefined(row.of.room),
         groups |-> groups]
  BY DEF Lesson
<1> HIDE DEF start, end, until, groups
<1>9. Lesson(row) \in LessonType
  BY <1>1, <1>2, <1>3, <1>5, <1>6, <1>7, <1>8 DEF LessonType
<1>10. FromRow(Lesson(row), row)
  BY <1>8 DEF FromRow, start
<1> QED
  BY <1>1, <1>9, <1>10

(* From lessons to r only the row's lesson is new, or what it was merged in*)
(* is changed.                                                             *)
PutsRow(lessons, r, row) ==
  /\ r \in Seq(LessonType)
  /\ \A k \in DOMAIN lessons : k \in DOMAIN r /\ Kept(lessons[k], r[k])
  /\ \A k \in DOMAIN r : k \in DOMAIN lessons \/ r[k] = Lesson(row)
  /\ \E k \in DOMAIN r :
       /\ \A m \in DOMAIN lessons : m = k \/ r[m] = lessons[m]
       /\ \A m \in DOMAIN r : m \in DOMAIN lessons \/ m = k
       /\ \/ /\ k \notin DOMAIN lessons /\ r[k] = Lesson(row)
             /\ \A m \in DOMAIN lessons : ~Merges(lessons[m], row)
          \/ /\ k \in DOMAIN lessons /\ Merges(lessons[k], row)
             /\ r[k] = Joined(lessons[k], row)

(* A row comes to a day as a lesson, or in one that is there already.      *)
LEMMA LessonPut ==
  ASSUME rType \in RTypes, NEW row \in RowShape, NEW lessons \in Seq(LessonType)
  PROVE  PutsRow(lessons, WithLesson(lessons, row), row)
<1> DEFINE r == WithLesson(lessons, row)
           I == {k \in 1..Len(lessons) : Merges(lessons[k], row)}
           k0 == SelectInSeq(lessons, LAMBDA e : Merges(e, row))
           l == Lesson(row)
<1>1. l \in LessonType /\ row.of.group \in Groups \cup {Null}
  BY LessonMade DEF Training
<1>2. DOMAIN lessons = 1..Len(lessons) /\ Len(lessons) \in Nat
  OBVIOUS
<1>3. CASE I = {}
  <2>1. r = Append(lessons, l)
    BY <1>3 DEF SelectInSeq, WithLesson
  <2> HIDE DEF r, l
  <2>2. /\ r \in Seq(LessonType) /\ Len(r) = Len(lessons) + 1
        /\ r[Len(lessons) + 1] = l
        /\ \A k \in DOMAIN lessons : k \in DOMAIN r /\ r[k] = lessons[k]
    BY <1>1, <2>1
  <2>3. Len(lessons) + 1 \in DOMAIN r
    BY <1>2, <2>2
  <2>4. \A k \in DOMAIN r : k \in DOMAIN lessons \/ k = Len(lessons) + 1
    BY <1>2, <2>2
  <2>5. \A m \in DOMAIN lessons : ~Merges(lessons[m], row)
    BY <1>2, <1>3
  <2>6. Len(lessons) + 1 \notin DOMAIN lessons
    BY <1>2
  <2> QED
    BY <2>2, <2>3, <2>4, <2>5, <2>6 DEF r, l, Kept, PutsRow
<1>4. CASE I # {}
  <2>1. k0 = Min(I)
    BY <1>4 DEF SelectInSeq
  <2>2. Min(I) \in I
    BY <1>2, <1>4, FirstPosition
  <2>3. k0 \in DOMAIN lessons /\ Merges(lessons[k0], row) /\ k0 # 0
    BY <1>2, <2>1, <2>2
  <2>4. r = IF rType # "group"
            THEN [lessons EXCEPT ![k0].groups = Append(@, row.of.group)]
            ELSE lessons
    BY <2>3 DEF WithLesson
  <2> HIDE DEF k0, r
  <2> DEFINE f == [lessons[k0] EXCEPT !.groups = Append(@, row.of.group)]
  <2>5. f \in LessonType /\ Kept(lessons[k0], f)
    <3>1. lessons[k0] \in LessonType
      BY <2>3
    <3>2. Append(lessons[k0].groups, row.of.group) \in Seq(Groups \cup {Null})
      BY <1>1, <3>1 DEF LessonType
    <3> QED
      BY <3>1, <3>2 DEF LessonType, Kept
  <2>6. /\ rType # "group" => r = [lessons EXCEPT ![k0] = f]
        /\ rType = "group" => r = lessons
    BY <2>4
  <2>7. Joined(lessons[k0], row) = IF rType # "group" THEN f ELSE lessons[k0]
    BY DEF Joined
  <2> HIDE DEF f
  <2>8. /\ r \in Seq(LessonType) /\ DOMAIN r = DOMAIN lessons
        /\ \A k \in DOMAIN lessons : r[k] = lessons[k] \/ (k = k0 /\ r[k] = f)
        /\ r[k0] = Joined(lessons[k0], row)
    BY <2>3, <2>5, <2>6, <2>7
  <2>9. \A k \in DOMAIN lessons : Kept(lessons[k], r[k])
    BY <2>5, <2>8 DEF Kept
  <2> QED
    BY <2>3, <2>8, <2>9 DEF r, PutsRow
<1> QED
  BY <1>3, <1>4

(* The lesson an exam is made into has no row of raspzv.                   *)
LEMMA ExamMade ==
  ASSUME rType \in RTypes, NEW exam \in ExamShape
  PROVE  /\ ExamLesson(exam) \in LessonType
         /\ ExamLesson(exam).id = 0 /\ ExamLesson(exam).date = exam.date
<1>1. /\ exam.date \in Dates /\ exam.group \in Groups \cup {Null}
      /\ ExamAt[exam.date] \in Time
  <2>1. exam.date \in Dates /\ exam.group \in Groups \cup {Null}
    BY DEF ExamShape
  <2>2. ExamAt[exam.date] \in 0..(DayMinutes - 1)
    BY <2>1, DatesAssumption
  <2> QED
    BY <2>1, <2>2 DEF Time
<1> DEFINE groups == IF rType # "group" /\ exam.group # Null
                     THEN <<exam.group>> ELSE << >>
<1>2. groups \in Seq(Groups \cup {Null})
  <2>1. << >> \in Seq(Groups \cup {Null})
    OBVIOUS
  <2>2. <<exam.group>> \in Seq(Groups \cup {Null})
    BY <1>1
  <2> QED
    BY <2>1, <2>2
<1>3. ExamLesson(exam) =
        [id |-> 0, date |-> exam.date, slot |-> 0, number |-> 0,
         start |-> ExamAt[exam.date], end |-> ExamAt[exam.date] + 23 * 60,
         hours |-> 0, until |-> 0, lesson |-> "exam",
         teacher |-> Undefined, room |-> Undefined, groups |-> groups]
  BY DEF ExamLesson
<1> HIDE DEF groups
<1>4. ExamAt[exam.date] + 23 * 60 \in Nat /\ 0 \in Time
  <2>1. \A a \in Time : a + 23 * 60 \in Nat /\ 0 \in Time
    BY DEF Time, DayMinutes
  <2> QED
    BY <1>1, <2>1
<1>5. ExamLesson(exam) \in LessonType
  BY <1>1, <1>2, <1>3, <1>4 DEF LessonType, Text
<1> QED
  BY <1>3, <1>5

-----------------------------------------------------------------------------
(* A round of createWeek adds the row's lesson, or its group to another's. *)
LEMMA RowAdds ==
  ASSUME rType \in RTypes, NEW row \in RowShape, NEW ws \in Seq(WeekShape)
  PROVE  LET r == WithRow(ws, row)
         IN \E w, i :
              /\ Adds(ws, r, w, i, Lesson(row)) /\ r[w].number = row.week
              /\ w \notin DOMAIN ws => \A v \in DOMAIN ws : ws[v].number # row.week
              /\ w \in DOMAIN ws /\ ~IsDay(ws, w, i) =>
                   \A j \in DOMAIN ws[w].days : ws[w].days[j].date # row.date
              /\ \E k : OnlyAt(ws, r, w, i, k) /\ RowPut(ws, r, w, i, k, row)
<1> DEFINE r == WithRow(ws, row)
           o == WithWeek(ws, row.week)
           w == WeekAt(o, row.week)
           days == WithDay(o[w].days, row.date, row.week)
           i == DayAt(days, row.date)
           lessons == WithLesson(days[i].lessons, row)
           day == [days[i] EXCEPT !.lessons = lessons]
           week == [o[w] EXCEPT !.days = [days EXCEPT ![i] = day]]
<1>1. row.date \in Dates /\ row.week \in Int
  BY DEF RowShape
<1>2. /\ o \in Seq(WeekShape) /\ w \in DOMAIN o /\ o[w].number = row.week
      /\ \A v \in DOMAIN ws : v \in DOMAIN o /\ o[v] = ws[v]
      /\ \A v \in DOMAIN o : v \in DOMAIN ws \/ (v = w /\ o[v].days = << >>)
      /\ w \notin DOMAIN ws => \A v \in DOMAIN ws : ws[v].number # row.week
  BY <1>1, WeekOpened
<1>3. r = [o EXCEPT ![w] = week]
  BY DEF WithRow, WeekAt, DayAt
<1> HIDE DEF r, o, w
<1>4. o[w].days \in Seq(DayType) /\ o[w] \in WeekShape
  <2>1. o[w] \in WeekShape
    BY <1>2
  <2> QED
    BY <2>1 DEF WeekShape
<1>5. /\ days \in Seq(DayType) /\ i \in DOMAIN days /\ days[i].date = row.date
      /\ \A j \in DOMAIN o[w].days : j \in DOMAIN days /\ days[j] = o[w].days[j]
      /\ \A j \in DOMAIN days :
           j \in DOMAIN o[w].days \/ (j = i /\ days[j].lessons = << >>)
      /\ i \notin DOMAIN o[w].days =>
           /\ days[i].type = TypeOfDay(row.date)
           /\ \A j \in DOMAIN o[w].days : o[w].days[j].date # row.date
  <2>1. OpensDay(o[w].days, days, i, row.date)
    BY <1>1, <1>4, DayOpened
  <2> HIDE DEF days, i
  <2> QED
    BY <2>1 DEF OpensDay
<1> HIDE DEF days, i
<1>6. days[i].lessons \in Seq(LessonType) /\ days[i] \in DayType
  <2>1. days[i] \in DayType
    BY <1>5
  <2> QED
    BY <2>1 DEF DayType
<1>7. /\ lessons \in Seq(LessonType)
      /\ \A k \in DOMAIN days[i].lessons :
           k \in DOMAIN lessons /\ Kept(days[i].lessons[k], lessons[k])
      /\ \A k \in DOMAIN lessons :
           k \in DOMAIN days[i].lessons \/ lessons[k] = Lesson(row)
      /\ \E k \in DOMAIN lessons :
           /\ \A m \in DOMAIN days[i].lessons :
                m = k \/ lessons[m] = days[i].lessons[m]
           /\ \A m \in DOMAIN lessons : m \in DOMAIN days[i].lessons \/ m = k
           /\ \/ /\ k \notin DOMAIN days[i].lessons /\ lessons[k] = Lesson(row)
                 /\ \A m \in DOMAIN days[i].lessons :
                      ~Merges(days[i].lessons[m], row)
              \/ /\ k \in DOMAIN days[i].lessons
                 /\ Merges(days[i].lessons[k], row)
                 /\ lessons[k] = Joined(days[i].lessons[k], row)
  <2>1. PutsRow(days[i].lessons, lessons, row)
    BY <1>6, LessonPut
  <2> HIDE DEF lessons
  <2> QED
    BY <2>1 DEF PutsRow
<1> HIDE DEF lessons
<1>8. /\ day \in DayType /\ day.lessons = lessons /\ day.date = row.date
      /\ day.type = days[i].type
  BY <1>5, <1>6, <1>7 DEF DayType
<1> HIDE DEF day
<1>9. /\ week \in WeekShape /\ week.number = row.week
      /\ week.days = [days EXCEPT ![i] = day]
  <2>1. [days EXCEPT ![i] = day] \in Seq(DayType)
    BY <1>5, <1>8
  <2> QED
    BY <1>2, <1>4, <2>1 DEF WeekShape
<1> HIDE DEF week
<1>10. /\ DOMAIN week.days = DOMAIN days
       /\ \A j \in DOMAIN days : week.days[j] = IF j = i THEN day ELSE days[j]
  BY <1>5, <1>9
<1>11. /\ r \in Seq(WeekShape) /\ DOMAIN r = DOMAIN o
       /\ \A v \in DOMAIN o : r[v] = IF v = w THEN week ELSE o[v]
  BY <1>2, <1>3, <1>9
<1>12. Lesson(row).date = row.date
  BY LessonMade DEF FromRow
<1>13. ASSUME NEW v, NEW j
       PROVE  /\ IsDay(ws, v, j) =>
                   /\ IsDay(r, v, j) /\ r[v].days[j].date = ws[v].days[j].date
                   /\ r[v].days[j].type = ws[v].days[j].type
                   /\ r[v].days[j] = IF v = w /\ j = i THEN day ELSE ws[v].days[j]
                   /\ v = w /\ j = i => days[i].lessons = ws[v].days[j].lessons
              /\ IsDay(r, v, j) => IsDay(ws, v, j) \/ (v = w /\ j = i)
  <2>1. IsDay(ws, v, j) =>
          /\ IsDay(r, v, j)
          /\ r[v].days[j] = IF v = w /\ j = i THEN day ELSE ws[v].days[j]
          /\ v = w /\ j = i => days[i] = ws[v].days[j]
    BY <1>2, <1>5, <1>10, <1>11 DEF IsDay
  <2>2. IsDay(ws, v, j) => /\ r[v].days[j].date = ws[v].days[j].date
                           /\ r[v].days[j].type = ws[v].days[j].type
    BY <1>5, <1>8, <2>1
  <2>3. IsDay(r, v, j) => IsDay(ws, v, j) \/ (v = w /\ j = i)
    BY <1>2, <1>5, <1>10, <1>11 DEF IsDay
  <2> QED
    BY <2>1, <2>2, <2>3
<1>14. ~IsDay(ws, w, i) => days[i].lessons = << >>
  BY <1>2, <1>5 DEF IsDay
<1>15. IsDay(r, w, i) /\ r[w].days[i] = day
  BY <1>2, <1>5, <1>10, <1>11 DEF IsDay
<1>16. ASSUME NEW v, NEW j, NEW k, IsLesson(ws, v, j, k)
       PROVE  IsLesson(r, v, j, k)
              /\ Kept(ws[v].days[j].lessons[k], r[v].days[j].lessons[k])
  <2>1. CASE v = w /\ j = i
    BY <1>7, <1>8, <1>13, <1>16, <2>1 DEF IsLesson
  <2>2. CASE ~(v = w /\ j = i)
    BY <1>13, <1>16, <2>2, SMTT(20) DEF IsLesson, Kept
  <2> QED
    BY <2>1, <2>2
<1>17. ASSUME NEW v, NEW j, NEW k, IsLesson(r, v, j, k)
       PROVE  IsLesson(ws, v, j, k)
              \/ (v = w /\ j = i /\ r[w].days[i].lessons[k] = Lesson(row))
  <2>1. CASE v = w /\ j = i
    <3>1. k \in DOMAIN lessons
      BY <1>8, <1>15, <1>17, <2>1 DEF IsLesson
    <3>2. CASE k \in DOMAIN days[i].lessons
      <4>1. days[i].lessons # << >>
        BY <3>2
      <4>2. IsDay(ws, w, i)
        BY <1>14, <4>1
      <4> QED
        BY <1>13, <2>1, <3>2, <4>2 DEF IsLesson
    <3>3. CASE lessons[k] = Lesson(row)
      BY <1>8, <1>15, <2>1, <3>3
    <3> QED
      BY <1>7, <3>1, <3>2, <3>3
  <2>2. CASE ~(v = w /\ j = i)
    BY <1>13, <1>17, <2>2 DEF IsLesson
  <2> QED
    BY <2>1, <2>2
<1>18. Adds(ws, r, w, i, Lesson(row))
  <2>1. \A v \in DOMAIN ws : v \in DOMAIN r /\ r[v].number = ws[v].number
    BY <1>2, <1>9, <1>11
  <2>2. \A v \in DOMAIN r : v \in DOMAIN ws \/ v = w
    BY <1>2, <1>11
  <2>3. IsDay(ws, w, i) \/ r[w].days[i].type = TypeOfDay(row.date)
    BY <1>2, <1>5, <1>8, <1>15 DEF IsDay
  <2> QED
    BY <1>8, <1>11, <1>12, <1>13, <1>15, <1>16, <1>17, <2>1, <2>2, <2>3 DEF Adds
<1>19. r[w].number = row.week
  BY <1>2, <1>9, <1>11
<1>20. w \in DOMAIN ws /\ ~IsDay(ws, w, i) =>
         \A j \in DOMAIN ws[w].days : ws[w].days[j].date # row.date
  BY <1>2, <1>5 DEF IsDay
<1>21. \A k : IsLesson(ws, w, i, k) <=> k \in DOMAIN days[i].lessons
  <2>1. CASE IsDay(ws, w, i)
    BY <1>13, <2>1 DEF IsLesson
  <2>2. CASE ~IsDay(ws, w, i)
    BY <1>14, <2>2 DEF IsLesson
  <2> QED
    BY <2>1, <2>2
<1>22. \A k : IsLesson(ws, w, i, k) =>
         ws[w].days[i].lessons[k] = days[i].lessons[k]
  BY <1>13 DEF IsLesson
<1>23. /\ r[w].days[i].lessons = lessons
       /\ \A k : IsLesson(r, w, i, k) <=> k \in DOMAIN lessons
  BY <1>8, <1>15 DEF IsLesson
<1>24. PICK k \in DOMAIN lessons :
         /\ \A m \in DOMAIN days[i].lessons :
              m = k \/ lessons[m] = days[i].lessons[m]
         /\ \A m \in DOMAIN lessons : m \in DOMAIN days[i].lessons \/ m = k
         /\ \/ /\ k \notin DOMAIN days[i].lessons /\ lessons[k] = Lesson(row)
               /\ \A m \in DOMAIN days[i].lessons :
                    ~Merges(days[i].lessons[m], row)
            \/ /\ k \in DOMAIN days[i].lessons
               /\ Merges(days[i].lessons[k], row)
               /\ lessons[k] = Joined(days[i].lessons[k], row)
  BY <1>7
<1>25. RowPut(ws, r, w, i, k, row)
  BY <1>21, <1>22, <1>23, <1>24 DEF RowPut
<1>26. OnlyAt(ws, r, w, i, k)
  <2>1. ASSUME NEW v, NEW j, NEW m, IsLesson(ws, v, j, m)
        PROVE  \/ v = w /\ j = i /\ m = k
               \/ r[v].days[j].lessons[m] = ws[v].days[j].lessons[m]
    <3>1. CASE v = w /\ j = i
      BY <1>21, <1>22, <1>23, <1>24, <2>1, <3>1
    <3>2. CASE ~(v = w /\ j = i)
      BY <1>13, <2>1, <3>2 DEF IsLesson
    <3> QED
      BY <3>1, <3>2
  <2>2. ASSUME NEW v, NEW j, NEW m, IsLesson(r, v, j, m)
        PROVE  IsLesson(ws, v, j, m) \/ (v = w /\ j = i /\ m = k)
    <3>1. CASE v = w /\ j = i
      BY <1>21, <1>23, <1>24, <2>2, <3>1
    <3>2. CASE ~(v = w /\ j = i)
      BY <1>17, <2>2, <3>2
    <3> QED
      BY <3>1, <3>2
  <2> QED
    BY <1>23, <1>24, <2>1, <2>2 DEF OnlyAt
<1> QED
  BY <1>2, <1>18, <1>19, <1>20, <1>25, <1>26 DEF r

-----------------------------------------------------------------------------
(* The first parts of DaysAsNumbered, of a list of weeks.                  *)
Once(ws) ==
  /\ \A v, w \in DOMAIN ws : ws[v].number = ws[w].number => v = w
  /\ \A w, j, i :
       /\ IsDay(ws, w, j) /\ IsDay(ws, w, i)
       /\ ws[w].days[j].date = ws[w].days[i].date
       => j = i
  /\ \A w, i, k : IsLesson(ws, w, i, k) =>
       ws[w].days[i].lessons[k].date = ws[w].days[i].date

(* If the day is new, its week has none of its date; if the week is, none  *)
(* has its number.                                                         *)
LEMMA OnceKept ==
  ASSUME NEW ws, NEW r, NEW w, NEW i, NEW e, Once(ws), Adds(ws, r, w, i, e),
         w \notin DOMAIN ws => \A v \in DOMAIN ws : ws[v].number # r[w].number,
         ~IsDay(ws, w, i) => \A j : IsDay(ws, w, j) => ws[w].days[j].date # e.date
  PROVE  Once(r)
<1>1. ASSUME NEW u \in DOMAIN r, NEW v \in DOMAIN r, r[u].number = r[v].number
      PROVE  u = v
  BY <1>1 DEF Once, Adds
<1>2. ASSUME NEW v, NEW h, NEW j, IsDay(r, v, h), IsDay(r, v, j),
             r[v].days[h].date = r[v].days[j].date
      PROVE  h = j
  <2>1. ASSUME NEW y, IsDay(r, v, y)
        PROVE  \/ IsDay(ws, v, y) /\ r[v].days[y].date = ws[v].days[y].date
               \/ v = w /\ y = i /\ ~IsDay(ws, w, i) /\ r[v].days[y].date = e.date
    BY <2>1 DEF Adds
  <2>2. CASE IsDay(ws, v, h) /\ IsDay(ws, v, j)
    BY <1>2, <2>1, <2>2 DEF Once, Adds
  <2>3. CASE ~(IsDay(ws, v, h) /\ IsDay(ws, v, j))
    BY <1>2, <2>1, <2>3
  <2> QED
    BY <2>2, <2>3
<1>3. ASSUME NEW v, NEW j, NEW k, IsLesson(r, v, j, k)
      PROVE  r[v].days[j].lessons[k].date = r[v].days[j].date
  <2>1. CASE IsLesson(ws, v, j, k)
    <3>1. /\ r[v].days[j].lessons[k].date = ws[v].days[j].lessons[k].date
          /\ IsDay(ws, v, j)
      <4>1. Kept(ws[v].days[j].lessons[k], r[v].days[j].lessons[k])
        BY <2>1 DEF Adds
      <4>2. IsDay(ws, v, j) /\ ws[v].days[j].lessons[k].date = ws[v].days[j].date
        BY <2>1 DEF IsLesson, Once
      <4> QED
        BY <4>1, <4>2 DEF Kept
    <3> QED
      BY <2>1, <3>1 DEF Once, Adds
  <2>2. CASE v = w /\ j = i /\ r[w].days[i].lessons[k] = e
    BY <2>2 DEF Adds
  <2> QED
    BY <1>3, <2>1, <2>2 DEF Adds
<1> QED
  BY <1>1, <1>2, <1>3 DEF Once

(* A round of injectExams adds the exam, to the day of its date if there   *)
(* is one in any week.                                                     *)
LEMMA ExamAdds ==
  ASSUME rType \in RTypes, NEW exam \in ExamShape,
         NEW ws \in Seq(WeekShape), Once(ws)
  PROVE  LET r == WithExam(ws, exam)
         IN \E w, i :
              /\ Adds(ws, r, w, i, ExamLesson(exam))
              /\ w \notin DOMAIN ws =>
                   \A v \in DOMAIN ws : ws[v].number # r[w].number
              /\ ~IsDay(ws, w, i) =>
                   /\ \A v, j : IsDay(ws, v, j) => ws[v].days[j].date # exam.date
                   /\ r[w].number = SemWeek[exam.date]
              /\ \E k : /\ OnlyAt(ws, r, w, i, k) /\ ~IsLesson(ws, w, i, k)
                        /\ r[w].days[i].lessons[k] = ExamLesson(exam)
<1> DEFINE r == WithExam(ws, exam)
           d == exam.date
           e == ExamLesson(exam)
           I == {v \in 1..Len(ws) : \E j \in DOMAIN ws[v].days : OnDay(ws[v].days[j], d)}
           w == WeekOfDay(ws, d)
<1>1. /\ d \in Dates /\ e \in LessonType /\ e.date = d
      /\ SemWeek[d] \in Int
  BY ExamMade, DatesAssumption DEF ExamShape
<1>2. DOMAIN ws = 1..Len(ws) /\ Len(ws) \in Nat
  OBVIOUS
<1>3. \A v, j : IsDay(ws, v, j) =>
        (OnDay(ws[v].days[j], d) <=> ws[v].days[j].date = d)
  BY DEF Once, OnDay, IsLesson
<1>4. CASE I # {}
  <2> DEFINE days == ws[w].days
             J == {j \in 1..Len(days) : OnDay(days[j], d)}
             i == SelectInSeq(days, LAMBDA day : OnDay(day, d))
             lessons == Append(days[i].lessons, e)
             day == [days[i] EXCEPT !.lessons = lessons]
             week == [ws[w] EXCEPT !.days = [days EXCEPT ![i] = day]]
  <2>1. w = Min(I)
    BY <1>4 DEF WeekOfDay, SelectInSeq
  <2>2. Min(I) \in I
    BY <1>2, <1>4, FirstPosition
  <2>3. /\ w \in DOMAIN ws /\ w # 0
        /\ \E j \in DOMAIN ws[w].days : OnDay(ws[w].days[j], d)
    <3>1. w \in I
      BY <2>1, <2>2
    <3> HIDE DEF w, d
    <3>2. w \in 1..Len(ws) /\ \E j \in DOMAIN ws[w].days : OnDay(ws[w].days[j], d)
      BY <3>1
    <3> QED
      BY <1>2, <3>2
  <2>4. r = [ws EXCEPT ![w] = week]
    BY <2>3 DEF WithExam
  <2> HIDE DEF r, w, e
  <2>5. ws[w] \in WeekShape
    BY <2>3
  <2>6. days \in Seq(DayType) /\ DOMAIN days = 1..Len(days) /\ Len(days) \in Nat
    BY <2>5 DEF WeekShape
  <2>7. i \in DOMAIN days /\ OnDay(days[i], d)
    <3>1. J # {}
      BY <2>3, <2>6
    <3>2. i = Min(J)
      BY <3>1 DEF SelectInSeq
    <3>3. Min(J) \in J
      BY <2>6, <3>1, FirstPosition
    <3> QED
      BY <2>6, <3>2, <3>3
  <2> HIDE DEF i
  <2>8. IsDay(ws, w, i) /\ days[i].date = d
    BY <1>3, <2>3, <2>7 DEF IsDay
  <2>9. days[i] \in DayType
    BY <2>6, <2>7
  <2>10. days[i].lessons \in Seq(LessonType)
    BY <2>9 DEF DayType
  <2>11. /\ lessons \in Seq(LessonType)
         /\ \A k \in DOMAIN days[i].lessons :
              k \in DOMAIN lessons /\ lessons[k] = days[i].lessons[k]
         /\ \A k \in DOMAIN lessons : k \in DOMAIN days[i].lessons \/ lessons[k] = e
         /\ \E k \in DOMAIN lessons :
              /\ k \notin DOMAIN days[i].lessons /\ lessons[k] = e
              /\ \A m \in DOMAIN lessons : m \in DOMAIN days[i].lessons \/ m = k
    <3> DEFINE q == days[i].lessons
    <3>1. e \in LessonType /\ q \in Seq(LessonType)
      BY <1>1, <2>10
    <3> HIDE DEF q
    <3>2. /\ lessons \in Seq(LessonType) /\ Len(q) \in Nat
          /\ DOMAIN q = 1..Len(q) /\ DOMAIN lessons = 1..(Len(q) + 1)
          /\ \A k \in 1..Len(q) : lessons[k] = q[k]
          /\ lessons[Len(q) + 1] = e
      <4>1. lessons = Append(q, e)
        BY DEF q
      <4> HIDE DEF lessons
      <4> QED
        BY <3>1, <4>1
    <3> HIDE DEF lessons
    <3>3. /\ Len(q) + 1 \in DOMAIN lessons /\ Len(q) + 1 \notin DOMAIN q
          /\ \A m \in DOMAIN lessons : m \in DOMAIN q \/ m = Len(q) + 1
      BY <3>2
    <3>4. /\ \A k \in DOMAIN q : k \in DOMAIN lessons /\ lessons[k] = q[k]
          /\ \A k \in DOMAIN lessons : k \in DOMAIN q \/ lessons[k] = e
      BY <3>2, <3>3
    <3>5. \E k \in DOMAIN lessons :
              /\ k \notin DOMAIN q /\ lessons[k] = e
              /\ \A m \in DOMAIN lessons : m \in DOMAIN q \/ m = k
      BY <3>2, <3>3
    <3> QED
      BY <3>2, <3>4, <3>5, Zenon DEF q
  <2> HIDE DEF lessons
  <2>12. /\ day \in DayType /\ day.lessons = lessons /\ day.date = d
         /\ day.type = days[i].type
    BY <2>8, <2>9, <2>11 DEF DayType
  <2> HIDE DEF day
  <2>13. /\ week \in WeekShape /\ week.number = ws[w].number
         /\ week.days = [days EXCEPT ![i] = day]
    <3> HIDE DEF days
    <3>1. [days EXCEPT ![i] = day] \in Seq(DayType)
      BY <2>6, <2>7, <2>12
    <3> QED
      BY <2>5, <3>1 DEF WeekShape
  <2> HIDE DEF week
  <2>14. /\ DOMAIN week.days = DOMAIN days
         /\ \A j \in DOMAIN days : week.days[j] = IF j = i THEN day ELSE days[j]
    BY <2>6, <2>7, <2>13
  <2>15. /\ r \in Seq(WeekShape) /\ DOMAIN r = DOMAIN ws
         /\ \A v \in DOMAIN ws : r[v] = IF v = w THEN week ELSE ws[v]
    BY <2>3, <2>4, <2>13
  <2>16. ASSUME NEW v, NEW j
         PROVE  /\ IsDay(ws, v, j) <=> IsDay(r, v, j)
                /\ IsDay(ws, v, j) =>
                     r[v].days[j] = IF v = w /\ j = i THEN day ELSE ws[v].days[j]
    BY <2>14, <2>15 DEF IsDay
  <2>17. \A v, j : IsDay(ws, v, j) =>
           /\ r[v].days[j].date = ws[v].days[j].date
           /\ r[v].days[j].type = ws[v].days[j].type
    BY <2>8, <2>12, <2>16
  <2>18. ASSUME NEW v, NEW j, NEW k, IsLesson(ws, v, j, k)
         PROVE  IsLesson(r, v, j, k)
                /\ Kept(ws[v].days[j].lessons[k], r[v].days[j].lessons[k])
    <3>1. CASE v = w /\ j = i
      <4>1. /\ IsDay(ws, v, j) /\ k \in DOMAIN days[i].lessons
            /\ ws[v].days[j] = days[i]
        BY <2>18, <3>1 DEF IsLesson
      <4>2. IsDay(r, v, j) /\ r[v].days[j] = day
        BY <2>16, <3>1, <4>1
      <4>3. k \in DOMAIN lessons /\ lessons[k] = days[i].lessons[k]
        BY <2>11, <4>1
      <4> QED
        BY <2>12, <4>1, <4>2, <4>3 DEF IsLesson, Kept
    <3>2. CASE ~(v = w /\ j = i)
      BY <2>16, <2>18, <3>2 DEF IsLesson, Kept
    <3> QED
      BY <3>1, <3>2
  <2>19. ASSUME NEW v, NEW j, NEW k, IsLesson(r, v, j, k)
         PROVE  IsLesson(ws, v, j, k)
                \/ (v = w /\ j = i /\ r[w].days[i].lessons[k] = e)
    BY <2>8, <2>11, <2>12, <2>16, <2>19 DEF IsLesson
  <2>20. Adds(ws, r, w, i, e)
    <3>1. \A v \in DOMAIN ws : v \in DOMAIN r /\ r[v].number = ws[v].number
      BY <2>13, <2>15
    <3>2. IsDay(r, w, i) /\ r[w].days[i].date = e.date
      BY <1>1, <2>8, <2>12, <2>16
    <3> QED
      BY <2>8, <2>15, <2>16, <2>17, <2>18, <2>19, <3>1, <3>2 DEF Adds
  <2>21. PICK k \in DOMAIN lessons :
           /\ k \notin DOMAIN days[i].lessons /\ lessons[k] = e
           /\ \A m \in DOMAIN lessons : m \in DOMAIN days[i].lessons \/ m = k
    BY <2>11
  <2>22. /\ IsLesson(r, w, i, k) /\ ~IsLesson(ws, w, i, k)
         /\ r[w].days[i].lessons[k] = e
    BY <2>8, <2>12, <2>16, <2>21 DEF IsLesson
  <2>23. OnlyAt(ws, r, w, i, k)
    <3>1. ASSUME NEW v, NEW j, NEW m, IsLesson(ws, v, j, m)
          PROVE  r[v].days[j].lessons[m] = ws[v].days[j].lessons[m]
      BY <2>11, <2>12, <2>16, <3>1 DEF IsLesson
    <3>2. ASSUME NEW v, NEW j, NEW m, IsLesson(r, v, j, m)
          PROVE  IsLesson(ws, v, j, m) \/ (v = w /\ j = i /\ m = k)
      BY <2>12, <2>16, <2>21, <3>2 DEF IsLesson
    <3> QED
      BY <2>22, <3>1, <3>2 DEF OnlyAt
  <2> QED
    BY <2>3, <2>8, <2>20, <2>22, <2>23 DEF r, e
<1>5. CASE I = {}
  <2> DEFINE n == SemWeek[d]
             o == WithWeek(ws, n)
             u == WeekAt(o, n)
             day == OneDayExam(exam)
             i == Len(o[u].days) + 1
             week == [o[u] EXCEPT !.days = Append(@, day)]
  <2>1. \A v, j : IsDay(ws, v, j) => ws[v].days[j].date # d
    BY <1>2, <1>3, <1>5 DEF IsDay
  <2>2. w = 0
    BY <1>5 DEF WeekOfDay, SelectInSeq
  <2>3. r = [o EXCEPT ![u] = week]
    BY <2>2 DEF WithExam, WeekAt
  <2>4. /\ o \in Seq(WeekShape) /\ u \in DOMAIN o /\ o[u].number = n
        /\ \A v \in DOMAIN ws : v \in DOMAIN o /\ o[v] = ws[v]
        /\ \A v \in DOMAIN o : v \in DOMAIN ws \/ (v = u /\ o[v].days = << >>)
        /\ u \notin DOMAIN ws => \A v \in DOMAIN ws : ws[v].number # n
    BY <1>1, WeekOpened, ZenonT(30)
  <2>5. /\ day \in DayType /\ day.date = d /\ day.lessons = <<e>>
        /\ day.type = TypeOfDay(d)
    <3> HIDE DEF e
    <3>1. <<e>> \in Seq(LessonType) /\ WeekDay[d] - 1 \in -1..5
      <4> HIDE DEF d
      <4>1. <<e>> \in Seq(LessonType)
        BY <1>1
      <4>2. WeekDay[d] \in 0..6
        BY <1>1, DatesAssumption
      <4> QED
        BY <4>1, <4>2
    <3>2. day = [date |-> d, type |-> WeekDay[d] - 1, weekNumber |-> n,
                 lessons |-> <<e>>]
      BY DEF OneDayExam, e
    <3> QED
      BY <1>1, <3>1, <3>2 DEF DayType, TypeOfDay
  <2> HIDE DEF r, o, u, day, e, w, n
  <2>6. o[u] \in WeekShape
    BY <2>4
  <2>7. o[u].days \in Seq(DayType)
    BY <2>6 DEF WeekShape
  <2>8. /\ Append(o[u].days, day) \in Seq(DayType)
        /\ DOMAIN Append(o[u].days, day) = DOMAIN o[u].days \cup {i}
        /\ i \notin DOMAIN o[u].days /\ Append(o[u].days, day)[i] = day
        /\ \A j \in DOMAIN o[u].days : Append(o[u].days, day)[j] = o[u].days[j]
    BY <2>5, <2>7
  <2>9. /\ week \in WeekShape /\ week.number = n
        /\ week.days = Append(o[u].days, day)
    BY <2>4, <2>6, <2>8 DEF WeekShape
  <2> HIDE DEF week, i
  <2>10. /\ r \in Seq(WeekShape) /\ DOMAIN r = DOMAIN o
         /\ \A v \in DOMAIN o : r[v] = IF v = u THEN week ELSE o[v]
    BY <2>3, <2>4, <2>9
  <2>11. IsDay(r, u, i) /\ r[u].days[i] = day /\ ~IsDay(ws, u, i)
    BY <2>4, <2>8, <2>9, <2>10 DEF IsDay
  <2>12. ASSUME NEW v, NEW j
         PROVE  /\ IsDay(ws, v, j) =>
                     IsDay(r, v, j) /\ r[v].days[j] = ws[v].days[j]
                /\ IsDay(r, v, j) => IsDay(ws, v, j) \/ (v = u /\ j = i)
    <3>1. CASE v = u
      <4>1. u \in DOMAIN r /\ r[u].days = Append(o[u].days, day)
        BY <2>4, <2>9, <2>10
      <4>2. IsDay(ws, u, j) => j \in DOMAIN o[u].days /\ o[u].days[j] = ws[u].days[j]
        BY <2>4 DEF IsDay
      <4>3. j \in DOMAIN o[u].days => IsDay(ws, u, j)
        BY <2>4 DEF IsDay
      <4>4. IsDay(r, u, j) => j \in DOMAIN o[u].days \/ j = i
        BY <2>8, <4>1 DEF IsDay
      <4>5. j \in DOMAIN o[u].days => IsDay(r, u, j) /\ r[u].days[j] = o[u].days[j]
        BY <2>8, <4>1 DEF IsDay
      <4> QED
        BY <3>1, <4>2, <4>3, <4>4, <4>5
    <3>2. CASE v # u
      BY <2>4, <2>10, <3>2 DEF IsDay
    <3> QED
      BY <3>1, <3>2
  <2>13. ASSUME NEW v, NEW j, NEW k, IsLesson(ws, v, j, k)
         PROVE  IsLesson(r, v, j, k)
                /\ Kept(ws[v].days[j].lessons[k], r[v].days[j].lessons[k])
    BY <2>12, <2>13 DEF IsLesson, Kept
  <2>14. ASSUME NEW v, NEW j, NEW k, IsLesson(r, v, j, k)
         PROVE  IsLesson(ws, v, j, k)
                \/ (v = u /\ j = i /\ r[u].days[i].lessons[k] = e)
    <3>1. CASE IsDay(ws, v, j)
      BY <2>12, <2>14, <3>1 DEF IsLesson
    <3>2. CASE v = u /\ j = i
      <4>1. k \in DOMAIN <<e>>
        BY <2>5, <2>11, <2>14, <3>2 DEF IsLesson
      <4>2. k = 1
        BY <4>1
      <4> QED
        BY <2>5, <2>11, <3>2, <4>2
    <3> QED
      BY <2>12, <2>14, <3>1, <3>2 DEF IsLesson
  <2>15. Adds(ws, r, u, i, e)
    <3>1. \A v \in DOMAIN ws : v \in DOMAIN r /\ r[v].number = ws[v].number
      BY <2>4, <2>9, <2>10
    <3>2. \A v \in DOMAIN r : v \in DOMAIN ws \/ v = u
      BY <2>4, <2>10
    <3> QED
      BY <1>1, <2>5, <2>10, <2>11, <2>12, <2>13, <2>14, <3>1, <3>2 DEF Adds
  <2>16. r[u].number = n
    BY <2>4, <2>9, <2>10
  <2>17. /\ IsLesson(r, u, i, 1) /\ ~IsLesson(ws, u, i, 1)
         /\ r[u].days[i].lessons[1] = e
         /\ \A m : IsLesson(r, u, i, m) => m = 1
    BY <2>5, <2>11 DEF IsLesson
  <2>18. OnlyAt(ws, r, u, i, 1)
    <3>1. ASSUME NEW v, NEW j, NEW m, IsLesson(ws, v, j, m)
          PROVE  r[v].days[j].lessons[m] = ws[v].days[j].lessons[m]
      BY <2>12, <3>1 DEF IsLesson
    <3> QED
      BY <2>14, <2>17, <3>1 DEF OnlyAt
  <2> QED
    BY <2>1, <2>4, <2>15, <2>16, <2>17, <2>18 DEF r, e, n
<1> QED
  BY <1>4, <1>5

-----------------------------------------------------------------------------
(* Where lessons come from: an exam has no row of raspzv, any other lesson *)
(* says what one of the rows says, and is in the week that the row names.  *)
MadeOf(ws, rs) ==
  \A v, j, k : IsLesson(ws, v, j, k) =>
    \/ ws[v].days[j].lessons[k].id = 0
    \/ \E m \in DOMAIN rs : /\ FromRow(ws[v].days[j].lessons[k], rs[m])
                           /\ rs[m].week = ws[v].number

(* What EveryRowShown says of one row.                                     *)
Stands(t, e, row) ==
  /\ e.date = row.date /\ e.slot = row.of.slot /\ e.hours = row.of.hours
  /\ e.lesson \in {NameOf(row.of), row.of.lesson}
  /\ row.of.stream = 0 => /\ e.teacher = OrUndefined(row.of.teacher)
                          /\ e.room = OrUndefined(row.of.room)
                          /\ t = "group" => e.id = row.of.id
Shown(t, ws, row) ==
  \E v, j, k : /\ IsLesson(ws, v, j, k) /\ ws[v].number = row.week
               /\ Stands(t, ws[v].days[j].lessons[k], row)

(* Until the first exam.                                                   *)
RowsOnly(ws) ==
  \A v, j, k : IsLesson(ws, v, j, k) => ws[v].days[j].lessons[k].id # 0

(* What opened each day, a row of its date and its week or an exam where   *)
(* there are no rows, and that all of them opened one.                     *)
Opened(ws, rs, xs) ==
  /\ \A v, j : IsDay(ws, v, j) =>
       \/ \E m \in DOMAIN rs :
            rs[m].date = ws[v].days[j].date /\ rs[m].week = ws[v].number
       \/ /\ \A m \in DOMAIN rs : rs[m].date # ws[v].days[j].date
          /\ ws[v].number = SemWeek[ws[v].days[j].date]
          /\ \E m \in DOMAIN xs : xs[m].date = ws[v].days[j].date
  /\ \A m \in DOMAIN rs : \E v, j :
       /\ IsDay(ws, v, j)
       /\ ws[v].days[j].date = rs[m].date /\ ws[v].number = rs[m].week
  /\ \A m \in DOMAIN xs : \E v, j :
       IsDay(ws, v, j) /\ ws[v].days[j].date = xs[m].date

TableInv ==
  /\ rType \in RTypes
  /\ rows \in Seq(RowShape)
  /\ exams \in Seq(ExamShape)
  /\ weeks \in Seq(WeekShape)
  /\ Once(weeks)
  /\ Opened(weeks, rows, exams)
  /\ exams = << >> => RowsOnly(weeks)
  /\ MadeOf(weeks, rows)
  /\ \A m \in DOMAIN rows : Shown(rType, weeks, rows[m])

(* What is added keeps the origin of every lesson if it has one itself.    *)
LEMMA MadeKept ==
  ASSUME NEW ws, NEW r, NEW w, NEW i, NEW e, NEW rs, NEW qs,
         Adds(ws, r, w, i, e), MadeOf(ws, rs),
         \A m \in DOMAIN rs : m \in DOMAIN qs /\ qs[m] = rs[m],
         e.id = 0 \/ \E m \in DOMAIN qs : /\ FromRow(e, qs[m])
                                         /\ qs[m].week = r[w].number
  PROVE  MadeOf(r, qs)
<1> SUFFICES ASSUME NEW v, NEW j, NEW k, IsLesson(r, v, j, k)
             PROVE  LET f == r[v].days[j].lessons[k]
                    IN  \/ f.id = 0
                        \/ \E m \in DOMAIN qs : /\ FromRow(f, qs[m])
                                               /\ qs[m].week = r[v].number
  BY DEF MadeOf
<1> DEFINE f == r[v].days[j].lessons[k]
           f0 == ws[v].days[j].lessons[k]
<1>1. CASE IsLesson(ws, v, j, k)
  <2>1. Kept(f0, f) /\ r[v].number = ws[v].number
    BY <1>1 DEF Adds, IsLesson, IsDay
  <2>2. CASE f0.id = 0
    BY <2>1, <2>2 DEF Kept
  <2>3. CASE \E m \in DOMAIN rs : FromRow(f0, rs[m]) /\ rs[m].week = ws[v].number
    <3>1. PICK m \in DOMAIN rs : FromRow(f0, rs[m]) /\ rs[m].week = ws[v].number
      BY <2>3
    <3>2. FromRow(f, rs[m])
      BY <2>1, <3>1 DEF Kept, FromRow
    <3> QED
      BY <2>1, <3>1, <3>2
  <2> QED
    BY <1>1, <2>2, <2>3 DEF MadeOf
<1>2. CASE v = w /\ j = i /\ r[w].days[i].lessons[k] = e
  BY <1>2
<1> QED
  BY <1>1, <1>2 DEF Adds

(* What is added hides no row that was shown.                              *)
LEMMA ShownKept ==
  ASSUME NEW ws, NEW r, NEW w, NEW i, NEW e, NEW row, NEW t,
         Adds(ws, r, w, i, e), Shown(t, ws, row)
  PROVE  Shown(t, r, row)
<1>1. PICK v, j, k : /\ IsLesson(ws, v, j, k) /\ ws[v].number = row.week
                     /\ Stands(t, ws[v].days[j].lessons[k], row)
  BY DEF Shown
<1>2. /\ IsLesson(r, v, j, k) /\ r[v].number = row.week
      /\ Kept(ws[v].days[j].lessons[k], r[v].days[j].lessons[k])
  BY <1>1 DEF Adds, IsLesson, IsDay
<1>3. Stands(t, r[v].days[j].lessons[k], row)
  BY <1>1, <1>2 DEF Kept, Stands
<1> QED
  BY <1>2, <1>3 DEF Shown

(* The pairs of raspzv start at different times.                           *)
LEMMA StartsDiffer ==
  ASSUME NEW m \in DOMAIN Bell, NEW n \in DOMAIN Bell,
         Bell[m].start = Bell[n].start
  PROVE  m = n
<1>1. m \in Nat /\ n \in Nat
  BY BellsAssumption
<1>2. ASSUME NEW a \in DOMAIN Bell, NEW b \in DOMAIN Bell, a < b
      PROVE  Bell[a].start < Bell[b].start
  <2>1. /\ Bell[a] \in [start : Nat, end : 0..(DayMinutes - 1)]
        /\ Bell[b] \in [start : Nat, end : 0..(DayMinutes - 1)]
        /\ Bell[a].start < Bell[a].end /\ Bell[a].end < Bell[b].start
    BY <1>2, BellsAssumption
  <2>2. Bell[a].start \in Nat /\ Bell[a].end \in Int /\ Bell[b].start \in Nat
    BY <2>1
  <2> QED
    BY <2>1, <2>2
<1>3. CASE m < n
  <2>1. Bell[m].start < Bell[n].start
    BY <1>2, <1>3
  <2>2. Bell[m].start \in Nat
    BY BellsAssumption
  <2> QED
    BY <2>1, <2>2
<1>4. CASE n < m
  <2>1. Bell[n].start < Bell[m].start
    BY <1>2, <1>4
  <2>2. Bell[m].start \in Nat
    BY BellsAssumption
  <2> QED
    BY <2>1, <2>2
<1> QED
  BY <1>1, <1>3, <1>4

(* A lesson that a row of the same day is merged into stands for it.       *)
LEMMA MergedStands ==
  ASSUME rType \in RTypes, NEW row \in RowShape, NEW made \in RowShape,
         NEW e, FromRow(e, made), Merges(e, row), e.date = row.date
  PROVE  Stands(rType, e, row)
<1> DEFINE x == row.of
           y == made.of
<1>1. /\ x \in Trainings[rType] /\ y \in Trainings[rType]
      /\ x \in Training /\ y \in Training
  BY TrainingsAssumption DEF RowShape
<1>2. x.slot \in DOMAIN Bell /\ y.slot \in DOMAIN Bell
  BY <1>1 DEF Training
<1>3. CASE x.stream # 0 /\ e.id = x.stream
  <2>1. /\ x.slot = y.slot /\ x.hours = y.hours /\ x.lesson = y.lesson
        /\ x.typed = y.typed /\ x.info = y.info
    <3>1. x.stream = y.id
      BY <1>3 DEF FromRow
    <3> HIDE DEF x, y
    <3> QED
      BY <1>1, <3>1, StreamsAssumption
  <2>2. e.slot = x.slot /\ e.hours = x.hours /\ e.lesson = NameOf(x)
    BY <2>1 DEF FromRow, NameOf
  <2> QED
    BY <1>3, <2>2 DEF Stands
<1>4. CASE SameSlot(e, row) /\ ~(x.stream # 0 /\ e.id = x.stream)
  <2>1. x.slot = y.slot
    BY <1>2, <1>4, StartsDiffer DEF SameSlot, FromRow
  <2>2. e.slot = x.slot /\ e.hours = x.hours
    BY <1>4, <2>1 DEF SameSlot, FromRow
  <2>3. e.lesson = x.lesson /\ (x.stream = 0 => rType # "group")
    BY <1>4 DEF SameSlot, Merges
  <2>4. e.teacher = OrUndefined(x.teacher) /\ e.room = OrUndefined(x.room)
    BY <1>4 DEF SameSlot, FromRow, OrUndefined
  <2> QED
    BY <2>2, <2>3, <2>4 DEF Stands
<1> QED
  BY <1>3, <1>4 DEF Merges

-----------------------------------------------------------------------------
LEMMA TableInit == Init => TableInv
<1> SUFFICES ASSUME Init PROVE TableInv
  OBVIOUS
<1>1. rType \in RTypes /\ rows = << >> /\ exams = << >> /\ weeks = << >>
  BY DEF Init
<1>2. rows \in Seq(RowShape) /\ weeks \in Seq(WeekShape)
  BY <1>1
<1>3. DOMAIN rows = {} /\ DOMAIN weeks = {}
  BY <1>1
<1>4. \A v, j, k : ~IsDay(weeks, v, j) /\ ~IsLesson(weeks, v, j, k)
  BY <1>3 DEF IsDay, IsLesson
<1>5. /\ Once(weeks) /\ RowsOnly(weeks) /\ MadeOf(weeks, rows)
      /\ Opened(weeks, rows, exams)
  BY <1>1, <1>3, <1>4 DEF Once, RowsOnly, MadeOf, Opened
<1> QED
  BY <1>1, <1>2, <1>3, <1>5 DEF TableInv

LEMMA RowStep ==
  ASSUME TableInv, NEW d \in Dates, NEW x \in Trainings[rType],
         NEW n \in Weeks[d], createWeek(Row(d, n, x))
  PROVE  TableInv'
<1> DEFINE row == Row(d, n, x)
<1>1. row \in RowShape /\ row.date = d
  BY DatesAssumption DEF Row, RowShape
<1> HIDE DEF row
<1>2. /\ rType \in RTypes /\ rows \in Seq(RowShape) /\ weeks \in Seq(WeekShape)
      /\ Once(weeks) /\ Opened(weeks, rows, exams) /\ RowsOnly(weeks)
      /\ MadeOf(weeks, rows) /\ exams = << >>
  BY DEF TableInv, createWeek
<1>3. /\ rows' = Append(rows, row) /\ weeks' = WithRow(weeks, row)
      /\ rType' = rType /\ exams' = exams
  BY DEF createWeek, row
<1>4. RowShape' = RowShape
  BY <1>3 DEF RowShape
<1>5. PICK w, i :
        /\ Adds(weeks, weeks', w, i, Lesson(row)) /\ weeks'[w].number = row.week
        /\ w \notin DOMAIN weeks =>
             \A v \in DOMAIN weeks : weeks[v].number # row.week
        /\ w \in DOMAIN weeks /\ ~IsDay(weeks, w, i) =>
             \A j \in DOMAIN weeks[w].days : weeks[w].days[j].date # row.date
        /\ \E k : OnlyAt(weeks, weeks', w, i, k)
                  /\ RowPut(weeks, weeks', w, i, k, row)
  <2> DEFINE r == WithRow(weeks, row)
  <2>1. \E w, i :
          /\ Adds(weeks, r, w, i, Lesson(row)) /\ r[w].number = row.week
          /\ w \notin DOMAIN weeks =>
               \A v \in DOMAIN weeks : weeks[v].number # row.week
          /\ w \in DOMAIN weeks /\ ~IsDay(weeks, w, i) =>
               \A j \in DOMAIN weeks[w].days : weeks[w].days[j].date # row.date
          /\ \E k : OnlyAt(weeks, r, w, i, k) /\ RowPut(weeks, r, w, i, k, row)
    BY <1>1, <1>2, RowAdds
  <2>2. weeks' = r
    BY <1>3
  <2> HIDE DEF r
  <2> QED
    BY <2>1, <2>2
<1>6. FromRow(Lesson(row), row) /\ row.of.id # 0
  BY <1>1, <1>2, LessonMade
<1>7. Lesson(row).date = row.date /\ Lesson(row).id # 0
  BY <1>6 DEF FromRow
<1>8. /\ DOMAIN rows' = DOMAIN rows \cup {Len(rows) + 1}
      /\ rows'[Len(rows) + 1] = row
      /\ \A m \in DOMAIN rows : m \in DOMAIN rows' /\ rows'[m] = rows[m]
      /\ rows' \in Seq(RowShape)
  BY <1>1, <1>2, <1>3
<1>9. weeks' \in Seq(WeekShape)
  BY <1>5 DEF Adds
<1>10. Opened(weeks', rows', exams')
  <2>1. DOMAIN exams' = {}
    BY <1>2, <1>3
  <2>2. /\ IsDay(weeks', w, i) /\ weeks'[w].days[i].date = row.date
        /\ weeks'[w].number = row.week
    BY <1>5, <1>7 DEF Adds
  <2>3. ASSUME NEW v, NEW j, IsDay(weeks, v, j)
        PROVE  /\ IsDay(weeks', v, j) /\ weeks'[v].number = weeks[v].number
               /\ weeks'[v].days[j].date = weeks[v].days[j].date
    BY <1>5, <2>3 DEF Adds, IsDay
  <2>4. ASSUME NEW v, NEW j, IsDay(weeks', v, j)
        PROVE  \E m \in DOMAIN rows' : /\ rows'[m].date = weeks'[v].days[j].date
                                       /\ rows'[m].week = weeks'[v].number
    <3>1. CASE IsDay(weeks, v, j)
      <4>1. \E m \in DOMAIN rows : /\ rows[m].date = weeks[v].days[j].date
                                   /\ rows[m].week = weeks[v].number
        BY <1>2, <1>3, <2>1, <3>1 DEF Opened
      <4> QED
        BY <1>8, <2>3, <3>1, <4>1
    <3>2. CASE v = w /\ j = i
      BY <1>8, <2>2, <3>2
    <3> QED
      BY <1>5, <2>4, <3>1, <3>2 DEF Adds
  <2>5. ASSUME NEW m \in DOMAIN rows'
        PROVE  \E v, j : /\ IsDay(weeks', v, j)
                         /\ weeks'[v].days[j].date = rows'[m].date
                         /\ weeks'[v].number = rows'[m].week
    <3>1. CASE m \in DOMAIN rows
      <4>1. PICK v, j : /\ IsDay(weeks, v, j)
                        /\ weeks[v].days[j].date = rows[m].date
                        /\ weeks[v].number = rows[m].week
        BY <1>2, <3>1 DEF Opened
      <4> QED
        BY <1>8, <2>3, <3>1, <4>1
    <3> QED
      BY <1>8, <2>2, <3>1
  <2> QED
    BY <2>1, <2>4, <2>5 DEF Opened
<1>11. Once(weeks')
  <2>1. ~IsDay(weeks, w, i) =>
          \A j : IsDay(weeks, w, j) => weeks[w].days[j].date # Lesson(row).date
    BY <1>5, <1>7 DEF IsDay
  <2>2. w \notin DOMAIN weeks =>
          \A v \in DOMAIN weeks : weeks[v].number # weeks'[w].number
    BY <1>5
  <2> QED
    BY <1>2, <1>5, <2>1, <2>2, OnceKept
<1>12. RowsOnly(weeks')
  <2>1. ASSUME NEW v, NEW j, NEW k, IsLesson(weeks', v, j, k)
        PROVE  weeks'[v].days[j].lessons[k].id # 0
    <3>1. CASE IsLesson(weeks, v, j, k)
      <4>1. weeks[v].days[j].lessons[k].id # 0
        BY <1>2, <3>1 DEF RowsOnly
      <4>2. Kept(weeks[v].days[j].lessons[k], weeks'[v].days[j].lessons[k])
        BY <1>5, <3>1 DEF Adds
      <4> QED
        BY <4>1, <4>2 DEF Kept
    <3>2. CASE v = w /\ j = i /\ weeks'[w].days[i].lessons[k] = Lesson(row)
      BY <1>7, <3>2
    <3> QED
      BY <1>5, <2>1, <3>1, <3>2 DEF Adds
  <2> QED
    BY <2>1 DEF RowsOnly
<1>13. MadeOf(weeks', rows')
  <2>1. \E m \in DOMAIN rows' : /\ FromRow(Lesson(row), rows'[m])
                               /\ rows'[m].week = weeks'[w].number
    BY <1>5, <1>6, <1>8
  <2> QED
    BY <1>2, <1>5, <1>8, <2>1, MadeKept
<1>14. Shown(rType, weeks', row)
  <2>1. CASE \E k : IsLesson(weeks', w, i, k)
                    /\ weeks'[w].days[i].lessons[k] = Lesson(row)
    BY <1>5, <1>6, <2>1 DEF Shown, Stands, FromRow
  <2>2. CASE \E k : IsLesson(weeks, w, i, k)
                    /\ Merges(weeks[w].days[i].lessons[k], row)
    <3>1. PICK k : IsLesson(weeks, w, i, k)
                   /\ Merges(weeks[w].days[i].lessons[k], row)
      BY <2>2
    <3> DEFINE e == weeks[w].days[i].lessons[k]
    <3>2. PICK m \in DOMAIN rows : FromRow(e, rows[m])
      BY <1>2, <3>1 DEF MadeOf, RowsOnly
    <3>3. rows[m] \in RowShape
      BY <1>2, <3>2
    <3>4. e.date = row.date
      <4>1. IsDay(weeks, w, i) /\ e.date = weeks[w].days[i].date
        BY <1>2, <3>1 DEF Once, IsLesson
      <4>2. /\ weeks'[w].days[i].date = weeks[w].days[i].date
            /\ weeks'[w].days[i].date = row.date
        BY <1>5, <1>7, <4>1 DEF Adds
      <4> QED
        BY <4>1, <4>2
    <3> HIDE DEF e
    <3>5. Stands(rType, e, row)
      BY <1>1, <1>2, <3>1, <3>2, <3>3, <3>4, MergedStands DEF e
    <3>6. Shown(rType, weeks, row)
      <4>1. weeks[w].number = row.week
        BY <1>5, <3>1 DEF Adds, IsLesson, IsDay
      <4> QED
        BY <3>1, <3>5, <4>1 DEF Shown, e
    <3> QED
      BY <1>5, <3>6, ShownKept
  <2> QED
    BY <1>5, <2>1, <2>2 DEF RowPut, OnlyAt
<1>15. \A m \in DOMAIN rows' : Shown(rType, weeks', rows'[m])
  <2>1. ASSUME NEW m \in DOMAIN rows PROVE Shown(rType, weeks', rows[m])
    <3>1. Shown(rType, weeks, rows[m])
      BY DEF TableInv
    <3> QED
      BY <1>5, <3>1, ShownKept
  <2> QED
    BY <1>8, <1>14, <2>1
<1> QED
  BY <1>2, <1>3, <1>4, <1>8, <1>9, <1>10, <1>11, <1>12, <1>13, <1>15 DEF TableInv

LEMMA ExamStep ==
  ASSUME TableInv, NEW d \in Dates, NEW g \in Examined,
         injectExams(Exam(d, g))
  PROVE  TableInv'
<1> DEFINE exam == Exam(d, g)
<1>1. exam \in ExamShape /\ exam.date = d
  BY DatesAssumption DEF Exam, ExamShape
<1> HIDE DEF exam
<1>2. /\ rType \in RTypes /\ rows \in Seq(RowShape) /\ weeks \in Seq(WeekShape)
      /\ Once(weeks) /\ Opened(weeks, rows, exams) /\ MadeOf(weeks, rows)
      /\ exams \in Seq(ExamShape)
  BY DEF TableInv
<1>3. /\ exams' = Append(exams, exam) /\ weeks' = WithExam(weeks, exam)
      /\ rType' = rType /\ rows' = rows
  BY DEF injectExams, exam
<1>4. RowShape' = RowShape
  BY <1>3 DEF RowShape
<1>5. /\ ExamLesson(exam).id = 0 /\ ExamLesson(exam).date = d
  BY <1>1, <1>2, ExamMade
<1>6. PICK w, i :
        /\ Adds(weeks, weeks', w, i, ExamLesson(exam))
        /\ w \notin DOMAIN weeks =>
             \A v \in DOMAIN weeks : weeks[v].number # weeks'[w].number
        /\ ~IsDay(weeks, w, i) =>
             /\ \A v, j : IsDay(weeks, v, j) => weeks[v].days[j].date # exam.date
             /\ weeks'[w].number = SemWeek[exam.date]
  <2> DEFINE r == WithExam(weeks, exam)
  <2>1. \E w, i :
          /\ Adds(weeks, r, w, i, ExamLesson(exam))
          /\ w \notin DOMAIN weeks =>
               \A v \in DOMAIN weeks : weeks[v].number # r[w].number
          /\ ~IsDay(weeks, w, i) =>
               /\ \A v, j : IsDay(weeks, v, j) => weeks[v].days[j].date # exam.date
               /\ r[w].number = SemWeek[exam.date]
    BY <1>1, <1>2, ExamAdds
  <2>2. weeks' = r
    BY <1>3
  <2> HIDE DEF r
  <2> QED
    BY <2>1, <2>2
<1>7. /\ exams' # << >> /\ exams' \in Seq(ExamShape)
      /\ DOMAIN exams' = DOMAIN exams \cup {Len(exams) + 1}
      /\ exams'[Len(exams) + 1] = exam
      /\ \A m \in DOMAIN exams : m \in DOMAIN exams' /\ exams'[m] = exams[m]
  BY <1>1, <1>2, <1>3
<1>8. weeks' \in Seq(WeekShape)
  BY <1>6 DEF Adds
<1>9. Once(weeks')
  BY <1>1, <1>2, <1>5, <1>6, OnceKept
<1>10. MadeOf(weeks', rows')
  BY <1>2, <1>3, <1>5, <1>6, MadeKept
<1>11. \A m \in DOMAIN rows : Shown(rType, weeks', rows[m])
  BY <1>6, ShownKept DEF TableInv
<1>12. Opened(weeks', rows', exams')
  <2>1. ASSUME NEW v, NEW j, IsDay(weeks, v, j)
        PROVE  /\ IsDay(weeks', v, j) /\ weeks'[v].number = weeks[v].number
               /\ weeks'[v].days[j].date = weeks[v].days[j].date
    BY <1>6, <2>1 DEF Adds, IsDay
  <2>2. IsDay(weeks', w, i) /\ weeks'[w].days[i].date = exam.date
    BY <1>1, <1>5, <1>6 DEF Adds
  <2>3. ASSUME NEW v, NEW j, IsDay(weeks', v, j)
        PROVE  \/ \E m \in DOMAIN rows : /\ rows[m].date = weeks'[v].days[j].date
                                         /\ rows[m].week = weeks'[v].number
               \/ /\ \A m \in DOMAIN rows : rows[m].date # weeks'[v].days[j].date
                  /\ weeks'[v].number = SemWeek[weeks'[v].days[j].date]
                  /\ \E m \in DOMAIN exams' :
                       exams'[m].date = weeks'[v].days[j].date
    <3>1. CASE IsDay(weeks, v, j)
      <4>1. \/ \E m \in DOMAIN rows : /\ rows[m].date = weeks[v].days[j].date
                                      /\ rows[m].week = weeks[v].number
            \/ /\ \A m \in DOMAIN rows : rows[m].date # weeks[v].days[j].date
               /\ weeks[v].number = SemWeek[weeks[v].days[j].date]
               /\ \E m \in DOMAIN exams : exams[m].date = weeks[v].days[j].date
        BY <1>2, <3>1 DEF Opened
      <4>2. /\ weeks'[v].number = weeks[v].number
            /\ weeks'[v].days[j].date = weeks[v].days[j].date
        BY <2>1, <3>1
      <4> QED
        BY <1>7, <4>1, <4>2
    <3>2. CASE v = w /\ j = i /\ ~IsDay(weeks, w, i)
      <4>1. \A m \in DOMAIN rows : rows[m].date # exam.date
        BY <1>2, <1>6, <3>2 DEF Opened
      <4>2. \E m \in DOMAIN exams' : exams'[m].date = exam.date
        BY <1>7
      <4> QED
        BY <1>6, <2>2, <3>2, <4>1, <4>2
    <3> QED
      BY <1>6, <2>3, <3>1, <3>2 DEF Adds
  <2>4. ASSUME NEW m \in DOMAIN rows
        PROVE  \E v, j : /\ IsDay(weeks', v, j)
                         /\ weeks'[v].days[j].date = rows[m].date
                         /\ weeks'[v].number = rows[m].week
    <3>1. PICK v, j : /\ IsDay(weeks, v, j)
                      /\ weeks[v].days[j].date = rows[m].date
                      /\ weeks[v].number = rows[m].week
      BY <1>2 DEF Opened
    <3> QED
      BY <2>1, <3>1
  <2>5. ASSUME NEW m \in DOMAIN exams'
        PROVE  \E v, j : /\ IsDay(weeks', v, j)
                         /\ weeks'[v].days[j].date = exams'[m].date
    <3>1. CASE m \in DOMAIN exams
      <4>1. PICK v, j : /\ IsDay(weeks, v, j)
                        /\ weeks[v].days[j].date = exams[m].date
        BY <1>2, <3>1 DEF Opened
      <4> QED
        BY <1>7, <2>1, <3>1, <4>1
    <3> QED
      BY <1>7, <2>2, <3>1
  <2> QED
    BY <1>3, <2>3, <2>4, <2>5 DEF Opened
<1> QED
  BY <1>2, <1>3, <1>4, <1>7, <1>8, <1>9, <1>10, <1>11, <1>12 DEF TableInv

LEMMA TableStep == TableInv /\ [Next]_vars => TableInv'
<1> SUFFICES ASSUME TableInv, [Next]_vars PROVE TableInv'
  OBVIOUS
<1>1. ASSUME NEW d \in Dates, NEW x \in Trainings[rType], NEW n \in Weeks[d],
             createWeek(Row(d, n, x))
      PROVE  TableInv'
  BY <1>1, RowStep
<1>2. ASSUME NEW d \in Dates, NEW g \in Examined, injectExams(Exam(d, g))
      PROVE  TableInv'
  BY <1>2, ExamStep
<1>3. CASE UNCHANGED vars
  BY <1>3 DEF TableInv, RowShape, vars
<1> QED
  BY <1>1, <1>2, <1>3 DEF Next

LEMMA TableHolds == Spec => []TableInv
  BY TableInit, TableStep, PTL DEF Spec

(* The positions the properties speak of.                                  *)
LEMMA Places ==
  /\ \A p \in DayPlaces : p = <<p[1], p[2]>> /\ IsDay(weeks, p[1], p[2])
  /\ \A v, j : IsDay(weeks, v, j) => <<v, j>> \in DayPlaces
  /\ \A p \in LessonPlaces :
       p = <<p[1], p[2], p[3]>> /\ IsLesson(weeks, p[1], p[2], p[3])
  /\ \A v, j, k : IsLesson(weeks, v, j, k) => <<v, j, k>> \in LessonPlaces
<1>1. \A p \in DayPlaces : p = <<p[1], p[2]>> /\ IsDay(weeks, p[1], p[2])
  BY DEF DayPlaces, IsDay
<1>2. \A v, j : IsDay(weeks, v, j) => <<v, j>> \in DayPlaces
  BY DEF DayPlaces, IsDay
<1>3. \A p \in LessonPlaces :
        p = <<p[1], p[2], p[3]>> /\ IsLesson(weeks, p[1], p[2], p[3])
  BY <1>1 DEF LessonPlaces, DayIn, IsLesson
<1>4. ASSUME NEW v, NEW j, NEW k, IsLesson(weeks, v, j, k)
      PROVE  <<v, j, k>> \in LessonPlaces
  <2>1. <<v, j>> \in DayPlaces /\ k \in DOMAIN DayIn(<<v, j>>).lessons
    BY <1>2, <1>4 DEF IsLesson, DayIn
  <2> QED
    BY <2>1 DEF LessonPlaces
<1> QED
  BY <1>1, <1>2, <1>3, <1>4

(* The weeks that show a day are those its rows number it with, and each   *)
(* shows it once; exams open a day only where there are no rows: for any   *)
(* rows, exams, dates and numberings, also of one day more than once.      *)
THEOREM DaysShown == Spec => []DaysAsNumbered
<1>1. TableInv => DaysAsNumbered
  <2> SUFFICES ASSUME Once(weeks), Opened(weeks, rows, exams)
               PROVE  DaysAsNumbered
    BY DEF TableInv
  <2>1. ASSUME NEW p \in DayPlaces, NEW q \in DayPlaces,
               p[1] = q[1], DayIn(p).date = DayIn(q).date
        PROVE  p = q
    <3>1. /\ p = <<p[1], p[2]>> /\ IsDay(weeks, p[1], p[2])
          /\ q = <<q[1], q[2]>> /\ IsDay(weeks, q[1], q[2])
      BY Places
    <3>2. p[2] = q[2]
      BY <2>1, <3>1 DEF Once, DayIn
    <3> QED
      BY <2>1, <3>1, <3>2
  <2>2. ASSUME NEW p \in LessonPlaces
        PROVE  LessonIn(p).date = DayIn(<<p[1], p[2]>>).date
    BY Places DEF Once, LessonIn, DayIn
  <2>3. \A d, n : n \in WeeksWith(d) <=>
          \E v, j : /\ IsDay(weeks, v, j) /\ weeks[v].days[j].date = d
                    /\ weeks[v].number = n
    <3> TAKE d, n
    <3>1. ASSUME NEW v, NEW j, IsDay(weeks, v, j), weeks[v].days[j].date = d,
                 weeks[v].number = n
          PROVE  n \in WeeksWith(d)
      <4>1. <<v, j>> \in {q \in DayPlaces : DayIn(q).date = d}
        BY <3>1, Places DEF DayIn
      <4> QED
        BY <3>1, <4>1 DEF WeeksWith
    <3>2. ASSUME n \in WeeksWith(d)
          PROVE  \E v, j : /\ IsDay(weeks, v, j) /\ weeks[v].days[j].date = d
                           /\ weeks[v].number = n
      <4>1. PICK q \in DayPlaces : DayIn(q).date = d /\ n = weeks[q[1]].number
        BY <3>2 DEF WeeksWith
      <4> QED
        BY <4>1, Places DEF DayIn
    <3> QED
      BY <3>1, <3>2
  <2>4. \A d, n : n \in WeeksOfRows(d) <=>
          \E m \in DOMAIN rows : rows[m].date = d /\ rows[m].week = n
    BY DEF WeeksOfRows
  <2>5. ASSUME NEW d \in Dates, WeeksOfRows(d) # {}
        PROVE  WeeksWith(d) = WeeksOfRows(d)
    <3>1. \A n : n \in WeeksWith(d) <=> n \in WeeksOfRows(d)
      BY <2>3, <2>4, <2>5 DEF Opened
    <3> QED
      BY <3>1
  <2>6. ASSUME NEW d \in Dates, WeeksOfRows(d) = {}
        PROVE  WeeksWith(d) =
                 {SemWeek[d] : i \in {j \in DOMAIN exams : exams[j].date = d}}
    <3>1. \A m \in DOMAIN rows : rows[m].date # d
      BY <2>4, <2>6
    <3>2. \A n : n \in WeeksWith(d) <=>
                   n = SemWeek[d] /\ \E m \in DOMAIN exams : exams[m].date = d
      BY <2>3, <3>1 DEF Opened
    <3> QED
      BY <3>2
  <2> QED
    BY <2>1, <2>2, <2>5, <2>6 DEF DaysAsNumbered, Once
<1> QED
  BY <1>1, TableHolds, PTL

(* Merging loses no row, however the streams, the look-alikes and the rows *)
(* between them fall.                                                      *)
THEOREM NoRowLost == Spec => []EveryRowShown
<1>1. TableInv => EveryRowShown
  <2> SUFFICES ASSUME TableInv, NEW m \in DOMAIN rows
               PROVE  \E p \in LessonPlaces : /\ weeks[p[1]].number = rows[m].week
                                              /\ Stands(rType, LessonIn(p), rows[m])
    BY DEF EveryRowShown, Stands
  <2>1. PICK v, j, k : /\ IsLesson(weeks, v, j, k) /\ weeks[v].number = rows[m].week
                       /\ Stands(rType, weeks[v].days[j].lessons[k], rows[m])
    BY DEF TableInv, Shown
  <2>2. <<v, j, k>> \in LessonPlaces
    BY <2>1, Places
  <2>3. Stands(rType, LessonIn(<<v, j, k>>), rows[m])
    BY <2>1 DEF LessonIn
  <2> QED
    BY <2>1, <2>2, <2>3
<1> QED
  BY <1>1, TableHolds, PTL

(* The parity shown with a lesson holds of every week it is shown in.      *)
THEOREM ParityIsTrue == Spec => []ParityHolds
<1>1. TableInv => ParityHolds
  <2> SUFFICES ASSUME TableInv, NEW p \in LessonPlaces, LessonIn(p).id # 0
               PROVE
                 /\ parityOnWeek(LessonIn(p).id) = "odd" =>
                      IsOdd(weeks[p[1]].number)
                 /\ parityOnWeek(LessonIn(p).id) = "even" =>
                      ~IsOdd(weeks[p[1]].number)
    BY DEF ParityHolds
  <2> DEFINE id == LessonIn(p).id
             n == weeks[p[1]].number
             total == {i \in DOMAIN rows : rows[i].of.id = id}
             odd == {i \in total : IsOdd(rows[i].week)}
  <2>1. IsLesson(weeks, p[1], p[2], p[3])
    BY Places
  <2>2. PICK m \in DOMAIN rows : FromRow(LessonIn(p), rows[m]) /\ rows[m].week = n
    <3> DEFINE e == weeks[p[1]].days[p[2]].lessons[p[3]]
    <3>1. MadeOf(weeks, rows) /\ e = LessonIn(p)
      BY DEF TableInv, LessonIn
    <3>2. e.id = 0 \/ \E m \in DOMAIN rows : FromRow(e, rows[m]) /\ rows[m].week = n
      BY <2>1, <3>1 DEF MadeOf
    <3> HIDE DEF e
    <3> QED
      BY <3>1, <3>2
  <2>3. m \in total
    BY <2>2 DEF FromRow
  <2>4. parityOnWeek(id) = CASE odd = total -> "odd"
                             [] odd = {} /\ total # {} -> "even"
                             [] OTHER -> "custom"
    BY DEF parityOnWeek
  <2>5. odd = total => IsOdd(n)
    BY <2>2, <2>3
  <2>6. odd = {} => ~IsOdd(n)
    BY <2>2, <2>3
  <2> HIDE DEF id, n, total, odd
  <2>7. parityOnWeek(id) = "odd" => odd = total
    BY <2>4
  <2>8. parityOnWeek(id) = "even" => odd = {}
    BY <2>3, <2>4
  <2> QED
    BY <2>5, <2>6, <2>7, <2>8 DEF id, n
<1> QED
  BY <1>1, TableHolds, PTL
=============================================================================
