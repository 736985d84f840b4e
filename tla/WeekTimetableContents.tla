----------------------- MODULE WeekTimetableContents -----------------------
(***************************************************************************)
(* Proofs of what the lessons and days of an assembled timetable hold, for *)
(* any dates, rows and exams: which rows become one lesson, which groups a *)
(* lesson names and how often. WeekTimetableProofs says where a round of   *)
(* either loop puts something; here is what it puts there. ContentsInv is  *)
(* one conjunct for each property, each kept by RowRound and by ExamRound. *)
(***************************************************************************)
EXTENDS WeekTimetableProofs, SequenceLemmas

(* The lesson at a place.                                                  *)
At3(ws, w, i, k) == ws[w].days[i].lessons[k]

(* A round of createWeek: the row's lesson, or its group, is at (w, i, k). *)
RowRound(ws, r, w, i, k, row) ==
  /\ Adds(ws, r, w, i, Lesson(row)) /\ r[w].number = row.week
  /\ OnlyAt(ws, r, w, i, k) /\ RowPut(ws, r, w, i, k, row)

(* A round of injectExams: the exam is at (w, i, k).                       *)
ExamRound(ws, r, w, i, k, exam) ==
  /\ Adds(ws, r, w, i, ExamLesson(exam))
  /\ ~IsDay(ws, w, i) => r[w].number = SemWeek[exam.date]
  /\ OnlyAt(ws, r, w, i, k) /\ ~IsLesson(ws, w, i, k)
  /\ At3(r, w, i, k) = ExamLesson(exam)

-----------------------------------------------------------------------------
(* Every iteration of createWeek is a RowRound.                            *)
LEMMA RowRounds ==
  ASSUME TableInv, NEW d \in Dates, NEW x \in Trainings[rType],
         NEW n \in Weeks[d], createWeek(Row(d, n, x))
  PROVE  /\ Row(d, n, x) \in RowShape
         /\ Row(d, n, x).date = d /\ Row(d, n, x).of = x /\ Row(d, n, x).week = n
         /\ \E w, i, k : RowRound(weeks, weeks', w, i, k, Row(d, n, x))
<1> DEFINE row == Row(d, n, x)
<1>1. row \in RowShape /\ row.date = d /\ row.of = x /\ row.week = n
  BY DatesAssumption DEF Row, RowShape
<1>2. weeks' = WithRow(weeks, row) /\ rType \in RTypes /\ weeks \in Seq(WeekShape)
  BY DEF createWeek, TableInv
<1> DEFINE r == WithRow(weeks, row)
<1> HIDE DEF row
<1>3. \E w, i :
        /\ Adds(weeks, r, w, i, Lesson(row)) /\ r[w].number = row.week
        /\ w \notin DOMAIN weeks =>
             \A v \in DOMAIN weeks : weeks[v].number # row.week
        /\ w \in DOMAIN weeks /\ ~IsDay(weeks, w, i) =>
             \A j \in DOMAIN weeks[w].days : weeks[w].days[j].date # row.date
        /\ \E k : OnlyAt(weeks, r, w, i, k) /\ RowPut(weeks, r, w, i, k, row)
  BY <1>1, <1>2, RowAdds
<1> HIDE DEF r
<1>4. \E w, i, k : RowRound(weeks, r, w, i, k, row)
  BY <1>3 DEF RowRound
<1> QED
  BY <1>1, <1>2, <1>4 DEF r, row

(* Every iteration of injectExams is an ExamRound.                         *)
LEMMA ExamRounds ==
  ASSUME TableInv, NEW d \in Dates, NEW g \in Examined, injectExams(Exam(d, g))
  PROVE  /\ Exam(d, g) \in ExamShape
         /\ Exam(d, g).date = d /\ Exam(d, g).group = g
         /\ \E w, i, k : ExamRound(weeks, weeks', w, i, k, Exam(d, g))
<1> DEFINE exam == Exam(d, g)
<1>1. exam \in ExamShape /\ exam.date = d /\ exam.group = g
  BY DatesAssumption DEF Exam, ExamShape
<1>2. /\ weeks' = WithExam(weeks, exam) /\ rType \in RTypes
      /\ weeks \in Seq(WeekShape) /\ Once(weeks)
  BY DEF injectExams, TableInv
<1> DEFINE r == WithExam(weeks, exam)
<1> HIDE DEF exam
<1>3. \E w, i :
        /\ Adds(weeks, r, w, i, ExamLesson(exam))
        /\ w \notin DOMAIN weeks =>
             \A v \in DOMAIN weeks : weeks[v].number # r[w].number
        /\ ~IsDay(weeks, w, i) =>
             /\ \A v, j : IsDay(weeks, v, j) => weeks[v].days[j].date # exam.date
             /\ r[w].number = SemWeek[exam.date]
        /\ \E k : /\ OnlyAt(weeks, r, w, i, k) /\ ~IsLesson(weeks, w, i, k)
                  /\ r[w].days[i].lessons[k] = ExamLesson(exam)
  BY <1>1, <1>2, ExamAdds
<1> HIDE DEF r
<1>4. \E w, i, k : ExamRound(weeks, r, w, i, k, exam)
  BY <1>3 DEF ExamRound, At3
<1> QED
  BY <1>1, <1>2, <1>4 DEF r, exam

(* Joining changes nothing of a lesson but its groups.                     *)
LEMMA JoinedIs ==
  ASSUME NEW e \in LessonType, NEW row \in RowShape, rType \in RTypes
  PROVE  /\ Joined(e, row) \in LessonType
         /\ \E q \in Seq(Groups \cup {Null}) : Joined(e, row) = [e EXCEPT !.groups = q]
         /\ rType # "group" => Joined(e, row).groups = Append(e.groups, row.of.group)
         /\ rType = "group" => Joined(e, row) = e
<1>1. row.of.group \in Groups \cup {Null} /\ e.groups \in Seq(Groups \cup {Null})
  BY LessonMade DEF Training, LessonType
<1>2. Append(e.groups, row.of.group) \in Seq(Groups \cup {Null})
  BY <1>1
<1>3. e = [e EXCEPT !.groups = e.groups]
  BY DEF LessonType
<1> QED
  BY <1>1, <1>2, <1>3 DEF Joined, LessonType

(* A lesson of the timetable is one.                                       *)
LEMMA Placed ==
  ASSUME NEW ws \in Seq(WeekShape), NEW w, NEW i, NEW k, IsLesson(ws, w, i, k)
  PROVE  At3(ws, w, i, k) \in LessonType
<1>1. w \in DOMAIN ws /\ i \in DOMAIN ws[w].days
  BY DEF IsLesson, IsDay
<1>2. ws[w] \in WeekShape
  BY <1>1
<1>3. ws[w].days \in Seq(DayType)
  BY <1>2 DEF WeekShape
<1>4. ws[w].days[i] \in DayType
  BY <1>1, <1>3
<1>5. ws[w].days[i].lessons \in Seq(LessonType)
  BY <1>4 DEF DayType
<1> QED
  BY <1>5 DEF IsLesson, At3

(* What is at the place of a RowRound: a lesson at the row's hour.         *)
LEMMA RowPlaced ==
  ASSUME TableInv, exams = << >>, NEW row \in RowShape,
         NEW r, NEW w, NEW i, NEW k, RowRound(weeks, r, w, i, k, row)
  PROVE  /\ At3(r, w, i, k).id # 0 /\ At3(r, w, i, k).date = row.date
         /\ At3(r, w, i, k).slot = row.of.slot
         /\ At3(r, w, i, k) \in LessonType
         /\ ~IsLesson(weeks, w, i, k) => At3(r, w, i, k) = Lesson(row)
         /\ IsLesson(weeks, w, i, k) =>
              /\ At3(weeks, w, i, k) \in LessonType
              /\ Merges(At3(weeks, w, i, k), row)
              /\ At3(r, w, i, k) = Joined(At3(weeks, w, i, k), row)
              /\ At3(weeks, w, i, k).date = row.date
              /\ At3(weeks, w, i, k).slot = row.of.slot
<1>1. /\ rType \in RTypes /\ rows \in Seq(RowShape) /\ weeks \in Seq(WeekShape)
      /\ Once(weeks) /\ MadeOf(weeks, rows) /\ RowsOnly(weeks)
  BY DEF TableInv
<1>2. /\ Lesson(row) \in LessonType /\ FromRow(Lesson(row), row) /\ row.of.id # 0
  BY <1>1, LessonMade
<1>3. Lesson(row).date = row.date
  BY <1>2 DEF FromRow
<1>4. CASE ~IsLesson(weeks, w, i, k)
  BY <1>2, <1>4 DEF RowRound, RowPut, At3, FromRow
<1>5. CASE IsLesson(weeks, w, i, k)
  <2> DEFINE e == At3(weeks, w, i, k)
             f == At3(r, w, i, k)
  <2>1. e \in LessonType
    BY <1>1, <1>5, Placed
  <2>2. Merges(e, row) /\ f = Joined(e, row)
    BY <1>5 DEF RowRound, RowPut, At3
  <2>3. e.date = row.date
    <3>1. e.date = weeks[w].days[i].date /\ IsDay(weeks, w, i)
      BY <1>1, <1>5 DEF Once, At3, IsLesson
    <3>2. r[w].days[i].date = weeks[w].days[i].date /\ r[w].days[i].date = row.date
      BY <1>3, <3>1 DEF RowRound, Adds
    <3> QED
      BY <3>1, <3>2
  <2>4. PICK m \in DOMAIN rows : FromRow(e, rows[m])
    <3>1. e.id # 0
      BY <1>1, <1>5 DEF RowsOnly, At3
    <3>2. \/ e.id = 0
          \/ \E m \in DOMAIN rows : FromRow(e, rows[m])
      BY <1>1, <1>5 DEF MadeOf, At3
    <3> QED
      BY <3>1, <3>2
  <2>5. rows[m] \in RowShape /\ e.id # 0
    BY <1>1, <1>5, <2>4 DEF RowsOnly, At3
  <2> HIDE DEF e, f
  <2>6. Stands(rType, e, row)
    BY <1>1, <2>2, <2>3, <2>4, <2>5, MergedStands
  <2>7. PICK q \in Seq(Groups \cup {Null}) : Joined(e, row) = [e EXCEPT !.groups = q]
    BY <1>1, <2>1, JoinedIs
  <2>8. f \in LessonType /\ f.id = e.id /\ f.date = e.date /\ f.slot = e.slot
    <3>1. f \in LessonType
      BY <1>1, <2>1, <2>2, JoinedIs
    <3> QED
      BY <2>1, <2>2, <2>7, <3>1 DEF LessonType
  <2> QED
    BY <1>5, <2>1, <2>2, <2>3, <2>5, <2>6, <2>8 DEF e, f, Stands
<1> QED
  BY <1>4, <1>5

(* A round leaves the lessons alone that are not at its place.             *)
LEMMA Around ==
  ASSUME NEW ws, NEW r, NEW w, NEW i, NEW k, NEW e,
         Adds(ws, r, w, i, e), OnlyAt(ws, r, w, i, k)
  PROVE  /\ IsLesson(r, w, i, k)
         /\ \A v, j, m : IsLesson(ws, v, j, m) =>
              /\ IsLesson(r, v, j, m) /\ Kept(At3(ws, v, j, m), At3(r, v, j, m))
         /\ \A v, j, m : IsLesson(r, v, j, m) =>
              \/ v = w /\ j = i /\ m = k
              \/ IsLesson(ws, v, j, m) /\ At3(r, v, j, m) = At3(ws, v, j, m)
<1>1. \A v, j, m : IsLesson(ws, v, j, m) =>
        /\ IsLesson(r, v, j, m) /\ Kept(At3(ws, v, j, m), At3(r, v, j, m))
  BY DEF Adds, At3
<1>2. \A v, j, m : IsLesson(r, v, j, m) =>
        \/ v = w /\ j = i /\ m = k
        \/ IsLesson(ws, v, j, m) /\ At3(r, v, j, m) = At3(ws, v, j, m)
  BY DEF OnlyAt, At3
<1> QED
  BY <1>1, <1>2 DEF OnlyAt

(* The rows with one more.                                                 *)
LEMMA OneMore ==
  ASSUME NEW S, NEW s \in Seq(S), NEW x \in S
  PROVE  /\ Append(s, x) \in Seq(S) /\ Len(Append(s, x)) = Len(s) + 1
         /\ DOMAIN Append(s, x) = DOMAIN s \cup {Len(s) + 1}
         /\ Len(s) + 1 \notin DOMAIN s /\ Len(s) \in Nat
         /\ Append(s, x)[Len(s) + 1] = x
         /\ \A m \in DOMAIN s : Append(s, x)[m] = s[m]
  OBVIOUS

-----------------------------------------------------------------------------
(* Two lessons of a day that are alike, with a teacher and a room, are of  *)
(* the name that a row without one has for a text.                         *)
Alike(e, f) ==
  /\ e.id # 0 /\ f.id # 0
  /\ e.slot = f.slot /\ e.hours = f.hours /\ e.lesson = f.lesson
  /\ e.teacher = f.teacher /\ e.room = f.room
  /\ e.teacher # Undefined /\ e.room # Undefined
NamelessOf(rs, lesson) ==
  \E n \in DOMAIN rs : rs[n].of.lesson = Null /\ NameOf(rs[n].of) = lesson
NamedOnce(ws, rs) ==
  \A v, j, k, l :
    /\ IsLesson(ws, v, j, k) /\ IsLesson(ws, v, j, l) /\ k # l
    /\ Alike(At3(ws, v, j, k), At3(ws, v, j, l))
    => NamelessOf(rs, At3(ws, v, j, k).lesson)

(* What a row that has a name, a teacher and a room is not merged into is  *)
(* not like it.                                                            *)
LEMMA UnmergedUnlike ==
  ASSUME TableInv, rType # "group", NEW row \in RowShape, NEW v, NEW j, NEW l,
         IsLesson(weeks, v, j, l), At3(weeks, v, j, l).date = row.date,
         Alike(At3(weeks, v, j, l), Lesson(row)), row.of.lesson # Null
  PROVE  Merges(At3(weeks, v, j, l), row)
<1> DEFINE f == At3(weeks, v, j, l)
<1>1. rType \in RTypes /\ MadeOf(weeks, rows) /\ rows \in Seq(RowShape)
  BY DEF TableInv
<1>2. FromRow(Lesson(row), row)
  BY <1>1, LessonMade
<1>3. PICK m \in DOMAIN rows : FromRow(f, rows[m])
  <2>1. f.id # 0
    BY DEF Alike
  <2>2. f.id = 0 \/ \E m \in DOMAIN rows : FromRow(f, rows[m])
    BY <1>1 DEF MadeOf, At3
  <2> QED
    BY <2>1, <2>2
<1> HIDE DEF f
<1>4. f.start = Bell[f.slot].start /\ f.slot = row.of.slot
  BY <1>2, <1>3 DEF FromRow, Alike, f
<1>5. row.of.teacher = f.teacher /\ row.of.room = f.room
  BY <1>2 DEF FromRow, Alike, OrUndefined, f
<1>6. row.of.lesson = f.lesson
  BY <1>2 DEF FromRow, Alike, NameOf, f
<1>7. f.hours = row.of.hours /\ f.date = row.date
  BY <1>2 DEF FromRow, Alike, f
<1> QED
  BY <1>4, <1>5, <1>6, <1>7 DEF Merges, SameSlot, f

LEMMA NamedByRow ==
  ASSUME TableInv, exams = << >>, rType # "group", NEW row \in RowShape,
         NamedOnce(weeks, rows),
         NEW r, NEW w, NEW i, NEW k, RowRound(weeks, r, w, i, k, row)
  PROVE  NamedOnce(r, Append(rows, row))
<1> DEFINE qs == Append(rows, row)
<1>1. /\ IsLesson(r, w, i, k)
      /\ \A v, j, m : IsLesson(weeks, v, j, m) =>
           IsLesson(r, v, j, m) /\ Kept(At3(weeks, v, j, m), At3(r, v, j, m))
      /\ \A v, j, m : IsLesson(r, v, j, m) =>
           \/ v = w /\ j = i /\ m = k
           \/ IsLesson(weeks, v, j, m) /\ At3(r, v, j, m) = At3(weeks, v, j, m)
  BY Around DEF RowRound
<1>2. /\ rows \in Seq(RowShape) /\ Len(rows) + 1 \in DOMAIN qs
      /\ qs[Len(rows) + 1] = row
      /\ \A m \in DOMAIN rows : m \in DOMAIN qs /\ qs[m] = rows[m]
  BY OneMore DEF TableInv
<1> HIDE DEF qs
<1>3. ASSUME NEW lesson, NamelessOf(rows, lesson) PROVE NamelessOf(qs, lesson)
  BY <1>2, <1>3 DEF NamelessOf
<1>4. ASSUME NEW v, NEW j, NEW m, NEW l, IsLesson(weeks, v, j, m),
             IsLesson(weeks, v, j, l), m # l,
             Alike(At3(r, v, j, m), At3(r, v, j, l))
      PROVE  NamelessOf(qs, At3(r, v, j, m).lesson)
  <2>1. /\ Kept(At3(weeks, v, j, m), At3(r, v, j, m))
        /\ Kept(At3(weeks, v, j, l), At3(r, v, j, l))
    BY <1>1, <1>4
  <2>2. /\ Alike(At3(weeks, v, j, m), At3(weeks, v, j, l))
        /\ At3(r, v, j, m).lesson = At3(weeks, v, j, m).lesson
    BY <1>4, <2>1 DEF Kept, Alike
  <2>3. NamelessOf(rows, At3(weeks, v, j, m).lesson)
    BY <1>4, <2>2 DEF NamedOnce
  <2> QED
    BY <1>3, <2>2, <2>3
<1>5. ASSUME ~IsLesson(weeks, w, i, k), NEW l, IsLesson(weeks, w, i, l),
             Alike(At3(r, w, i, l), At3(r, w, i, k))
      PROVE  NamelessOf(qs, At3(r, w, i, l).lesson)
  <2> DEFINE f == At3(weeks, w, i, l)
  <2>1. f = At3(r, w, i, l)
    BY <1>1, <1>5
  <2>2. At3(r, w, i, k) = Lesson(row) /\ ~Merges(f, row)
    BY <1>5 DEF RowRound, RowPut, At3
  <2>3. f.date = row.date
    <3>1. f.date = weeks[w].days[i].date /\ IsDay(weeks, w, i)
      BY <1>5 DEF TableInv, Once, IsLesson, At3
    <3>2. r[w].days[i].date = weeks[w].days[i].date
          /\ r[w].days[i].date = Lesson(row).date
      BY <3>1 DEF RowRound, Adds
    <3>3. Lesson(row).date = row.date
      BY LessonMade DEF TableInv, FromRow
    <3> QED
      BY <3>1, <3>2, <3>3
  <2>4. row.of.lesson = Null
    BY <1>5, <2>1, <2>2, <2>3, UnmergedUnlike
  <2>5. Lesson(row).lesson = NameOf(row.of)
    BY LessonMade DEF TableInv, FromRow
  <2>6. At3(r, w, i, l).lesson = NameOf(row.of)
    BY <1>5, <2>2, <2>5 DEF Alike
  <2> QED
    BY <1>2, <2>4, <2>6 DEF NamelessOf
<1>6. ASSUME NEW v, NEW j, NEW m, NEW l, IsLesson(r, v, j, m),
             IsLesson(r, v, j, l), m # l,
             Alike(At3(r, v, j, m), At3(r, v, j, l))
      PROVE  NamelessOf(qs, At3(r, v, j, m).lesson)
  <2>1. CASE IsLesson(weeks, v, j, m) /\ IsLesson(weeks, v, j, l)
    BY <1>4, <1>6, <2>1
  <2>2. CASE ~IsLesson(weeks, v, j, l)
    <3>1. v = w /\ j = i /\ l = k /\ IsLesson(weeks, w, i, m)
      BY <1>1, <1>6, <2>2
    <3> QED
      BY <1>5, <1>6, <2>2, <3>1
  <2>3. CASE ~IsLesson(weeks, v, j, m)
    <3>1. v = w /\ j = i /\ m = k /\ IsLesson(weeks, w, i, l)
      BY <1>1, <1>6, <2>3
    <3>2. /\ Alike(At3(r, w, i, l), At3(r, w, i, k))
          /\ At3(r, v, j, m).lesson = At3(r, w, i, l).lesson
      BY <1>6, <3>1 DEF Alike
    <3> QED
      BY <1>5, <2>3, <3>1, <3>2
  <2> QED
    BY <2>1, <2>2, <2>3
<1> QED
  BY <1>6 DEF NamedOnce, qs

LEMMA NamedByExam ==
  ASSUME NEW ws, NEW rs, NEW exam \in ExamShape, rType \in RTypes,
         NamedOnce(ws, rs),
         NEW r, NEW w, NEW i, NEW k, ExamRound(ws, r, w, i, k, exam)
  PROVE  NamedOnce(r, rs)
<1>1. \A v, j, m : IsLesson(r, v, j, m) =>
        \/ At3(r, v, j, m).id = 0
        \/ IsLesson(ws, v, j, m) /\ At3(r, v, j, m) = At3(ws, v, j, m)
  <2>1. \A v, j, m : IsLesson(r, v, j, m) =>
          \/ v = w /\ j = i /\ m = k
          \/ IsLesson(ws, v, j, m) /\ At3(r, v, j, m) = At3(ws, v, j, m)
    BY Around DEF ExamRound
  <2>2. At3(r, w, i, k).id = 0
    BY ExamMade DEF ExamRound
  <2> QED
    BY <2>1, <2>2
<1> SUFFICES ASSUME NEW v, NEW j, NEW m, NEW l, IsLesson(r, v, j, m),
                    IsLesson(r, v, j, l), m # l,
                    Alike(At3(r, v, j, m), At3(r, v, j, l))
             PROVE  NamelessOf(rs, At3(r, v, j, m).lesson)
  BY DEF NamedOnce
<1>2. At3(r, v, j, m).id # 0 /\ At3(r, v, j, l).id # 0
  BY DEF Alike
<1> QED
  BY <1>1, <1>2 DEF NamedOnce
-----------------------------------------------------------------------------
(* StreamJoined, of any weeks and rows.                                    *)
HasLesson(ws, row) ==
  \E v, j, k : /\ IsLesson(ws, v, j, k) /\ ws[v].number = row.week
               /\ At3(ws, v, j, k).id = row.of.id
               /\ At3(ws, v, j, k).date = row.date
Joins(ws, rs) ==
  \A m, n \in DOMAIN rs :
    /\ m < n /\ rs[m].date = rs[n].date /\ rs[m].week = rs[n].week
    /\ rs[n].of.stream = rs[m].of.id /\ HasLesson(ws, rs[m])
    => ~HasLesson(ws, rs[n])

(* A row is told by its training, its day and its week.                    *)
LEMMA RowTold ==
  ASSUME TableInv, NEW m \in DOMAIN rows, NEW row \in RowShape,
         rows[m].of.id = row.of.id, rows[m].date = row.date,
         rows[m].week = row.week
  PROVE  rows[m] = row
<1>1. rows[m] \in RowShape /\ rType \in RTypes
  BY DEF TableInv
<1>2. rows[m].of \in Trainings[rType] /\ row.of \in Trainings[rType]
  BY <1>1 DEF RowShape
<1>3. rows[m].of = row.of
  BY <1>1, <1>2, NamesAssumption
<1> QED
  BY <1>1, <1>3 DEF RowShape

(* A row that is new has no lesson of its own yet.                         *)
LEMMA NewRowNoLesson ==
  ASSUME TableInv, exams = << >>, NEW row \in RowShape,
         row \notin {rows[m] : m \in DOMAIN rows}
  PROVE  ~HasLesson(weeks, row)
<1> SUFFICES ASSUME NEW v, NEW j, NEW k, IsLesson(weeks, v, j, k),
                    weeks[v].number = row.week,
                    At3(weeks, v, j, k).id = row.of.id,
                    At3(weeks, v, j, k).date = row.date
             PROVE  FALSE
  BY DEF HasLesson
<1>1. MadeOf(weeks, rows) /\ RowsOnly(weeks)
  BY DEF TableInv
<1>2. PICK m \in DOMAIN rows : /\ FromRow(At3(weeks, v, j, k), rows[m])
                               /\ rows[m].week = row.week
  <2>1. weeks[v].days[j].lessons[k].id # 0
    BY <1>1 DEF RowsOnly
  <2>2. \E m \in DOMAIN rows : /\ FromRow(weeks[v].days[j].lessons[k], rows[m])
                               /\ rows[m].week = weeks[v].number
    BY <1>1, <2>1 DEF MadeOf
  <2> QED
    BY <2>2 DEF At3
<1>3. rows[m] = row
  BY <1>2, RowTold, ZenonT(30) DEF FromRow
<1> QED
  BY <1>3

LEMMA JoinsByRow ==
  ASSUME TableInv, exams = << >>, NEW row \in RowShape,
         row \notin {rows[m] : m \in DOMAIN rows}, Joins(weeks, rows),
         NEW r, NEW w, NEW i, NEW k, RowRound(weeks, r, w, i, k, row), Once(r)
  PROVE  Joins(r, Append(rows, row))
<1> DEFINE qs == Append(rows, row)
<1>1. /\ IsLesson(r, w, i, k)
      /\ \A v, j, m : IsLesson(weeks, v, j, m) =>
           IsLesson(r, v, j, m) /\ Kept(At3(weeks, v, j, m), At3(r, v, j, m))
      /\ \A v, j, m : IsLesson(r, v, j, m) =>
           \/ v = w /\ j = i /\ m = k
           \/ IsLesson(weeks, v, j, m) /\ At3(r, v, j, m) = At3(weeks, v, j, m)
      /\ r[w].number = row.week
      /\ \A v, j, m : IsLesson(weeks, v, j, m) => r[v].number = weeks[v].number
  BY Around DEF RowRound, Adds, IsLesson, IsDay
<1>2. /\ rows \in Seq(RowShape) /\ DOMAIN qs = DOMAIN rows \cup {Len(rows) + 1}
      /\ qs[Len(rows) + 1] = row
      /\ \A m \in DOMAIN rows : qs[m] = rows[m]
      /\ \A m \in DOMAIN rows : m \in Nat /\ m < Len(rows) + 1
  BY OneMore DEF TableInv
<1>3. rType \in RTypes /\ row.of.id # 0 /\ Lesson(row).id = row.of.id
      /\ Lesson(row).date = row.date
  BY LessonMade DEF TableInv, FromRow
<1> HIDE DEF qs
(* A lesson of a row that was dealt with is no new one.                    *)
<1>4. ASSUME NEW m \in DOMAIN rows, HasLesson(r, rows[m])
      PROVE  HasLesson(weeks, rows[m])
  <2>1. PICK v, j, l : /\ IsLesson(r, v, j, l) /\ r[v].number = rows[m].week
                       /\ At3(r, v, j, l).id = rows[m].of.id
                       /\ At3(r, v, j, l).date = rows[m].date
    BY <1>4 DEF HasLesson
  <2>2. CASE IsLesson(weeks, v, j, l)
    <3>1. Kept(At3(weeks, v, j, l), At3(r, v, j, l))
      BY <1>1, <2>2
    <3> QED
      BY <1>1, <2>1, <2>2, <3>1 DEF HasLesson, Kept
  <2>3. CASE ~IsLesson(weeks, v, j, l)
    <3>1. v = w /\ j = i /\ l = k
      BY <1>1, <2>1, <2>3
    <3>2. At3(r, v, j, l) = Lesson(row)
      BY <2>3, <3>1 DEF RowRound, RowPut, At3
    <3>3. rows[m] = row
      BY <1>1, <1>3, <2>1, <3>1, <3>2, RowTold
    <3> QED
      BY <3>3
  <2> QED
    BY <2>2, <2>3
(* The row of a stream whose head has a lesson is merged.                  *)
<1>5. ASSUME NEW m \in DOMAIN rows, rows[m].date = row.date, rows[m].week = row.week,
             row.of.stream = rows[m].of.id, HasLesson(weeks, rows[m]),
             HasLesson(r, row)
      PROVE  FALSE
  <2>1. PICK v, j, l : /\ IsLesson(weeks, v, j, l) /\ weeks[v].number = row.week
                       /\ At3(weeks, v, j, l).id = rows[m].of.id
                       /\ At3(weeks, v, j, l).date = row.date
    BY <1>5 DEF HasLesson
  <2>2. rows[m].of.id # 0
    BY <1>2, <1>3, LessonMade
  <2>3. Merges(At3(weeks, v, j, l), row)
    BY <1>5, <2>1, <2>2 DEF Merges
  <2>4. IsDay(weeks, v, j) /\ weeks[v].days[j].date = row.date
    BY <2>1 DEF TableInv, Once, IsLesson, At3
  <2>5. IsLesson(weeks, w, i, k)
    <3> SUFFICES ASSUME ~IsLesson(weeks, w, i, k) PROVE FALSE
      OBVIOUS
    <3>1. \A n : IsLesson(weeks, w, i, n) => ~Merges(At3(weeks, w, i, n), row)
      BY DEF RowRound, RowPut, At3
    <3>2. ~(v = w /\ j = i)
      BY <2>1, <2>3, <3>1
    <3>3. IsDay(r, v, j) /\ r[v].days[j].date = row.date
      BY <2>4 DEF RowRound, Adds
    <3>4. IsDay(r, w, i) /\ r[w].days[i].date = row.date
      BY <1>3 DEF RowRound, Adds
    <3>5. v = w
      BY <1>1, <2>1, <3>3, <3>4 DEF Once, IsDay
    <3>6. j = i
      BY <3>3, <3>4, <3>5 DEF Once
    <3> QED
      BY <3>2, <3>5, <3>6
  <2>6. HasLesson(weeks, row)
    <3>1. PICK u, n, x : /\ IsLesson(r, u, n, x) /\ r[u].number = row.week
                         /\ At3(r, u, n, x).id = row.of.id
                         /\ At3(r, u, n, x).date = row.date
      BY <1>5 DEF HasLesson
    <3>2. IsLesson(weeks, u, n, x)
      BY <1>1, <2>5, <3>1
    <3>3. Kept(At3(weeks, u, n, x), At3(r, u, n, x))
      BY <1>1, <3>2
    <3> QED
      BY <1>1, <3>1, <3>2, <3>3 DEF HasLesson, Kept
  <2> QED
    BY <2>6, NewRowNoLesson
<1>6. ASSUME NEW m \in DOMAIN qs, NEW n \in DOMAIN qs, m < n,
             qs[m].date = qs[n].date, qs[m].week = qs[n].week, qs[n].of.stream = qs[m].of.id,
             HasLesson(r, qs[m]), HasLesson(r, qs[n])
      PROVE  FALSE
  <2>1. m \in DOMAIN rows
    BY <1>2, <1>6
  <2>2. HasLesson(weeks, rows[m]) /\ qs[m] = rows[m]
    BY <1>2, <1>4, <1>6, <2>1
  <2>3. CASE n \in DOMAIN rows
    <3>1. HasLesson(weeks, rows[n]) /\ qs[n] = rows[n]
      BY <1>2, <1>4, <1>6, <2>3
    <3> QED
      BY <1>6, <2>1, <2>2, <2>3, <3>1 DEF Joins
  <2>4. CASE n = Len(rows) + 1
    BY <1>2, <1>5, <1>6, <2>1, <2>2, <2>4
  <2> QED
    BY <1>2, <2>3, <2>4
<1> QED
  BY <1>6 DEF Joins, qs
LEMMA JoinsByExam ==
  ASSUME TableInv, NEW exam \in ExamShape, Joins(weeks, rows),
         NEW r, NEW w, NEW i, NEW k, ExamRound(weeks, r, w, i, k, exam)
  PROVE  Joins(r, rows)
<1>1. ASSUME NEW m \in DOMAIN rows, HasLesson(r, rows[m])
      PROVE  HasLesson(weeks, rows[m])
  <2>1. PICK v, j, l : /\ IsLesson(r, v, j, l) /\ r[v].number = rows[m].week
                       /\ At3(r, v, j, l).id = rows[m].of.id
                       /\ At3(r, v, j, l).date = rows[m].date
    BY <1>1 DEF HasLesson
  <2>2. rows[m].of.id # 0 /\ At3(r, w, i, k).id = 0
    <3>1. rows[m] \in RowShape /\ rType \in RTypes
      BY DEF TableInv
    <3> QED
      BY <3>1, LessonMade, ExamMade DEF ExamRound
  <2>3. \/ v = w /\ j = i /\ l = k
        \/ IsLesson(weeks, v, j, l) /\ At3(r, v, j, l) = At3(weeks, v, j, l)
    BY <2>1, Around DEF ExamRound
  <2>4. IsLesson(weeks, v, j, l) => r[v].number = weeks[v].number
    BY DEF ExamRound, Adds, IsLesson, IsDay
  <2> QED
    BY <2>1, <2>2, <2>3, <2>4 DEF HasLesson
<1> QED
  BY <1>1 DEF Joins

-----------------------------------------------------------------------------
(* A day is of the type of its date and in a week of one of its numbers.   *)
Numbers(d) == Weeks[d] \cup {SemWeek[d]}
Numbered(ws) ==
  \A v, j : IsDay(ws, v, j) =>
    LET d == ws[v].days[j].date
    IN  ws[v].days[j].type = TypeOfDay(d) /\ ws[v].number \in Numbers(d)

LEMMA NumberedKept ==
  ASSUME NEW ws, NEW r, NEW w, NEW i, NEW e, Numbered(ws), Adds(ws, r, w, i, e),
         ~IsDay(ws, w, i) => r[w].number \in Numbers(e.date)
  PROVE  Numbered(r)
<1> SUFFICES ASSUME NEW v, NEW j, IsDay(r, v, j)
             PROVE  /\ r[v].days[j].type = TypeOfDay(r[v].days[j].date)
                    /\ r[v].number \in Numbers(r[v].days[j].date)
  BY DEF Numbered
<1>1. CASE IsDay(ws, v, j)
  <2>1. /\ r[v].days[j].date = ws[v].days[j].date
        /\ r[v].days[j].type = ws[v].days[j].type
        /\ r[v].number = ws[v].number
    BY <1>1 DEF Adds, IsDay
  <2> QED
    BY <1>1, <2>1 DEF Numbered
<1>2. CASE ~IsDay(ws, v, j)
  <2>1. v = w /\ j = i /\ r[v].days[j].date = e.date
    BY <1>2 DEF Adds
  <2>2. r[v].days[j].type = TypeOfDay(e.date)
    BY <1>2, <2>1 DEF Adds
  <2> QED
    BY <1>2, <2>1, <2>2
<1> QED
  BY <1>1, <1>2

-----------------------------------------------------------------------------
(* The hours of a lesson, and of an exam.                                  *)
OfRow(e) ==
  /\ e.slot \in DOMAIN Bell /\ e.start = Bell[e.slot].start
  /\ e.end = e.start + DurationMinutes(e.hours, Number(e.slot))
  /\ e.until = IF e.hours > 1 THEN e.end % DayMinutes ELSE Bell[e.slot].end
OfExam(e) ==
  e.slot = 0 /\ e.start = ExamAt[e.date] /\ e.end = e.start + 23 * 60
Timed(ws, n) ==
  \A v, j, k : IsLesson(ws, v, j, k) =>
    LET e == At3(ws, v, j, k)
    IN  /\ e.id # 0 => OfRow(e)
        /\ e.id = 0 => OfExam(e)
        /\ Len(e.groups) <= n + 1

LEMMA RowTimed ==
  ASSUME rType \in RTypes, NEW row \in RowShape
  PROVE  OfRow(Lesson(row)) /\ Len(Lesson(row).groups) <= 1
<1>1. row.of.slot \in DOMAIN Bell
  BY LessonMade DEF Training
<1>2. Lesson(row).groups \in {<<row.of.group>>, << >>}
  BY DEF Lesson
<1> QED
  BY <1>1, <1>2 DEF Lesson, OfRow

LEMMA ExamTimed ==
  ASSUME NEW exam
  PROVE  OfExam(ExamLesson(exam)) /\ Len(ExamLesson(exam).groups) <= 1
<1>1. ExamLesson(exam).groups \in {<<exam.group>>, << >>}
  BY DEF ExamLesson
<1> QED
  BY <1>1 DEF ExamLesson, OfExam

LEMMA TimedByRow ==
  ASSUME TableInv, exams = << >>, NEW row \in RowShape,
         Timed(weeks, Len(rows)),
         NEW r, NEW w, NEW i, NEW k, RowRound(weeks, r, w, i, k, row)
  PROVE  Timed(r, Len(rows) + 1)
<1> SUFFICES ASSUME NEW v, NEW j, NEW m, IsLesson(r, v, j, m)
             PROVE  LET e == At3(r, v, j, m)
                    IN  /\ e.id # 0 => OfRow(e)
                        /\ e.id = 0 => OfExam(e)
                        /\ Len(e.groups) <= Len(rows) + 1 + 1
  BY DEF Timed
<1>1. Len(rows) \in Nat /\ rType \in RTypes /\ weeks \in Seq(WeekShape)
  BY DEF TableInv
<1>2. \A e \in LessonType : Len(e.groups) \in Nat
  BY DEF LessonType
<1>3. CASE IsLesson(weeks, v, j, m) /\ At3(r, v, j, m) = At3(weeks, v, j, m)
  <2>1. At3(weeks, v, j, m) \in LessonType
    BY <1>1, <1>3, Placed
  <2>2. /\ At3(weeks, v, j, m).id # 0 => OfRow(At3(weeks, v, j, m))
        /\ At3(weeks, v, j, m).id = 0 => OfExam(At3(weeks, v, j, m))
        /\ Len(At3(weeks, v, j, m).groups) <= Len(rows) + 1
    BY <1>3 DEF Timed
  <2>3. Len(At3(weeks, v, j, m).groups) <= Len(rows) + 1 + 1
    BY <1>1, <1>2, <2>1, <2>2
  <2> QED
    BY <1>3, <2>2, <2>3
<1>4. CASE v = w /\ j = i /\ m = k
  <2> DEFINE f == At3(r, w, i, k)
             e == At3(weeks, w, i, k)
  <2>1. f.id # 0 /\ f \in LessonType
    BY RowPlaced
  <2>2. CASE ~IsLesson(weeks, w, i, k)
    <3>1. f = Lesson(row)
      BY <2>2, RowPlaced
    <3>2. OfRow(f) /\ Len(f.groups) <= 1
      BY <1>1, <3>1, RowTimed
    <3> HIDE DEF f
    <3>3. Len(f.groups) <= Len(rows) + 1 + 1
      BY <1>1, <1>2, <2>1, <3>2
    <3> QED
      BY <1>4, <2>1, <3>2, <3>3 DEF f
  <2>3. CASE IsLesson(weeks, w, i, k)
    <3>1. e \in LessonType /\ f = Joined(e, row) /\ e.id # 0
      <4>1. e.id # 0
        BY <2>3 DEF TableInv, RowsOnly, At3
      <4> QED
        BY <2>3, <4>1, RowPlaced
    <3>2. OfRow(e) /\ Len(e.groups) <= Len(rows) + 1
      BY <2>3, <3>1 DEF Timed
    <3> HIDE DEF e, f
    <3>3. PICK q \in Seq(Groups \cup {Null}) :
            Joined(e, row) = [e EXCEPT !.groups = q]
      BY <1>1, <3>1, JoinedIs
    <3>4. /\ f.slot = e.slot /\ f.start = e.start /\ f.end = e.end
          /\ f.hours = e.hours /\ f.until = e.until
      BY <3>1, <3>3 DEF LessonType
    <3>5. OfRow(f)
      BY <3>2, <3>4 DEF OfRow
    <3>6. Len(f.groups) <= Len(e.groups) + 1
      <4>1. e.groups \in Seq(Groups \cup {Null})
            /\ row.of.group \in Groups \cup {Null}
        BY <1>1, <3>1, LessonMade DEF LessonType, Training
      <4>2. f.groups \in {e.groups, Append(e.groups, row.of.group)}
        BY <1>1, <3>1, JoinedIs
      <4> QED
        BY <4>1, <4>2
    <3>7. Len(f.groups) <= Len(rows) + 1 + 1
      BY <1>1, <1>2, <2>1, <3>1, <3>2, <3>6
    <3> QED
      BY <1>4, <2>1, <3>5, <3>7 DEF f
  <2> QED
    BY <2>2, <2>3
<1> QED
  BY <1>3, <1>4, Around DEF RowRound

LEMMA TimedByExam ==
  ASSUME TableInv, NEW exam \in ExamShape, Timed(weeks, Len(rows)),
         NEW r, NEW w, NEW i, NEW k, ExamRound(weeks, r, w, i, k, exam)
  PROVE  Timed(r, Len(rows))
<1>1. At3(r, w, i, k) = ExamLesson(exam) /\ At3(r, w, i, k).id = 0
  BY ExamMade DEF ExamRound, TableInv
<1>2. OfExam(At3(r, w, i, k)) /\ Len(At3(r, w, i, k).groups) <= Len(rows) + 1
  <2>1. /\ Len(rows) \in Nat /\ ExamLesson(exam) \in LessonType
    BY ExamMade DEF TableInv
  <2>2. Len(ExamLesson(exam).groups) \in Nat
    BY <2>1 DEF LessonType
  <2> QED
    BY <1>1, <2>1, <2>2, ExamTimed
<1>3. \A v, j, m : IsLesson(r, v, j, m) =>
        \/ v = w /\ j = i /\ m = k
        \/ IsLesson(weeks, v, j, m) /\ At3(r, v, j, m) = At3(weeks, v, j, m)
  BY Around DEF ExamRound
<1> QED
  BY <1>1, <1>2, <1>3 DEF Timed
-----------------------------------------------------------------------------
(* Where a group is named at an hour: the place of the lesson and the      *)
(* position among its groups.                                              *)
Spot(ws, d, s, g, v, j, k, n) ==
  /\ IsLesson(ws, v, j, k)
  /\ At3(ws, v, j, k).date = d /\ At3(ws, v, j, k).slot = s
  /\ n \in DOMAIN At3(ws, v, j, k).groups /\ At3(ws, v, j, k).groups[n] = g
Spots(ws, d, s, g) ==
  {l \in (Nat \X Nat \X Nat) \X Nat :
     Spot(ws, d, s, g, l[1][1], l[1][2], l[1][3], l[2])}

RowsOf(rs, d, s, g) ==
  {m \in DOMAIN rs : rs[m].date = d /\ rs[m].of.slot = s /\ rs[m].of.group = g}
ExamsOf(xs, d, g) ==
  {m \in DOMAIN xs : xs[m].date = d /\ xs[m].group = g}

SameSize(S, T) ==
  IsFiniteSet(S) /\ IsFiniteSet(T) /\ Cardinality(S) = Cardinality(T)
Counted(ws, rs, xs) ==
  \A d \in Dates, g \in Groups :
    /\ \A s \in DOMAIN Bell : SameSize(Spots(ws, d, s, g), RowsOf(rs, d, s, g))
    /\ SameSize(Spots(ws, d, 0, g), ExamsOf(xs, d, g))

LEMMA BothGrow ==
  ASSUME NEW S, NEW T, SameSize(S, T), NEW x, NEW y, x \notin S, y \notin T
  PROVE  SameSize(S \cup {x}, T \cup {y})
<1>1. /\ IsFiniteSet(S \cup {x}) /\ Cardinality(S \cup {x}) = Cardinality(S) + 1
      /\ IsFiniteSet(T \cup {y}) /\ Cardinality(T \cup {y}) = Cardinality(T) + 1
  BY FS_AddElement DEF SameSize
<1> QED
  BY <1>1 DEF SameSize

(* The places of the lessons are positions.                                *)
LEMMA PlacesAreNat ==
  ASSUME NEW ws \in Seq(WeekShape), NEW w, NEW i, NEW k, IsLesson(ws, w, i, k)
  PROVE  w \in Nat /\ i \in Nat /\ k \in Nat
<1>1. w \in DOMAIN ws /\ i \in DOMAIN ws[w].days
  BY DEF IsLesson, IsDay
<1>2. ws[w] \in WeekShape
  BY <1>1
<1>3. ws[w].days \in Seq(DayType)
  BY <1>2 DEF WeekShape
<1>4. ws[w].days[i] \in DayType
  BY <1>1, <1>3
<1>5. ws[w].days[i].lessons \in Seq(LessonType) /\ k \in DOMAIN ws[w].days[i].lessons
  BY <1>4 DEF DayType, IsLesson
<1> QED
  BY <1>1, <1>3, <1>5

(* A round that names one more group, or none, at its place.               *)
Gains(ws, r, w, i, k, q, x) ==
  /\ q \in Seq(Groups \cup {Null})
  /\ IsLesson(ws, w, i, k) =>
       /\ q = At3(ws, w, i, k).groups
       /\ At3(ws, w, i, k).date = At3(r, w, i, k).date
       /\ At3(ws, w, i, k).slot = At3(r, w, i, k).slot
  /\ ~IsLesson(ws, w, i, k) => q = << >>
  /\ At3(r, w, i, k).groups \in {q, Append(q, x)}
  /\ x \in Groups => At3(r, w, i, k).groups = Append(q, x)

Grown(ws, r, d, s, g, f, x, l) ==
  /\ l \notin Spots(ws, d, s, g)
  /\ f.date = d /\ f.slot = s /\ g = x =>
       Spots(r, d, s, g) = Spots(ws, d, s, g) \cup {l}
  /\ ~(f.date = d /\ f.slot = s /\ g = x) =>
       Spots(r, d, s, g) = Spots(ws, d, s, g)

LEMMA SpotsGrow ==
  ASSUME NEW ws, NEW r \in Seq(WeekShape), NEW w, NEW i, NEW k, NEW q,
         NEW x \in Groups \cup {Null},
         OnlyAt(ws, r, w, i, k), Gains(ws, r, w, i, k, q, x),
         \A v, j, m : IsLesson(ws, v, j, m) => IsLesson(r, v, j, m),
         NEW d, NEW s, NEW g \in Groups
  PROVE  Grown(ws, r, d, s, g, At3(r, w, i, k), x, <<<<w, i, k>>, Len(q) + 1>>)
<1> DEFINE f == At3(r, w, i, k)
           l == <<<<w, i, k>>, Len(q) + 1>>
           new == f.date = d /\ f.slot = s /\ g = x
<1>1. q \in Seq(Groups \cup {Null}) /\ Len(q) \in Nat /\ DOMAIN q = 1..Len(q)
  BY DEF Gains
<1>2. l \in (Nat \X Nat \X Nat) \X Nat
  <2>1. w \in Nat /\ i \in Nat /\ k \in Nat
    BY PlacesAreNat DEF OnlyAt
  <2> QED
    BY <1>1, <2>1
<1>3. \A n : Spot(ws, d, s, g, w, i, k, n) =>
        n \in DOMAIN q /\ q[n] = g /\ f.date = d /\ f.slot = s
  BY DEF Gains, Spot
<1>4. \A n : n \in DOMAIN q /\ q[n] = g /\ f.date = d /\ f.slot = s =>
        Spot(ws, d, s, g, w, i, k, n)
  <2>1. IsLesson(ws, w, i, k) \/ DOMAIN q = {}
    BY DEF Gains
  <2> QED
    BY <2>1 DEF Gains, Spot
<1>5. \A n : Spot(r, d, s, g, w, i, k, n) <=>
        f.date = d /\ f.slot = s /\ n \in DOMAIN f.groups /\ f.groups[n] = g
  BY DEF Spot, OnlyAt
<1>6. \A n : Spot(r, d, s, g, w, i, k, n) <=>
        Spot(ws, d, s, g, w, i, k, n) \/ (new /\ n = Len(q) + 1)
  <2> HIDE DEF f
  <2>1. f.groups \in {q, Append(q, x)} /\ (x \in Groups => f.groups = Append(q, x))
    BY DEF Gains, f
  <2>2. CASE f.groups = Append(q, x)
    <3>1. \A n : n \in DOMAIN f.groups /\ f.groups[n] = g <=>
            (n \in DOMAIN q /\ q[n] = g) \/ (n = Len(q) + 1 /\ g = x)
      BY <1>1, <2>2
    <3> QED
      BY <1>3, <1>4, <1>5, <3>1
  <2>3. CASE f.groups = q /\ x \notin Groups
    BY <1>3, <1>4, <1>5, <2>3
  <2> QED
    BY <2>1, <2>2, <2>3
<1>7. ASSUME NEW v, NEW j, NEW m, ~(v = w /\ j = i /\ m = k), NEW n
      PROVE  Spot(r, d, s, g, v, j, m, n) <=> Spot(ws, d, s, g, v, j, m, n)
  <2>1. IsLesson(r, v, j, m) <=> IsLesson(ws, v, j, m)
    BY <1>7 DEF OnlyAt
  <2>2. IsLesson(ws, v, j, m) => At3(r, v, j, m) = At3(ws, v, j, m)
    BY <1>7 DEF OnlyAt, At3
  <2> QED
    BY <2>1, <2>2 DEF Spot
<1>8. l \notin Spots(ws, d, s, g)
  <2>1. ~Spot(ws, d, s, g, w, i, k, Len(q) + 1)
    BY <1>1, <1>3
  <2> QED
    BY <2>1 DEF Spots
<1>9. ASSUME NEW p \in (Nat \X Nat \X Nat) \X Nat
      PROVE  p \in Spots(r, d, s, g) <=> p \in Spots(ws, d, s, g) \/ (new /\ p = l)
  <2>1. p = <<<<p[1][1], p[1][2], p[1][3]>>, p[2]>>
    OBVIOUS
  <2>2. /\ p \in Spots(r, d, s, g) <=>
             Spot(r, d, s, g, p[1][1], p[1][2], p[1][3], p[2])
        /\ p \in Spots(ws, d, s, g) <=>
             Spot(ws, d, s, g, p[1][1], p[1][2], p[1][3], p[2])
    BY DEF Spots
  <2>3. p = l <=> p[1][1] = w /\ p[1][2] = i /\ p[1][3] = k /\ p[2] = Len(q) + 1
    BY <2>1
  <2> HIDE DEF l, new
  <2>4. CASE p[1][1] = w /\ p[1][2] = i /\ p[1][3] = k
    BY <1>6, <2>2, <2>3, <2>4
  <2>5. CASE ~(p[1][1] = w /\ p[1][2] = i /\ p[1][3] = k)
    BY <1>7, <2>2, <2>3, <2>5
  <2> QED
    BY <2>4, <2>5
<1>10. /\ Spots(r, d, s, g) \subseteq (Nat \X Nat \X Nat) \X Nat
       /\ Spots(ws, d, s, g) \subseteq (Nat \X Nat \X Nat) \X Nat
  BY DEF Spots
<1> HIDE DEF l, new
<1>11. /\ new => Spots(r, d, s, g) = Spots(ws, d, s, g) \cup {l}
       /\ ~new => Spots(r, d, s, g) = Spots(ws, d, s, g)
  BY <1>2, <1>9, <1>10
<1> QED
  BY <1>8, <1>11 DEF l, new, Grown
(* A round of createWeek names the group of its row.                       *)
LEMMA RowGains ==
  ASSUME TableInv, exams = << >>, rType # "group", NEW row \in RowShape,
         NEW r, NEW w, NEW i, NEW k, RowRound(weeks, r, w, i, k, row)
  PROVE  \E q : Gains(weeks, r, w, i, k, q, row.of.group)
<1> DEFINE e == At3(weeks, w, i, k)
           f == At3(r, w, i, k)
           x == row.of.group
<1>1. rType \in RTypes /\ x \in Groups \cup {Null} /\ Null \notin Groups
  BY LessonMade, NamesAssumption DEF TableInv, Training
<1>2. CASE IsLesson(weeks, w, i, k)
  <2>1. /\ e \in LessonType /\ f = Joined(e, row) /\ f.date = row.date
        /\ f.slot = row.of.slot /\ e.date = row.date /\ e.slot = row.of.slot
    BY <1>2, RowPlaced
  <2>2. e.groups \in Seq(Groups \cup {Null})
    BY <2>1 DEF LessonType
  <2> HIDE DEF e, f
  <2>3. f.groups = Append(e.groups, x)
    BY <1>1, <2>1, JoinedIs
  <2>4. Gains(weeks, r, w, i, k, e.groups, x)
    BY <1>2, <2>1, <2>2, <2>3 DEF Gains, e, f
  <2> QED
    BY <2>4
<1>3. CASE ~IsLesson(weeks, w, i, k)
  <2>1. f = Lesson(row)
    BY <1>3, RowPlaced
  <2>2. Lesson(row).groups = IF x # Null THEN <<x>> ELSE << >>
    BY DEF Lesson
  <2>3. Append(<< >>, x) = <<x>> /\ << >> \in Seq(Groups \cup {Null})
    OBVIOUS
  <2> HIDE DEF x
  <2>4. /\ f.groups \in {<< >>, Append(<< >>, x)}
        /\ x \in Groups => f.groups = Append(<< >>, x)
    BY <1>1, <2>1, <2>2, <2>3
  <2>5. Gains(weeks, r, w, i, k, << >>, x)
    BY <1>3, <2>3, <2>4 DEF Gains
  <2> QED
    BY <2>5 DEF x
<1> QED
  BY <1>2, <1>3

LEMMA CountedByRow ==
  ASSUME TableInv, exams = << >>, rType # "group", NEW row \in RowShape,
         Counted(weeks, rows, exams),
         NEW r, NEW w, NEW i, NEW k, RowRound(weeks, r, w, i, k, row)
  PROVE  Counted(r, Append(rows, row), exams)
<1> DEFINE qs == Append(rows, row)
           f == At3(r, w, i, k)
           y == Len(rows) + 1
<1>1. /\ row.of.group \in Groups \cup {Null} /\ row.of.slot \in DOMAIN Bell
      /\ 0 \notin DOMAIN Bell /\ r \in Seq(WeekShape)
  BY LessonMade, BellsAssumption DEF TableInv, Training, RowRound, Adds
<1>2. f.date = row.date /\ f.slot = row.of.slot
  BY RowPlaced
<1>3. PICK q : Gains(weeks, r, w, i, k, q, row.of.group)
  BY RowGains
<1>4. /\ \A v, j, m : IsLesson(weeks, v, j, m) => IsLesson(r, v, j, m)
      /\ OnlyAt(weeks, r, w, i, k)
  BY DEF RowRound, Adds
<1> DEFINE l == <<<<w, i, k>>, Len(q) + 1>>
<1> HIDE DEF f, l
<1>5. ASSUME NEW d \in Dates, NEW g \in Groups, NEW s
      PROVE  /\ l \notin Spots(weeks, d, s, g)
             /\ row.date = d /\ row.of.slot = s /\ g = row.of.group =>
                  Spots(r, d, s, g) = Spots(weeks, d, s, g) \cup {l}
             /\ ~(row.date = d /\ row.of.slot = s /\ g = row.of.group) =>
                  Spots(r, d, s, g) = Spots(weeks, d, s, g)
  <2>1. Grown(weeks, r, d, s, g, At3(r, w, i, k), row.of.group,
              <<<<w, i, k>>, Len(q) + 1>>)
    BY <1>1, <1>3, <1>4, SpotsGrow
  <2>2. Grown(weeks, r, d, s, g, f, row.of.group, l)
    BY <2>1 DEF f, l
  <2> QED
    BY <1>2, <2>2 DEF Grown
<1>6. /\ rows \in Seq(RowShape) /\ DOMAIN qs = DOMAIN rows \cup {y}
      /\ qs[y] = row /\ y \notin DOMAIN rows
      /\ \A m \in DOMAIN rows : qs[m] = rows[m]
  BY OneMore DEF TableInv
<1> HIDE DEF qs, y
<1>7. ASSUME NEW d \in Dates, NEW g \in Groups, NEW s
      PROVE  /\ y \notin RowsOf(rows, d, s, g)
             /\ row.date = d /\ row.of.slot = s /\ g = row.of.group =>
                  RowsOf(qs, d, s, g) = RowsOf(rows, d, s, g) \cup {y}
             /\ ~(row.date = d /\ row.of.slot = s /\ g = row.of.group) =>
                  RowsOf(qs, d, s, g) = RowsOf(rows, d, s, g)
  BY <1>6 DEF RowsOf
<1>8. ASSUME NEW d \in Dates, NEW g \in Groups, NEW s \in DOMAIN Bell
      PROVE  SameSize(Spots(r, d, s, g), RowsOf(qs, d, s, g))
  <2>1. SameSize(Spots(weeks, d, s, g), RowsOf(rows, d, s, g))
    BY DEF Counted
  <2>2. SameSize(Spots(weeks, d, s, g) \cup {l}, RowsOf(rows, d, s, g) \cup {y})
    <3>1. l \notin Spots(weeks, d, s, g) /\ y \notin RowsOf(rows, d, s, g)
      BY <1>5, <1>7
    <3> QED
      BY <2>1, <3>1, BothGrow
  <2>3. CASE row.date = d /\ row.of.slot = s /\ g = row.of.group
    <3>1. Spots(r, d, s, g) = Spots(weeks, d, s, g) \cup {l}
      BY <1>5, <2>3
    <3>2. RowsOf(qs, d, s, g) = RowsOf(rows, d, s, g) \cup {y}
      BY <1>7, <2>3
    <3> QED
      BY <2>2, <3>1, <3>2
  <2>4. CASE ~(row.date = d /\ row.of.slot = s /\ g = row.of.group)
    <3>1. Spots(r, d, s, g) = Spots(weeks, d, s, g)
      BY <1>5, <2>4
    <3>2. RowsOf(qs, d, s, g) = RowsOf(rows, d, s, g)
      BY <1>7, <2>4
    <3> QED
      BY <2>1, <3>1, <3>2
  <2> QED
    BY <2>3, <2>4
<1>9. ASSUME NEW d \in Dates, NEW g \in Groups
      PROVE  SameSize(Spots(r, d, 0, g), ExamsOf(exams, d, g))
  <2>1. Spots(r, d, 0, g) = Spots(weeks, d, 0, g)
    BY <1>1, <1>5
  <2> QED
    BY <2>1 DEF Counted
<1> QED
  BY <1>8, <1>9 DEF Counted, qs

LEMMA CountedByExam ==
  ASSUME TableInv, rType # "group", NEW exam \in ExamShape,
         Counted(weeks, rows, exams),
         NEW r, NEW w, NEW i, NEW k, ExamRound(weeks, r, w, i, k, exam)
  PROVE  Counted(r, rows, Append(exams, exam))
<1> DEFINE qs == Append(exams, exam)
           f == At3(r, w, i, k)
           x == exam.group
           y == Len(exams) + 1
           l == <<<<w, i, k>>, Len(<< >>) + 1>>
<1>1. /\ x \in Groups \cup {Null} /\ 0 \notin DOMAIN Bell /\ Null \notin Groups
      /\ r \in Seq(WeekShape)
  BY BellsAssumption, NamesAssumption DEF ExamShape, ExamRound, Adds
<1>2. f = ExamLesson(exam) /\ ~IsLesson(weeks, w, i, k)
  BY DEF ExamRound
<1>3. f.date = exam.date /\ f.slot = 0
  BY <1>2 DEF ExamLesson
<1>4. Gains(weeks, r, w, i, k, << >>, x)
  <2>1. f.groups = IF x # Null THEN <<x>> ELSE << >>
    BY <1>2 DEF ExamLesson
  <2>2. Append(<< >>, x) = <<x>> /\ << >> \in Seq(Groups \cup {Null})
    OBVIOUS
  <2> HIDE DEF x
  <2> QED
    BY <1>1, <1>2, <2>1, <2>2 DEF Gains
<1>5. /\ \A v, j, m : IsLesson(weeks, v, j, m) => IsLesson(r, v, j, m)
      /\ OnlyAt(weeks, r, w, i, k)
  BY DEF ExamRound, Adds
<1> HIDE DEF f, x, l
<1>6. ASSUME NEW d \in Dates, NEW g \in Groups, NEW s
      PROVE  /\ l \notin Spots(weeks, d, s, g)
             /\ exam.date = d /\ s = 0 /\ g = x =>
                  Spots(r, d, s, g) = Spots(weeks, d, s, g) \cup {l}
             /\ ~(exam.date = d /\ s = 0 /\ g = x) =>
                  Spots(r, d, s, g) = Spots(weeks, d, s, g)
  <2>1. Grown(weeks, r, d, s, g, At3(r, w, i, k), x,
              <<<<w, i, k>>, Len(<< >>) + 1>>)
    BY <1>1, <1>4, <1>5, SpotsGrow
  <2>2. Grown(weeks, r, d, s, g, f, x, l)
    BY <2>1 DEF f, l
  <2> QED
    BY <1>3, <2>2 DEF Grown
<1>7. /\ exams \in Seq(ExamShape) /\ DOMAIN qs = DOMAIN exams \cup {y}
      /\ qs[y] = exam /\ y \notin DOMAIN exams
      /\ \A m \in DOMAIN exams : qs[m] = exams[m]
  BY OneMore DEF TableInv
<1> HIDE DEF qs, y
<1>8. ASSUME NEW d \in Dates, NEW g \in Groups
      PROVE  /\ y \notin ExamsOf(exams, d, g)
             /\ exam.date = d /\ g = x =>
                  ExamsOf(qs, d, g) = ExamsOf(exams, d, g) \cup {y}
             /\ ~(exam.date = d /\ g = x) =>
                  ExamsOf(qs, d, g) = ExamsOf(exams, d, g)
  BY <1>7 DEF ExamsOf, x
<1>9. ASSUME NEW d \in Dates, NEW g \in Groups, NEW s \in DOMAIN Bell
      PROVE  SameSize(Spots(r, d, s, g), RowsOf(rows, d, s, g))
  <2>1. Spots(r, d, s, g) = Spots(weeks, d, s, g)
    BY <1>1, <1>6
  <2> QED
    BY <2>1 DEF Counted
<1>10. ASSUME NEW d \in Dates, NEW g \in Groups
       PROVE  SameSize(Spots(r, d, 0, g), ExamsOf(qs, d, g))
  <2>1. SameSize(Spots(weeks, d, 0, g), ExamsOf(exams, d, g))
    BY DEF Counted
  <2>2. SameSize(Spots(weeks, d, 0, g) \cup {l}, ExamsOf(exams, d, g) \cup {y})
    <3>1. l \notin Spots(weeks, d, 0, g) /\ y \notin ExamsOf(exams, d, g)
      BY <1>6, <1>8
    <3> QED
      BY <2>1, <3>1, BothGrow
  <2>3. CASE exam.date = d /\ g = x
    BY <1>6, <1>8, <2>2, <2>3
  <2>4. CASE ~(exam.date = d /\ g = x)
    BY <1>6, <1>8, <2>1, <2>4
  <2> QED
    BY <2>3, <2>4
<1> QED
  BY <1>9, <1>10 DEF Counted, qs
-----------------------------------------------------------------------------
(* The invariant: one conjunct for each thing said of the contents.        *)
ContentsInv ==
  /\ Len(rows) <= MaxRows
  /\ Timed(weeks, Len(rows))
  /\ Numbered(weeks)
  /\ Joins(weeks, rows)
  /\ rType # "group" => NamedOnce(weeks, rows)
  /\ rType # "group" => Counted(weeks, rows, exams)

LEMMA ContentsInit == Init => ContentsInv
<1> SUFFICES ASSUME Init PROVE ContentsInv
  OBVIOUS
<1>1. rows = << >> /\ exams = << >> /\ weeks = << >>
  BY DEF Init
<1>2. DOMAIN rows = {} /\ DOMAIN exams = {} /\ DOMAIN weeks = {} /\ Len(rows) = 0
  BY <1>1
<1>3. \A v, j, k : ~IsDay(weeks, v, j) /\ ~IsLesson(weeks, v, j, k)
  BY <1>2 DEF IsDay, IsLesson
<1>4. Timed(weeks, Len(rows)) /\ Numbered(weeks) /\ Joins(weeks, rows)
      /\ NamedOnce(weeks, rows)
  BY <1>2, <1>3 DEF Timed, Numbered, Joins, NamedOnce
<1>5. Counted(weeks, rows, exams)
  <2>1. \A d, s, g : Spots(weeks, d, s, g) = {} /\ RowsOf(rows, d, s, g) = {}
                     /\ ExamsOf(exams, d, g) = {}
    BY <1>2, <1>3 DEF Spots, Spot, RowsOf, ExamsOf
  <2>2. SameSize({}, {})
    BY FS_EmptySet DEF SameSize
  <2> QED
    BY <2>1, <2>2 DEF Counted
<1>6. Len(rows) <= MaxRows
  BY <1>2, DatesAssumption
<1> QED
  BY <1>4, <1>5, <1>6 DEF ContentsInv

LEMMA ContentsByRow ==
  ASSUME TableInv, TableInv', ContentsInv,
         NEW d \in Dates, NEW x \in Trainings[rType], NEW n \in Weeks[d],
         createWeek(Row(d, n, x))
  PROVE  ContentsInv'
<1> DEFINE row == Row(d, n, x)
<1>1. /\ row \in RowShape /\ row.date = d /\ row.week \in Weeks[row.date]
  BY RowRounds
<1>2. PICK w, i, k : RowRound(weeks, weeks', w, i, k, row)
  BY RowRounds
<1>3. /\ exams = << >> /\ Len(rows) < MaxRows /\ rows' = Append(rows, row)
      /\ row \notin {rows[m] : m \in DOMAIN rows}
      /\ rType' = rType /\ exams' = exams
  BY DEF createWeek, InOrder
<1> HIDE DEF row
<1>4. rows \in Seq(RowShape) /\ Len(rows') = Len(rows) + 1 /\ Len(rows) \in Nat
  BY <1>1, <1>3, OneMore DEF TableInv
<1>5. Len(rows') <= MaxRows
  BY <1>3, <1>4, DatesAssumption
<1>6. Timed(weeks', Len(rows'))
  <2>1. Timed(weeks, Len(rows))
    BY DEF ContentsInv
  <2>2. Timed(weeks', Len(rows) + 1)
    BY <1>1, <1>2, <1>3, <2>1, TimedByRow
  <2> QED
    BY <1>4, <2>2
<1>7. Numbered(weeks')
  <2>1. Lesson(row).date = row.date
    BY <1>1, LessonMade DEF TableInv, FromRow
  <2>2. weeks'[w].number \in Numbers(Lesson(row).date)
    BY <1>1, <1>2, <2>1 DEF RowRound, Numbers
  <2>3. Adds(weeks, weeks', w, i, Lesson(row)) /\ Numbered(weeks)
    BY <1>2 DEF RowRound, ContentsInv
  <2> QED
    BY <2>2, <2>3, NumberedKept
<1>8. Joins(weeks', rows')
  <2>1. Joins(weeks, rows) /\ Once(weeks')
    BY DEF ContentsInv, TableInv
  <2>2. Joins(weeks', Append(rows, row))
    BY <1>1, <1>2, <1>3, <2>1, JoinsByRow
  <2> QED
    BY <1>3, <2>2
<1>9. ASSUME rType # "group"
      PROVE  NamedOnce(weeks', rows') /\ Counted(weeks', rows', exams')
  <2>1. NamedOnce(weeks, rows) /\ Counted(weeks, rows, exams)
    BY <1>9 DEF ContentsInv
  <2>2. NamedOnce(weeks', Append(rows, row))
    BY <1>1, <1>2, <1>3, <1>9, <2>1, NamedByRow
  <2>3. Counted(weeks', Append(rows, row), exams)
    BY <1>1, <1>2, <1>3, <1>9, <2>1, CountedByRow
  <2> QED
    BY <1>3, <2>2, <2>3
<1> QED
  BY <1>3, <1>5, <1>6, <1>7, <1>8, <1>9 DEF ContentsInv

LEMMA ContentsByExam ==
  ASSUME TableInv, ContentsInv,
         NEW d \in Dates, NEW g \in Examined, injectExams(Exam(d, g))
  PROVE  ContentsInv'
<1> DEFINE exam == Exam(d, g)
<1>1. exam \in ExamShape
  BY ExamRounds
<1>2. PICK w, i, k : ExamRound(weeks, weeks', w, i, k, exam)
  BY ExamRounds
<1>3. exams' = Append(exams, exam) /\ rows' = rows /\ rType' = rType
  BY DEF injectExams
<1> HIDE DEF exam
<1>4. rType \in RTypes
  BY DEF TableInv
<1>5. Timed(weeks', Len(rows))
  BY <1>1, <1>2, TimedByExam DEF ContentsInv
<1>6. Numbered(weeks')
  <2>1. ExamLesson(exam).date = exam.date
    BY <1>1, <1>4, ExamMade
  <2>2. ~IsDay(weeks, w, i) =>
          weeks'[w].number \in Numbers(ExamLesson(exam).date)
    BY <1>2, <2>1 DEF ExamRound, Numbers
  <2>3. Adds(weeks, weeks', w, i, ExamLesson(exam)) /\ Numbered(weeks)
    BY <1>2 DEF ExamRound, ContentsInv
  <2> QED
    BY <2>2, <2>3, NumberedKept
<1>7. Joins(weeks', rows)
  BY <1>1, <1>2, JoinsByExam DEF ContentsInv
<1>8. ASSUME rType # "group"
      PROVE  NamedOnce(weeks', rows) /\ Counted(weeks', rows, exams')
  <2>1. NamedOnce(weeks, rows) /\ Counted(weeks, rows, exams)
    BY <1>8 DEF ContentsInv
  <2>2. NamedOnce(weeks', rows)
    BY <1>1, <1>2, <1>4, <2>1, NamedByExam
  <2>3. Counted(weeks', rows, Append(exams, exam))
    BY <1>1, <1>2, <1>8, <2>1, CountedByExam
  <2> QED
    BY <1>3, <2>2, <2>3
<1> QED
  BY <1>3, <1>5, <1>6, <1>7, <1>8 DEF ContentsInv

LEMMA ContentsStep == TableInv /\ TableInv' /\ ContentsInv /\ [Next]_vars => ContentsInv'
<1> SUFFICES ASSUME TableInv, TableInv', ContentsInv, [Next]_vars
             PROVE  ContentsInv'
  OBVIOUS
<1>1. ASSUME NEW d \in Dates, NEW x \in Trainings[rType], NEW n \in Weeks[d],
             createWeek(Row(d, n, x))
      PROVE  ContentsInv'
  BY <1>1, ContentsByRow
<1>2. ASSUME NEW d \in Dates, NEW g \in Examined, injectExams(Exam(d, g))
      PROVE  ContentsInv'
  BY <1>2, ContentsByExam
<1>3. CASE UNCHANGED vars
  BY <1>3 DEF ContentsInv, vars
<1> QED
  BY <1>1, <1>2, <1>3 DEF Next

LEMMA ContentsHold == Spec => [](TableInv /\ ContentsInv)
<1>1. Init => TableInv /\ ContentsInv
  BY TableInit, ContentsInit
<1>2. TableInv /\ ContentsInv /\ [Next]_vars => (TableInv /\ ContentsInv)'
  BY TableStep, ContentsStep
<1> QED
  BY <1>1, <1>2, PTL DEF Spec

-----------------------------------------------------------------------------
(* The timetable has its shape at every moment, whatever comes from the    *)
(* database in whatever order (createWeek, injectExams).                   *)
THEOREM TableTyped == Spec => []TypeOK
<1>1. TableInv => TypeOK
  BY DEF TableInv, TypeOK, WeekShape, RowShape, ExamShape
<1> QED
  BY <1>1, TableHolds, PTL

(* A row of a stream whose head came first, in the same week, and was made *)
(* into a lesson is never a lesson of its own.                             *)
THEOREM StreamsJoined == Spec => []StreamJoined
<1>1. TableInv /\ ContentsInv => StreamJoined
  <2> SUFFICES ASSUME Joins(weeks, rows), NEW m \in DOMAIN rows,
                      NEW n \in DOMAIN rows, m < n,
                      rows[m].date = rows[n].date, rows[m].week = rows[n].week,
                      rows[n].of.stream = rows[m].of.id,
                      NEW p \in OwnLesson(rows[m]), NEW q \in OwnLesson(rows[n])
               PROVE  FALSE
    BY DEF ContentsInv, StreamJoined
  <2>1. IsLesson(weeks, p[1], p[2], p[3]) /\ IsLesson(weeks, q[1], q[2], q[3])
    BY Places DEF OwnLesson
  <2>2. ASSUME NEW row, NEW o \in OwnLesson(row),
               IsLesson(weeks, o[1], o[2], o[3])
        PROVE  HasLesson(weeks, row)
    <3>1. /\ weeks[o[1]].number = row.week
          /\ LessonIn(o).date = row.date /\ LessonIn(o).id = row.of.id
      BY DEF OwnLesson
    <3>2. LessonIn(o) = At3(weeks, o[1], o[2], o[3])
      BY DEF LessonIn, At3
    <3> QED
      BY <2>2, <3>1, <3>2, Zenon DEF HasLesson
  <2>3. HasLesson(weeks, rows[m]) /\ HasLesson(weeks, rows[n])
    BY <2>1, <2>2
  <2> QED
    BY <2>3 DEF Joins
<1> QED
  BY <1>1, ContentsHold, PTL

(* Groups that are taught together are one lesson for their teacher and in *)
(* their room, if all rows of that lesson have its name.                   *)
THEOREM TogetherIsOne == Spec => []TaughtTogether
<1>1. TableInv /\ ContentsInv => TaughtTogether
  <2> SUFFICES ASSUME TableInv, ContentsInv, rType # "group",
                      NEW m \in DOMAIN rows,
                      Null \notin {rows[m].of.teacher, rows[m].of.room},
                      \A n \in DOMAIN rows :
                        NameOf(rows[n].of) = NameOf(rows[m].of) =>
                          rows[n].of.lesson # Null
               PROVE  Cardinality(LessonsOf(rows[m])) <= 1
    BY DEF TaughtTogether
  <2> DEFINE row == rows[m]
             L == LessonsOf(row)
  <2>1. /\ row \in RowShape /\ row.of.slot \in DOMAIN Bell /\ rType \in RTypes
        /\ 0 \notin DOMAIN Bell /\ row.of \in Trainings[rType]
    <3>1. row \in RowShape /\ rType \in RTypes
      BY DEF TableInv
    <3> HIDE DEF row
    <3> QED
      BY <3>1, LessonMade, BellsAssumption DEF RowShape, Training
  <2>2. /\ row.of.teacher # Undefined /\ row.of.room # Undefined
        /\ OrUndefined(row.of.teacher) = row.of.teacher
        /\ OrUndefined(row.of.room) = row.of.room
    BY <2>1, NamesAssumption DEF OrUndefined
  <2>3. ASSUME NEW p \in L
        PROVE  /\ p = <<p[1], p[2], p[3]>> /\ IsLesson(weeks, p[1], p[2], p[3])
               /\ LessonIn(p) = At3(weeks, p[1], p[2], p[3])
               /\ LessonIn(p).id # 0 /\ weeks[p[1]].number = row.week
               /\ LessonIn(p).slot = row.of.slot
               /\ LessonIn(p).hours = row.of.hours
               /\ LessonIn(p).lesson = NameOf(row.of)
               /\ LessonIn(p).teacher = row.of.teacher
               /\ LessonIn(p).room = row.of.room
               /\ weeks[p[1]].days[p[2]].date = row.date
    <3>1. /\ p \in LessonPlaces /\ weeks[p[1]].number = row.week
          /\ LessonIn(p).slot = row.of.slot /\ LessonIn(p).date = row.date
          /\ LessonIn(p).hours = row.of.hours
          /\ LessonIn(p).lesson = NameOf(row.of)
          /\ LessonIn(p).teacher = row.of.teacher
          /\ LessonIn(p).room = row.of.room
      BY <2>2 DEF LessonsOf
    <3>2. p = <<p[1], p[2], p[3]>> /\ IsLesson(weeks, p[1], p[2], p[3])
          /\ LessonIn(p) = At3(weeks, p[1], p[2], p[3])
      BY <3>1, Places DEF LessonIn, At3
    <3>3. LessonIn(p).id # 0
      BY <2>1, <3>1, <3>2 DEF ContentsInv, Timed, OfExam
    <3>4. weeks[p[1]].days[p[2]].date = row.date
      BY <3>1, <3>2 DEF TableInv, Once, LessonIn
    <3> QED
      BY <3>1, <3>2, <3>3, <3>4
  <2> HIDE DEF L, row
  <2>4. ASSUME NEW p \in L, NEW q \in L PROVE p = q
    <3>1. p[1] = q[1] /\ p[2] = q[2]
      <4>1. p[1] = q[1]
        BY <2>3 DEF TableInv, Once, IsLesson, IsDay
      <4> QED
        BY <2>3, <4>1 DEF TableInv, Once, IsLesson
    <3>2. Alike(LessonIn(p), LessonIn(q)) /\ LessonIn(p).lesson = NameOf(row.of)
      BY <2>2, <2>3 DEF Alike
    <3>3. p[3] # q[3] => NamelessOf(rows, NameOf(row.of))
      BY <2>3, <3>1, <3>2 DEF ContentsInv, NamedOnce
    <3>4. ~NamelessOf(rows, NameOf(row.of))
      BY DEF NamelessOf, row
    <3> QED
      BY <2>3, <3>1, <3>3, <3>4
  <2>5. L = {} \/ \E p : L = {p}
    BY <2>4
  <2>6. Cardinality(L) \in {0, 1}
    BY <2>5, FS_EmptySet, FS_Singleton
  <2> QED
    BY <2>6 DEF L, row
<1> QED
  BY <1>1, ContentsHold, PTL

(* The timetable of a teacher or a room names every group where it is to   *)
(* be, as often as the rows and the exams do.                              *)
THEOREM GroupsNamed == Spec => []EveryGroupNamed
<1>1. TableInv /\ ContentsInv => EveryGroupNamed
  <2> SUFFICES ASSUME TableInv, ContentsInv, rType # "group",
                      NEW d \in Dates, NEW g \in Groups
               PROVE
                 /\ \A s \in {rows[i].of.slot : i \in DOMAIN rows} :
                      Cardinality(Listings(d, s, g)) =
                        Cardinality({i \in DOMAIN rows :
                          rows[i].date = d /\ rows[i].of.slot = s
                          /\ rows[i].of.group = g})
                 /\ Cardinality(Listings(d, 0, g)) =
                      Cardinality({i \in DOMAIN exams :
                        exams[i].date = d /\ exams[i].group = g})
    BY DEF EveryGroupNamed
  <2>1. Len(rows) \in Nat /\ MaxRows \in Nat /\ weeks \in Seq(WeekShape)
    BY DatesAssumption DEF TableInv
  <2>2. ASSUME NEW s PROVE Listings(d, s, g) = Spots(weeks, d, s, g)
    <3>1. ASSUME NEW l \in Listings(d, s, g) PROVE l \in Spots(weeks, d, s, g)
      <4>0. /\ l \in LessonsAtHour(d, s) \X (1..(MaxRows + 1))
            /\ l[2] \in DOMAIN LessonIn(l[1]).groups
            /\ LessonIn(l[1]).groups[l[2]] = g
        BY DEF Listings
      <4>1. /\ l = <<l[1], l[2]>> /\ l[2] \in Nat
            /\ l[1] \in LessonsAtHour(d, s)
        BY <2>1, <4>0
      <4>2. /\ l[1] \in LessonPlaces
            /\ LessonIn(l[1]).date = d /\ LessonIn(l[1]).slot = s
        BY <4>1 DEF LessonsAtHour
      <4>3. /\ l[1] = <<l[1][1], l[1][2], l[1][3]>>
            /\ IsLesson(weeks, l[1][1], l[1][2], l[1][3])
            /\ LessonIn(l[1]) = At3(weeks, l[1][1], l[1][2], l[1][3])
        BY <4>2, Places DEF LessonIn, At3
      <4>4. l[1] \in Nat \X Nat \X Nat
        <5>1. l[1][1] \in Nat /\ l[1][2] \in Nat /\ l[1][3] \in Nat
          BY <2>1, <4>3, PlacesAreNat
        <5> QED
          BY <4>3, <5>1
      <4>5. Spot(weeks, d, s, g, l[1][1], l[1][2], l[1][3], l[2])
        BY <4>0, <4>2, <4>3 DEF Spot
      <4>6. l \in (Nat \X Nat \X Nat) \X Nat
        BY <4>1, <4>4
      <4> QED
        BY <4>5, <4>6 DEF Spots
    <3>2. ASSUME NEW l \in Spots(weeks, d, s, g) PROVE l \in Listings(d, s, g)
      <4>1. /\ l \in (Nat \X Nat \X Nat) \X Nat
            /\ Spot(weeks, d, s, g, l[1][1], l[1][2], l[1][3], l[2])
        BY DEF Spots
      <4>2. /\ l = <<l[1], l[2]>> /\ l[1] = <<l[1][1], l[1][2], l[1][3]>>
        BY <4>1
      <4> DEFINE e == At3(weeks, l[1][1], l[1][2], l[1][3])
      <4>3. /\ IsLesson(weeks, l[1][1], l[1][2], l[1][3])
            /\ e.date = d /\ e.slot = s /\ l[2] \in DOMAIN e.groups
            /\ e.groups[l[2]] = g /\ LessonIn(l[1]) = e
        BY <4>1 DEF Spot, LessonIn, At3
      <4>4. l[1] \in LessonPlaces
        BY <4>2, <4>3, Places
      <4>5. Len(e.groups) <= Len(rows) + 1 /\ e \in LessonType
        BY <2>1, <4>3, Placed DEF ContentsInv, Timed
      <4> HIDE DEF e
      <4>6. l[2] \in 1..(MaxRows + 1)
        <5>1. Len(e.groups) \in Nat /\ l[2] \in 1..Len(e.groups)
          BY <4>3, <4>5 DEF LessonType
        <5>2. Len(rows) <= MaxRows
          BY DEF ContentsInv
        <5> QED
          BY <2>1, <4>5, <5>1, <5>2
      <4>7. l[1] \in LessonsAtHour(d, s)
        BY <4>3, <4>4 DEF LessonsAtHour
      <4>8. l \in LessonsAtHour(d, s) \X (1..(MaxRows + 1))
        BY <4>2, <4>6, <4>7
      <4> QED
        BY <4>3, <4>8 DEF Listings
    <3> QED
      BY <3>1, <3>2
  <2>3. \A s \in DOMAIN Bell :
          Cardinality(Spots(weeks, d, s, g)) = Cardinality(RowsOf(rows, d, s, g))
    BY DEF ContentsInv, Counted, SameSize
  <2>4. Cardinality(Spots(weeks, d, 0, g)) = Cardinality(ExamsOf(exams, d, g))
    BY DEF ContentsInv, Counted, SameSize
  <2>5. \A i \in DOMAIN rows : rows[i].of.slot \in DOMAIN Bell
    BY LessonMade DEF TableInv, Training
  <2> QED
    BY <2>2, <2>3, <2>4, <2>5 DEF RowsOf, ExamsOf
<1> QED
  BY <1>1, ContentsHold, PTL

(* The days of a week are told apart by their type, those that createWeek  *)
(* opens and those that injectExams does, if the numbers are of weeks.     *)
THEOREM DaysTold == WeeksOfDays => (Spec => []DayTypesDiffer)
<1> SUFFICES ASSUME WeeksOfDays PROVE Spec => []DayTypesDiffer
  OBVIOUS
<1>1. TableInv /\ ContentsInv => DayTypesDiffer
  <2> SUFFICES ASSUME TableInv, ContentsInv, NEW p \in DayPlaces,
                      NEW q \in DayPlaces, p[1] = q[1],
                      DayIn(p).type = DayIn(q).type
               PROVE  p = q
    BY DEF DayTypesDiffer
  <2> DEFINE d == DayIn(p).date
             e == DayIn(q).date
  <2>1. /\ p = <<p[1], p[2]>> /\ IsDay(weeks, p[1], p[2])
        /\ q = <<q[1], q[2]>> /\ IsDay(weeks, q[1], q[2])
    BY Places
  <2>2. /\ TypeOfDay(d) = TypeOfDay(e)
        /\ weeks[p[1]].number \in Numbers(d)
        /\ weeks[p[1]].number \in Numbers(e)
    BY <2>1, SMTT(20) DEF ContentsInv, Numbered, DayIn
  <2>3. d \in Dates /\ e \in Dates
    <3>1. ASSUME NEW v, NEW j, IsDay(weeks, v, j)
          PROVE  weeks[v].days[j].date \in Dates
      <4>1. weeks \in Seq(WeekShape) /\ v \in DOMAIN weeks
        BY <3>1 DEF TableInv, IsDay
      <4>2. weeks[v] \in WeekShape
        BY <4>1
      <4>3. weeks[v].days \in Seq(DayType)
        BY <4>2 DEF WeekShape
      <4>4. weeks[v].days[j] \in DayType
        BY <3>1, <4>3 DEF IsDay
      <4> QED
        BY <4>4 DEF DayType
    <3> QED
      BY <2>1, <3>1 DEF DayIn
  <2> HIDE DEF d, e
  <2>4. WeekDay[d] = WeekDay[e]
    <3>1. WeekDay[d] \in 0..6 /\ WeekDay[e] \in 0..6
      BY <2>3, DatesAssumption
    <3>2. \A a, b \in 0..6 : a - 1 = b - 1 => a = b
      OBVIOUS
    <3> QED
      BY <2>2, <3>1, <3>2 DEF TypeOfDay
  <2>5. d = e
    BY <2>2, <2>3, <2>4 DEF WeeksOfDays, Numbers
  <2> QED
    BY <2>1, <2>5 DEF TableInv, Once, DayIn, d, e
<1> QED
  BY <1>1, ContentsHold, PTL
-----------------------------------------------------------------------------
LEMMA BellTimes ==
  ASSUME NEW n \in DOMAIN Bell
  PROVE  /\ n \in Nat \ {0, 3} /\ n \in Nat /\ DOMAIN Bell \subseteq Nat
         /\ Bell[n].start \in Nat /\ Bell[n].end \in Time /\ Bell[n].end \in Nat
<1>1. /\ DOMAIN Bell \subseteq Nat \ {0, 3}
      /\ Bell[n] \in [start : Nat, end : 0..(DayMinutes - 1)]
  BY BellsAssumption
<1>2. Bell[n].start \in Nat /\ Bell[n].end \in Time
  BY <1>1 DEF Time
<1>3. Time \subseteq Nat
  BY DEF Time, DayMinutes
<1> QED
  BY <1>1, <1>2, <1>3

LEMMA PairsFinite ==
  ASSUME NEW n \in Nat, NEW m \in Nat
  PROVE  IsFiniteSet(PairsFrom(n, m)) /\ Cardinality(PairsFrom(n, m)) \in Nat
<1>1. DOMAIN Bell \subseteq Nat
  BY BellsAssumption
<1>2. PairsFrom(n, m) \subseteq n..m
  BY <1>1 DEF PairsFrom
<1>3. IsFiniteSet(n..m)
  BY FS_Interval
<1>4. IsFiniteSet(PairsFrom(n, m))
  BY <1>2, <1>3, FS_Subset
<1> QED
  BY <1>4, FS_CardinalityType

(* Counting pairs one by one, none ends before so many would.              *)
LEMMA PairsTake ==
  ASSUME BellsOfPairs, NEW n \in DOMAIN Bell, NEW m \in DOMAIN Bell, n <= m
  PROVE  LET c == Cardinality(PairsFrom(n, m))
         IN  Bell[m].end >= Bell[n].start + c * 90 + (c - 1) * 10
                            + (IF m > n THEN Break(n) - 10 ELSE 0)
<1> DEFINE c(p) == Cardinality(PairsFrom(n, p))
           Takes(p) == Bell[p].end >= Bell[n].start + c(p) * 90 + (c(p) - 1) * 10
                                      + (IF p > n THEN Break(n) - 10 ELSE 0)
           Bad == {p \in DOMAIN Bell : n <= p /\ ~Takes(p)}
<1>1. ASSUME NEW p \in DOMAIN Bell
      PROVE  /\ p \in Nat /\ c(p) \in Nat
             /\ Bell[p].start \in Nat /\ Bell[p].end \in Int
             /\ IsFiniteSet(PairsFrom(n, p))
  <2>1. n \in Nat /\ p \in Nat /\ Bell[p].start \in Nat /\ Bell[p].end \in Nat
    BY BellTimes
  <2>2. IsFiniteSet(PairsFrom(n, p)) /\ Cardinality(PairsFrom(n, p)) \in Nat
    BY <2>1, PairsFinite
  <2> QED
    BY <2>1, <2>2
<1> SUFFICES ASSUME Bad # {} PROVE FALSE
  OBVIOUS
<1>2. PICK b \in Bad : \A p \in Bad : b <= p
  <2>1. Bad \in SUBSET Nat
    BY <1>1
  <2> HIDE DEF Bad
  <2> QED
    BY <2>1, Least
<1>3. b \in DOMAIN Bell /\ n <= b /\ ~Takes(b)
  OBVIOUS
<1>4. CASE b = n
  <2>1. PairsFrom(n, n) = {n}
    <3>1. \A p \in DOMAIN Bell : p \in Nat
      BY BellTimes
    <3> QED
      BY <3>1 DEF PairsFrom
  <2>2. c(n) = 1
    BY <2>1, FS_Singleton
  <2>3. Bell[n].end = Bell[n].start + 90
    BY DEF BellsOfPairs
  <2> HIDE DEF c
  <2>4. Takes(n)
    BY <1>1, <2>2, <2>3
  <2> QED
    BY <1>3, <1>4, <2>4
<1>5. CASE n < b
  <2> DEFINE K == {k \in DOMAIN Bell : n <= k /\ k < b}
  <2>1. PICK k \in K : \A p \in K : p <= k
    <3> DEFINE J == {b - p : p \in K}
    <3>1. J \in SUBSET Nat /\ b - n \in J
      BY <1>1, <1>5
    <3>2. PICK y \in J : \A z \in J : y <= z
      <4> HIDE DEF J
      <4> QED
        BY <3>1, Least
    <3>3. PICK k \in K : y = b - k
      BY <3>2
    <3>4. ASSUME NEW p \in K PROVE p <= k
      <4>1. b - k <= b - p
        BY <3>2, <3>3
      <4> QED
        BY <1>1, <4>1
    <3> QED
      BY <3>4
  <2>2. /\ k \in DOMAIN Bell /\ n <= k /\ k < b
        /\ \A p \in DOMAIN Bell : ~(k < p /\ p < b)
    BY <1>1, <2>1
  <2>3. Takes(k)
    <3>1. k \notin Bad
      BY <1>1, <1>2, <2>2
    <3> QED
      BY <2>2, <3>1
  <2>4. PairsFrom(n, b) = PairsFrom(n, k) \cup {b} /\ b \notin PairsFrom(n, k)
    <3>1. \A p \in DOMAIN Bell : p \in Nat
      BY BellTimes
    <3>2. /\ b \in DOMAIN Bell /\ k \in DOMAIN Bell /\ n <= k /\ k < b
          /\ \A p \in DOMAIN Bell : ~(k < p /\ p < b)
      BY <1>3, <2>2
    <3> HIDE DEF Bad, K
    <3> QED
      BY <3>1, <3>2 DEF PairsFrom
  <2>5. c(b) = c(k) + 1
    BY <1>1, <2>2, <2>4, FS_AddElement
  <2>6. Bell[b].end = Bell[k].end + Break(k) + 90
    <3>1. Bell[b].end = Bell[b].start + 90 /\ Bell[b].start = Bell[k].end + Break(k)
      BY <1>3, <2>2 DEF BellsOfPairs
    <3>2. Bell[b].start \in Nat /\ Bell[k].end \in Int /\ Break(k) \in Nat
      BY <1>1, <1>3, <2>2 DEF Break
    <3> QED
      BY <3>1, <3>2
  <2>7. Break(k) >= 10 /\ Break(k) \in Nat /\ Break(n) \in Nat
    BY DEF Break
  <2> HIDE DEF c
  <2>8. Takes(b)
    <3>1. CASE k = n
      BY <1>1, <1>3, <1>5, <2>2, <2>3, <2>5, <2>6, <2>7, <3>1
    <3>2. CASE k > n
      BY <1>1, <1>3, <1>5, <2>2, <2>3, <2>5, <2>6, <2>7, <3>2
    <3> QED
      BY <1>1, <2>2, <3>1, <3>2
  <2> QED
    BY <1>3, <2>8
<1> QED
  BY <1>1, <1>3, <1>4, <1>5

(* The lesson of one pair ends with it, that of two with the next.         *)
LEMMA ShortEnds ==
  ASSUME BellsOfPairs, NEW n \in DOMAIN Bell, NEW m \in DOMAIN Bell,
         Cardinality(PairsFrom(n, m)) \in {1, 2}
  PROVE  /\ n <= m
         /\ Cardinality(PairsFrom(n, m)) = 1 => m = n
         /\ Cardinality(PairsFrom(n, m)) = 2 =>
              n < m /\ Bell[m].end = Bell[n].end + Break(n) + 90
<1>1. /\ m \in Nat /\ n \in Nat /\ IsFiniteSet(PairsFrom(n, m))
  BY BellTimes, PairsFinite
<1>2. n <= m
  <2> SUFFICES ASSUME ~(n <= m) PROVE FALSE
    OBVIOUS
  <2>1. PairsFrom(n, m) = {}
    <3>1. DOMAIN Bell \subseteq Nat
      BY BellTimes
    <3> QED
      BY <1>1, <3>1 DEF PairsFrom
  <2> QED
    BY <2>1, FS_EmptySet
<1>3. n \in PairsFrom(n, m) /\ m \in PairsFrom(n, m)
  BY <1>1, <1>2 DEF PairsFrom
<1>4. ASSUME Cardinality(PairsFrom(n, m)) = 1 PROVE m = n
  <2>1. \E x : PairsFrom(n, m) = {x}
    BY <1>1, <1>4, FS_Singleton
  <2> QED
    BY <1>3, <2>1
<1>5. ASSUME Cardinality(PairsFrom(n, m)) = 2
      PROVE  n < m /\ Bell[m].end = Bell[n].end + Break(n) + 90
  <2>1. n # m
    <3>1. PairsFrom(n, n) = {n}
      <4>1. DOMAIN Bell \subseteq Nat
        BY BellTimes
      <4> QED
        BY <1>1, <4>1 DEF PairsFrom
    <3>2. Cardinality({n}) = 1
      BY FS_Singleton
    <3> QED
      BY <1>5, <3>1, <3>2
  <2>2. ASSUME NEW k \in DOMAIN Bell, n < k, k < m PROVE FALSE
    <3>1. k \in Nat /\ k \in PairsFrom(n, m)
      BY <1>1, <2>2, BellTimes DEF PairsFrom
    <3>2. /\ IsFiniteSet({n}) /\ Cardinality({n}) = 1
      BY FS_Singleton
    <3>3. IsFiniteSet({n} \cup {k}) /\ Cardinality({n} \cup {k}) = 2
      <4>1. k \notin {n}
        BY <1>1, <2>2, <3>1
      <4> DEFINE S == {n}
      <4>2. IsFiniteSet(S) /\ Cardinality(S) = 1 /\ k \notin S
        BY <3>2, <4>1
      <4> HIDE DEF S
      <4>3. IsFiniteSet(S \cup {k}) /\ Cardinality(S \cup {k}) = 2
        BY <4>2, FS_AddElement
      <4> QED
        BY <4>3 DEF S
    <3>4. /\ IsFiniteSet(({n} \cup {k}) \cup {m})
          /\ Cardinality(({n} \cup {k}) \cup {m}) = 3
      <4>1. m \notin {n} \cup {k}
        BY <1>1, <2>1, <2>2, <3>1
      <4> QED
        BY <3>3, <4>1, FS_AddElement
    <3>5. ({n} \cup {k}) \cup {m} \in SUBSET PairsFrom(n, m)
      BY <1>3, <3>1
    <3>6. Cardinality(({n} \cup {k}) \cup {m}) <= Cardinality(PairsFrom(n, m))
      BY <1>1, <3>5, FS_Subset
    <3> QED
      BY <1>5, <3>4, <3>6
  <2>3. n < m
    BY <1>1, <1>2, <2>1
  <2>4. Bell[m].start = Bell[n].end + Break(n) /\ Bell[m].end = Bell[m].start + 90
    BY <2>2, <2>3 DEF BellsOfPairs
  <2>5. Bell[m].start \in Nat /\ Bell[n].end \in Int /\ Break(n) \in Nat
    <3>1. Bell[m].start \in Nat /\ Bell[n].end \in Nat
      BY BellTimes
    <3> QED
      BY <3>1 DEF Break
  <2> QED
    BY <2>3, <2>4, <2>5
<1> QED
  BY <1>2, <1>4, <1>5

(* How long createWeek takes a lesson to be, from its pair of raspzv on.   *)
LEMMA Lasts ==
  ASSUME NEW n \in DOMAIN Bell, NEW h \in Nat \ {0}
  PROVE  DurationMinutes(h, Number(n)) =
           h * 90 + (h - 1) * 10 + (IF h > 1 THEN Break(n) - 10 ELSE 0)
<1>1. n \in Nat \ {0, 3}
  BY BellTimes
<1>2. Number(n) = 2 <=> n = 2
  BY <1>1 DEF Number
<1>3. Number(n) = 5 <=> n = 6
  BY <1>1 DEF Number
<1>4. CASE h > 1 /\ n = 2
  BY <1>2, <1>4 DEF DurationMinutes, Break
<1>5. CASE h > 1 /\ n = 6
  BY <1>2, <1>3, <1>5 DEF DurationMinutes, Break
<1>6. CASE h > 1 /\ n # 2 /\ n # 6
  BY <1>2, <1>3, <1>6 DEF DurationMinutes, Break
<1>7. CASE ~(h > 1)
  BY <1>7 DEF DurationMinutes
<1> QED
  BY <1>4, <1>5, <1>6, <1>7

(* What EndsWithLastPair says of one lesson.                               *)
LEMMA RowEnds ==
  ASSUME BellsOfPairs, TableInv, ContentsInv, NEW p \in LessonPlaces,
         LessonIn(p).id # 0
  PROVE  LET e == LessonIn(p)
             m == LastPair(e.slot, e.hours)
         IN  /\ m \in DOMAIN Bell /\ e.start < e.end /\ e.end <= Bell[m].end
             /\ e.hours <= 2 => e.end = Bell[m].end /\ e.until = Bell[m].end
<1> DEFINE e == LessonIn(p)
           n == e.slot
           h == e.hours
           m == LastPair(n, h)
<1>1. IsLesson(weeks, p[1], p[2], p[3]) /\ e = At3(weeks, p[1], p[2], p[3])
  BY Places DEF LessonIn, At3
<1>2. OfRow(e)
  BY <1>1 DEF ContentsInv, Timed
<1>3. PICK k \in DOMAIN rows : FromRow(e, rows[k])
  <2>1. e.id # 0
    OBVIOUS
  <2> HIDE DEF e
  <2> QED
    BY <1>1, <2>1 DEF TableInv, MadeOf, At3
<1>4. /\ rows[k].of \in Trainings[rType] /\ rType \in RTypes
      /\ rows[k].of \in Training
      /\ n = rows[k].of.slot /\ h = rows[k].of.hours
  <2>1. rows[k] \in RowShape /\ rType \in RTypes
    BY DEF TableInv
  <2> QED
    BY <1>3, <2>1, TrainingsAssumption DEF RowShape, FromRow
<1>5. n \in DOMAIN Bell /\ h \in Nat \ {0}
  BY <1>4 DEF Training
<1>6. m \in DOMAIN Bell /\ Cardinality(PairsFrom(n, m)) = h
  <2>1. \E j \in DOMAIN Bell : Cardinality(PairsFrom(n, j)) = h
    BY <1>4, BellsAssumption
  <2> HIDE DEF n, h
  <2> QED
    BY <2>1 DEF LastPair
<1> DEFINE end == e.end
           start == e.start
           until == e.until
<1>7. /\ start = Bell[n].start
      /\ end = start + DurationMinutes(h, Number(n))
      /\ until = IF h > 1 THEN end % DayMinutes ELSE Bell[n].end
  BY <1>2 DEF OfRow
<1> SUFFICES /\ start < end /\ end <= Bell[m].end
             /\ h <= 2 => end = Bell[m].end /\ until = Bell[m].end
  BY <1>6
<1> HIDE DEF e, n, h, m, end, start, until
<1>8. /\ start \in Nat /\ Bell[m].end \in Time /\ Bell[n].end \in Time
      /\ n \in Nat /\ m \in Nat /\ Bell[n].end = start + 90
      /\ Bell[m].end \in Nat
  <2>1. Bell[n].end = Bell[n].start + 90
    BY <1>5 DEF BellsOfPairs
  <2> QED
    BY <1>5, <1>6, <1>7, <2>1, BellTimes
<1>9. Break(n) \in {10, 20, 40}
  BY DEF Break
<1>10. end = start + h * 90 + (h - 1) * 10 + (IF h > 1 THEN Break(n) - 10 ELSE 0)
  <2>1. DurationMinutes(h, Number(n)) =
          h * 90 + (h - 1) * 10 + (IF h > 1 THEN Break(n) - 10 ELSE 0)
    BY <1>5, Lasts
  <2> HIDE DEF Break
  <2>2. end = start + (h * 90 + (h - 1) * 10
                       + (IF h > 1 THEN Break(n) - 10 ELSE 0))
    BY <1>7, <2>1
  <2> QED
    BY <1>5, <1>8, <1>9, <2>2
<1>11. start < end
  BY <1>5, <1>8, <1>9, <1>10
<1>12. CASE h = 1
  <2>1. m = n
    BY <1>5, <1>6, <1>12, ShortEnds
  <2>2. Bell[m].end <= Bell[m].end
    BY <1>8
  <2>3. end = Bell[m].end /\ until = Bell[m].end
    BY <1>7, <1>8, <1>10, <1>12, <2>1
  <2> QED
    BY <1>11, <1>12, <2>2, <2>3
<1>13. CASE h = 2
  <2>1. Bell[m].end = Bell[n].end + Break(n) + 90
    BY <1>5, <1>6, <1>13, ShortEnds
  <2>2. end = Bell[m].end
    BY <1>8, <1>9, <1>10, <1>13, <2>1
  <2>3. \A a \in Time : a % DayMinutes = a /\ a <= a
    BY DEF Time, DayMinutes
  <2>4. until = Bell[m].end
    BY <1>7, <1>8, <1>13, <2>2, <2>3
  <2> QED
    BY <1>8, <1>11, <2>2, <2>3, <2>4
<1>14. CASE h > 2
  <2>1. n < m
    <3>1. n <= m
      <4> SUFFICES ASSUME ~(n <= m) PROVE FALSE
        OBVIOUS
      <4>1. DOMAIN Bell \subseteq Nat
        BY BellsAssumption
      <4>2. PairsFrom(n, m) = {}
        BY <1>8, <4>1 DEF PairsFrom
      <4> QED
        BY <1>6, <1>14, <4>2, FS_EmptySet
    <3>2. n # m
      <4> SUFFICES ASSUME n = m PROVE FALSE
        OBVIOUS
      <4>1. DOMAIN Bell \subseteq Nat
        BY BellsAssumption
      <4>2. PairsFrom(n, m) = {n}
        BY <1>5, <1>8, <4>1 DEF PairsFrom
      <4> QED
        BY <1>6, <1>14, <4>2, FS_Singleton
    <3> QED
      BY <1>8, <3>1, <3>2
  <2>2. Bell[m].end >= Bell[n].start + h * 90 + (h - 1) * 10 + (Break(n) - 10)
    <3>1. Bell[m].end >= Bell[n].start + h * 90 + (h - 1) * 10
                         + (IF m > n THEN Break(n) - 10 ELSE 0)
      BY <1>5, <1>6, <1>8, <2>1, PairsTake
    <3> QED
      BY <1>8, <2>1, <3>1
  <2>3. end = start + h * 90 + (h - 1) * 10 + (Break(n) - 10)
    BY <1>5, <1>10, <1>14
  <2>4. Bell[m].end >= end
    BY <1>7, <2>2, <2>3
  <2>5. end \in Int /\ Bell[m].end \in Int
    BY <1>5, <1>8, <1>9, <2>3
  <2> QED
    BY <1>5, <1>11, <1>14, <2>4, <2>5
<1> QED
  BY <1>5, <1>12, <1>13, <1>14

(* With such bells, a lesson of one or two pairs ends when its last pair   *)
(* does, on its way through endAt and through timeRange, and a longer one  *)
(* never runs into the pair after it, whatever it takes (createWeek).      *)
THEOREM EndsAgree == BellsOfPairs => (Spec => []EndsWithLastPair)
<1> SUFFICES ASSUME BellsOfPairs PROVE Spec => []EndsWithLastPair
  OBVIOUS
<1>1. TableInv /\ ContentsInv => EndsWithLastPair
  BY RowEnds DEF EndsWithLastPair
<1> QED
  BY <1>1, ContentsHold, PTL
=============================================================================
