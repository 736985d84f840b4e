--------------------------- MODULE CalendarProofs ---------------------------
(***************************************************************************)
(* Proofs of what CalendarService makes of a timetable, for any rows, exams*)
(* and dates: flatMap lists every lesson once, so that what is known of    *)
(* the lessons of the timetable (WeekTimetableProofs and -Contents) holds  *)
(* of the events of the calendar, and they are as many.                    *)
(***************************************************************************)
EXTENDS WeekTimetableContents, CalendarEvents

-----------------------------------------------------------------------------
(* The lessons of the calendar                                             *)

(* h tells where in the timetable the lessons of the calendar are.         *)
Tells(h) ==
  /\ h \in [DOMAIN AllLessons -> Nat \X Nat \X Nat]
  /\ \A k \in DOMAIN AllLessons :
       /\ IsLesson(weeks, h[k][1], h[k][2], h[k][3])
       /\ AllLessons[k] = At3(weeks, h[k][1], h[k][2], h[k][3])
  /\ \A k, l \in DOMAIN AllLessons : h[k] = h[l] => k = l
  /\ \A w, i, m : IsLesson(weeks, w, i, m) =>
       \E k \in DOMAIN AllLessons : h[k] = <<w, i, m>>

LessonsOfWeek(w) ==
  [d \in DOMAIN weeks[w].days |-> weeks[w].days[d].lessons]
WeekLessons == [w \in DOMAIN weeks |-> FlattenSeq(LessonsOfWeek(w))]

(* The lessons of one week.                                                *)
LEMMA WeekListed ==
  ASSUME TableInv, NEW w \in DOMAIN weeks
  PROVE  /\ LessonsOfWeek(w) \in Seq(Seq(LessonType))
         /\ DOMAIN LessonsOfWeek(w) = DOMAIN weeks[w].days
         /\ DOMAIN weeks[w].days = 1..Len(LessonsOfWeek(w))
         /\ FlattenSeq(LessonsOfWeek(w)) \in Seq(LessonType)
         /\ \E f : Lists(FlattenSeq(LessonsOfWeek(w)), LessonsOfWeek(w),
                         Len(LessonsOfWeek(w)), f)
<1> DEFINE days == weeks[w].days
<1>1. days \in Seq(DayType)
  <2>1. weeks[w] \in WeekShape
    BY DEF TableInv
  <2> QED
    BY <2>1 DEF WeekShape
<1>2. \A d \in DOMAIN days : days[d].lessons \in Seq(LessonType)
  <2> SUFFICES ASSUME NEW d \in DOMAIN days PROVE days[d].lessons \in Seq(LessonType)
    OBVIOUS
  <2>1. days[d] \in DayType
    BY <1>1
  <2> QED
    BY <2>1 DEF DayType
<1> DEFINE S == Seq(LessonType)
           lists == [d \in DOMAIN days |-> days[d].lessons]
<1>3. lists \in Seq(S) /\ DOMAIN lists = DOMAIN days /\ DOMAIN days = 1..Len(lists)
  <2> HIDE DEF days, S
  <2>1. /\ DOMAIN days = 1..Len(days) /\ Len(days) \in Nat
        /\ \A d \in DOMAIN days : days[d].lessons \in S
    BY <1>1, <1>2 DEF S
  <2>2. lists \in [1..Len(days) -> S]
    BY <2>1
  <2>3. lists \in Seq(S) /\ Len(lists) = Len(days)
    BY <2>1, <2>2
  <2> QED
    BY <2>1, <2>3
<1>4. LessonsOfWeek(w) = lists
  BY DEF LessonsOfWeek
<1> HIDE DEF days, lists
<1>5. /\ LessonsOfWeek(w) \in Seq(Seq(LessonType))
      /\ DOMAIN LessonsOfWeek(w) = DOMAIN weeks[w].days
      /\ DOMAIN weeks[w].days = 1..Len(LessonsOfWeek(w))
  BY <1>3, <1>4 DEF days
<1> QED
  BY <1>5, Flattened

LEMMA AllListed ==
  ASSUME TableInv
  PROVE  AllLessons \in Seq(LessonType) /\ \E h : Tells(h)
<1> DEFINE L == WeekLessons
           F(w) == CHOOSE f : Lists(FlattenSeq(LessonsOfWeek(w)),
                                    LessonsOfWeek(w), Len(LessonsOfWeek(w)), f)
<1>1. AllLessons = FlattenSeq(L)
  BY DEF AllLessons, WeekLessons, LessonsOfWeek
<1>2. DOMAIN weeks = 1..Len(weeks) /\ Len(weeks) \in Nat
  BY DEF TableInv
<1>3. L \in Seq(Seq(LessonType)) /\ DOMAIN L = DOMAIN weeks /\ Len(L) = Len(weeks)
  <2>1. \A w \in DOMAIN weeks : FlattenSeq(LessonsOfWeek(w)) \in Seq(LessonType)
    BY WeekListed
  <2> DEFINE S == Seq(LessonType)
  <2> HIDE DEF S
  <2>2. L \in [1..Len(weeks) -> S]
    BY <1>2, <2>1 DEF S, WeekLessons
  <2>3. L \in Seq(S) /\ Len(L) = Len(weeks) /\ DOMAIN L = DOMAIN weeks
    BY <1>2, <2>2
  <2> QED
    BY <2>3 DEF S
<1>4. ASSUME NEW w \in DOMAIN weeks
      PROVE  /\ L[w] = FlattenSeq(LessonsOfWeek(w))
             /\ Lists(L[w], LessonsOfWeek(w), Len(LessonsOfWeek(w)), F(w))
             /\ DOMAIN L[w] = 1..Len(L[w])
  <2>1. L[w] = FlattenSeq(LessonsOfWeek(w)) /\ L[w] \in Seq(LessonType)
    BY WeekListed DEF WeekLessons
  <2>2. \E f : Lists(FlattenSeq(LessonsOfWeek(w)), LessonsOfWeek(w),
                     Len(LessonsOfWeek(w)), f)
    BY WeekListed
  <2>3. Lists(FlattenSeq(LessonsOfWeek(w)), LessonsOfWeek(w),
              Len(LessonsOfWeek(w)), F(w))
    BY <2>2
  <2> HIDE DEF L, F
  <2> QED
    BY <2>1, <2>3
<1> HIDE DEF L, F
<1>5. AllLessons \in Seq(LessonType) /\ \E f : Lists(AllLessons, L, Len(L), f)
  BY <1>1, <1>3, Flattened
<1>6. PICK f : Lists(AllLessons, L, Len(L), f)
  BY <1>5
<1>7. DOMAIN AllLessons = 1..Len(AllLessons)
  BY <1>5
(* In one week, the place of a lesson and the lesson itself.               *)
<1>8. ASSUME NEW w \in DOMAIN weeks, NEW n \in DOMAIN L[w]
      PROVE  /\ F(w)[n] \in Nat \X Nat
             /\ IsLesson(weeks, w, F(w)[n][1], F(w)[n][2])
             /\ L[w][n] = At3(weeks, w, F(w)[n][1], F(w)[n][2])
  <2> DEFINE p == F(w)[n]
             lists == LessonsOfWeek(w)
  <2>1. /\ p \in Nat \X Nat /\ p[1] \in 1..Len(lists) /\ p[2] \in DOMAIN lists[p[1]]
        /\ L[w][n] = lists[p[1]][p[2]]
    <3>1. Lists(L[w], lists, Len(lists), F(w)) /\ n \in 1..Len(L[w])
      BY <1>4
    <3> HIDE DEF lists
    <3> QED
      BY <3>1 DEF Lists
  <2>2. p[1] \in DOMAIN weeks[w].days
    BY <2>1, WeekListed
  <2>3. lists[p[1]] = weeks[w].days[p[1]].lessons
    BY <2>2 DEF LessonsOfWeek
  <2> HIDE DEF p, lists
  <2>4. IsLesson(weeks, w, p[1], p[2]) /\ L[w][n] = At3(weeks, w, p[1], p[2])
    BY <2>1, <2>2, <2>3 DEF IsLesson, IsDay, At3
  <2> QED
    BY <2>1, <2>4 DEF p
<1>9. ASSUME NEW k \in DOMAIN AllLessons
      PROVE  /\ f[k][1] \in DOMAIN weeks /\ f[k][1] \in Nat
             /\ f[k] = <<f[k][1], f[k][2]>> /\ f[k][2] \in DOMAIN L[f[k][1]]
             /\ AllLessons[k] = L[f[k][1]][f[k][2]]
  <2>1. /\ f[k] \in Nat \X Nat /\ f[k][1] \in 1..Len(L)
        /\ f[k][2] \in DOMAIN L[f[k][1]] /\ AllLessons[k] = L[f[k][1]][f[k][2]]
    BY <1>6, <1>7 DEF Lists
  <2> QED
    BY <1>2, <1>3, <2>1
<1> DEFINE P(k) == F(f[k][1])[f[k][2]]
           h == [k \in DOMAIN AllLessons |-> <<f[k][1], P(k)[1], P(k)[2]>>]
<1>10. ASSUME NEW k \in DOMAIN AllLessons
       PROVE  /\ P(k) \in Nat \X Nat /\ P(k) = <<P(k)[1], P(k)[2]>>
              /\ IsLesson(weeks, f[k][1], P(k)[1], P(k)[2])
              /\ AllLessons[k] = At3(weeks, f[k][1], P(k)[1], P(k)[2])
  <2>1. /\ P(k) \in Nat \X Nat
        /\ IsLesson(weeks, f[k][1], P(k)[1], P(k)[2])
        /\ AllLessons[k] = At3(weeks, f[k][1], P(k)[1], P(k)[2])
    BY <1>8, <1>9
  <2> HIDE DEF P
  <2> QED
    BY <2>1, SMTT(20)
<1> HIDE DEF P
<1>11. ASSUME NEW k \in DOMAIN AllLessons
       PROVE  /\ h[k] = <<f[k][1], P(k)[1], P(k)[2]>>
              /\ h[k] \in Nat \X Nat \X Nat
              /\ IsLesson(weeks, h[k][1], h[k][2], h[k][3])
              /\ AllLessons[k] = At3(weeks, h[k][1], h[k][2], h[k][3])
  BY <1>9, <1>10
<1>12. h \in [DOMAIN AllLessons -> Nat \X Nat \X Nat]
  BY <1>11
<1> HIDE DEF h
<1>13. ASSUME NEW k \in DOMAIN AllLessons, NEW l \in DOMAIN AllLessons, h[k] = h[l]
       PROVE  k = l
  <2>1. f[k][1] = f[l][1] /\ P(k)[1] = P(l)[1] /\ P(k)[2] = P(l)[2]
    BY <1>11, <1>13
  <2>2. P(k) = P(l)
    BY <1>10, <2>1
  <2> DEFINE w == f[k][1]
  <2>3. F(w)[f[k][2]] = F(w)[f[l][2]]
    BY <2>1, <2>2 DEF P
  <2>4. w \in DOMAIN weeks /\ f[k][2] \in DOMAIN L[w] /\ f[l][2] \in DOMAIN L[w]
    BY <1>9, <2>1
  <2> HIDE DEF w
  <2>5. f[k][2] = f[l][2]
    <3> DEFINE lists == LessonsOfWeek(w)
    <3>1. /\ Lists(L[w], lists, Len(lists), F(w))
          /\ f[k][2] \in 1..Len(L[w]) /\ f[l][2] \in 1..Len(L[w])
      BY <1>4, <2>4
    <3> HIDE DEF lists
    <3> QED
      BY <2>3, <3>1 DEF Lists
  <2>6. f[k] = f[l]
    BY <1>9, <2>1, <2>5
  <2> QED
    BY <1>6, <1>7, <2>6 DEF Lists
<1>14. ASSUME NEW w, NEW i, NEW m, IsLesson(weeks, w, i, m)
       PROVE  \E k \in DOMAIN AllLessons : h[k] = <<w, i, m>>
  <2>1. w \in DOMAIN weeks /\ i \in DOMAIN weeks[w].days
        /\ m \in DOMAIN weeks[w].days[i].lessons
    BY <1>14 DEF IsLesson, IsDay
  <2>2. i \in 1..Len(LessonsOfWeek(w)) /\ m \in DOMAIN LessonsOfWeek(w)[i]
    <3>1. LessonsOfWeek(w)[i] = weeks[w].days[i].lessons
      BY <2>1 DEF LessonsOfWeek
    <3> QED
      BY <2>1, <3>1, WeekListed
  <2>3. PICK n \in 1..Len(L[w]) : F(w)[n] = <<i, m>>
    <3> DEFINE lists == LessonsOfWeek(w)
    <3>1. Lists(L[w], lists, Len(lists), F(w))
      BY <1>4, <2>1
    <3>2. i \in 1..Len(lists) /\ m \in DOMAIN lists[i]
      BY <2>2
    <3> HIDE DEF lists
    <3> QED
      BY <3>1, <3>2 DEF Lists
  <2>4. w \in 1..Len(L) /\ n \in DOMAIN L[w]
    BY <1>2, <1>3, <1>4, <2>1, <2>3
  <2>5. PICK k \in 1..Len(AllLessons) : f[k] = <<w, n>>
    BY <1>6, <2>4 DEF Lists
  <2>6. P(k) = <<i, m>>
    BY <2>3, <2>5 DEF P
  <2> QED
    BY <1>7, <1>11, <2>5, <2>6
<1>15. Tells(h)
  BY <1>11, <1>12, <1>13, <1>14 DEF Tells
<1> QED
  BY <1>5, <1>15
-----------------------------------------------------------------------------
(* The exams of a day, and where they are in the timetable.                *)
ExamPlace(ws, d, v, j, k) ==
  IsLesson(ws, v, j, k) /\ At3(ws, v, j, k).id = 0 /\ At3(ws, v, j, k).date = d
ExamPlaces(ws, d) ==
  {p \in Nat \X Nat \X Nat : ExamPlace(ws, d, p[1], p[2], p[3])}
ExamsOn(xs, d) == {m \in DOMAIN xs : xs[m].date = d}

(* No training has two lessons of rows in one day of a week.               *)
Single(ws) ==
  \A v, j, k, l :
    /\ IsLesson(ws, v, j, k) /\ IsLesson(ws, v, j, l)
    /\ At3(ws, v, j, k).id # 0 /\ At3(ws, v, j, k).id = At3(ws, v, j, l).id
    => k = l

CalendarInv ==
  /\ rows = << >> /\ exams = << >> => weeks = << >>
  /\ Single(weeks)
  /\ \A d \in Dates : SameSize(ExamPlaces(weeks, d), ExamsOn(exams, d))

LEMMA CalendarInit == Init => CalendarInv
<1> SUFFICES ASSUME Init PROVE CalendarInv
  OBVIOUS
<1>1. exams = << >> /\ weeks = << >> /\ DOMAIN exams = {} /\ DOMAIN weeks = {}
  BY DEF Init
<1>2. \A d : ExamPlaces(weeks, d) = {} /\ ExamsOn(exams, d) = {}
  BY <1>1 DEF ExamPlaces, ExamPlace, ExamsOn, IsLesson, IsDay
<1>3. SameSize({}, {})
  BY FS_EmptySet DEF SameSize
<1>4. Single(weeks)
  BY <1>1 DEF Single, IsLesson, IsDay
<1> QED
  BY <1>1, <1>2, <1>3, <1>4 DEF CalendarInv

(* A row that is not merged has no lesson in its day yet.                  *)
LEMMA SingleByRow ==
  ASSUME TableInv, exams = << >>, Single(weeks), NEW row \in RowShape,
         row \notin {rows[m] : m \in DOMAIN rows},
         NEW r, NEW w, NEW i, NEW k, RowRound(weeks, r, w, i, k, row)
  PROVE  Single(r)
<1>1. ASSUME NEW l, IsLesson(r, w, i, l), l # k, At3(r, w, i, k).id # 0,
             At3(r, w, i, l).id = At3(r, w, i, k).id
      PROVE  FALSE
  <2>1. IsLesson(weeks, w, i, l) /\ At3(r, w, i, l) = At3(weeks, w, i, l)
    BY <1>1, Around DEF RowRound
  <2>2. CASE IsLesson(weeks, w, i, k)
    <3>1. At3(weeks, w, i, k).id = At3(r, w, i, k).id
      BY <2>2, Around DEF RowRound, Kept
    <3> QED
      BY <1>1, <2>1, <2>2, <3>1 DEF Single
  <2>3. CASE ~IsLesson(weeks, w, i, k)
    <3>1. At3(r, w, i, k) = Lesson(row)
      BY <2>3, RowPlaced
    <3>2. Lesson(row).id = row.of.id /\ Lesson(row).date = row.date
      BY LessonMade DEF FromRow, TableInv
    <3>3. weeks[w].number = row.week /\ weeks[w].days[i].date = row.date
      BY <2>1, <3>2 DEF RowRound, Adds, IsLesson, IsDay
    <3>4. At3(weeks, w, i, l).date = row.date
      BY <2>1, <3>3 DEF TableInv, Once, At3
    <3>5. HasLesson(weeks, row)
      BY <1>1, <2>1, <3>1, <3>2, <3>3, <3>4 DEF HasLesson
    <3> QED
      BY <3>5, NewRowNoLesson
  <2> QED
    BY <2>2, <2>3
<1>2. ASSUME NEW v, NEW j, NEW m, NEW l, IsLesson(r, v, j, m), IsLesson(r, v, j, l),
             At3(r, v, j, m).id # 0, At3(r, v, j, m).id = At3(r, v, j, l).id
      PROVE  m = l
  <2>1. CASE v = w /\ j = i /\ (m = k \/ l = k)
    BY <1>1, <1>2, <2>1
  <2>2. CASE ~(v = w /\ j = i /\ (m = k \/ l = k))
    <3>1. /\ IsLesson(weeks, v, j, m) /\ At3(r, v, j, m) = At3(weeks, v, j, m)
          /\ IsLesson(weeks, v, j, l) /\ At3(r, v, j, l) = At3(weeks, v, j, l)
      BY <1>2, <2>2, Around DEF RowRound
    <3> QED
      BY <1>2, <3>1 DEF Single
  <2> QED
    BY <2>1, <2>2
<1> QED
  BY <1>2 DEF Single

LEMMA CalendarByRow ==
  ASSUME TableInv, CalendarInv,
         NEW d \in Dates, NEW x \in Trainings[rType], NEW n \in Weeks[d],
         createWeek(Row(d, n, x))
  PROVE  CalendarInv'
<1> DEFINE row == Row(d, n, x)
<1>1. row \in RowShape /\ exams = << >> /\ exams' = exams /\ rows' = Append(rows, row)
  BY RowRounds DEF createWeek
<1>2. PICK w, i, k : RowRound(weeks, weeks', w, i, k, row)
  BY RowRounds
<1>0. row \notin {rows[m] : m \in DOMAIN rows}
  BY DEF createWeek, InOrder
<1> HIDE DEF row
<1>3. rows' # << >>
  BY <1>1 DEF TableInv
<1>4. At3(weeks', w, i, k).id # 0
  BY <1>1, <1>2, RowPlaced
<1>5. RowsOnly(weeks)
  BY <1>1 DEF TableInv
<1>6. ASSUME NEW v, NEW j, NEW m, IsLesson(weeks', v, j, m)
      PROVE  At3(weeks', v, j, m).id # 0
  <2>1. \/ v = w /\ j = i /\ m = k
        \/ IsLesson(weeks, v, j, m) /\ At3(weeks', v, j, m) = At3(weeks, v, j, m)
    BY <1>2, <1>6, Around DEF RowRound
  <2>2. IsLesson(weeks, v, j, m) => At3(weeks, v, j, m).id # 0
    BY <1>5 DEF RowsOnly, At3
  <2> QED
    BY <1>4, <2>1, <2>2
<1>7. ASSUME NEW c \in Dates PROVE SameSize(ExamPlaces(weeks', c), ExamsOn(exams', c))
  <2>1. ExamPlaces(weeks', c) = {} /\ ExamPlaces(weeks, c) = {}
    BY <1>5, <1>6, ZenonT(30) DEF ExamPlaces, ExamPlace, RowsOnly, At3
  <2> QED
    BY <1>1, <2>1 DEF CalendarInv
<1>8. Single(weeks')
  BY <1>0, <1>1, <1>2, SingleByRow DEF CalendarInv
<1> QED
  BY <1>3, <1>7, <1>8 DEF CalendarInv

LEMMA CalendarByExam ==
  ASSUME TableInv, CalendarInv,
         NEW d \in Dates, NEW g \in Examined, injectExams(Exam(d, g))
  PROVE  CalendarInv'
<1> DEFINE exam == Exam(d, g)
           y == Len(exams) + 1
<1>1. exam \in ExamShape /\ exam.date = d /\ exams' = Append(exams, exam)
  BY ExamRounds DEF injectExams
<1>2. PICK w, i, k : ExamRound(weeks, weeks', w, i, k, exam)
  BY ExamRounds
<1> HIDE DEF exam
<1>3. /\ exams \in Seq(ExamShape) /\ DOMAIN exams' = DOMAIN exams \cup {y}
      /\ exams'[y] = exam /\ y \notin DOMAIN exams
      /\ \A m \in DOMAIN exams : exams'[m] = exams[m]
  BY <1>1, OneMore DEF TableInv
<1>4. exams' # << >>
  BY <1>1, <1>3
<1>5. At3(weeks', w, i, k).id = 0 /\ At3(weeks', w, i, k).date = d
      /\ IsLesson(weeks', w, i, k) /\ ~IsLesson(weeks, w, i, k)
      /\ weeks' \in Seq(WeekShape)
  BY <1>1, <1>2, ExamMade DEF TableInv, ExamRound, OnlyAt, Adds
<1> DEFINE l == <<w, i, k>>
<1>6. l \in Nat \X Nat \X Nat
  BY <1>5, PlacesAreNat
<1>7. ASSUME NEW c, NEW v, NEW j, NEW m
      PROVE  ExamPlace(weeks', c, v, j, m) <=>
               ExamPlace(weeks, c, v, j, m) \/ (c = d /\ v = w /\ j = i /\ m = k)
  <2>1. CASE v = w /\ j = i /\ m = k
    BY <1>5, <2>1 DEF ExamPlace
  <2>2. CASE ~(v = w /\ j = i /\ m = k)
    <3>1. IsLesson(weeks', v, j, m) <=> IsLesson(weeks, v, j, m)
      BY <1>2, <2>2, Around DEF ExamRound
    <3>2. IsLesson(weeks', v, j, m) => At3(weeks', v, j, m) = At3(weeks, v, j, m)
      BY <1>2, <2>2, Around DEF ExamRound
    <3> QED
      BY <2>2, <3>1, <3>2 DEF ExamPlace
  <2> QED
    BY <2>1, <2>2
<1>8. l \notin ExamPlaces(weeks, d)
  BY <1>5 DEF ExamPlaces, ExamPlace
<1>9. ASSUME NEW c
      PROVE  ExamPlaces(weeks', c) =
               IF c = d THEN ExamPlaces(weeks, c) \cup {l} ELSE ExamPlaces(weeks, c)
  <2>1. \A p \in Nat \X Nat \X Nat :
          p = l <=> p[1] = w /\ p[2] = i /\ p[3] = k
    <3> SUFFICES ASSUME NEW p \in Nat \X Nat \X Nat
                 PROVE  p = l <=> p[1] = w /\ p[2] = i /\ p[3] = k
      OBVIOUS
    <3>1. p = <<p[1], p[2], p[3]>>
      OBVIOUS
    <3> QED
      BY <3>1
  <2> HIDE DEF l
  <2>2. \A p \in Nat \X Nat \X Nat :
          p \in ExamPlaces(weeks', c) <=>
            p \in ExamPlaces(weeks, c) \/ (c = d /\ p = l)
    BY <1>7, <2>1 DEF ExamPlaces
  <2>3. /\ ExamPlaces(weeks', c) \subseteq Nat \X Nat \X Nat
        /\ ExamPlaces(weeks, c) \subseteq Nat \X Nat \X Nat
    BY DEF ExamPlaces
  <2> QED
    BY <1>6, <2>2, <2>3
<1> HIDE DEF l, y
<1>10. ASSUME NEW c
       PROVE  ExamsOn(exams', c) =
                IF c = d THEN ExamsOn(exams, c) \cup {y} ELSE ExamsOn(exams, c)
  BY <1>1, <1>3 DEF ExamsOn
<1>11. ASSUME NEW c \in Dates
       PROVE  SameSize(ExamPlaces(weeks', c), ExamsOn(exams', c))
  <2>1. SameSize(ExamPlaces(weeks, c), ExamsOn(exams, c))
    BY DEF CalendarInv
  <2>2. CASE c = d
    <3>1. y \notin ExamsOn(exams, d)
      BY <1>3 DEF ExamsOn
    <3>2. SameSize(ExamPlaces(weeks, d) \cup {l}, ExamsOn(exams, d) \cup {y})
      BY <1>8, <2>1, <2>2, <3>1, BothGrow
    <3> QED
      BY <1>9, <1>10, <2>2, <3>2
  <2>3. CASE c # d
    BY <1>9, <1>10, <2>1, <2>3
  <2> QED
    BY <2>2, <2>3
<1>12. ASSUME NEW v, NEW j, NEW m, NEW n,
              IsLesson(weeks', v, j, m), IsLesson(weeks', v, j, n),
              At3(weeks', v, j, m).id # 0,
              At3(weeks', v, j, m).id = At3(weeks', v, j, n).id
       PROVE  m = n
  <2>1. /\ IsLesson(weeks, v, j, m) /\ At3(weeks', v, j, m) = At3(weeks, v, j, m)
        /\ IsLesson(weeks, v, j, n) /\ At3(weeks', v, j, n) = At3(weeks, v, j, n)
    BY <1>2, <1>5, <1>12, Around DEF ExamRound
  <2> QED
    BY <1>12, <2>1 DEF CalendarInv, Single
<1>13. Single(weeks')
  BY <1>12 DEF Single
<1> QED
  BY <1>4, <1>11, <1>13 DEF CalendarInv

LEMMA CalendarHolds == Spec => [](TableInv /\ ContentsInv /\ CalendarInv)
<1>1. TableInv /\ CalendarInv /\ [Next]_vars => CalendarInv'
  <2> SUFFICES ASSUME TableInv, CalendarInv, [Next]_vars PROVE CalendarInv'
    OBVIOUS
  <2>1. ASSUME NEW d \in Dates, NEW x \in Trainings[rType], NEW n \in Weeks[d],
               createWeek(Row(d, n, x))
        PROVE  CalendarInv'
    BY <2>1, CalendarByRow
  <2>2. ASSUME NEW d \in Dates, NEW g \in Examined, injectExams(Exam(d, g))
        PROVE  CalendarInv'
    BY <2>2, CalendarByExam
  <2>3. CASE UNCHANGED vars
    BY <2>3 DEF CalendarInv, vars
  <2> QED
    BY <2>1, <2>2, <2>3 DEF Next
<1> QED
  BY <1>1, CalendarInit, ContentsHold, PTL DEF Spec

-----------------------------------------------------------------------------
LEMMA InDay ==
  ASSUME NEW d \in Nat, NEW m \in Time
  PROVE  /\ DayOf(At(d, m)) = d /\ DayOf(At(d, m + 23 * 60 + 60)) = d + 1
         /\ \A c \in Nat, n \in Time : At(d, m) = At(c, n) => d = c
<1>1. DayMinutes = 1440 /\ Time = 0..1439
  BY DEF DayMinutes, Time
<1>2. /\ \A c, n : At(c, n) = c * 1440 + n
      /\ \A x : DayOf(x) = x \div 1440
  BY <1>1 DEF DayOf, At
<1>3. ASSUME NEW c \in Nat, NEW n \in Time
      PROVE  DayOf(At(c, n)) = c /\ DayOf(At(c, n + 23 * 60 + 60)) = c + 1
  <2>1. n \in 0..1439
    BY <1>1
  <2>2. At(c, n) = c * 1440 + n /\ At(c, n + 23 * 60 + 60) = c * 1440 + (n + 23 * 60 + 60)
    BY <1>2
  <2>3. /\ DayOf(At(c, n)) = (c * 1440 + n) \div 1440
        /\ DayOf(At(c, n + 23 * 60 + 60)) = (c * 1440 + (n + 23 * 60 + 60)) \div 1440
    BY <1>2, <2>2
  <2>4. /\ (c * 1440 + n) \div 1440 = c
        /\ (c * 1440 + (n + 23 * 60 + 60)) \div 1440 = c + 1
    BY <2>1
  <2> QED
    BY <2>3, <2>4
<1> QED
  BY <1>3

(* Pairs start within the day.                                             *)
LEMMA BellsInDay ==
  ASSUME NEW s \in DOMAIN Bell
  PROVE  Bell[s].start \in Time
<1> DEFINE start == Bell[s].start
           end == Bell[s].end
<1>1. Bell[s] \in [start : Nat, end : 0..(DayMinutes - 1)] /\ start < end
  BY BellsAssumption
<1>2. start \in Nat /\ end \in 0..(DayMinutes - 1)
  BY <1>1
<1>3. Time = 0..1439 /\ 0..(DayMinutes - 1) = 0..1439
  BY DEF Time, DayMinutes
<1>4. end \in 0..1439 /\ start < end
  BY <1>1, <1>2, <1>3
<1> HIDE DEF start, end
<1>5. start \in 0..1439
  BY <1>2, <1>4
<1>6. start \in Time
  BY <1>3, <1>5
<1> QED
  BY <1>6 DEF start

(* The lessons of rows that begin when pair s of day d does, and the rows. *)
LessonsAt(d, s) ==
  {k \in DOMAIN AllLessons :
     /\ At(AllLessons[k].date, AllLessons[k].start) = At(d, Bell[s].start)
     /\ AllLessons[k].id # 0}
RowsAt(d, s) == {i \in DOMAIN rows : rows[i].date = d /\ rows[i].of.slot = s}

(* Each of them was made of a row of its own.                              *)
LEMMA NoMoreThanRows ==
  ASSUME TableInv, CalendarInv, NEW d \in Dates, NEW s \in DOMAIN Bell
  PROVE  Cardinality(LessonsAt(d, s)) <= Cardinality(RowsAt(d, s))
<1> DEFINE K == LessonsAt(d, s)
           X == RowsAt(d, s)
<1>1. PICK h : Tells(h)
  BY AllListed
<1> DEFINE MadeIt(k, m) == /\ FromRow(AllLessons[k], rows[m])
                           /\ rows[m].week = weeks[h[k][1]].number
<1>2. ASSUME NEW k \in K
      PROVE  /\ k \in DOMAIN AllLessons /\ AllLessons[k].id # 0
             /\ At(AllLessons[k].date, AllLessons[k].start) = At(d, Bell[s].start)
             /\ IsLesson(weeks, h[k][1], h[k][2], h[k][3])
             /\ AllLessons[k] = At3(weeks, h[k][1], h[k][2], h[k][3])
  <2>1. /\ k \in DOMAIN AllLessons /\ AllLessons[k].id # 0
        /\ At(AllLessons[k].date, AllLessons[k].start) = At(d, Bell[s].start)
    BY DEF LessonsAt
  <2> QED
    BY <1>1, <2>1 DEF Tells
<1> HIDE DEF K
<1>3. ASSUME NEW k \in K PROVE \E m \in DOMAIN rows : MadeIt(k, m)
  <2> DEFINE v == h[k][1]
             j == h[k][2]
             l == h[k][3]
  <2>1. /\ IsLesson(weeks, v, j, l) /\ AllLessons[k] = At3(weeks, v, j, l)
        /\ AllLessons[k].id # 0
    BY <1>2
  <2>2. MadeOf(weeks, rows)
    BY DEF TableInv
  <2> HIDE DEF v, j, l
  <2>3. AllLessons[k] = weeks[v].days[j].lessons[l]
    BY <2>1 DEF At3
  <2>4. weeks[v].days[j].lessons[l].id # 0
    BY <2>1, <2>3
  <2>5. \E m \in DOMAIN rows : /\ FromRow(weeks[v].days[j].lessons[l], rows[m])
                               /\ rows[m].week = weeks[v].number
    BY <2>1, <2>2, <2>4, Zenon DEF MadeOf
  <2> QED
    BY <2>3, <2>5 DEF v
<1> DEFINE RowOf(k) == CHOOSE m \in DOMAIN rows : MadeIt(k, m)
           f == [k \in K |-> RowOf(k)]
<1>4. ASSUME NEW k \in K
      PROVE  RowOf(k) \in DOMAIN rows /\ MadeIt(k, RowOf(k))
  <2> HIDE DEF MadeIt
  <2> QED
    BY <1>3
<1> HIDE DEF RowOf
<1>5. ASSUME NEW k \in K
      PROVE  AllLessons[k].date = d /\ RowOf(k) \in X
  <2> DEFINE e == AllLessons[k]
             row == rows[RowOf(k)]
  <2>1. /\ At(e.date, e.start) = At(d, Bell[s].start) /\ k \in DOMAIN AllLessons
        /\ RowOf(k) \in DOMAIN rows /\ FromRow(e, row)
    BY <1>2, <1>4
  <2>2. e \in LessonType /\ row \in RowShape /\ rType \in RTypes
    BY <2>1, AllListed DEF TableInv
  <2> HIDE DEF e, row
  <2>3. e.date \in Dates /\ e.start \in Time
    BY <2>2 DEF LessonType
  <2>4. e.date \in Nat /\ e.start \in Nat /\ d \in Nat
    <3>1. Time \subseteq Nat
      BY DEF Time, DayMinutes
    <3> QED
      BY <2>3, <3>1, DatesAssumption
  <2>5. Bell[s].start \in Time
    BY BellsInDay
  <2>6. e.date = d
    BY <2>1, <2>3, <2>4, <2>5, InDay
  <2>7. e.start = Bell[s].start
    <3> DEFINE a == e.date * DayMinutes
    <3>1. a + e.start = a + Bell[s].start /\ a \in Nat
      BY <2>1, <2>4, <2>6 DEF At, DayMinutes
    <3>2. Bell[s].start \in Nat
      BY <2>5 DEF Time
    <3> HIDE DEF a
    <3> QED
      BY <2>4, <3>1, <3>2
  <2>8. row.of.slot \in DOMAIN Bell
    BY <2>2, LessonMade DEF Training
  <2>9. row.of.slot = s
    BY <2>1, <2>7, <2>8, StartsDiffer DEF FromRow
  <2>10. row.date = d
    BY <2>1, <2>6 DEF FromRow
  <2> QED
    BY <2>1, <2>6, <2>9, <2>10 DEF e, row, RowsAt
<1>6. ASSUME NEW k \in K, NEW l \in K, RowOf(k) = RowOf(l) PROVE k = l
  <2> DEFINE p == h[k]
             q == h[l]
  <2>1. /\ weeks[p[1]].number = weeks[q[1]].number
        /\ AllLessons[k].id = AllLessons[l].id /\ AllLessons[k].id # 0
        /\ AllLessons[k].date = d /\ AllLessons[l].date = d
    BY <1>2, <1>4, <1>5, <1>6 DEF FromRow
  <2>2. /\ IsLesson(weeks, p[1], p[2], p[3]) /\ IsLesson(weeks, q[1], q[2], q[3])
        /\ AllLessons[k] = At3(weeks, p[1], p[2], p[3])
        /\ AllLessons[l] = At3(weeks, q[1], q[2], q[3])
    BY <1>2
  <2>3. p \in Nat \X Nat \X Nat /\ q \in Nat \X Nat \X Nat
    BY <1>1, <1>2 DEF Tells
  <2> HIDE DEF p, q
  <2>4. p[1] = q[1]
    BY <2>1, <2>2 DEF TableInv, Once, IsLesson, IsDay
  <2>5. p[2] = q[2]
    <3>1. Once(weeks)
      BY DEF TableInv
    <3>2. \A v, j, m : IsLesson(weeks, v, j, m) =>
            weeks[v].days[j].date = At3(weeks, v, j, m).date
      BY <3>1 DEF Once, At3
    <3>3. weeks[p[1]].days[p[2]].date = d /\ weeks[p[1]].days[q[2]].date = d
      BY <2>1, <2>2, <2>4, <3>2
    <3>4. IsDay(weeks, p[1], p[2]) /\ IsDay(weeks, p[1], q[2])
      BY <2>2, <2>4 DEF IsLesson
    <3> QED
      BY <3>1, <3>3, <3>4 DEF Once
  <2>6. p[3] = q[3]
    BY <2>1, <2>2, <2>4, <2>5 DEF CalendarInv, Single
  <2>7. p = q
    BY <2>3, <2>4, <2>5, <2>6
  <2> QED
    BY <1>1, <1>2, <2>7 DEF Tells, p, q
<1>7. IsFiniteSet(X)
  <2>1. DOMAIN rows = 1..Len(rows) /\ Len(rows) \in Nat
    BY DEF TableInv
  <2>2. IsFiniteSet(DOMAIN rows)
    BY <2>1, FS_Interval
  <2> QED
    BY <2>2, FS_Subset DEF RowsAt
<1> HIDE DEF X
<1>8. f \in Injection(K, X)
  BY <1>5, <1>6 DEF Injection, IsInjective
<1> HIDE DEF f
<1>9. Cardinality(K) <= Cardinality(X)
  BY <1>7, <1>8, FS_Injection
<1> QED
  BY <1>9 DEF K, X

(* Exams, and only they, are events of the whole day: the made-up end of   *)
(* an exam is always in the next day, and the computed end of a lesson     *)
(* never within an hour of it, for bells such as createWeek presupposes    *)
(* (createLessonEvent, injectExams).                                       *)
THEOREM OnlyExamsAllDay == BellsOfPairs /\ EveningFree => (Spec => []AllDayIffExam)
<1> SUFFICES ASSUME BellsOfPairs, EveningFree PROVE Spec => []AllDayIffExam
  OBVIOUS
<1>1. TableInv /\ ContentsInv => AllDayIffExam
  <2> SUFFICES ASSUME TableInv, ContentsInv, NEW k \in DOMAIN AllLessons
               PROVE  generateCalendar[k].allDay <=> AllLessons[k].id = 0
    BY DEF AllDayIffExam
  <2> DEFINE e == AllLessons[k]
  <2>1. PICK h : Tells(h)
    BY AllListed
  <2> DEFINE p == h[k]
  <2>2. IsLesson(weeks, p[1], p[2], p[3]) /\ e = At3(weeks, p[1], p[2], p[3])
    BY <2>1 DEF Tells
  <2>3. e \in LessonType
    BY AllListed
  <2>4. /\ e.date \in Nat /\ e.start \in Time /\ e.end \in Nat
    <3>1. e.date \in Dates /\ e.start \in Time /\ e.end \in Nat
      BY <2>3 DEF LessonType
    <3> QED
      BY <3>1, DatesAssumption
  <2>5. generateCalendar[k].allDay =
          (DayOf(At(e.date, e.start)) < DayOf(At(e.date, e.end + 60)))
    BY DEF generateCalendar, createLessonEvent
  <2>6. DayOf(At(e.date, e.start)) = e.date
    BY <2>4, InDay
  <2>7. CASE e.id = 0
    <3>1. e.end = e.start + 23 * 60
      BY <2>2, <2>7 DEF ContentsInv, Timed, OfExam
    <3> HIDE DEF e
    <3>2. DayOf(At(e.date, e.end + 60)) = e.date + 1
      BY <2>4, <3>1, InDay
    <3>3. e.date < e.date + 1
      BY <2>4
    <3> QED
      BY <2>5, <2>6, <2>7, <3>2, <3>3 DEF e
  <2>8. CASE e.id # 0
    <3>1. <<p[1], p[2], p[3]>> \in LessonPlaces
          /\ LessonIn(<<p[1], p[2], p[3]>>) = e
      BY <2>2, Places DEF LessonIn, At3
    <3>2. PICK m \in DOMAIN Bell : e.end <= Bell[m].end
      BY <2>8, <3>1, RowEnds
    <3>3. e.end + 60 \in Time
      <4>1. Bell[m].end + 60 < DayMinutes /\ Bell[m].end \in Nat
        BY <3>2, BellTimes DEF EveningFree
      <4>2. DayMinutes = 1440 /\ Time = 0..1439
        BY DEF DayMinutes, Time
      <4> DEFINE x == e.end
                 y == Bell[m].end
      <4>3. x \in Nat /\ y \in Nat /\ x <= y /\ y + 60 < 1440
        BY <2>4, <3>2, <4>1, <4>2
      <4> HIDE DEF x, y
      <4>4. x + 60 \in 0..1439
        BY <4>3
      <4> QED
        BY <4>2, <4>4 DEF x
    <3> HIDE DEF e
    <3>4. DayOf(At(e.date, e.end + 60)) = e.date
      BY <2>4, <3>3, InDay
    <3>5. ~(e.date < e.date)
      BY <2>4
    <3> QED
      BY <2>5, <2>6, <2>8, <3>4, <3>5 DEF e
  <2> QED
    BY <2>7, <2>8
<1> QED
  BY <1>1, ContentsHold, PTL

(* From the rows and the exams to the calendar nothing gets lost and       *)
(* nothing twice: at the start of a pair there are no more lessons than    *)
(* rows. A calendar is not found only if there is nothing in it.           *)
THEOREM EventsForAll == Spec => []EventForEach
<1>1. TableInv /\ ContentsInv /\ CalendarInv => EventForEach
  <2> SUFFICES ASSUME TableInv, ContentsInv, CalendarInv PROVE EventForEach
    OBVIOUS
  <2>1. PICK h : Tells(h)
    BY AllListed
  <2>2. /\ DOMAIN generateCalendar = DOMAIN AllLessons
        /\ \A k \in DOMAIN AllLessons :
             generateCalendar[k] = createLessonEvent(AllLessons[k])
    BY DEF generateCalendar
  <2>3. ASSUME NEW k \in DOMAIN AllLessons
        PROVE  /\ generateCalendar[k].start =
                    At(AllLessons[k].date, AllLessons[k].start)
               /\ generateCalendar[k].location = AllLessons[k].room
    BY <2>2 DEF createLessonEvent
  <2>4. NotFound <=> rows = << >> /\ exams = << >>
    <3>1. ASSUME weeks = << >> PROVE rows = << >> /\ exams = << >>
      <4>1. \A v, j, k : ~IsLesson(weeks, v, j, k)
        BY <3>1 DEF IsLesson, IsDay
      <4>2. DOMAIN rows = {}
        BY <4>1 DEF TableInv, Shown
      <4>3. ASSUME NEW m \in DOMAIN exams PROVE FALSE
        <5> DEFINE d == exams[m].date
        <5>1. d \in Dates /\ m \in ExamsOn(exams, d)
          <6>1. exams \in Seq(ExamShape)
            BY DEF TableInv
          <6>2. exams[m] \in ExamShape
            BY <6>1
          <6> QED
            BY <6>2 DEF ExamShape, ExamsOn
        <5>2. ExamPlaces(weeks, d) = {}
          BY <4>1 DEF ExamPlaces, ExamPlace
        <5> HIDE DEF d
        <5>3. SameSize({}, ExamsOn(exams, d))
          BY <5>1, <5>2 DEF CalendarInv
        <5> QED
          BY <5>1, <5>3, FS_EmptySet DEF SameSize
      <4>4. rows \in Seq(RowShape) /\ exams \in Seq(ExamShape)
        BY DEF TableInv
      <4> QED
        BY <4>2, <4>3, <4>4, SMTT(20)
    <3> QED
      BY <3>1 DEF NotFound, CalendarInv
  <2>5. ASSUME NEW i \in DOMAIN rows
        PROVE  \E k \in DOMAIN AllLessons :
                 /\ generateCalendar[k].start =
                      At(rows[i].date, Bell[rows[i].of.slot].start)
                 /\ \/ generateCalendar[k].location = OrUndefined(rows[i].of.room)
                    \/ rows[i].of.stream # 0
    <3>1. PICK v, j, m : /\ IsLesson(weeks, v, j, m)
                         /\ Stands(rType, At3(weeks, v, j, m), rows[i])
      BY DEF TableInv, Shown, At3
    <3> DEFINE e == At3(weeks, v, j, m)
    <3>2. PICK k \in DOMAIN AllLessons : h[k] = <<v, j, m>>
      BY <2>1, <3>1 DEF Tells
    <3>3. AllLessons[k] = e
      BY <2>1, <3>2 DEF Tells
    <3>4. /\ e.date = rows[i].date /\ e.slot = rows[i].of.slot
          /\ rows[i].of.stream = 0 => e.room = OrUndefined(rows[i].of.room)
      BY <3>1 DEF Stands
    <3>5. rows[i].of.slot # 0
      <4>1. rows[i] \in RowShape /\ rType \in RTypes
        BY DEF TableInv
      <4>2. rows[i].of.slot \in DOMAIN Bell
        BY <4>1, LessonMade DEF Training
      <4> QED
        BY <4>2, BellsAssumption
    <3>6. e.start = Bell[rows[i].of.slot].start
      BY <3>1, <3>4, <3>5 DEF ContentsInv, Timed, OfExam, OfRow
    <3> QED
      BY <2>3, <3>3, <3>4, <3>6
  <2>6. ASSUME NEW d \in Dates
        PROVE  Cardinality(ExamsOn(exams, d)) =
                 Cardinality({k \in {n \in DOMAIN generateCalendar :
                                generateCalendar[n].start = At(d, ExamAt[d])} :
                   AllLessons[k].id = 0})
    <3> DEFINE K == {k \in {n \in DOMAIN generateCalendar :
                              generateCalendar[n].start = At(d, ExamAt[d])} :
                       AllLessons[k].id = 0}
               X == ExamPlaces(weeks, d)
               f == [k \in K |-> h[k]]
    <3>1. ASSUME NEW k \in DOMAIN AllLessons
          PROVE  k \in K <=> AllLessons[k].id = 0 /\ AllLessons[k].date = d
      <4> DEFINE e == AllLessons[k]
      <4>1. k \in K <=> e.id = 0 /\ At(e.date, e.start) = At(d, ExamAt[d])
        BY <2>2, <2>3
      <4>2. e \in LessonType
        BY AllListed
      <4>3. e.id = 0 => e.start = ExamAt[e.date]
        <5>1. /\ IsLesson(weeks, h[k][1], h[k][2], h[k][3])
              /\ e = At3(weeks, h[k][1], h[k][2], h[k][3])
          BY <2>1 DEF Tells
        <5> QED
          BY <5>1 DEF ContentsInv, Timed, OfExam
      <4>4. /\ e.date \in Nat /\ e.start \in Time
            /\ d \in Nat /\ ExamAt[d] \in Time
        <5>1. e.date \in Dates /\ e.start \in Time
          BY <4>2 DEF LessonType
        <5> QED
          BY <5>1, DatesAssumption DEF Time
      <4> HIDE DEF e, K
      <4>5. At(e.date, e.start) = At(d, ExamAt[d]) => e.date = d
        BY <4>4, InDay
      <4> QED
        BY <4>1, <4>3, <4>5 DEF e
    <3>2. K \subseteq DOMAIN AllLessons
      BY <2>2
    <3> HIDE DEF K
    <3>3. ASSUME NEW k \in K
          PROVE  f[k] \in X
      <4>1. /\ h[k] \in Nat \X Nat \X Nat /\ k \in DOMAIN AllLessons
            /\ IsLesson(weeks, h[k][1], h[k][2], h[k][3])
            /\ AllLessons[k] = At3(weeks, h[k][1], h[k][2], h[k][3])
        BY <2>1, <3>2 DEF Tells
      <4>2. AllLessons[k].id = 0 /\ AllLessons[k].date = d
        BY <3>1, <4>1
      <4> QED
        BY <4>1, <4>2 DEF ExamPlaces, ExamPlace
    <3>4. ASSUME NEW k \in K, NEW l \in K, f[k] = f[l] PROVE k = l
      BY <2>1, <3>2, <3>4 DEF Tells
    <3>5. ASSUME NEW x \in X PROVE \E k \in K : f[k] = x
      <4>1. /\ x \in Nat \X Nat \X Nat /\ x = <<x[1], x[2], x[3]>>
            /\ ExamPlace(weeks, d, x[1], x[2], x[3])
        BY DEF ExamPlaces
      <4>2. PICK k \in DOMAIN AllLessons : h[k] = <<x[1], x[2], x[3]>>
        BY <2>1, <4>1 DEF Tells, ExamPlace
      <4>3. AllLessons[k] = At3(weeks, x[1], x[2], x[3])
        BY <2>1, <4>2 DEF Tells
      <4>4. k \in K
        BY <3>1, <4>1, <4>3 DEF ExamPlace
      <4> QED
        BY <4>1, <4>2, <4>4
    <3> HIDE DEF X
    <3>6. f \in [K -> X]
      BY <3>3
    <3> HIDE DEF f
    <3>7. f \in Bijection(K, X)
      BY <3>4, <3>5, <3>6 DEF Bijection, Injection, Surjection, IsInjective
    <3>8. ExistsBijection(K, X)
      BY <3>7 DEF ExistsBijection
    <3>9. IsFiniteSet(X) /\ Cardinality(X) = Cardinality(ExamsOn(exams, d))
      BY DEF CalendarInv, SameSize, X
    <3>10. Cardinality(K) = Cardinality(X)
      <4>1. ExistsBijection(X, K)
        BY <3>8, Fun_ExistsBijSymmetric
      <4> QED
        BY <3>9, <4>1, FS_Bijection
    <3> QED
      BY <3>9, <3>10 DEF K
  <2>7. ASSUME NEW d \in Dates, NEW s \in DOMAIN Bell
        PROVE  Cardinality({k \in {n \in DOMAIN generateCalendar :
                              generateCalendar[n].start = At(d, Bell[s].start)} :
                              AllLessons[k].id # 0})
               <= Cardinality(RowsAt(d, s))
    <3>1. {k \in {n \in DOMAIN generateCalendar :
             generateCalendar[n].start = At(d, Bell[s].start)} :
             AllLessons[k].id # 0} = LessonsAt(d, s)
      BY <2>2, <2>3 DEF LessonsAt
    <3> QED
      BY <3>1, NoMoreThanRows
  <2> QED
    BY <2>2, <2>4, <2>5, <2>6, <2>7 DEF EventForEach, ExamsOn, RowsAt
<1> QED
  BY <1>1, CalendarHolds, PTL
=============================================================================
