--------------------------- MODULE CalendarEvents ---------------------------
(***************************************************************************)
(* The iCal of a group or of a teacher (models/calendar): what             *)
(* CalendarService makes of the timetable that ScheduleService returned,   *)
(* whatever rows and exams that was assembled from. Instants are minutes;  *)
(* a `moment' keeps the date and the time of day. Titles, descriptions and *)
(* organizers, which are copied from the lesson, are left out.             *)
(***************************************************************************)
EXTENDS WeekTimetable

At(date, minute) == date * DayMinutes + minute
DayOf(instant) == instant \div DayMinutes

(* schedule.items.flatMap((e) => e.days.flatMap((e) => e.lessons))         *)
AllLessons ==
  FlattenSeq([w \in DOMAIN weeks |->
    FlattenSeq([d \in DOMAIN weeks[w].days |-> weeks[w].days[d].lessons])])

(* The last hour of the day not made up for.                               *)
SameDayMutant(e) ==
  [start |-> At(e.date, e.start), end |-> At(e.date, e.end),
   allDay |-> DayOf(At(e.date, e.start)) < DayOf(At(e.date, e.end)),
   location |-> e.room]

(* An event lasts all day if it ends within an hour of the next day.       *)
createLessonEvent(e) ==
  [start |-> At(e.date, e.start), end |-> At(e.date, e.end),
   allDay |-> DayOf(At(e.date, e.start)) < DayOf(At(e.date, e.end + 60)),
   location |-> e.room]

(* generateCalenadrForGroup and generateCalenadrForTeacher                 *)
generateCalendar ==
  [k \in DOMAIN AllLessons |-> createLessonEvent(AllLessons[k])]

(* The handlers, of a group or of a teacher (there is none for a room). A  *)
(* timetable without weeks is null, and that becomes a 404.                *)
HasCalendar == rType \in {"group", "teacher"}
NotFound == weeks = << >>

-----------------------------------------------------------------------------
(* Properties.                                                             *)

(* Exams are shown as events of the whole day and lessons at their hours:  *)
(* the all-day test of createLessonEvent sees nothing of the type of a     *)
(* lesson, but tells the two by the end that injectExams made up and the   *)
(* one that createWeek computed.                                           *)
AllDayIffExam ==
  HasCalendar =>
    LET events == generateCalendar
        lessons == AllLessons
    IN  \A k \in DOMAIN lessons : events[k].allDay <=> lessons[k].id = 0

(* From the rows to the file nothing gets lost: when a row's pair begins   *)
(* there is an event, in its room unless a stream moved it; there is one   *)
(* for every exam; and only who has neither lessons nor exams is not found.*)
(* Nor does anything come twice: when a pair begins there are no more      *)
(* events of lessons than rows (of a date in two weeks, the rows of both). *)
EventForEach ==
  HasCalendar =>
    LET events == generateCalendar
        lessons == AllLessons
        EventsAt(instant) == {k \in DOMAIN events : events[k].start = instant}
        RowsAt(d, s) ==
          {i \in DOMAIN rows : rows[i].date = d /\ rows[i].of.slot = s}
    IN  /\ NotFound <=> rows = << >> /\ exams = << >>
        /\ \A i \in DOMAIN rows :
             \E k \in EventsAt(At(rows[i].date, Bell[rows[i].of.slot].start)) :
               \/ events[k].location = OrUndefined(rows[i].of.room)
               \/ rows[i].of.stream # 0
        /\ \A d \in Dates, s \in DOMAIN Bell :
             Cardinality({k \in EventsAt(At(d, Bell[s].start)) :
                            lessons[k].id # 0})
             <= Cardinality(RowsAt(d, s))
        /\ \A d \in Dates :
             Cardinality({i \in DOMAIN exams : exams[i].date = d}) =
             Cardinality({k \in EventsAt(At(d, ExamAt[d])) : lessons[k].id = 0})
=============================================================================
