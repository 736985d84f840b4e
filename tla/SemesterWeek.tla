---------------------------- MODULE SemesterWeek ----------------------------
(***************************************************************************)
(* The calendar arithmetic of common/util/scheduler.util.ts: the number of *)
(* the week of the year, and the offset that turns it into the number of   *)
(* the week in the semester. The service has no state here; the model      *)
(* walks through the days of consecutive years, one day a step, and looks  *)
(* at the numbers each day gets, as an exam on that day would.             *)
(***************************************************************************)
EXTENDS Integers

CONSTANTS
  FirstYear,   \* bound: the year whose first day the walk starts on
  LastYear     \* bound: the year whose last day it ends on

ASSUME YearsAssumption ==
  FirstYear \in Nat /\ LastYear \in Nat /\ 1900 < FirstYear

VARIABLES
  date    \* the local date of the server: [year, day], day counted from 1

-----------------------------------------------------------------------------
(* The proleptic Gregorian calendar of JavaScript's Date.                  *)
IsLeap(y) == (y % 4 = 0 /\ y % 100 # 0) \/ y % 400 = 0
DaysIn(y) == IF IsLeap(y) THEN 366 ELSE 365

(* Days from 1 January of year 1, a Monday.                                *)
DayNumber(d) ==
  LET y == d.year - 1
  IN  365 * y + y \div 4 - y \div 100 + y \div 400 + d.day - 1

(* getUTCDay() || 7: Monday is 1, Sunday 7.                                *)
DayOfWeek(d) == (DayNumber(d) % 7) + 1

(* A day of the year that may lie outside the year, as setUTCDate allows.  *)
Normalised(y, day) ==
  IF day < 1 THEN [year |-> y - 1, day |-> day + DaysIn(y - 1)]
  ELSE IF day > DaysIn(y) THEN [year |-> y + 1, day |-> day - DaysIn(y)]
  ELSE [year |-> y, day |-> day]

Day(y, month) ==
  [year |-> y,
   day  |-> CASE month = "1 February"   -> 32
              [] month = "1 September"  -> IF IsLeap(y) THEN 245 ELSE 244
              [] month = "31 December"  -> DaysIn(y)]

-----------------------------------------------------------------------------
(* The Sunday of a week counted as its first day.                          *)
SundayFirstMutant(d) ==
  LET thursday == Normalised(d.year, d.day + 4 - (DayOfWeek(d) % 7))
  IN  (thursday.day - 1) \div 7 + 1

(* The week has the year of its Thursday, and that Thursday's number there.*)
getWeekNumber(d) ==
  LET thursday == Normalised(d.year, d.day + 4 - DayOfWeek(d))
  IN  (thursday.day - 1) \div 7 + 1

(* The week of 1 September itself taken for the spring semester.           *)
SeptemberMutant(d) ==
  LET week == getWeekNumber(d)
      sep  == getWeekNumber(Day(d.year, "1 September"))
  IN  IF week > sep THEN sep - 1
      ELSE getWeekNumber(Day(d.year, "1 February"))

getWeekOffsetByYear(d) ==
  LET week == getWeekNumber(d)
      sep  == getWeekNumber(Day(d.year, "1 September"))
      feb  == getWeekNumber(Day(d.year, "1 February"))
  IN  CASE week > sep - 1 -> sep - 1
        [] week <= sep - 1 /\ week < feb ->
             -(getWeekNumber(Day(d.year - 1, "31 December"))
               - getWeekNumber(Day(d.year - 1, "1 September")) + 1)
        [] OTHER -> feb

(* What injectExams numbers the week of an exam with.                      *)
weekNumber(d) == getWeekNumber(d) - getWeekOffsetByYear(d)

-----------------------------------------------------------------------------
Init == date = [year |-> FirstYear, day |-> 1]

(* The next day.                                                           *)
NextDay ==
  /\ date # Day(LastYear, "31 December")
  /\ date' = Normalised(date.year, date.day + 1)

Next == NextDay

Spec == Init /\ [][Next]_date

-----------------------------------------------------------------------------
(* Properties.                                                             *)

(* The Monday of the first week of a year: the one that holds 4 January.   *)
FirstMonday(y) ==
  LET jan4 == [year |-> y, day |-> 4]
  IN  DayNumber(jan4) - (DayOfWeek(jan4) - 1)

(* getWeekNumber is the ISO 8601 week, found there by shifting to Thursday *)
(* and here by counting Mondays from the week of 4 January; the first days *)
(* of January and the last of December belong to the other year's weeks.   *)
IsoWeek ==
  \E y \in (date.year - 1)..(date.year + 1) :
    /\ DayNumber(date) \in FirstMonday(y)..(FirstMonday(y + 1) - 1)
    /\ getWeekNumber(date) = (DayNumber(date) - FirstMonday(y)) \div 7 + 1

(* The days around New Year on which the week of the year starts anew.     *)
TurnOfYear(d) == d.day <= 3 \/ d.day >= DaysIn(d.year) - 2

(* The Monday of the week that holds a day of its year.                    *)
Opens(d, day) ==
  /\ DayOfWeek(d) = 1
  /\ DayNumber(Day(d.year, day)) \in DayNumber(d)..(DayNumber(d) + 6)

(* Away from New Year, the days of a week (Monday..Sunday) share a number; *)
(* the next Monday has the next one, but for the two weeks that open a     *)
(* semester: that of 1 September is week 1, that of 1 February week 0.     *)
WeekByWeek ==
  [][~TurnOfYear(date) /\ ~TurnOfYear(date') =>
       weekNumber(date') =
         CASE DayOfWeek(date') # 1 -> weekNumber(date)
           [] Opens(date', "1 September") -> 1
           [] Opens(date', "1 February") -> 0
           [] OTHER -> weekNumber(date) + 1]_date

(* What week-day.dto.ts documents: the number of a week in its semester.   *)
(* The code does not keep to it: if 31 December belongs to week 1 of the   *)
(* next year, every day of January is given a number below -27.            *)
NumberInSemester == weekNumber(date) >= 0
=============================================================================
