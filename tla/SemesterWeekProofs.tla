------------------------- MODULE SemesterWeekProofs -------------------------
(***************************************************************************)
(* Proofs about scheduler.util.ts for every year, not only the years of a  *)
(* run: getWeekNumber is the ISO week, and weekNumber goes week by week.   *)
(* Weeks are counted from the Monday that day 0 of DayNumber is, and both  *)
(* the shift to Thursday and the count from the first Monday are brought   *)
(* to that count.                                                          *)
(***************************************************************************)
EXTENDS SemesterWeek, TLAPS

(* A day of the calendar, from year 1 on.                                  *)
IsDate(d) ==
  /\ d.year \in Nat /\ 1 <= d.year
  /\ d.day \in 1..DaysIn(d.year) /\ d = [year |-> d.year, day |-> d.day]

(* The number of 1 January, and of a day's week counted from day 0.        *)
NewYear(y) == DayNumber([year |-> y, day |-> 1])
WeekFromZero(d) == DayNumber(d) \div 7

(* The week from day 0 that is the first one of a year.                    *)
FirstWeek(y) == (NewYear(y) + 3) \div 7

-----------------------------------------------------------------------------
(* A year has as many days as there are from its first to the next one's.  *)
LEMMA YearLength ==
  ASSUME NEW y \in Nat, 1 <= y
  PROVE  /\ NewYear(y) \in Nat /\ DaysIn(y) \in {365, 366}
         /\ NewYear(y + 1) = NewYear(y) + DaysIn(y)
  BY DEF NewYear, DayNumber, DaysIn, IsLeap

LEMMA DaysCounted ==
  ASSUME NEW y \in Nat, NEW n \in Int
  PROVE  DayNumber([year |-> y, day |-> n]) = NewYear(y) + n - 1
  BY DEF NewYear, DayNumber

LEMMA DateNumber ==
  ASSUME NEW d, IsDate(d)
  PROVE  /\ DayNumber(d) = NewYear(d.year) + d.day - 1
         /\ DayNumber(d) \in Nat /\ WeekFromZero(d) \in Nat
         /\ DayOfWeek(d) \in 1..7
         /\ DayNumber(d) = 7 * WeekFromZero(d) + DayOfWeek(d) - 1
<1>1. /\ d.year \in Nat /\ 1 <= d.year /\ d.day \in Nat /\ 1 <= d.day
      /\ d = [year |-> d.year, day |-> d.day]
  BY YearLength DEF IsDate
<1>2. DayNumber(d) = NewYear(d.year) + d.day - 1
  BY <1>1, DaysCounted
<1>3. DayNumber(d) \in Nat
  <2>1. NewYear(d.year) \in Nat
    BY <1>1, YearLength
  <2> QED
    BY <1>1, <1>2, <2>1
<1>4. ASSUME NEW n \in Nat
      PROVE  n \div 7 \in Nat /\ n % 7 \in 0..6 /\ n = 7 * (n \div 7) + (n % 7)
  OBVIOUS
<1> QED
  BY <1>2, <1>3, <1>4 DEF WeekFromZero, DayOfWeek

(* setUTCDate by at most a week stays among the dates, as many days on.    *)
LEMMA DateShifted ==
  ASSUME NEW y \in Nat, 2 <= y, NEW n \in (-7)..(DaysIn(y) + 7)
  PROVE  /\ IsDate(Normalised(y, n))
         /\ DayNumber(Normalised(y, n)) = NewYear(y) + n - 1
         /\ Normalised(y, n).year \in (y - 1)..(y + 1)
         /\ n \in 1..DaysIn(y) => Normalised(y, n).year = y
<1>1. /\ DaysIn(y) \in {365, 366} /\ NewYear(y) \in Nat
      /\ NewYear(y + 1) = NewYear(y) + DaysIn(y)
      /\ DaysIn(y + 1) \in {365, 366}
      /\ DaysIn(y - 1) \in {365, 366} /\ NewYear(y) = NewYear(y - 1) + DaysIn(y - 1)
      /\ NewYear(y - 1) \in Nat
  <2>1. y - 1 \in Nat /\ 1 <= y - 1 /\ y + 1 \in Nat /\ (y - 1) + 1 = y
    OBVIOUS
  <2>2. /\ NewYear(y - 1) \in Nat /\ DaysIn(y - 1) \in {365, 366}
        /\ NewYear((y - 1) + 1) = NewYear(y - 1) + DaysIn(y - 1)
    BY <2>1, YearLength
  <2>3. DaysIn(y + 1) \in {365, 366}
    BY <2>1, YearLength
  <2> QED
    BY <2>1, <2>2, <2>3, YearLength
<1>2. CASE n < 1
  <2> DEFINE m == n + DaysIn(y - 1)
  <2>1. Normalised(y, n) = [year |-> y - 1, day |-> m]
    BY <1>2 DEF Normalised
  <2>2. m \in Int /\ m \in 1..DaysIn(y - 1) /\ n \in Int
    BY <1>1, <1>2
  <2>3. DayNumber([year |-> y - 1, day |-> m]) = NewYear(y - 1) + m - 1
    BY <2>2, DaysCounted
  <2>4. NewYear(y - 1) + m - 1 = NewYear(y) + n - 1
    BY <1>1, <2>2
  <2> HIDE DEF m
  <2> QED
    BY <1>2, <2>1, <2>2, <2>3, <2>4 DEF IsDate
<1>3. CASE n > DaysIn(y)
  <2> DEFINE m == n - DaysIn(y)
  <2>1. Normalised(y, n) = [year |-> y + 1, day |-> m]
    BY <1>1, <1>3 DEF Normalised
  <2>2. m \in Int /\ m \in 1..DaysIn(y + 1) /\ n \in Int
    BY <1>1, <1>3
  <2>3. DayNumber([year |-> y + 1, day |-> m]) = NewYear(y + 1) + m - 1
    BY <2>2, DaysCounted
  <2>4. NewYear(y + 1) + m - 1 = NewYear(y) + n - 1
    BY <1>1, <2>2
  <2> HIDE DEF m
  <2> QED
    BY <1>1, <1>3, <2>1, <2>2, <2>3, <2>4 DEF IsDate
<1>4. CASE n \in 1..DaysIn(y)
  <2>1. Normalised(y, n) = [year |-> y, day |-> n] /\ n \in Int
    BY <1>1, <1>4 DEF Normalised
  <2>2. DayNumber([year |-> y, day |-> n]) = NewYear(y) + n - 1
    BY <2>1, DaysCounted
  <2> QED
    BY <1>4, <2>1, <2>2 DEF IsDate
<1> QED
  BY <1>1, <1>2, <1>3, <1>4

(* The Monday of the week of 4 January opens the first week.               *)
LEMMA FirstMondayIs ==
  ASSUME NEW y \in Nat, 1 <= y
  PROVE  FirstWeek(y) \in Nat /\ FirstMonday(y) = 7 * FirstWeek(y)
<1> DEFINE jan4 == [year |-> y, day |-> 4]
<1>1. DayNumber(jan4) = NewYear(y) + 3 /\ NewYear(y) + 3 \in Nat
  <2>1. NewYear(y) \in Nat
    BY YearLength
  <2> QED
    BY <2>1, DaysCounted
<1>2. FirstMonday(y) = DayNumber(jan4) - (((DayNumber(jan4) % 7) + 1) - 1)
  BY DEF FirstMonday, DayOfWeek
<1>3. ASSUME NEW n \in Nat
      PROVE  n \div 7 \in Nat /\ n - (((n % 7) + 1) - 1) = 7 * (n \div 7)
  OBVIOUS
<1> QED
  BY <1>1, <1>2, <1>3 DEF FirstWeek

(* The shift to Thursday finds the year of the week, and counts the weeks  *)
(* from the first one of that year.                                        *)
LEMMA ByThursday ==
  ASSUME NEW d, IsDate(d), 2 <= d.year
  PROVE  \E y \in (d.year - 1)..(d.year + 1) :
           /\ y \in Nat /\ 1 <= y
           /\ FirstWeek(y) <= WeekFromZero(d) /\ WeekFromZero(d) < FirstWeek(y + 1)
           /\ getWeekNumber(d) = WeekFromZero(d) - FirstWeek(y) + 1
           /\ d.day \in 4..(DaysIn(d.year) - 3) => y = d.year
<1> DEFINE n == d.day + 4 - DayOfWeek(d)
           t == Normalised(d.year, n)
           y == t.year
           q == WeekFromZero(d)
           J == NewYear(y)
<1>1. /\ d.year \in Nat /\ d.day \in 1..DaysIn(d.year) /\ d.day \in Int
      /\ DaysIn(d.year) \in {365, 366}
      /\ DayOfWeek(d) \in 1..7 /\ q \in Nat /\ NewYear(d.year) \in Nat
      /\ NewYear(d.year) + d.day - 1 = 7 * q + DayOfWeek(d) - 1
  <2>1. /\ d.year \in Nat /\ 1 <= d.year /\ d.day \in 1..DaysIn(d.year)
    BY DEF IsDate
  <2>2. DaysIn(d.year) \in {365, 366} /\ NewYear(d.year) \in Nat
    BY <2>1, YearLength
  <2> QED
    BY <2>1, <2>2, DateNumber
<1>2. n \in (-7)..(DaysIn(d.year) + 7)
  BY <1>1
<1>3. d.day \in 4..(DaysIn(d.year) - 3) => n \in 1..DaysIn(d.year)
  BY <1>1
<1>4. NewYear(d.year) + n - 1 = 7 * q + 3
  BY <1>1
<1>5. getWeekNumber(d) = (t.day - 1) \div 7 + 1
  BY DEF getWeekNumber
<1> HIDE DEF n, q
<1>6. /\ IsDate(t) /\ DayNumber(t) = 7 * q + 3
      /\ y \in (d.year - 1)..(d.year + 1)
      /\ d.day \in 4..(DaysIn(d.year) - 3) => y = d.year
  BY <1>1, <1>2, <1>3, <1>4, DateShifted
<1> HIDE DEF t
<1>7. y \in Nat /\ 1 <= y /\ t.day \in 1..DaysIn(y) /\ DayNumber(t) = J + t.day - 1
  BY <1>6, DateNumber DEF IsDate
<1>8. J \in Nat /\ NewYear(y + 1) = J + DaysIn(y) /\ DaysIn(y) \in {365, 366}
  BY <1>7, YearLength
<1> HIDE DEF y, J
<1>9. J + t.day - 1 = 7 * q + 3 /\ t.day \in Int /\ t.day \in 1..DaysIn(y)
  BY <1>6, <1>7, <1>8
<1>10. J <= 7 * q + 3 /\ 7 * q + 3 < NewYear(y + 1) /\ NewYear(y + 1) \in Nat
  BY <1>1, <1>8, <1>9
<1>11. FirstWeek(y) <= q
  BY <1>1, <1>8, <1>10 DEF FirstWeek, J
<1>12. q < FirstWeek(y + 1)
  BY <1>1, <1>10 DEF FirstWeek
<1>13. (t.day - 1) \div 7 = q - FirstWeek(y)
  <2>1. t.day - 1 = 7 * q + 3 - J
    BY <1>1, <1>8, <1>9
  <2>2. (7 * q + 3 - J) \div 7 = q - ((J + 3) \div 7)
    BY <1>1, <1>8
  <2> QED
    BY <2>1, <2>2 DEF FirstWeek, J
<1> QED
  BY <1>5, <1>6, <1>7, <1>11, <1>12, <1>13 DEF y, q

-----------------------------------------------------------------------------
LEMMA DateInit == Init => IsDate(date) /\ FirstYear <= date.year
<1> SUFFICES ASSUME Init PROVE IsDate(date) /\ FirstYear <= date.year
  OBVIOUS
<1>1. DaysIn(FirstYear) \in {365, 366}
  BY YearsAssumption, YearLength
<1> QED
  BY <1>1, YearsAssumption DEF Init, IsDate

LEMMA DateStep ==
  IsDate(date) /\ FirstYear <= date.year /\ [Next]_date
    => (IsDate(date) /\ FirstYear <= date.year)'
<1> SUFFICES ASSUME IsDate(date), FirstYear <= date.year, [Next]_date
             PROVE  (IsDate(date) /\ FirstYear <= date.year)'
  OBVIOUS
<1>1. CASE NextDay
  <2> DEFINE n == date.day + 1
  <2>1. date.year \in Nat /\ date.day \in 1..DaysIn(date.year) /\ 2 <= date.year
    BY YearsAssumption DEF IsDate
  <2>2. DaysIn(date.year) \in {365, 366}
    BY <2>1, YearLength
  <2>3. n \in (-7)..(DaysIn(date.year) + 7) /\ ~(n < 1)
    BY <2>1, <2>2
  <2>4. date' = Normalised(date.year, n)
    BY <1>1 DEF NextDay
  <2> HIDE DEF n
  <2>5. IsDate(date') /\ date'.year \in {date.year, date.year + 1}
    <3>1. IsDate(date')
      BY <2>1, <2>3, <2>4, DateShifted
    <3>2. Normalised(date.year, n).year \in {date.year, date.year + 1}
      BY <2>3 DEF Normalised
    <3> QED
      BY <2>4, <3>1, <3>2
  <2>6. FirstYear <= date'.year
    BY <2>1, <2>5, YearsAssumption
  <2> QED
    BY <2>5, <2>6 DEF IsDate
<1>2. CASE UNCHANGED date
  BY <1>2 DEF IsDate
<1> QED
  BY <1>1, <1>2 DEF Next

LEMMA DateHolds == Spec => [](IsDate(date) /\ FirstYear <= date.year)
  BY DateInit, DateStep, PTL DEF Spec

(* getWeekNumber of scheduler.util.ts is the ISO week of every date of     *)
(* every year, those around New Year included.                             *)
THEOREM WeekIsIso == Spec => []IsoWeek
<1>1. IsDate(date) /\ FirstYear <= date.year => IsoWeek
  <2> SUFFICES ASSUME IsDate(date), FirstYear <= date.year PROVE IsoWeek
    OBVIOUS
  <2>1. 2 <= date.year /\ date.year \in Nat
    BY YearsAssumption DEF IsDate
  <2>2. PICK y \in (date.year - 1)..(date.year + 1) :
          /\ y \in Nat /\ 1 <= y
          /\ FirstWeek(y) <= WeekFromZero(date)
          /\ WeekFromZero(date) < FirstWeek(y + 1)
          /\ getWeekNumber(date) = WeekFromZero(date) - FirstWeek(y) + 1
    BY <2>1, ByThursday
  <2>3. /\ FirstWeek(y) \in Nat /\ FirstMonday(y) = 7 * FirstWeek(y)
        /\ FirstWeek(y + 1) \in Nat /\ FirstMonday(y + 1) = 7 * FirstWeek(y + 1)
    BY <2>2, FirstMondayIs
  <2>4. /\ DayNumber(date) \in Nat /\ WeekFromZero(date) \in Nat
        /\ 7 * WeekFromZero(date) <= DayNumber(date)
        /\ DayNumber(date) < 7 * WeekFromZero(date) + 7
    BY DateNumber
  <2>5. DayNumber(date) \in FirstMonday(y)..(FirstMonday(y + 1) - 1)
    BY <2>2, <2>3, <2>4
  <2>6. (DayNumber(date) - FirstMonday(y)) \div 7 = WeekFromZero(date) - FirstWeek(y)
    BY <2>3, <2>4
  <2> QED
    BY <2>2, <2>5, <2>6 DEF IsoWeek
<1> QED
  BY <1>1, DateHolds, PTL

-----------------------------------------------------------------------------
(* Away from New Year the week has the year of the day.                    *)
LEMMA WeekOfItsYear ==
  ASSUME NEW d, IsDate(d), 2 <= d.year, ~TurnOfYear(d)
  PROVE  getWeekNumber(d) = WeekFromZero(d) - FirstWeek(d.year) + 1
<1>1. d.day \in 4..(DaysIn(d.year) - 3)
  <2>1. d.day \in 1..DaysIn(d.year) /\ DaysIn(d.year) \in {365, 366}
    BY YearLength DEF IsDate
  <2> QED
    BY <2>1 DEF TurnOfYear
<1> QED
  BY <1>1, ByThursday

(* The days the offset is made of have a week, whatever the year.          *)
LEMMA OffsetWeeks ==
  ASSUME NEW y \in Nat, 3 <= y
  PROVE  /\ getWeekNumber(Day(y, "1 September")) \in Int
         /\ getWeekNumber(Day(y, "1 February")) \in Int
         /\ getWeekNumber(Day(y - 1, "31 December")) \in Int
         /\ getWeekNumber(Day(y - 1, "1 September")) \in Int
<1>1. ASSUME NEW d, IsDate(d), 2 <= d.year PROVE getWeekNumber(d) \in Int
  <2>1. PICK z \in Nat : 1 <= z
                         /\ getWeekNumber(d) = WeekFromZero(d) - FirstWeek(z) + 1
    BY <1>1, ByThursday
  <2> QED
    BY <1>1, <2>1, DateNumber, FirstMondayIs
<1>2. ASSUME NEW z \in Nat, 2 <= z
      PROVE  /\ getWeekNumber(Day(z, "1 September")) \in Int
             /\ getWeekNumber(Day(z, "1 February")) \in Int
             /\ getWeekNumber(Day(z, "31 December")) \in Int
  <2>1. DaysIn(z) \in {365, 366}
    BY <1>2, YearLength
  <2>2. \A n \in 1..DaysIn(z) : getWeekNumber([year |-> z, day |-> n]) \in Int
    BY <1>1, <1>2 DEF IsDate
  <2>3. 32 \in 1..DaysIn(z) /\ 244 \in 1..DaysIn(z) /\ 245 \in 1..DaysIn(z)
        /\ DaysIn(z) \in 1..DaysIn(z)
    BY <2>1
  <2>4. /\ \/ Day(z, "1 September") = [year |-> z, day |-> 244]
           \/ Day(z, "1 September") = [year |-> z, day |-> 245]
        /\ Day(z, "1 February") = [year |-> z, day |-> 32]
        /\ Day(z, "31 December") = [year |-> z, day |-> DaysIn(z)]
    BY DEF Day
  <2> DEFINE number(n) == getWeekNumber([year |-> z, day |-> n])
  <2>5. /\ number(32) \in Int /\ number(244) \in Int /\ number(245) \in Int
        /\ number(DaysIn(z)) \in Int
    BY <2>2, <2>3
  <2>6. getWeekNumber(Day(z, "1 September")) \in Int
    <3>1. CASE Day(z, "1 September") = [year |-> z, day |-> 244]
      BY <2>5, <3>1
    <3>2. CASE Day(z, "1 September") = [year |-> z, day |-> 245]
      BY <2>5, <3>2
    <3> QED
      BY <2>4, <3>1, <3>2
  <2>7. /\ getWeekNumber(Day(z, "1 February")) \in Int
        /\ getWeekNumber(Day(z, "31 December")) \in Int
    BY <2>4, <2>5
  <2> QED
    BY <2>6, <2>7
<1>3. y - 1 \in Nat /\ 2 <= y - 1 /\ 2 <= y
  OBVIOUS
<1> QED
  BY <1>2, <1>3

(* A Monday opens the week of such a day if they have one week number; 1   *)
(* February comes before 1 September.                                      *)
LEMMA OpensByNumber ==
  ASSUME NEW d, IsDate(d), 2 <= d.year, ~TurnOfYear(d), DayOfWeek(d) = 1
  PROVE  LET sep == getWeekNumber(Day(d.year, "1 September"))
             feb == getWeekNumber(Day(d.year, "1 February"))
         IN  /\ Opens(d, "1 September") <=> getWeekNumber(d) = sep
             /\ Opens(d, "1 February") <=> getWeekNumber(d) = feb
             /\ feb < sep
<1> DEFINE y == d.year
           n == IF IsLeap(y) THEN 245 ELSE 244
           S == [year |-> y, day |-> n]
           F == [year |-> y, day |-> 32]
<1>1. S = Day(y, "1 September") /\ F = Day(y, "1 February")
  BY DEF Day
<1>2. y \in Nat /\ 1 <= y /\ DaysIn(y) \in {365, 366} /\ n \in Nat /\ n \in 244..245
  BY YearLength DEF IsDate
<1> HIDE DEF n, y
<1>3. /\ IsDate(S) /\ ~TurnOfYear(S) /\ S.year = y /\ S.day = n
      /\ IsDate(F) /\ ~TurnOfYear(F) /\ F.year = y /\ F.day = 32
  BY <1>2 DEF IsDate, TurnOfYear
<1> HIDE DEF S, F
<1>4. /\ getWeekNumber(d) = WeekFromZero(d) - FirstWeek(y) + 1
      /\ getWeekNumber(S) = WeekFromZero(S) - FirstWeek(y) + 1
      /\ getWeekNumber(F) = WeekFromZero(F) - FirstWeek(y) + 1
  BY <1>3, WeekOfItsYear DEF y
<1>5. FirstWeek(y) \in Nat
  BY <1>2, FirstMondayIs DEF y
<1>6. ASSUME NEW x, IsDate(x)
      PROVE  /\ DayNumber(x) \in DayNumber(d)..(DayNumber(d) + 6)
                 <=> WeekFromZero(x) = WeekFromZero(d)
             /\ WeekFromZero(x) \in Nat /\ WeekFromZero(d) \in Nat
  <2>1. /\ DayNumber(d) = 7 * WeekFromZero(d) /\ WeekFromZero(d) \in Nat
        /\ DayNumber(d) \in Nat
    BY DateNumber
  <2>2. /\ DayNumber(x) = 7 * WeekFromZero(x) + DayOfWeek(x) - 1
        /\ WeekFromZero(x) \in Nat /\ DayOfWeek(x) \in 1..7 /\ DayNumber(x) \in Nat
    BY <1>6, DateNumber
  <2> QED
    BY <2>1, <2>2
<1>7. WeekFromZero(F) < WeekFromZero(S)
  <2>1. DayNumber(S) = DayNumber(F) + n - 32 /\ DayNumber(F) \in Nat
    <3>1. /\ DayNumber(S) = NewYear(y) + n - 1 /\ DayNumber(F) = NewYear(y) + 32 - 1
          /\ DayNumber(F) \in Nat /\ NewYear(y) \in Nat
      BY <1>2, <1>3, DateNumber, YearLength DEF y
    <3> QED
      BY <1>2, <3>1
  <2>2. /\ DayNumber(S) = 7 * WeekFromZero(S) + DayOfWeek(S) - 1
        /\ DayNumber(F) = 7 * WeekFromZero(F) + DayOfWeek(F) - 1
        /\ DayOfWeek(S) \in 1..7 /\ DayOfWeek(F) \in 1..7
        /\ WeekFromZero(S) \in Nat /\ WeekFromZero(F) \in Nat
    BY <1>3, DateNumber
  <2>3. DayNumber(S) >= DayNumber(F) + 200 /\ DayNumber(S) \in Nat
    BY <1>2, <2>1
  <2> QED
    BY <2>1, <2>2, <2>3
<1>8. /\ getWeekNumber(d) = getWeekNumber(S) <=> WeekFromZero(d) = WeekFromZero(S)
      /\ getWeekNumber(d) = getWeekNumber(F) <=> WeekFromZero(d) = WeekFromZero(F)
      /\ getWeekNumber(F) < getWeekNumber(S)
  BY <1>3, <1>4, <1>5, <1>6, <1>7
<1> QED
  BY <1>1, <1>3, <1>6, <1>8 DEF Opens, y

(* From a day to the next one, both away from New Year, weekNumber stays in*)
(* the week and goes on by one on a Monday, unless that opens a semester,  *)
(* which always starts with the same number: in every year.                *)
THEOREM WeeksInOrder == Spec => WeekByWeek
<1> DEFINE Step ==
      ~TurnOfYear(date) /\ ~TurnOfYear(date') =>
        weekNumber(date') =
          CASE DayOfWeek(date') # 1 -> weekNumber(date)
            [] Opens(date', "1 September") -> 1
            [] Opens(date', "1 February") -> 0
            [] OTHER -> weekNumber(date) + 1
<1>1. ASSUME IsDate(date), FirstYear <= date.year, NextDay,
             ~TurnOfYear(date), ~TurnOfYear(date')
      PROVE  Step
  <2> DEFINE y == date.year
             w == getWeekNumber(date)
             v == getWeekNumber(date')
             sep == getWeekNumber(Day(y, "1 September"))
             feb == getWeekNumber(Day(y, "1 February"))
             last == getWeekNumber(Day(y - 1, "31 December"))
             first == getWeekNumber(Day(y - 1, "1 September"))
             autumn == -(last - first + 1)
             Offset(u) == CASE u > sep - 1 -> sep - 1
                            [] u <= sep - 1 /\ u < feb -> autumn
                            [] OTHER -> feb
  <2>1. y \in Nat /\ 3 <= y /\ date.day \in 4..(DaysIn(y) - 3)
        /\ DaysIn(y) \in {365, 366}
    <3>1. y \in Nat /\ 3 <= y /\ date.day \in 1..DaysIn(y)
      BY <1>1, YearsAssumption DEF IsDate
    <3>2. DaysIn(y) \in {365, 366}
      BY <3>1, YearLength
    <3> QED
      BY <1>1, <3>1, <3>2 DEF TurnOfYear
  <2>2. date' = [year |-> y, day |-> date.day + 1] /\ IsDate(date')
    <3>1. date' = Normalised(y, date.day + 1)
      BY <1>1 DEF NextDay
    <3> QED
      BY <2>1, <3>1 DEF Normalised, IsDate
  <2>3. DayNumber(date') = DayNumber(date) + 1
    BY <1>1, <2>1, <2>2, DateNumber, YearLength
  <2>4. w = WeekFromZero(date) - FirstWeek(y) + 1
    BY <1>1, <2>1, WeekOfItsYear
  <2>5. v = WeekFromZero(date') - FirstWeek(y) + 1
    BY <1>1, <2>1, <2>2, WeekOfItsYear
  <2>6. w \in Int /\ v \in Int /\ v = IF DayOfWeek(date') = 1 THEN w + 1 ELSE w
    <3>1. FirstWeek(y) \in Nat
      BY <2>1, FirstMondayIs
    <3>2. WeekFromZero(date) \in Nat /\ WeekFromZero(date') \in Nat
      BY <1>1, <2>2, DateNumber
    <3>3. WeekFromZero(date') =
            IF DayOfWeek(date') = 1 THEN WeekFromZero(date) + 1
            ELSE WeekFromZero(date)
      <4>1. /\ DayOfWeek(date) \in 1..7
            /\ DayNumber(date) = 7 * WeekFromZero(date) + DayOfWeek(date) - 1
        BY <1>1, DateNumber
      <4>2. /\ DayOfWeek(date') \in 1..7
            /\ DayNumber(date') = 7 * WeekFromZero(date') + DayOfWeek(date') - 1
        BY <2>2, DateNumber
      <4> QED
        BY <2>3, <3>2, <4>1, <4>2
    <3> QED
      BY <2>4, <2>5, <3>1, <3>2, <3>3
  <2>7. sep \in Int /\ feb \in Int /\ autumn \in Int
    <3>1. sep \in Int /\ feb \in Int /\ last \in Int /\ first \in Int
      <4>1. y \in Nat /\ 3 <= y
        BY <2>1
      <4> HIDE DEF y
      <4> QED
        BY <4>1, OffsetWeeks
    <3> HIDE DEF sep, feb, last, first
    <3> QED
      BY <3>1
  <2>8. weekNumber(date) = w - Offset(w) /\ weekNumber(date') = v - Offset(v)
    BY <2>2 DEF weekNumber, getWeekOffsetByYear
  <2> HIDE DEF y, w, v, sep, feb, autumn
  <2>9. CASE DayOfWeek(date') # 1
    BY <2>6, <2>8, <2>9 DEF Opens
  <2>10. CASE DayOfWeek(date') = 1
    <3>1. v = w + 1
      BY <2>6, <2>10
    <3>2. /\ Opens(date', "1 September") <=> v = sep
          /\ Opens(date', "1 February") <=> v = feb
          /\ feb < sep
      <4>1. date'.year = y /\ 2 <= y /\ y \in Nat
        BY <2>1, <2>2
      <4> QED
        BY <1>1, <2>2, <2>10, <4>1, OpensByNumber DEF v, sep, feb
    <3> DEFINE a == Offset(v)
               b == Offset(w)
    <3>0. /\ a = IF v > sep - 1 THEN sep - 1 ELSE IF v < feb THEN autumn ELSE feb
          /\ b = IF w > sep - 1 THEN sep - 1 ELSE IF w < feb THEN autumn ELSE feb
          /\ w \in Int /\ v \in Int /\ sep \in Int /\ feb \in Int /\ autumn \in Int
          /\ feb < sep
      <4>1. /\ w \in Int /\ v \in Int /\ sep \in Int /\ feb \in Int /\ autumn \in Int
            /\ feb < sep
        BY <2>6, <2>7, <3>2
      <4>2. \A u \in Int :
              Offset(u) = IF u > sep - 1 THEN sep - 1
                          ELSE IF u < feb THEN autumn ELSE feb
        BY <4>1
      <4> HIDE DEF Offset
      <4> QED
        BY <4>1, <4>2
    <3> HIDE DEF Offset, a, b
    <3>3. CASE v = sep
      <4>1. v - a = 1 /\ v # feb
        BY <3>0, <3>3
      <4> QED
        BY <2>8, <2>10, <3>2, <3>3, <4>1 DEF a
    <3>4. CASE v = feb
      <4>1. v - a = 0 /\ v # sep
        BY <3>0, <3>4
      <4> QED
        BY <2>8, <2>10, <3>2, <3>4, <4>1 DEF a
    <3>5. CASE v # sep /\ v # feb
      <4>1. v - a = (w - b) + 1
        BY <3>0, <3>1, <3>5
      <4> QED
        BY <2>8, <2>10, <3>2, <3>5, <4>1 DEF a, b
    <3> QED
      BY <3>3, <3>4, <3>5
  <2> QED
    BY <2>9, <2>10
<1>2. IsDate(date) /\ FirstYear <= date.year /\ [Next]_date => [Step]_date
  BY <1>1 DEF Next
<1> QED
  BY <1>2, DateHolds, PTL DEF Spec, WeekByWeek
=============================================================================
