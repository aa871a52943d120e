------------------------------ MODULE Calendar ------------------------------
(***************************************************************************)
(* time_get_current: the date and the time of day of a number of seconds   *)
(* since 1970, as the digits it writes.  The kernel finds the year and the *)
(* month by subtracting days; the reference counts the days of a date with *)
(* a closed formula.  The clock is asked at Moments of every day in turn.  *)
(***************************************************************************)
EXTENDS Naturals, Sequences

CONSTANTS FirstDays,   \* days since 1970 on which the machine may be started
          LastDay,     \* bound: days since 1970
          Moments      \* seconds of a day at which the clock is asked, ascending

VARIABLES day, k,      \* the day, and the number of the moment
          digits       \* current_datetime without the separators

vars == <<day, k, digits>>

\* Mutant: every fourth year is a leap year.
LeapJulian(year) == year % 4 = 0
leap(year) == year % 4 = 0 /\ (year % 100 # 0 \/ year % 400 = 0)

month_days == <<31, 28, 31, 30, 31, 30, 31, 31, 30, 31, 30, 31>>

\* The loop over the years: the year and the days left.
RECURSIVE YearOf(_, _)
YearOf(year, days) ==
  LET days_in_year == IF leap(year) THEN 366 ELSE 365
  IN  IF days >= days_in_year THEN YearOf(year + 1, days - days_in_year) ELSE <<year, days>>

\* The loop over the months, from 0, and the days left.
RECURSIVE MonthOf(_, _, _)
MonthOf(year, month, days) ==
  LET dim == IF month = 1 /\ leap(year) THEN 29 ELSE month_days[month + 1]
  IN  IF days >= dim THEN MonthOf(year, month + 1, days - dim) ELSE <<month, days>>

TwoDigits(n) == <<n \div 10, n % 10>>

\* Mutant: minutes and seconds change places.
TimeOfDaySwapped(s) == TwoDigits(s \div 3600) \o TwoDigits(s % 60) \o TwoDigits((s % 3600) \div 60)
TimeOfDay(s) == TwoDigits(s \div 3600) \o TwoDigits((s % 3600) \div 60) \o TwoDigits(s % 60)

\* The timestamp is given as its quotient and its remainder by 86400.
time_get_current(days, secs_in_day) ==
  LET y == YearOf(1970, days)
      m == MonthOf(y[1], 0, y[2])
  IN  TwoDigits(y[1] \div 100 % 100) \o TwoDigits(y[1] % 100)
      \o TwoDigits(m[1] + 1) \o TwoDigits(m[2] + 1)
      \o TimeOfDay(secs_in_day)

Ask(d, n) == day' = d /\ k' = n /\ digits' = time_get_current(d, Moments[n])

Init == day \in FirstDays /\ k = 1 /\ digits = time_get_current(day, Moments[1])

Next == \/ k < Len(Moments) /\ Ask(day, k + 1)
        \/ k = Len(Moments) /\ day < LastDay /\ Ask(day + 1, 1)

Spec == Init /\ [][Next]_vars

-----------------------------------------------------------------------------
\* Every character that time_get_current stores is a digit.
TypeOK == day \in 0 .. LastDay /\ k \in 1 .. Len(Moments) /\ digits \in [1 .. 14 -> 0 .. 9]

Field(i) == 10 * digits[i] + digits[i + 1]
Year == 100 * Field(1) + Field(3)

\* Days from 1970-01-01 to a date of the Gregorian calendar, counting from March.
DayNumber(y, m, d) ==
  LET yy == IF m <= 2 THEN y - 1 ELSE y
      n  == (153 * ((m + 9) % 12) + 2) \div 5 + d - 1
  IN  yy * 365 + yy \div 4 - yy \div 100 + yy \div 400 + n - 719468

\* The date time_get_current gives is the one whose day number was asked about,
\* and a date that exists: over 29 February, the ends of months and years and the year 2100.
RightDate ==
  /\ Field(5) \in 1 .. 12 /\ Field(7) \in 1 .. 31
  /\ DayNumber(Year, Field(5), Field(7)) = day
  /\ DayNumber(Year, Field(5), 1) + Field(7) <=
       (IF Field(5) = 12 THEN DayNumber(Year + 1, 1, 1) ELSE DayNumber(Year, Field(5) + 1, 1))

\* The hours, minutes and seconds of time_get_current are right to the second.
RightTime == (Field(9) * 60 + Field(11)) * 60 + Field(13) = Moments[k]
=============================================================================
