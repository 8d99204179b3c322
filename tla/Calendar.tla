------------------------------- MODULE Calendar -------------------------------
(***************************************************************************)
(* The pure part of session_time: dates, holidays, New York time, trading  *)
(* weeks, macro cycle windows (calendar.rs, macro_cycle.rs,                *)
(* true_open_capture.rs).                                                  *)
(*                                                                         *)
(* A date is a number of days since 1970-01-01, an instant a number of     *)
(* seconds since its midnight; a local time of New York is counted the     *)
(* same way. Years run from 1970 to 2099, where every fourth is a leap     *)
(* year. What chrono and chrono-tz compute is modelled here from the US    *)
(* rule in force since 2007.                                               *)
(***************************************************************************)
EXTENDS Integers, FiniteSetsExt

Minute == 60
Hour   == 60 * Minute
Day    == 24 * Hour
Week   == 7 * Day

Sunday   == 0
Monday   == 1
Thursday == 4
Weekdays == 0..6

-----------------------------------------------------------------------------
(* chrono *)

DaysBefore == <<0, 31, 59, 90, 120, 151, 181, 212, 243, 273, 304, 334>>

\* NaiveDate::from_ymd_opt
DateOf(y, m, d) ==
  365 * (y - 1970) + (y - 1969) \div 4 + DaysBefore[m]
    + (IF m > 2 /\ y % 4 = 0 THEN 1 ELSE 0) + d - 1

\* NaiveDate::year
YearOf(date) ==
  LET about == 1970 + date \div 366
  IN  CHOOSE y \in {about, about + 1} :
        DateOf(y, 1, 1) <= date /\ date < DateOf(y + 1, 1, 1)

Weekday(date) == (date + 4) % 7

DateAt(local) == local \div Day

HourAt(local) == (local % Day) \div Hour

-----------------------------------------------------------------------------
(* Holidays *)

NthWeekdayOfMonth(y, m, weekday, n) ==
  LET first == DateOf(y, m, 1)
  IN  first + ((7 + weekday - Weekday(first)) % 7) + 7 * (n - 1)

EasterSunday(y) ==
  LET a == y % 19   b == y \div 100   c == y % 100
      g == (b - (b + 8) \div 25 + 1) \div 3
      h == (19 * a + b - b \div 4 - g + 15) % 30
      l == (32 + 2 * (b % 4) + 2 * (c \div 4) - h - (c % 4)) % 7
      n == h + l - 7 * ((a + 11 * h + 22 * l) \div 451) + 114
  IN  DateOf(y, n \div 31, (n % 31) + 1)

Thanksgiving(y) == NthWeekdayOfMonth(y, 11, Thursday, 4)

HolidaysForYear(y) ==
  {DateOf(y, 1, 1), DateOf(y, 12, 25), Thanksgiving(y), EasterSunday(y) - 2}

IsHoliday(date) == date \in HolidaysForYear(YearOf(date))

\* Variant: holidays only, without the thin days around them.
IsLowLiquidity_Holidays(date) == IsHoliday(date)

IsLowLiquidity(date) ==
  LET y == YearOf(date)
  IN  \/ IsHoliday(date)
      \/ date \in DateOf(y, 12, 26)..DateOf(y, 12, 31)
      \/ date = Thanksgiving(y) + 1

-----------------------------------------------------------------------------
(* New York time *)

\* From the second Sunday of March, 2:00 EST, to the first of November, 2:00 EDT.
IsSummer(utc) ==
  LET y == YearOf(utc \div Day)
  IN  /\ utc >= NthWeekdayOfMonth(y, 3, Sunday, 2) * Day + 7 * Hour
      /\ utc < NthWeekdayOfMonth(y, 11, Sunday, 1) * Day + 6 * Hour

ToNy(utc) == utc - (IF IsSummer(utc) THEN 4 ELSE 5) * Hour

\* from_local_datetime, the earlier of two candidates.
FromNy(local) ==
  IF ToNy(local + 4 * Hour) = local THEN local + 4 * Hour ELSE local + 5 * Hour

WeekStartFor(local) ==
  LET date == DateAt(local)
  IN  FromNy((date - Weekday(date)) * Day + 18 * Hour)

\* chrono subtracts a week of 168 hours, whatever the local clock does in it.
IsFullTradingWeek(weekStart) ==
  LET open     == DateAt(ToNy(weekStart))
      previous == DateAt(ToNy(weekStart - Week))
  IN  open - previous = 7 /\ ~IsHoliday(open)

\* Variant: an occurrence at this very moment counts.
NextNyOccurrence_Inclusive(after, hour, weekdays) ==
  LET local == ToNy(after)
      first == DateAt(local) + (IF local % Day > hour * Hour THEN 1 ELSE 0)
      date  == Min({d \in first..(first + 6) : Weekday(d) \in weekdays})
  IN  FromNy(date * Day + hour * Hour)

\* The next hour:00 on one of the weekdays; all seven for weekday = None. Strictly
\* after (candidate <= after is passed over), where the comment says "at or after".
NextNyOccurrence(after, hour, weekdays) ==
  LET local == ToNy(after)
      first == DateAt(local) + (IF HourAt(local) >= hour THEN 1 ELSE 0)
      date  == Min({d \in first..(first + 6) : Weekday(d) \in weekdays})
  IN  FromNy(date * Day + hour * Hour)

-----------------------------------------------------------------------------
(* Macro cycles *)

MacroCycleHours == {0, 3, 6, 9, 12, 15, 18, 21}
HalfWidth == 10

\* In whole minutes, the seconds cut off, to the centre of the day before, of the
\* day, or of the day after, whichever is nearest.
MinutesFromCycleCenter(local, hour) ==
  LET center == DateAt(local) * Day + hour * Hour
      apart(c) == (IF local < c THEN c - local ELSE local - c) \div Minute
  IN  Min({apart(center - Day), apart(center), apart(center + Day)})

IsWithinMacroCycle(utc) ==
  \E hour \in MacroCycleHours : MinutesFromCycleCenter(ToNy(utc), hour) <= HalfWidth

-----------------------------------------------------------------------------
(* Dates the tests of calendar.rs name, and, for every year, Easter as the first
   Sunday after the paschal full moon: TLC evaluates both. *)

PaschalFullMoon(y) ==
  LET age == (19 * (y % 19) + 24) % 30
  IN  DateOf(y, 3, 21) + age
        - (IF age = 29 \/ (age = 28 /\ y % 19 > 10) THEN 1 ELSE 0)

SundaysAfterTheMoon(y) ==
  {d \in (PaschalFullMoon(y) + 1)..(PaschalFullMoon(y) + 7) : Weekday(d) = Sunday}

ASSUME DatesOfTheTests ==
  /\ EasterSunday(2024) = DateOf(2024, 3, 31)
  /\ EasterSunday(2025) = DateOf(2025, 4, 20)
  /\ EasterSunday(2026) = DateOf(2026, 4, 5)
  /\ Thanksgiving(2026) = DateOf(2026, 11, 26)

ASSUME EasterFollowsTheMoon ==
  \A y \in 1969..2099 : EasterSunday(y) = Min(SundaysAfterTheMoon(y))

=============================================================================
