-------------------------------- MODULE Calendar --------------------------------
(***************************************************************************)
(* ascdate: the seconds since 1970 as a date, with daylight saving time.   *)
(* The state is a calendar that advances a day at a time and counts the    *)
(* Sundays of its month; what ascdate computes is compared with it.        *)
(***************************************************************************)
EXTENDS Integers, Sequences
LOCAL INSTANCE SequencesExt

CONSTANTS Years,   \* the calendar runs over this many years from 1970
          Hours    \* the hours of the day that are looked at

ASSUME CalendarAssump == Years \in Nat /\ Hours \subseteq 0..23

VARIABLE today     \* year, month (0-11), day (1-31), weekday (0 is Sunday), sundays so far in the month, number

SECPERDY == 86400
SECPERHR == 3600
Isleap(year) == IF year % 4 = 0 THEN 1 ELSE 0
Msize == <<31, 28, 31, 30, 31, 30, 31, 31, 30, 31, 30, 31>>   \* Date.dt_msize
SumTo(n) == FoldLeft(LAMBDA s, m : s + m, 0, SubSeq(Msize, 1, n))

-----------------------------------------------------------------------------
(* ascdate *)

\* The year, and what is left of now.
RECURSIVE YearOf(_, _)
YearOf(year, now) ==
  LET tmp == (365 + Isleap(year)) * SECPERDY IN
  IF tmp > now THEN [year |-> year, now |-> now] ELSE YearOf(year + 1, now - tmp)
RECURSIVE MonthOf(_, _, _)
MonthOf(year, month, now) ==
  LET tmp == (Msize[month + 1] + (IF month = 1 THEN Isleap(year) ELSE 0)) * SECPERDY IN
  IF month = 12 \/ tmp > now THEN [month |-> month, now |-> now] ELSE MonthOf(year, month + 1, now - tmp)

Jan1(year) == (4 + (year - 1970) + ((year - 1969) \div 4)) % 7
MarssNoSunday(year) == 15 - ((Jan1(year) + SumTo(2) + Isleap(year)) % 7)
Marss(year) ==   \* the second Sunday of March
  LET mar1 == (Jan1(year) + SumTo(2) + Isleap(year)) % 7 IN IF mar1 = 0 THEN 8 ELSE 15 - mar1
Novfs(year) ==   \* the first Sunday of November
  LET nov1 == (Jan1(year) + SumTo(10) + Isleap(year)) % 7 IN IF nov1 = 0 THEN 1 ELSE 8 - nov1
Dst(year, month, day, hour) ==
  CASE month \in {11, 0, 1} -> FALSE
    [] month \in 3..9 -> TRUE
    [] month = 2 -> day > Marss(year) \/ (day = Marss(year) /\ hour >= 2)
    [] month = 10 -> ~(day > Novfs(year) \/ (day = Novfs(year) /\ hour >= 1))
\* An hour more, and the next day or month when that is past midnight.
Forward(d) ==
  CASE d.hour < 23 -> [d EXCEPT !.hour = @ + 1]
    [] d.hour = 23 /\ d.day < Msize[d.month + 1] -> [d EXCEPT !.hour = 0, !.day = @ + 1]
    [] d.hour = 23 /\ d.day >= Msize[d.month + 1] -> [d EXCEPT !.hour = 0, !.day = 1, !.month = @ + 1]
Ascdate(now) ==
  LET y == YearOf(1970, now)
      m == MonthOf(y.year, 0, y.now)
      d == [year |-> y.year, month |-> m.month, day |-> (m.now \div SECPERDY) + 1,
            hour |-> (m.now % SECPERDY) \div SECPERHR, weekday |-> (Jan1(y.year) + (y.now \div SECPERDY)) % 7]
  IN IF Dst(d.year, d.month, d.day, d.hour) THEN Forward(d) ELSE d

-----------------------------------------------------------------------------
(* The calendar *)

DateInit == today = [year |-> 1970, month |-> 0, day |-> 1, weekday |-> 4, sundays |-> 0, number |-> 0]
LastOfMonth == today.day = Msize[today.month + 1] + (IF today.month = 1 THEN Isleap(today.year) ELSE 0)
Tomorrow ==
  LET weekday == (today.weekday + 1) % 7
      sunday == IF weekday = 0 THEN 1 ELSE 0
      next == [today EXCEPT !.weekday = weekday, !.number = @ + 1]
  IN [next EXCEPT !.day = IF LastOfMonth THEN 1 ELSE @ + 1,
                  !.sundays = IF LastOfMonth THEN sunday ELSE @ + sunday,
                  !.month = IF LastOfMonth THEN (@ + 1) % 12 ELSE @,
                  !.year = IF LastOfMonth /\ today.month = 11 THEN @ + 1 ELSE @]
NextDay == Tomorrow.year < 1970 + Years /\ today' = Tomorrow

-----------------------------------------------------------------------------
(* Properties *)

CalendarTypeOK == today.month \in 0..11 /\ today.day \in 1..31 /\ today.weekday \in 0..6 /\ today.sundays \in 0..5

\* Daylight saving time by the Sundays counted: from 2 AM on the second Sunday of March to
\* 1 AM, standard time, on the first Sunday of November.
SummerTime(hour) ==
  LET passed(n, h) == today.sundays > n \/ (today.sundays = n /\ (today.weekday # 0 \/ hour >= h)) IN
  \/ today.month \in 3..9
  \/ today.month = 2 /\ passed(2, 2)
  \/ today.month = 10 /\ ~passed(1, 1)
\* The day, month, year and hour that ascdate prints are those of the calendar, on every day
\* around the ends of months and leap years and around both changes of the clock.
DateRight ==
  \A hour \in Hours :
    LET d == Ascdate((today.number * SECPERDY) + (hour * SECPERHR)) IN
    CASE ~SummerTime(hour) -> <<d.year, d.month, d.day, d.hour>> = <<today.year, today.month, today.day, hour>>
      [] SummerTime(hour) /\ hour < 23 ->
           <<d.year, d.month, d.day, d.hour>> = <<today.year, today.month, today.day, hour + 1>>
      [] SummerTime(hour) /\ hour = 23 ->
           <<d.year, d.month, d.day, d.hour>> = <<Tomorrow.year, Tomorrow.month, Tomorrow.day, 0>>
\* So is the day of the week, but in the hour that daylight saving time moves past midnight,
\* for which ascdate keeps the day before (dayofweek, the number of leap years).
WeekdayRight ==
  \A hour \in Hours :
    Ascdate((today.number * SECPERDY) + (hour * SECPERHR)).weekday = today.weekday

\* What ascdate prints of a time.
DatesRight == CalendarTypeOK /\ DateRight /\ WeekdayRight
=============================================================================
