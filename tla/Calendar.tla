------------------------------ MODULE Calendar ------------------------------
(***************************************************************************)
(* RtlTimeToTimeFields of libs/ntdll/timefields.c: the date of a day that  *)
(* is counted from January 1, 1601.  Days follow each other; the code must *)
(* give each the date that follows the one of the day before.              *)
(***************************************************************************)
EXTENDS Integers

CONSTANTS
  FirstDays,  \* days that are begun with
  Span        \* bound: how many days are looked at from each

ASSUME CalendarAssumption == FirstDays \subseteq Nat /\ Span \in Nat

VARIABLES first, day
calendarVars == <<first, day>>

\* DAYSPERQUADRICENTENNIUM, DAYSPERNORMALQUADRENNIUM
Quadricentennium == 365 * 400 + 97
Quadrennium == 365 * 4 + 1

\* cleaps
CenturyLeaps(d) == (3 * ((4 * d + 1227) \div Quadricentennium) + 3) \div 4

\* The year begins in March until the months are assigned.
TimeFields(d) ==
  LET days == d + 28188 + CenturyLeaps(d)
      years == (20 * days - 2442) \div (5 * Quadrennium)
      yearday == days - ((years * Quadrennium) \div 4)
      months == (64 * yearday) \div 1959
  IN  [year |-> IF months < 14 THEN years + 1524 ELSE years + 1525,
       month |-> IF months < 14 THEN months - 1 ELSE months - 13,
       day |-> yearday - ((1959 * months) \div 64),
       weekday |-> (1 + d) % 7]

CalendarInit == first \in FirstDays /\ day = first
CalendarNext == day < first + Span /\ day' = day + 1 /\ UNCHANGED first
CalendarSpec == CalendarInit /\ [][CalendarNext]_calendarVars

-----------------------------------------------------------------------------
(* Properties.                                                             *)

IsLeap(year) == year % 4 = 0 /\ (year % 100 # 0 \/ year % 400 = 0)
MonthDays(year, month) ==
  CASE month = 2 -> IF IsLeap(year) THEN 29 ELSE 28
    [] month \in {4, 6, 9, 11} -> 30
    [] OTHER -> 31

\* The date of the next day is the next one of the calendar, over the ends of
\* months, leap years and centuries; the first is Monday, January 1, 1601.
TomorrowFollows ==
  LET today == TimeFields(day)
      last == today.day = MonthDays(today.year, today.month)
      newyear == last /\ today.month = 12
  IN  TimeFields(day + 1) =
        [year |-> IF newyear THEN today.year + 1 ELSE today.year,
         month |-> IF newyear THEN 1 ELSE IF last THEN today.month + 1 ELSE today.month,
         day |-> IF last THEN 1 ELSE today.day + 1,
         weekday |-> (today.weekday + 1) % 7]

\* Every date is one of the calendar, the first day is the one the count begins
\* with (EPOCHWEEKDAY), and 1970-01-01 is the Thursday TICKS_1601_TO_1970 says.
DatesExist ==
  LET today == TimeFields(day)
  IN  /\ today.month \in 1 .. 12 /\ today.day \in 1 .. MonthDays(today.year, today.month)
      /\ day = 0 => today = [year |-> 1601, month |-> 1, day |-> 1, weekday |-> 1]
      /\ day = 134774 => today = [year |-> 1970, month |-> 1, day |-> 1, weekday |-> 4]

=============================================================================
