------------------------------ MODULE Calendar -------------------------------
(***************************************************************************)
(* Civil dates as day numbers, and the moves the compiler makes on them:   *)
(* durations that clamp at month ends (semantic/duration.py), the relative *)
(* time range (compiler/time_range.py) and the finality watermark          *)
(* (contracts/finality.py).  Day 1 is the first day of the first month.    *)
(***************************************************************************)
EXTENDS Integers, Sequences, FiniteSetsExt

CONSTANTS MonthLengths,  \* the lengths of the months the calendar holds
          FirstWeekday   \* the weekday of day 1, Monday is 0

ASSUME CalendarAssumption ==
    /\ MonthLengths \in Seq(28..31)
    /\ MonthLengths # <<>>
    /\ FirstWeekday \in 0..6

Months == DOMAIN MonthLengths
\* The first day of a month; the month after the last one starts the day after it.
MonthStart[m \in Nat] == IF m <= 1 THEN 1 ELSE MonthStart[m - 1] + MonthLengths[m - 1]
MonthOf(day) == CHOOSE m \in Months : day \in MonthStart[m] .. MonthStart[m] + MonthLengths[m] - 1
Weekday(day) == (FirstWeekday + day - 1) % 7

\* The months of a duration, or none for one that counts days.
MonthsOf(duration) == IF duration.unit = "month" THEN duration.count ELSE 0
DaysOf(duration) == IF duration.unit = "week" THEN 7 * duration.count ELSE duration.count

\* add_to_date: a move by months keeps the day of the month, or takes the
\* month's last one.
AddToDate(day, duration, sign) ==
    IF MonthsOf(duration) = 0
    THEN day + sign * DaysOf(duration)
    ELSE LET m == MonthOf(day)
             target == m + sign * MonthsOf(duration)
         IN  MonthStart[target] + Min({day - MonthStart[m], MonthLengths[target] - 1})

\* floor_date.
FloorDate(day, unit) ==
    CASE unit = "day" -> day
      [] unit = "week" -> day - Weekday(day)
      [] unit = "month" -> MonthStart[MonthOf(day)]

\* resolve_time_range of "last n units": the complete periods before the one
\* that holds the anchor, and with include_current the days of that one so far.
ResolveTimeRange(last, includeCurrent, anchor) ==
    LET end == FloorDate(anchor, last.unit)
    IN  [start |-> AddToDate(end, last, -1), end |-> IF includeCurrent THEN anchor + 1 ELSE end]

\* Mutant: a Sunday goes back to Thursday.
PrevBusinessDay_Thursday(day) ==
    CASE Weekday(day) = 5 -> day - 1
      [] Weekday(day) = 6 -> day - 3
      [] OTHER -> day
\* _prev_business_day.
PrevBusinessDay(day) ==
    CASE Weekday(day) = 5 -> day - 1
      [] Weekday(day) = 6 -> day - 2
      [] OTHER -> day

\* A time is a number of hours; a zone is how many hours its clocks are ahead
\* of UTC, the same ones all through the calendar.
HoursPerDay == 24
Midnight(day) == HoursPerDay * day
LastHour(day) == Midnight(day + 1) - 1
DayAt(hour) == hour \div HoursPerDay

\* evaluate_watermark of "business_day + offset": the last second of the day, on
\* the clocks of the rule's zone.  Which day it is by asOf is read there too.
EvaluateWatermark(offset, zone, asOf) ==
    LastHour(PrevBusinessDay(PrevBusinessDay(DayAt(asOf + zone)) + offset))
==============================================================================
