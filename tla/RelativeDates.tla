---------------------------- MODULE RelativeDates ----------------------------
(***************************************************************************)
(* Calendar and clock arithmetic of compiler/dates.py: relative windows    *)
(* that end now, calendar months with the last days of short months, and   *)
(* wall times that a change of the clocks skips or repeats.                *)
(*                                                                         *)
(* An instant is a number of hours, in UTC, since the first hour of year   *)
(* 1, the first the server's dates can hold; a wall time is a number of    *)
(* hours of the local clock.  Clocks change and windows end on full hours, *)
(* so an hour is the smallest unit.                                        *)
(***************************************************************************)
EXTENDS Integers, Sequences

CONSTANTS
  Clocks,      \* Clocks[zone]: [first, changes], the offset from UTC at first and
               \* the changes [at, offset] of it in order
  OutOfRange   \* no date: before year 1

\* The offset before the first change, and after every change.
OffsetAfter(zone, i) ==
  IF i = 0 THEN Clocks[zone].first ELSE Clocks[zone].changes[i].offset

\* A change of the clocks stays within a day: the hours it repeats, or the hours it
\* skips with those they are read as.
WithinADay(at, before, after) ==
  /\ after < before => (at + after) \div 24 = (at + before - 1) \div 24
  /\ before < after => (at + before) \div 24 = (at + 2 * after - before - 1) \div 24

\* Clocks as the time zone database has them, but for days that a zone left out and
\* for changes back across midnight: offsets of less than a day, changes by three
\* hours at most and two days apart at least, each within a day.
ASSUME ClocksAssumption ==
  \A z \in DOMAIN Clocks :
    /\ Len(Clocks[z].changes) \in Nat /\ DOMAIN Clocks[z].changes = 1..Len(Clocks[z].changes)
    /\ \A i \in 0..Len(Clocks[z].changes) : OffsetAfter(z, i) \in -23..23
    /\ \A i \in DOMAIN Clocks[z].changes :
         /\ Clocks[z].changes[i].at \in Nat
         /\ i > 1 => Clocks[z].changes[i - 1].at + 48 <= Clocks[z].changes[i].at
         /\ OffsetAfter(z, i) - OffsetAfter(z, i - 1) \in -3..3
         /\ WithinADay(Clocks[z].changes[i].at, OffsetAfter(z, i - 1), OffsetAfter(z, i))

-----------------------------------------------------------------------------
(* The calendar *)

Leap(year) == year % 4 = 0 /\ (year % 100 # 0 \/ year % 400 = 0)
MonthLength(year, month) ==
  CASE month = 2 -> IF Leap(year) THEN 29 ELSE 28
    [] month \in {4, 6, 9, 11} -> 30
    [] OTHER -> 31

DaysBeforeYear(year) ==
  LET y == year - 1 IN 365 * y + y \div 4 - y \div 100 + y \div 400
DaysBeforeMonth(year, month) ==
  LET days[m \in 1..month] == IF m = 1 THEN 0 ELSE days[m - 1] + MonthLength(year, m - 1)
  IN days[month]

\* Days are numbered from 0; a date is [year, month, day].
DayNumber(date) ==
  DaysBeforeYear(date.year) + DaysBeforeMonth(date.year, date.month) + date.day - 1
DateOf(day) ==
  LET In(year, month, left) ==
        [year |-> year, month |-> month, day |-> left - DaysBeforeMonth(year, month) + 1]
      InYear(year, left) ==
        In(year, CHOOSE m \in 1..12 :
                   /\ DaysBeforeMonth(year, m) <= left
                   /\ left < DaysBeforeMonth(year, m) + MonthLength(year, m), left)
      Date(year) == InYear(year, day - DaysBeforeYear(year))
  IN Date(CHOOSE y \in (day \div 366) + 1..(day \div 365) + 1 :
            DaysBeforeYear(y) <= day /\ day < DaysBeforeYear(y + 1))

-----------------------------------------------------------------------------
(* The clocks of a zone *)

\* astimezone: the offset in force at an instant.
Offset(zone, instant) ==
  LET changes == Clocks[zone].changes
      past == {i \in DOMAIN changes : changes[i].at <= instant}
  IN IF past = {} THEN Clocks[zone].first
     ELSE changes[CHOOSE i \in past : \A j \in past : j <= i].offset

Wall(zone, instant) == instant + Offset(zone, instant)
LocalDay(zone, instant) == Wall(zone, instant) \div 24

\* The offset zoneinfo gives a wall time with fold=0: a change counts only from
\* the later of the two readings of the clock at that instant.
FoldZeroOffset(zone, wall) ==
  LET changes == Clocks[zone].changes
      Later(i) == IF OffsetAfter(zone, i - 1) > OffsetAfter(zone, i)
                  THEN OffsetAfter(zone, i - 1) ELSE OffsetAfter(zone, i)
      past == {i \in DOMAIN changes : changes[i].at + Later(i) <= wall}
  IN IF past = {} THEN Clocks[zone].first
     ELSE changes[CHOOSE i \in past : \A j \in past : j <= i].offset

\* Mutant of ResolveLocalWallTime: of two readings the later one is taken.
ResolveLocalWallTimeLater(zone, wall) ==
  LET candidate == wall - FoldZeroOffset(zone, wall) IN
  IF \E t \in candidate + 1..candidate + 3 : Wall(zone, t) = wall
  THEN CHOOSE t \in candidate + 1..candidate + 3 : Wall(zone, t) = wall
  ELSE candidate

\* The round trip through UTC changes how a skipped wall time is written, not
\* the instant it stands for.
ResolveLocalWallTime(zone, wall) == wall - FoldZeroOffset(zone, wall)

-----------------------------------------------------------------------------
(* Relative windows *)

SubtractMonths(wall, months) ==
  LET Within(day, longest) == IF day <= longest THEN day ELSE longest
      In(year, month, day) ==
        IF year < 1 THEN OutOfRange
        ELSE 24 * DayNumber([year |-> year, month |-> month,
                             day |-> Within(day, MonthLength(year, month))]) + (wall % 24)
      Back(date, index) == In(date.year + index \div 12, (index % 12) + 1, date.day)
      From(date) == Back(date, date.month - months - 1)
  IN From(DateOf(wall \div 24))

\* relative_datetime_bounds: [start, end), or OutOfRange, which is refused.
RelativeBounds(operator, amount, now, zone) ==
  LET Resolved(target) ==
        IF target = OutOfRange THEN -1 ELSE ResolveLocalWallTime(zone, target)
      Window(start) == IF start < 0 THEN OutOfRange ELSE [start |-> start, end |-> now]
  IN Window(IF operator = "last_n_days" THEN now - 24 * amount
            ELSE Resolved(SubtractMonths(Wall(zone, now), amount)))

\* A date field is compared with the local dates of the first and the last
\* instant of the window.
DateBounds(bounds, zone) ==
  [first |-> LocalDay(zone, bounds.start), last |-> LocalDay(zone, bounds.end - 1)]

\* build_date_trunc_expression: the day each bucket begins on, counted from the
\* first day; weeks begin on Monday, and day 0 is one.
Bucket(trunc, day) ==
  LET FirstMonth(month) ==
        CASE trunc = "month" -> month
          [] trunc = "quarter" -> month - ((month - 1) % 3)
          [] trunc = "year" -> 1
      First(date) ==
        DayNumber([year |-> date.year, month |-> FirstMonth(date.month), day |-> 1])
  IN CASE trunc = "day" -> day
       [] trunc = "week" -> day - (day % 7)
       [] OTHER -> First(DateOf(day))
=============================================================================
