------------------------- MODULE RelativeDatesProofs -------------------------
(***************************************************************************)
(* For any clocks that satisfy ClocksAssumption, any instant and amount:   *)
(* what the operators of RelativeDates compute.  A day has one date and a  *)
(* date one day; months ago is the same day or the last of a shorter       *)
(* month; a bucket is the first day of its period; the local dates of a    *)
(* window are all those between its ends; and a wall time means the first  *)
(* instant that shows it.                                                  *)
(***************************************************************************)
EXTENDS RelativeDates, WellFoundedInduction, TLAPS

-----------------------------------------------------------------------------
(* The calendar *)

\* A set of naturals has a least member.
LEMMA EarliestExists ==
  ASSUME NEW S \in SUBSET Nat, S # {}
  PROVE  \E i \in S : \A j \in S : i <= j
<1>1. PICK i \in S : \A j \in S : ~(<<j, i>> \in OpToRel(<, Nat))
  BY NatLessThanWellFounded, WFMin
<1>2. ASSUME NEW j \in S  PROVE i <= j
  <2>1. ~(j < i)
    <3>1. SUFFICES ASSUME j < i  PROVE <<j, i>> \in OpToRel(<, Nat)
      BY <1>1
    <3>. QED  BY <3>1 DEF OpToRel
  <2>. QED  BY <2>1
<1>. QED  BY <1>2

\* The days before a month of a year.
Ahead(year, month) ==
  (CASE month = 1 -> 0 [] month = 2 -> 31 [] month = 3 -> 59 [] month = 4 -> 90
     [] month = 5 -> 120 [] month = 6 -> 151 [] month = 7 -> 181 [] month = 8 -> 212
     [] month = 9 -> 243 [] month = 10 -> 273 [] month = 11 -> 304 [] month = 12 -> 334)
  + (IF month > 2 /\ Leap(year) THEN 1 ELSE 0)

\* The days of a year.
YearLength(year) == IF Leap(year) THEN 366 ELSE 365

\* A year begins when the one before is over.
LEMMA YearsGrow ==
  ASSUME NEW y \in Nat \ {0}
  PROVE  /\ DaysBeforeYear(y + 1) = DaysBeforeYear(y) + YearLength(y)
         /\ YearLength(y) \in 365..366
BY DEF DaysBeforeYear, Leap, YearLength

\* A year has 365 or 366 days.
LEMMA YearsBound ==
  ASSUME NEW y \in Nat \ {0}
  PROVE  /\ DaysBeforeYear(y) \in Nat
         /\ 365 * (y - 1) <= DaysBeforeYear(y) /\ DaysBeforeYear(y) <= 366 * (y - 1)
BY DEF DaysBeforeYear

\* Later years begin later.
LEMMA YearsOrder ==
  ASSUME NEW y \in Nat \ {0}, NEW z \in Nat \ {0}, y < z
  PROVE  DaysBeforeYear(y + 1) <= DaysBeforeYear(z)
BY DEF DaysBeforeYear

\* What DaysBeforeMonth adds up month by month is in the table.
LEMMA MonthTable ==
  ASSUME NEW year \in Nat, NEW month \in 1..12
  PROVE  DaysBeforeMonth(year, month) = Ahead(year, month)
<1>. DEFINE IsDays(days) ==
       days = [m \in 1..month |-> IF m = 1 THEN 0 ELSE days[m - 1] + MonthLength(year, m - 1)]
     table == [m \in 1..month |-> Ahead(year, m)]
<1>1. IsDays(table)
  <2>. SUFFICES ASSUME NEW m \in 1..month
                PROVE  Ahead(year, m) = IF m = 1 THEN 0 ELSE table[m - 1] + MonthLength(year, m - 1)
    OBVIOUS
  <2>1. CASE m = 1
    BY <2>1 DEF Ahead
  <2>2. CASE m # 1
    <3>1. m - 1 \in 1..month /\ table[m - 1] = Ahead(year, m - 1)
      BY <2>2
    <3>2. Ahead(year, m) = Ahead(year, m - 1) + MonthLength(year, m - 1)
      BY <2>2 DEF Ahead, MonthLength
    <3>. QED  BY <2>2, <3>1, <3>2
  <2>. QED  BY <2>1, <2>2
<1>2. ASSUME NEW days, IsDays(days)  PROVE days = table
  <2>. DEFINE wrong == {m \in 1..month : days[m] # table[m]}
  <2>1. SUFFICES wrong = {}
    BY <1>2
  <2>2. SUFFICES ASSUME wrong # {}  PROVE FALSE
    OBVIOUS
  <2>3. PICK m \in wrong : \A n \in wrong : m <= n
    <3>1. wrong \in SUBSET Nat
      OBVIOUS
    <3>. HIDE DEF wrong
    <3>. QED  BY <2>2, <3>1, EarliestExists
  <2>4. m # 1
    BY <1>1, <1>2, <2>3
  <2>5. m - 1 \in 1..month /\ m - 1 \notin wrong
    BY <2>3, <2>4
  <2>6. days[m] = days[m - 1] + MonthLength(year, m - 1)
    BY <1>2, <2>3, <2>4
  <2>7. table[m] = table[m - 1] + MonthLength(year, m - 1)
    <3>. HIDE DEF table
    <3>. QED  BY <1>1, <2>3, <2>4
  <2>. QED  BY <2>3, <2>5, <2>6, <2>7
<1>3. DaysBeforeMonth(year, month) = (CHOOSE days : IsDays(days))[month]
  BY DEF DaysBeforeMonth
<1>4. IsDays(CHOOSE days : IsDays(days))
  <2>. HIDE DEF IsDays
  <2>. QED  BY <1>1
<1>5. (CHOOSE days : IsDays(days)) = table
  <2>. HIDE DEF IsDays, table
  <2>. QED  BY <1>2, <1>4
<1>6. table[month] = Ahead(year, month)
  OBVIOUS
<1>. HIDE DEF IsDays, table
<1>. QED  BY <1>3, <1>5, <1>6

\* A date of the calendar.
IsDate(date) ==
  /\ date = [year |-> date.year, month |-> date.month, day |-> date.day]
  /\ date.year \in Nat \ {0} /\ date.month \in 1..12
  /\ date.day \in 1..MonthLength(date.year, date.month)

\* Months have 28 to 31 days.
LEMMA MonthLengths ==
  ASSUME NEW year \in Nat, NEW month \in 1..12
  PROVE  MonthLength(year, month) \in 28..31
BY DEF MonthLength

\* Where a month begins, and that the months of a year fill it.
LEMMA MonthsFill ==
  ASSUME NEW year \in Nat, NEW month \in 1..12
  PROVE  /\ Ahead(year, month) \in Nat /\ Ahead(year, 1) = 0
         /\ Ahead(year, 12) + MonthLength(year, 12) = YearLength(year)
         /\ Ahead(year, month) + MonthLength(year, month) <= YearLength(year)
         /\ month < 12 => Ahead(year, month + 1) = Ahead(year, month) + MonthLength(year, month)
BY DEF Ahead, MonthLength, YearLength

\* A month ends before a later one of the year begins.
LEMMA MonthsOrder ==
  ASSUME NEW year \in Nat, NEW m \in 1..12, NEW n \in 1..12, m < n
  PROVE  Ahead(year, m) + MonthLength(year, m) <= Ahead(year, n)
BY DEF Ahead, MonthLength

\* The number of a date, which lies in its year.
LEMMA DayNumbered ==
  ASSUME NEW date, IsDate(date)
  PROVE  /\ DayNumber(date) = DaysBeforeYear(date.year) + Ahead(date.year, date.month)
                                + date.day - 1
         /\ DayNumber(date) \in Nat
         /\ DaysBeforeYear(date.year) <= DayNumber(date)
         /\ DayNumber(date) < DaysBeforeYear(date.year + 1)
<1>1. DaysBeforeMonth(date.year, date.month) = Ahead(date.year, date.month)
  BY MonthTable DEF IsDate
<1>2. /\ DaysBeforeYear(date.year) \in Nat
      /\ DaysBeforeYear(date.year + 1)
           = DaysBeforeYear(date.year) + YearLength(date.year)
  BY YearsBound, YearsGrow DEF IsDate
<1>3. MonthLength(date.year, date.month) \in 28..31
  BY MonthLengths DEF IsDate
<1>4. /\ Ahead(date.year, date.month) \in Nat
      /\ Ahead(date.year, date.month) + MonthLength(date.year, date.month)
           <= YearLength(date.year)
  BY MonthsFill DEF IsDate
<1>. QED  BY <1>1, <1>2, <1>3, <1>4 DEF DayNumber, IsDate, YearLength

\* Later dates have greater numbers.
LEMMA DatesOrder ==
  ASSUME NEW c, NEW d, IsDate(c), IsDate(d),
         \/ c.year < d.year
         \/ c.year = d.year /\ c.month < d.month
         \/ c.year = d.year /\ c.month = d.month /\ c.day < d.day
  PROVE  DayNumber(c) < DayNumber(d)
<1>1. CASE c.year < d.year
  <2>1. DaysBeforeYear(c.year + 1) <= DaysBeforeYear(d.year)
    BY <1>1, YearsOrder DEF IsDate
  <2>2. DaysBeforeYear(c.year + 1) \in Nat /\ DaysBeforeYear(d.year) \in Nat
    <3>1. c.year + 1 \in Nat \ {0} /\ d.year \in Nat \ {0}
      BY DEF IsDate
    <3>. QED  BY <3>1, YearsBound
  <2>. QED  BY <2>1, <2>2, DayNumbered
<1>2. CASE c.year = d.year /\ c.month < d.month
  <2>1. Ahead(c.year, c.month) + MonthLength(c.year, c.month) <= Ahead(c.year, d.month)
    BY <1>2, MonthsOrder DEF IsDate
  <2>2. /\ Ahead(c.year, c.month) \in Nat /\ Ahead(c.year, d.month) \in Nat
        /\ DaysBeforeYear(c.year) \in Nat
        /\ MonthLength(c.year, c.month) \in 28..31
    BY MonthsFill, YearsBound, MonthLengths DEF IsDate
  <2>3. c.day \in 1..MonthLength(c.year, c.month) /\ d.day \in Nat \ {0}
    BY MonthLengths DEF IsDate
  <2>4. /\ DayNumber(c) = DaysBeforeYear(c.year) + Ahead(c.year, c.month) + c.day - 1
        /\ DayNumber(d) = DaysBeforeYear(c.year) + Ahead(c.year, d.month) + d.day - 1
    BY <1>2, DayNumbered
  <2>. QED  BY <2>1, <2>2, <2>3, <2>4
<1>3. CASE c.year = d.year /\ c.month = d.month /\ c.day < d.day
  <2>1. /\ Ahead(c.year, c.month) \in Nat /\ DaysBeforeYear(c.year) \in Nat
        /\ MonthLength(c.year, c.month) \in 28..31
    BY MonthsFill, YearsBound, MonthLengths DEF IsDate
  <2>2. c.day \in Nat /\ d.day \in Nat
    BY <1>3, <2>1 DEF IsDate
  <2>3. /\ DayNumber(c) = DaysBeforeYear(c.year) + Ahead(c.year, c.month) + c.day - 1
        /\ DayNumber(d) = DaysBeforeYear(c.year) + Ahead(c.year, c.month) + d.day - 1
    BY <1>3, DayNumbered
  <2>. QED  BY <1>3, <2>1, <2>2, <2>3
<1>. QED  BY <1>1, <1>2, <1>3

\* Every day from the first has its date.
LEMMA DateFound ==
  ASSUME NEW day \in Nat
  PROVE  IsDate(DateOf(day)) /\ DayNumber(DateOf(day)) = day
<1>. DEFINE years == (day \div 366) + 1..(day \div 365) + 1
            Within(y) == DaysBeforeYear(y) <= day /\ day < DaysBeforeYear(y + 1)
            year == CHOOSE y \in years : Within(y)
            left == day - DaysBeforeYear(year)
            Fits(m) == /\ DaysBeforeMonth(year, m) <= left
                       /\ left < DaysBeforeMonth(year, m) + MonthLength(year, m)
            month == CHOOSE m \in 1..12 : Fits(m)
            date == [year |-> year, month |-> month,
                     day |-> left - DaysBeforeMonth(year, month) + 1]
<1>1. \E y \in years : Within(y)
  <2>. DEFINE ends == {y \in Nat \ {0} : day < DaysBeforeYear(y + 1)}
              last == (day \div 365) + 1
  <2>1. last \in ends
    <3>1. last \in Nat \ {0} /\ last + 1 \in Nat \ {0} /\ day < 365 * last
      OBVIOUS
    <3>2. 365 * last <= DaysBeforeYear(last + 1) /\ DaysBeforeYear(last + 1) \in Nat
      <4>1. 365 * ((last + 1) - 1) <= DaysBeforeYear(last + 1)
            /\ DaysBeforeYear(last + 1) \in Nat
        BY <3>1, YearsBound
      <4>2. (last + 1) - 1 = last
        BY <3>1
      <4>. QED  BY <4>1, <4>2
    <3>. HIDE DEF last
    <3>. QED  BY <3>1, <3>2
  <2>2. PICK y \in ends : \A z \in ends : y <= z
    <3>1. ends \in SUBSET Nat /\ ends # {}
      BY <2>1
    <3>. HIDE DEF ends
    <3>. QED  BY <3>1, EarliestExists
  <2>3. y \in Nat \ {0} /\ day < DaysBeforeYear(y + 1) /\ y <= last
    BY <2>1, <2>2
  <2>4. DaysBeforeYear(y) <= day
    <3>1. CASE y = 1
      BY <3>1 DEF DaysBeforeYear
    <3>2. CASE y # 1
      <4>1. y - 1 \in Nat \ {0} /\ (y - 1) + 1 = y /\ y - 1 \notin ends
        BY <2>2, <2>3, <3>2
      <4>2. ~(day < DaysBeforeYear(y)) /\ DaysBeforeYear(y) \in Nat
        BY <2>3, <4>1, YearsBound
      <4>. QED  BY <4>2
    <3>. QED  BY <3>1, <3>2
  <2>5. (day \div 366) + 1 <= y
    <3>1. DaysBeforeYear(y + 1) <= 366 * ((y + 1) - 1) /\ DaysBeforeYear(y + 1) \in Nat
      <4>1. y + 1 \in Nat \ {0}
        BY <2>3
      <4>. QED  BY <4>1, YearsBound
    <3>2. day < 366 * y
      BY <2>3, <3>1
    <3>. QED  BY <2>3, <3>2
  <2>. QED  BY <2>3, <2>4, <2>5
<1>2. year \in years /\ Within(year)
  <2>. HIDE DEF years, Within
  <2>. QED  BY <1>1
<1>3. year \in Nat \ {0}
  <2>. HIDE DEF year
  <2>. QED  BY <1>2
<1>. HIDE DEF year
<1>4. /\ left \in Nat /\ left < YearLength(year)
      /\ DaysBeforeYear(year) \in Nat /\ day = DaysBeforeYear(year) + left
  <2>1. /\ DaysBeforeYear(year) \in Nat
        /\ DaysBeforeYear(year + 1)
             = DaysBeforeYear(year) + YearLength(year)
        /\ YearLength(year) \in 365..366
    BY <1>3, YearsBound, YearsGrow
  <2>. QED  BY <1>2, <2>1
<1>. HIDE DEF left
<1>5. \E m \in 1..12 : Fits(m)
  <2>1. \E m \in 1..12 : Ahead(year, m) <= left /\ left < Ahead(year, m) + MonthLength(year, m)
    BY <1>3, <1>4 DEF Ahead, MonthLength, YearLength
  <2>. QED  BY <1>3, <2>1, MonthTable
<1>6. month \in 1..12 /\ Fits(month)
  <2>. HIDE DEF Fits
  <2>. QED  BY <1>5
<1>. HIDE DEF month
<1>7. DateOf(day) = date
  BY DEF DateOf, date, month, left, year, Fits, Within
<1>8. DaysBeforeMonth(year, month) = Ahead(year, month) /\ Ahead(year, month) \in Nat
      /\ MonthLength(year, month) \in 28..31
  BY <1>3, <1>6, MonthTable, MonthsFill, MonthLengths
<1>9. IsDate(date)
  BY <1>3, <1>4, <1>6, <1>8 DEF IsDate
<1>10. DayNumber(date) = day
  BY <1>3, <1>4, <1>6, <1>8 DEF DayNumber
<1>. QED  BY <1>7, <1>9, <1>10

\* The date of the number of a date is that date.
LEMMA DateAgain ==
  ASSUME NEW date, IsDate(date)
  PROVE  DateOf(DayNumber(date)) = date
<1>. DEFINE other == DateOf(DayNumber(date))
<1>1. IsDate(other) /\ DayNumber(other) = DayNumber(date) /\ DayNumber(date) \in Nat
  BY DayNumbered, DateFound
<1>. HIDE DEF other
<1>2. ~(DayNumber(other) < DayNumber(date)) /\ ~(DayNumber(date) < DayNumber(other))
  BY <1>1
<1>3. /\ other.year \in Nat /\ date.year \in Nat /\ other.month \in Nat /\ date.month \in Nat
      /\ other.day \in Nat /\ date.day \in Nat
  BY <1>1, MonthLengths DEF IsDate
<1>4. other.year = date.year
  BY <1>1, <1>2, <1>3, DatesOrder
<1>5. other.month = date.month
  BY <1>1, <1>2, <1>3, <1>4, DatesOrder
<1>6. other.day = date.day
  BY <1>1, <1>2, <1>3, <1>4, <1>5, DatesOrder
<1>. QED  BY <1>1, <1>4, <1>5, <1>6 DEF IsDate, other

-----------------------------------------------------------------------------
(* Months ago *)

\* Months lie 28 days apart, and more with the months between them.
LEMMA MonthsApart ==
  ASSUME NEW c, NEW d, IsDate(c), IsDate(d), c.day <= d.day,
         12 * c.year + c.month < 12 * d.year + d.month
  PROVE  DayNumber(c) + 28 <= DayNumber(d)
<1>. DEFINE start == DaysBeforeYear(c.year) + Ahead(c.year, c.month)
            later == DaysBeforeYear(d.year) + Ahead(d.year, d.month)
<1>1. /\ c.year \in Nat \ {0} /\ d.year \in Nat \ {0} /\ c.month \in 1..12 /\ d.month \in 1..12
      /\ MonthLength(c.year, c.month) \in 28..31 /\ MonthLength(d.year, d.month) \in 28..31
      /\ c.day \in Nat \ {0} /\ d.day \in Nat \ {0}
  BY MonthLengths DEF IsDate
<1>2. /\ DaysBeforeYear(c.year) \in Nat /\ DaysBeforeYear(d.year) \in Nat
      /\ Ahead(c.year, c.month) \in Nat /\ Ahead(d.year, d.month) \in Nat
  BY <1>1, YearsBound, MonthsFill
<1>3. start + 28 <= later
  <2>1. CASE c.year = d.year
    <3>1. c.month < d.month
      BY <1>1, <2>1
    <3>2. Ahead(c.year, c.month) + MonthLength(c.year, c.month) <= Ahead(c.year, d.month)
      BY <1>1, <3>1, MonthsOrder
    <3>. QED  BY <1>1, <1>2, <2>1, <3>2
  <2>2. CASE c.year # d.year
    <3>1. c.year < d.year
      BY <1>1, <2>2
    <3>2. DaysBeforeYear(c.year + 1) <= DaysBeforeYear(d.year)
      BY <1>1, <3>1, YearsOrder
    <3>3. /\ DaysBeforeYear(c.year + 1) = DaysBeforeYear(c.year) + YearLength(c.year)
          /\ YearLength(c.year) \in 365..366
      BY <1>1, YearsGrow
    <3>4. Ahead(c.year, c.month) + MonthLength(c.year, c.month)
            <= YearLength(c.year)
      <4>1. c.year \in Nat
        BY <1>1
      <4>. HIDE DEF start, later
      <4>. QED  BY <1>1, <4>1, MonthsFill
    <3>. QED  BY <1>1, <1>2, <3>2, <3>3, <3>4
  <2>. QED  BY <2>1, <2>2
<1>4. DayNumber(c) = start + c.day - 1 /\ DayNumber(d) = later + d.day - 1
  BY DayNumbered
<1>5. start \in Nat /\ later \in Nat
  BY <1>2
<1>. HIDE DEF start, later
<1>. QED  BY <1>1, <1>3, <1>4, <1>5

\* The date some months before another: the same day, or the last of a shorter month.
MonthsBefore(date, today, months) ==
  /\ IsDate(date)
  /\ 12 * date.year + date.month = 12 * today.year + today.month - months
  /\ \/ date.day = today.day
     \/ date.day < today.day /\ date.day = MonthLength(date.year, date.month)

\* subtract_months keeps the time of day and goes back whole months.
THEOREM MonthsSubtracted ==
  ASSUME NEW wall \in Nat, NEW months \in Nat \ {0},
         SubtractMonths(wall, months) # OutOfRange
  PROVE  LET then == SubtractMonths(wall, months) IN
         /\ then \in Nat /\ then % 24 = wall % 24
         /\ then + 24 * 28 <= wall
         /\ MonthsBefore(DateOf(then \div 24), DateOf(wall \div 24), months)
<1>. DEFINE today == DateOf(wall \div 24)
            index == today.month - months - 1
            year == today.year + index \div 12
            month == (index % 12) + 1
            longest == MonthLength(year, month)
            date == [year |-> year, month |-> month,
                     day |-> IF today.day <= longest THEN today.day ELSE longest]
            then == SubtractMonths(wall, months)
<1>1. wall \div 24 \in Nat /\ wall % 24 \in 0..23 /\ wall = 24 * (wall \div 24) + (wall % 24)
  OBVIOUS
<1>2. IsDate(today) /\ DayNumber(today) = wall \div 24
  BY <1>1, DateFound
<1>3. then = IF year < 1 THEN OutOfRange ELSE 24 * DayNumber(date) + (wall % 24)
  BY DEF SubtractMonths, then, date, longest, month, year, index, today
<1>. HIDE DEF then, today
<1>4. ~(year < 1) /\ then = 24 * DayNumber(date) + (wall % 24)
  BY <1>3 DEF then
<1>5. /\ today.year \in Nat /\ today.month \in 1..12
      /\ MonthLength(today.year, today.month) \in 28..31
      /\ today.day \in Nat \ {0}
  BY <1>2, MonthLengths DEF IsDate
<1>6. /\ year \in Nat \ {0} /\ month \in 1..12
      /\ 12 * year + month = 12 * today.year + today.month - months
  BY <1>4, <1>5
<1>. HIDE DEF year, month, index
<1>7. longest \in 28..31
  BY <1>6, MonthLengths
<1>8. MonthsBefore(date, today, months)
  BY <1>5, <1>6, <1>7 DEF MonthsBefore, IsDate
<1>9. date.day <= today.day
  BY <1>5, <1>7
<1>10. DayNumber(date) + 28 <= DayNumber(today) /\ DayNumber(date) \in Nat
  <2>1. 12 * date.year + date.month < 12 * today.year + today.month
    BY <1>5, <1>6
  <2>. HIDE DEF date
  <2>. QED  BY <1>2, <1>8, <1>9, <2>1, MonthsApart, DayNumbered DEF MonthsBefore
<1>. HIDE DEF date
<1>11. then \in Nat /\ then % 24 = wall % 24 /\ then \div 24 = DayNumber(date)
  <2>. DEFINE hour == wall % 24
              day == DayNumber(date)
  <2>1. hour \in 0..23 /\ day \in Nat /\ then = 24 * day + hour
    BY <1>1, <1>4, <1>10
  <2>. HIDE DEF hour, day
  <2>2. then \in Nat /\ then % 24 = hour /\ then \div 24 = day
    BY <2>1
  <2>. QED  BY <2>2 DEF hour, day
<1>12. then + 24 * 28 <= wall
  BY <1>1, <1>2, <1>4, <1>10
<1>13. DateOf(then \div 24) = date
  BY <1>8, <1>11, DateAgain DEF MonthsBefore
<1>. QED  BY <1>8, <1>11, <1>12, <1>13 DEF then, today

-----------------------------------------------------------------------------
(* Buckets *)

\* The first day of a month is in that month.
LEMMA FirstDay ==
  ASSUME NEW year \in Nat \ {0}, NEW month \in 1..12
  PROVE  IsDate([year |-> year, month |-> month, day |-> 1])
BY MonthLengths DEF IsDate

\* build_date_trunc_expression groups days by period: the bucket of a day is the first
\* day of its week, month, quarter or year, and the bucket of that day too.
THEOREM BucketsHold ==
  ASSUME NEW day \in Nat, NEW trunc \in {"day", "week", "month", "quarter", "year"}
  PROVE  LET bucket == Bucket(trunc, day) IN
         /\ bucket \in Nat /\ bucket <= day
         /\ Bucket(trunc, bucket) = bucket
         /\ trunc = "day" => bucket = day
         /\ trunc = "week" => bucket % 7 = 0 /\ day < bucket + 7
         /\ trunc \in {"month", "quarter", "year"} =>
              /\ DateOf(bucket).day = 1 /\ DateOf(bucket).year = DateOf(day).year
              /\ trunc = "month" => DateOf(bucket).month = DateOf(day).month
              /\ trunc = "quarter" =>
                   /\ DateOf(bucket).month \in {1, 4, 7, 10}
                   /\ DateOf(day).month - DateOf(bucket).month \in 0..2
              /\ trunc = "year" => DateOf(bucket).month = 1
<1>. DEFINE bucket == Bucket(trunc, day)
            date == DateOf(day)
            first(month) == CASE trunc = "month" -> month
                              [] trunc = "quarter" -> month - ((month - 1) % 3)
                              [] trunc = "year" -> 1
<1>1. CASE trunc \in {"day", "week"}
  <2>1. CASE trunc = "day"
    BY <2>1 DEF Bucket
  <2>2. CASE trunc = "week"
    <3>1. \A d \in Nat : Bucket(trunc, d) = d - (d % 7)
      BY <2>2 DEF Bucket
    <3>2. /\ day - (day % 7) \in Nat /\ (day - (day % 7)) % 7 = 0
          /\ day - (day % 7) <= day /\ day < day - (day % 7) + 7
      OBVIOUS
    <3>3. (day - (day % 7)) - ((day - (day % 7)) % 7) = day - (day % 7)
      BY <3>2
    <3>. QED  BY <2>2, <3>1, <3>2, <3>3
  <2>. QED  BY <1>1, <2>1, <2>2
<1>2. CASE trunc \in {"month", "quarter", "year"}
  <2>1. \A d \in Nat : Bucket(trunc, d)
                         = DayNumber([year |-> DateOf(d).year, day |-> 1,
                                      month |-> first(DateOf(d).month)])
    BY <1>2 DEF Bucket
  <2>2. \A m \in 1..12 : /\ first(m) \in 1..12 /\ first(m) <= m /\ first(first(m)) = first(m)
                         /\ trunc = "month" => first(m) = m
                         /\ trunc = "quarter" => first(m) \in {1, 4, 7, 10} /\ m - first(m) \in 0..2
                         /\ trunc = "year" => first(m) = 1
    BY <1>2
  <2>. HIDE DEF first
  <2>3. IsDate(date) /\ DayNumber(date) = day
    BY DateFound
  <2>. DEFINE start == [year |-> date.year, month |-> first(date.month), day |-> 1]
  <2>4. date.year \in Nat \ {0} /\ date.month \in 1..12 /\ first(date.month) \in 1..12
        /\ date = [year |-> date.year, month |-> date.month, day |-> date.day]
        /\ date.day \in Nat \ {0}
    BY <2>2, <2>3, MonthLengths DEF IsDate
  <2>5. IsDate(start)
    BY <2>4, FirstDay
  <2>6. bucket = DayNumber(start)
    BY <2>1
  <2>7. DateOf(bucket) = start /\ bucket \in Nat
    <3>. HIDE DEF start
    <3>. QED  BY <2>5, <2>6, DateAgain, DayNumbered
  <2>8. start.year = date.year /\ first(start.month) = start.month
        /\ start = [year |-> start.year, month |-> first(start.month), day |-> 1]
    BY <2>2, <2>4
  <2>9. Bucket(trunc, bucket) = bucket
    <3>. HIDE DEF start, bucket
    <3>. QED  BY <2>1, <2>6, <2>7, <2>8
  <2>10. bucket <= day
    <3>1. CASE start = date
      BY <2>3, <2>6, <3>1
    <3>2. CASE start # date
      <4>1. \/ start.month < date.month
            \/ start.month = date.month /\ start.day < date.day
        <5>. HIDE DEF date
        <5>. QED  BY <2>2, <2>4, <3>2
      <4>2. start.year = date.year
        OBVIOUS
      <4>. HIDE DEF start, date
      <4>. QED  BY <2>3, <2>5, <2>6, <2>7, <4>1, <4>2, DatesOrder
    <3>. QED  BY <3>1, <3>2
  <2>. HIDE DEF bucket, date
  <2>. QED  BY <1>2, <2>2, <2>4, <2>7, <2>9, <2>10 DEF bucket, date
<1>. QED  BY <1>1, <1>2

\* A bucket begins on a day.
LEMMA BucketIsDay ==
  ASSUME NEW day \in Nat, NEW trunc \in {"day", "week", "month", "quarter", "year"}
  PROVE  Bucket(trunc, day) \in Nat
BY BucketsHold

-----------------------------------------------------------------------------
(* The clocks *)

\* How many changes the clocks of a zone have, and when.
Changes(zone) == Len(Clocks[zone].changes)
At(zone, i) == Clocks[zone].changes[i].at

\* What ClocksAssumption says of one zone.
LEMMA ZoneHeld ==
  ASSUME NEW zone \in DOMAIN Clocks
  PROVE  /\ Changes(zone) \in Nat /\ DOMAIN Clocks[zone].changes = 1..Changes(zone)
         /\ \A i \in 0..Changes(zone) : OffsetAfter(zone, i) \in -23..23
         /\ \A i \in 1..Changes(zone) :
              /\ At(zone, i) \in Nat
              /\ i > 1 => At(zone, i - 1) + 48 <= At(zone, i)
              /\ OffsetAfter(zone, i) - OffsetAfter(zone, i - 1) \in -3..3
              /\ WithinADay(At(zone, i), OffsetAfter(zone, i - 1), OffsetAfter(zone, i))
BY ClocksAssumption DEF Changes, At

\* Of a set of numbered changes there is a last one.
LEMMA LastExists ==
  ASSUME NEW n \in Nat, NEW past \in SUBSET (1..n), past # {}
  PROVE  \E i \in past : \A j \in past : j <= i
<1>. DEFINE S == {n - i : i \in past}
<1>1. S \in SUBSET Nat /\ S # {}
  <2>1. ASSUME NEW i \in past  PROVE n - i \in Nat
    BY <2>1
  <2>2. PICK i : i \in past
    OBVIOUS
  <2>. QED  BY <2>1, <2>2
<1>2. PICK l \in S : \A k \in S : l <= k
  <2>. HIDE DEF S
  <2>. QED  BY <1>1, EarliestExists
<1>3. PICK i \in past : l = n - i
  BY <1>2
<1>4. ASSUME NEW j \in past  PROVE j <= i
  BY <1>2, <1>3
<1>. QED  BY <1>4

\* A change with a greater number comes later.
LEMMA ChangesInOrder ==
  ASSUME NEW zone \in DOMAIN Clocks,
         NEW i \in 1..Changes(zone), NEW j \in 1..Changes(zone), i < j
  PROVE  At(zone, i) + 48 <= At(zone, j)
<1>. DEFINE early == {k \in (i + 1)..Changes(zone) : ~(At(zone, i) + 48 <= At(zone, k))}
<1>1. /\ Changes(zone) \in Nat
      /\ \A k \in 1..Changes(zone) :
           At(zone, k) \in Nat /\ (k > 1 => At(zone, k - 1) + 48 <= At(zone, k))
  BY ZoneHeld
<1>2. SUFFICES ASSUME early # {}  PROVE FALSE
  BY <1>1
<1>3. PICK k \in early : \A l \in early : k <= l
  <2>1. early \in SUBSET Nat
    BY <1>1
  <2>. HIDE DEF early
  <2>. QED  BY <1>2, <2>1, EarliestExists
<1>4. /\ k - 1 \in i..Changes(zone) /\ k - 1 \in 1..Changes(zone) /\ k - 1 \notin early
      /\ At(zone, k - 1) + 48 <= At(zone, k)
  BY <1>1, <1>3
<1>5. At(zone, k - 1) \in Nat /\ At(zone, k) \in Nat /\ At(zone, i) \in Nat
  BY <1>1, <1>3, <1>4
<1>6. At(zone, i) <= At(zone, k - 1)
  <2>1. CASE k - 1 = i
    BY <1>5, <2>1
  <2>2. CASE k - 1 # i
    BY <1>4, <1>5, <2>2
  <2>. QED  BY <2>1, <2>2
<1>. QED  BY <1>3, <1>4, <1>5, <1>6

\* Between which changes an instant lies.
Between(zone, k, t) ==
  /\ k \in 0..Changes(zone)
  /\ k > 0 => At(zone, k) <= t
  /\ k < Changes(zone) => t < At(zone, k + 1)

\* Every instant lies after a last change or before all; that gives its offset.
LEMMA OffsetFound ==
  ASSUME NEW zone \in DOMAIN Clocks, NEW t \in Int
  PROVE  \E k \in 0..Changes(zone) :
           Between(zone, k, t) /\ Offset(zone, t) = OffsetAfter(zone, k)
<1>. DEFINE past == {i \in 1..Changes(zone) : At(zone, i) <= t}
            last == CHOOSE i \in past : \A j \in past : j <= i
<1>1. /\ Changes(zone) \in Nat
      /\ \A k \in 1..Changes(zone) : At(zone, k) \in Nat
  BY ZoneHeld
<1>2. Offset(zone, t) = IF past = {} THEN Clocks[zone].first
                        ELSE Clocks[zone].changes[last].offset
  <2>. DEFINE found == {i \in DOMAIN Clocks[zone].changes : Clocks[zone].changes[i].at <= t}
              latest == CHOOSE i \in found : \A j \in found : j <= i
  <2>1. Offset(zone, t) = IF found = {} THEN Clocks[zone].first
                          ELSE Clocks[zone].changes[latest].offset
    BY DEF Offset
  <2>2. DOMAIN Clocks[zone].changes = 1..Changes(zone)
    BY ZoneHeld
  <2>3. found = past
    BY <2>2 DEF At
  <2>4. latest = last
    <3>. HIDE DEF found, past
    <3>. QED  BY <2>3
  <2>. HIDE DEF found, past, latest, last
  <2>. QED  BY <2>1, <2>3, <2>4
<1>3. CASE past = {}
  <2>1. Between(zone, 0, t)
    BY <1>1, <1>3 DEF Between
  <2>. QED  BY <1>1, <1>2, <1>3, <2>1 DEF OffsetAfter
<1>4. CASE past # {}
  <2>1. last \in past /\ \A j \in past : j <= last
    <3>1. \E i \in past : \A j \in past : j <= i
      BY <1>1, <1>4, LastExists
    <3>. QED  BY <3>1
  <2>. HIDE DEF last
  <2>2. Between(zone, last, t)
    BY <1>1, <2>1 DEF Between
  <2>3. Offset(zone, t) = OffsetAfter(zone, last)
    BY <1>1, <1>2, <1>4, <2>1 DEF OffsetAfter
  <2>. QED  BY <1>1, <2>1, <2>2, <2>3
<1>. QED  BY <1>3, <1>4

\* An instant lies between two changes only.
LEMMA BetweenOnce ==
  ASSUME NEW zone \in DOMAIN Clocks, NEW t \in Int, NEW k, NEW l,
         Between(zone, k, t), Between(zone, l, t)
  PROVE  k = l
<1>1. /\ Changes(zone) \in Nat
      /\ \A i \in 1..Changes(zone) : At(zone, i) \in Nat
  BY ZoneHeld
<1>2. k \in 0..Changes(zone) /\ l \in 0..Changes(zone)
  BY DEF Between
<1>3. ASSUME NEW i \in 0..Changes(zone), NEW j \in 0..Changes(zone),
             Between(zone, i, t), Between(zone, j, t), i < j
      PROVE  FALSE
  <2>1. t < At(zone, i + 1) /\ At(zone, j) <= t /\ i + 1 \in 1..Changes(zone)
        /\ j \in 1..Changes(zone)
    BY <1>1, <1>3 DEF Between
  <2>2. At(zone, i + 1) <= At(zone, j)
    <3>1. CASE i + 1 = j
      BY <1>1, <2>1, <3>1
    <3>2. CASE i + 1 # j
      BY <1>1, <1>3, <2>1, <3>2, ChangesInOrder
    <3>. QED  BY <3>1, <3>2
  <2>. QED  BY <1>1, <2>1, <2>2
<1>. QED  BY <1>1, <1>2, <1>3

\* The offset of an instant, where the changes around it are known.
LEMMA OffsetBetween ==
  ASSUME NEW zone \in DOMAIN Clocks, NEW t \in Int, NEW k, Between(zone, k, t)
  PROVE  Offset(zone, t) = OffsetAfter(zone, k)
BY OffsetFound, BetweenOnce

\* Wall times are numbers, less than a day from the instant.
LEMMA WallsBound ==
  ASSUME NEW zone \in DOMAIN Clocks, NEW t \in Int
  PROVE  Wall(zone, t) \in Int /\ Wall(zone, t) - t \in -23..23 /\ LocalDay(zone, t) \in Int
<1>1. PICK k \in 0..Changes(zone) : Offset(zone, t) = OffsetAfter(zone, k)
  BY OffsetFound
<1>2. Offset(zone, t) \in -23..23
  BY <1>1, ZoneHeld
<1>. QED  BY <1>2 DEF Wall, LocalDay

-----------------------------------------------------------------------------
(* The days a window touches *)

\* From one hour to the next the local date stays or moves to the next day.
LEMMA DayByDay ==
  ASSUME NEW zone \in DOMAIN Clocks, NEW t \in Int
  PROVE  LocalDay(zone, t + 1) \in {LocalDay(zone, t), LocalDay(zone, t) + 1}
<1>1. PICK k \in 0..Changes(zone) :
        Between(zone, k, t) /\ Offset(zone, t) = OffsetAfter(zone, k)
  BY OffsetFound
<1>2. /\ Changes(zone) \in Nat /\ OffsetAfter(zone, k) \in Int
      /\ \A i \in 1..Changes(zone) : At(zone, i) \in Nat
  <2>1. OffsetAfter(zone, k) \in -23..23
    BY ZoneHeld
  <2>2. Changes(zone) \in Nat /\ \A i \in 1..Changes(zone) : At(zone, i) \in Nat
    BY ZoneHeld
  <2>. QED  BY <2>1, <2>2
<1>3. CASE Between(zone, k, t + 1)
  <2>1. Offset(zone, t + 1) = OffsetAfter(zone, k)
    BY <1>3, OffsetBetween
  <2>. QED  BY <1>1, <1>2, <2>1 DEF LocalDay, Wall
<1>4. CASE ~Between(zone, k, t + 1)
  <2>. DEFINE before == OffsetAfter(zone, k)
              after == OffsetAfter(zone, k + 1)
  <2>1. k < Changes(zone) /\ k + 1 \in 1..Changes(zone) /\ At(zone, k + 1) = t + 1
    BY <1>1, <1>2, <1>4 DEF Between
  <2>2. Between(zone, k + 1, t + 1)
    <3>1. k + 1 < Changes(zone) => At(zone, k + 1) + 48 <= At(zone, k + 2)
      BY <1>2, <2>1, ChangesInOrder
    <3>. QED  BY <1>2, <2>1, <3>1 DEF Between
  <2>3. Offset(zone, t + 1) = after
    BY <2>2, OffsetBetween
  <2>4. after \in Int /\ WithinADay(t + 1, before, after)
    <3>1. after \in -23..23
      <4>1. k + 1 \in 0..Changes(zone)
        BY <1>2, <2>1
      <4>. QED  BY <4>1, ZoneHeld
    <3>2. WithinADay(At(zone, k + 1), OffsetAfter(zone, (k + 1) - 1), after)
      BY <2>1, ZoneHeld
    <3>3. (k + 1) - 1 = k
      OBVIOUS
    <3>. HIDE DEF after
    <3>. QED  BY <2>1, <3>1, <3>2, <3>3
  <2>5. LocalDay(zone, t) = (t + before) \div 24
        /\ LocalDay(zone, t + 1) = (t + 1 + after) \div 24
    BY <1>1, <2>3 DEF LocalDay, Wall
  <2>6. before \in Int
    BY <1>2
  <2>. HIDE DEF before, after
  <2>. QED  BY <2>4, <2>5, <2>6 DEF WithinADay
<1>. QED  BY <1>3, <1>4

\* The local date never goes back.
LEMMA DaysOnward ==
  ASSUME NEW zone \in DOMAIN Clocks, NEW s \in Int, NEW t \in Int, s <= t
  PROVE  LocalDay(zone, s) <= LocalDay(zone, t)
<1>. DEFINE back == {n \in Nat : ~(LocalDay(zone, s) <= LocalDay(zone, s + n))}
<1>1. \A u \in Int : LocalDay(zone, u) \in Int
  BY WallsBound
<1>2. SUFFICES ASSUME back # {}  PROVE FALSE
  <2>1. t - s \in Nat /\ s + (t - s) = t
    OBVIOUS
  <2>. QED  BY <1>2, <2>1
<1>3. PICK n \in back : \A m \in back : n <= m
  BY <1>2, EarliestExists
<1>4. n # 0
  BY <1>1, <1>3
<1>5. n - 1 \in Nat /\ n - 1 \notin back /\ s + (n - 1) \in Int /\ (s + (n - 1)) + 1 = s + n
  BY <1>3, <1>4
<1>6. LocalDay(zone, s + n) \in {LocalDay(zone, s + (n - 1)), LocalDay(zone, s + (n - 1)) + 1}
  BY <1>5, DayByDay
<1>. QED  BY <1>1, <1>3, <1>5, <1>6

\* The local dates of a window are all those from its first to its last.
LEMMA DaysOfWindow ==
  ASSUME NEW zone \in DOMAIN Clocks, NEW s \in Int, NEW t \in Int, s <= t
  PROVE  {LocalDay(zone, u) : u \in s..t} = LocalDay(zone, s)..LocalDay(zone, t)
<1>1. \A u \in Int : LocalDay(zone, u) \in Int
  BY WallsBound
<1>2. ASSUME NEW u \in s..t
      PROVE  LocalDay(zone, u) \in LocalDay(zone, s)..LocalDay(zone, t)
  BY <1>1, DaysOnward
<1>3. ASSUME NEW d \in LocalDay(zone, s)..LocalDay(zone, t)
      PROVE  \E u \in s..t : LocalDay(zone, u) = d
  <2>. DEFINE reached == {n \in Nat : d <= LocalDay(zone, s + n)}
  <2>1. d \in Int
    BY <1>1
  <2>2. t - s \in reached
    BY <1>1
  <2>3. PICK n \in reached : \A m \in reached : n <= m
    BY <2>2, EarliestExists
  <2>4. n <= t - s /\ s + n \in s..t /\ d <= LocalDay(zone, s + n)
    <3>1. n \in Nat /\ t - s \in Nat /\ n <= t - s
      BY <2>2, <2>3
    <3>2. s + n \in s..t
      BY <3>1
    <3>. QED  BY <2>3, <3>1, <3>2
  <2>5. LocalDay(zone, s + n) <= d
    <3>1. CASE n = 0
      BY <1>1, <3>1
    <3>2. CASE n # 0
      <4>1. n - 1 \in Nat /\ n - 1 \notin reached /\ s + (n - 1) \in Int
            /\ (s + (n - 1)) + 1 = s + n
        BY <2>3, <3>2
      <4>2. LocalDay(zone, s + n)
              \in {LocalDay(zone, s + (n - 1)), LocalDay(zone, s + (n - 1)) + 1}
        BY <4>1, DayByDay
      <4>. QED  BY <1>1, <2>1, <4>1, <4>2
    <3>. QED  BY <3>1, <3>2
  <2>. QED  BY <1>1, <2>1, <2>4, <2>5
<1>. QED  BY <1>2, <1>3

-----------------------------------------------------------------------------
(* Wall times *)

\* From which reading of the clock a change counts.
Counted(zone, i) ==
  At(zone, i) + (IF OffsetAfter(zone, i - 1) > OffsetAfter(zone, i)
                 THEN OffsetAfter(zone, i - 1) ELSE OffsetAfter(zone, i))

\* The offset zoneinfo gives is that after the last change that counts.
LEMMA FoldZeroFound ==
  ASSUME NEW zone \in DOMAIN Clocks, NEW wall \in Int
  PROVE  \E k \in 0..Changes(zone) :
           /\ FoldZeroOffset(zone, wall) = OffsetAfter(zone, k)
           /\ k > 0 => Counted(zone, k) <= wall
           /\ k < Changes(zone) => wall < Counted(zone, k + 1)
<1>. DEFINE past == {i \in 1..Changes(zone) : Counted(zone, i) <= wall}
            last == CHOOSE i \in past : \A j \in past : j <= i
<1>1. Changes(zone) \in Nat /\ \A i \in 1..Changes(zone) : Counted(zone, i) \in Int
  <2>1. Changes(zone) \in Nat
    BY ZoneHeld
  <2>2. ASSUME NEW i \in 1..Changes(zone)  PROVE Counted(zone, i) \in Int
    <3>1. i - 1 \in 0..Changes(zone) /\ i \in 0..Changes(zone)
      BY <2>1
    <3>2. OffsetAfter(zone, i - 1) \in -23..23 /\ OffsetAfter(zone, i) \in -23..23
      BY <3>1, ZoneHeld
    <3>3. At(zone, i) \in Nat
      BY ZoneHeld
    <3>. QED  BY <3>2, <3>3 DEF Counted
  <2>. QED  BY <2>1, <2>2
<1>2. FoldZeroOffset(zone, wall) = IF past = {} THEN Clocks[zone].first
                                   ELSE Clocks[zone].changes[last].offset
  <2>. DEFINE Later(i) == IF OffsetAfter(zone, i - 1) > OffsetAfter(zone, i)
                          THEN OffsetAfter(zone, i - 1) ELSE OffsetAfter(zone, i)
              found == {i \in DOMAIN Clocks[zone].changes :
                          Clocks[zone].changes[i].at + Later(i) <= wall}
              latest == CHOOSE i \in found : \A j \in found : j <= i
  <2>1. FoldZeroOffset(zone, wall) = IF found = {} THEN Clocks[zone].first
                                     ELSE Clocks[zone].changes[latest].offset
    BY DEF FoldZeroOffset
  <2>2. DOMAIN Clocks[zone].changes = 1..Changes(zone)
    BY ZoneHeld
  <2>3. found = past
    BY <2>2 DEF At, Counted
  <2>4. latest = last
    <3>. HIDE DEF found, past
    <3>. QED  BY <2>3
  <2>. HIDE DEF found, past, latest, last
  <2>. QED  BY <2>1, <2>3, <2>4
<1>3. CASE past = {}
  <2>1. FoldZeroOffset(zone, wall) = OffsetAfter(zone, 0)
    BY <1>2, <1>3 DEF OffsetAfter
  <2>2. 0 < Changes(zone) => wall < Counted(zone, 0 + 1)
    BY <1>1, <1>3
  <2>. QED  BY <1>1, <2>1, <2>2
<1>4. CASE past # {}
  <2>1. last \in past /\ \A j \in past : j <= last
    <3>1. \E i \in past : \A j \in past : j <= i
      BY <1>1, <1>4, LastExists
    <3>. QED  BY <3>1
  <2>. HIDE DEF last
  <2>2. last \in 1..Changes(zone) /\ Counted(zone, last) <= wall
    BY <2>1
  <2>3. last < Changes(zone) => wall < Counted(zone, last + 1)
    <3>1. last < Changes(zone) => last + 1 \in 1..Changes(zone) /\ last + 1 \notin past
      BY <1>1, <2>1
    <3>. QED  BY <1>1, <3>1
  <2>4. FoldZeroOffset(zone, wall) = OffsetAfter(zone, last)
    BY <1>1, <1>2, <1>4, <2>2 DEF OffsetAfter
  <2>. QED  BY <1>1, <2>2, <2>3, <2>4
<1>. QED  BY <1>3, <1>4

\* _resolve_local_wall_time gives the first instant at which the clock shows a wall
\* time; where it never does, one of the same day at another hour.
THEOREM WallResolved ==
  ASSUME NEW zone \in DOMAIN Clocks, NEW wall \in Int
  PROVE  LET s == ResolveLocalWallTime(zone, wall) IN
         /\ s \in Int /\ s - wall \in -23..23
         /\ LocalDay(zone, s) = wall \div 24
         /\ \/ /\ Wall(zone, s) = wall
               /\ \A t \in s - 3..s - 1 : Wall(zone, t) # wall
            \/ /\ Wall(zone, s) - wall \in 1..3
               /\ \A t \in s - 24..s + 24 : Wall(zone, t) # wall
<1>. DEFINE s == ResolveLocalWallTime(zone, wall)
<1>1. PICK k \in 0..Changes(zone) :
        /\ FoldZeroOffset(zone, wall) = OffsetAfter(zone, k)
        /\ k > 0 => Counted(zone, k) <= wall
        /\ k < Changes(zone) => wall < Counted(zone, k + 1)
  BY FoldZeroFound
<1>2. Changes(zone) \in Nat /\ \A i \in 1..Changes(zone) : At(zone, i) \in Nat
  BY ZoneHeld
<1>3. \A i \in 0..Changes(zone) : OffsetAfter(zone, i) \in -23..23
  BY ZoneHeld
<1>. DEFINE now == OffsetAfter(zone, k)
            before == OffsetAfter(zone, k - 1)
            after == OffsetAfter(zone, k + 1)
            since == At(zone, k)
            until == At(zone, k + 1)
<1>4. /\ now \in -23..23
      /\ k > 0 => /\ since \in Nat /\ before \in -23..23
                  /\ Counted(zone, k) = since + (IF before > now THEN before ELSE now)
      /\ k < Changes(zone) => /\ until \in Nat /\ after \in -23..23
                              /\ Counted(zone, k + 1)
                                   = until + (IF now > after THEN now ELSE after)
                              /\ after - now \in -3..3 /\ WithinADay(until, now, after)
      /\ k > 0 /\ k < Changes(zone) => since + 48 <= until
  <2>1. now \in -23..23
    BY <1>3
  <2>2. ASSUME k > 0
        PROVE  /\ since \in Nat /\ before \in -23..23
               /\ Counted(zone, k) = since + (IF before > now THEN before ELSE now)
    <3>1. k \in 1..Changes(zone) /\ k - 1 \in 0..Changes(zone)
      BY <1>2, <2>2
    <3>. QED  BY <1>2, <1>3, <3>1 DEF Counted
  <2>3. ASSUME k < Changes(zone)
        PROVE  /\ until \in Nat /\ after \in -23..23
               /\ Counted(zone, k + 1) = until + (IF now > after THEN now ELSE after)
               /\ after - now \in -3..3 /\ WithinADay(until, now, after)
    <3>1. k + 1 \in 1..Changes(zone) /\ k + 1 \in 0..Changes(zone) /\ (k + 1) - 1 = k
      BY <1>2, <2>3
    <3>2. Counted(zone, k + 1) = until + (IF now > after THEN now ELSE after)
      BY <3>1 DEF Counted
    <3>3. /\ OffsetAfter(zone, k + 1) - OffsetAfter(zone, (k + 1) - 1) \in -3..3
          /\ WithinADay(At(zone, k + 1), OffsetAfter(zone, (k + 1) - 1),
                        OffsetAfter(zone, k + 1))
      BY <3>1, ZoneHeld
    <3>. QED  BY <1>2, <1>3, <3>1, <3>2, <3>3
  <2>4. k > 0 /\ k < Changes(zone) => since + 48 <= until
    BY <1>2, ChangesInOrder
  <2>. QED  BY <2>1, <2>2, <2>3, <2>4
<1>5. s = wall - now /\ s \in Int
  BY <1>1, <1>4 DEF ResolveLocalWallTime
<1>6. k > 0 => since <= s
  BY <1>1, <1>4, <1>5
<1>7. s - wall \in -23..23
  BY <1>4, <1>5
<1>. HIDE DEF s, now, before, after, since, until
<1>8. CASE k < Changes(zone) => s < until
  <2>1. Between(zone, k, s)
    BY <1>6, <1>8 DEF Between, since, until
  <2>2. Wall(zone, s) = wall
    <3>1. Wall(zone, s) = s + now
      BY <1>5, <2>1, OffsetBetween DEF Wall, now
    <3>. QED  BY <1>4, <1>5, <3>1
  <2>3. ASSUME NEW t \in s - 3..s - 1  PROVE Wall(zone, t) # wall
    <3>1. t \in Int /\ t < s /\ s - 3 <= t
      BY <1>5
    <3>2. CASE k > 0 => since <= t
      <4>1. Between(zone, k, t)
        BY <1>4, <1>5, <1>8, <3>1, <3>2 DEF Between, since, until
      <4>2. Wall(zone, t) = t + now
        BY <3>1, <4>1, OffsetBetween DEF Wall, now
      <4>. QED  BY <1>4, <1>5, <3>1, <4>2
    <3>3. CASE k > 0 /\ t < since
      <4>1. /\ k \in 1..Changes(zone) /\ k - 1 \in 0..Changes(zone) /\ (k - 1) + 1 = k
            /\ k - 1 < Changes(zone)
        BY <1>2, <3>3
      <4>2. k - 1 > 0 => At(zone, k - 1) + 48 <= since
        BY <1>2, <4>1, ChangesInOrder DEF since
      <4>3. k - 1 > 0 => At(zone, k - 1) \in Nat
        BY <1>2, <4>1
      <4>4. k - 1 > 0 => At(zone, k - 1) <= t
        BY <1>4, <1>5, <1>6, <3>1, <3>3, <4>2, <4>3
      <4>5. Between(zone, k - 1, t)
        BY <3>3, <4>1, <4>4 DEF Between, since
      <4>6. Wall(zone, t) = t + before
        BY <3>1, <4>5, OffsetBetween DEF Wall, before
      <4>7. before <= (IF before > now THEN before ELSE now)
        BY <1>4, <3>3
      <4>. QED  BY <1>1, <1>4, <3>1, <3>3, <4>6, <4>7
    <3>. QED  BY <1>4, <3>1, <3>2, <3>3
  <2>4. LocalDay(zone, s) = wall \div 24
    BY <2>2 DEF LocalDay
  <2>. QED  BY <1>5, <1>7, <2>2, <2>3, <2>4 DEF s
<1>9. CASE k < Changes(zone) /\ until <= s
  <2>1. now < after /\ s < until + (after - now) /\ after - now \in 1..3
    BY <1>1, <1>4, <1>5, <1>9
  <2>2. k + 1 \in 1..Changes(zone)
    BY <1>2, <1>9
  <2>3. k + 1 < Changes(zone) => until + 48 <= At(zone, k + 2) /\ At(zone, k + 2) \in Nat
    BY <1>2, <2>2, ChangesInOrder DEF until
  <2>4. ASSUME NEW t \in Int, until <= t, t <= s + 24
        PROVE  Wall(zone, t) = t + after
    <3>1. (k + 1) + 1 = k + 2 /\ k + 1 \in 0..Changes(zone) /\ k + 1 > 0
      BY <2>2
    <3>2. k + 1 < Changes(zone) => t < At(zone, k + 2)
      BY <1>4, <1>5, <1>9, <2>1, <2>3, <2>4
    <3>3. Between(zone, k + 1, t)
      BY <2>4, <3>1, <3>2 DEF Between, until
    <3>. QED  BY <3>3, OffsetBetween DEF Wall, after
  <2>5. Wall(zone, s) = s + after
    BY <1>5, <1>9, <2>4
  <2>6. Wall(zone, s) - wall \in 1..3
    BY <1>4, <1>5, <1>9, <2>1, <2>5
  <2>7. LocalDay(zone, s) = wall \div 24
    <3>1. (until + now) \div 24 = (until + 2 * after - now - 1) \div 24
      BY <1>4, <1>9, <2>1 DEF WithinADay
    <3>2. until + now <= wall /\ wall <= s + after /\ s + after <= until + 2 * after - now - 1
      BY <1>4, <1>5, <1>9, <2>1
    <3>3. \A a, b, c, d \in Int :
            a <= b /\ b <= c /\ c <= d /\ a \div 24 = d \div 24 => c \div 24 = b \div 24
      OBVIOUS
    <3>4. /\ until + now \in Int /\ wall \in Int /\ s + after \in Int
          /\ until + 2 * after - now - 1 \in Int
      BY <1>4, <1>5, <1>9
    <3>5. (s + after) \div 24 = wall \div 24
      BY <3>1, <3>2, <3>3, <3>4
    <3>. QED  BY <2>5, <3>5 DEF LocalDay
  <2>8. ASSUME NEW t \in s - 24..s + 24  PROVE Wall(zone, t) # wall
    <3>1. t \in Int /\ s - 24 <= t /\ t <= s + 24
      BY <1>5
    <3>2. CASE until <= t
      <4>1. Wall(zone, t) = t + after
        BY <2>4, <3>1, <3>2
      <4>. QED  BY <1>1, <1>4, <1>9, <2>1, <3>1, <3>2, <4>1
    <3>3. CASE t < until
      <4>1. k > 0 => since <= t
        BY <1>4, <1>5, <1>9, <3>1
      <4>2. Between(zone, k, t)
        BY <3>3, <4>1 DEF Between, since, until
      <4>3. Wall(zone, t) = t + now
        BY <3>1, <4>2, OffsetBetween DEF Wall, now
      <4>. QED  BY <1>4, <1>5, <1>9, <3>1, <3>3, <4>3
    <3>. QED  BY <1>4, <1>9, <3>1, <3>2, <3>3
  <2>. QED  BY <1>5, <1>7, <2>6, <2>7, <2>8 DEF s
<1>. QED  BY <1>4, <1>5, <1>8, <1>9

-----------------------------------------------------------------------------
(* Relative windows *)

\* A window starts before it ends, in the range of dates; a window of months starts at
\* the reading of the clock that the end has, whole months earlier.
LEMMA WindowHolds ==
  ASSUME NEW zone \in DOMAIN Clocks, NEW now \in Nat, 24 <= now, NEW amount \in Nat \ {0},
         NEW operator \in {"last_n_days", "last_n_months"},
         RelativeBounds(operator, amount, now, zone) # OutOfRange
  PROVE  LET start == RelativeBounds(operator, amount, now, zone).start
             wall == Wall(zone, now)
         IN /\ RelativeBounds(operator, amount, now, zone) = [start |-> start, end |-> now]
            /\ start \in Nat /\ start < now
            /\ operator = "last_n_months" =>
                 \E then \in Nat :
                   /\ start = ResolveLocalWallTime(zone, then) /\ then % 24 = wall % 24
                   /\ MonthsBefore(DateOf(then \div 24), DateOf(wall \div 24), amount)
<1>. DEFINE wall == Wall(zone, now)
            target == SubtractMonths(wall, amount)
            resolved == IF target = OutOfRange THEN -1 ELSE ResolveLocalWallTime(zone, target)
            start == IF operator = "last_n_days" THEN now - 24 * amount ELSE resolved
            bounds == RelativeBounds(operator, amount, now, zone)
<1>1. bounds = IF start < 0 THEN OutOfRange ELSE [start |-> start, end |-> now]
  BY DEF RelativeBounds
<1>2. wall \in Nat /\ wall - now \in -23..23
  <2>1. wall \in Int /\ wall - now \in -23..23
    BY WallsBound
  <2>. HIDE DEF wall
  <2>. QED  BY <2>1
<1>. HIDE DEF wall, bounds
<1>3. ~(start < 0) /\ bounds = [start |-> start, end |-> now] /\ bounds.start = start
  BY <1>1 DEF bounds
<1>4. CASE operator = "last_n_days"
  <2>1. start = now - 24 * amount
    BY <1>4
  <2>2. start \in Nat /\ start < now
    <3>1. start \in Int
      BY <2>1
    <3>. HIDE DEF start
    <3>. QED  BY <1>3, <2>1, <3>1
  <2>. QED  BY <1>3, <1>4, <2>2 DEF bounds
<1>5. CASE operator = "last_n_months"
  <2>1. start = resolved
    BY <1>5
  <2>2. target # OutOfRange /\ start = ResolveLocalWallTime(zone, target)
    BY <1>3, <2>1
  <2>3. /\ target \in Nat /\ target % 24 = wall % 24 /\ target + 24 * 28 <= wall
        /\ MonthsBefore(DateOf(target \div 24), DateOf(wall \div 24), amount)
    BY <1>2, <2>2, MonthsSubtracted
  <2>4. start \in Int /\ start - target \in -23..23
    BY <2>2, <2>3, WallResolved
  <2>. HIDE DEF start, resolved, target
  <2>5. start \in Nat /\ start < now
    BY <1>2, <1>3, <2>3, <2>4
  <2>. QED  BY <1>3, <2>2, <2>3, <2>5 DEF bounds, wall
<1>. QED  BY <1>4, <1>5
=============================================================================
