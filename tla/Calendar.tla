------------------------------ MODULE Calendar ------------------------------
(***************************************************************************)
(* The ledger's calendar.  A date is the number yyyymmdd, which compares   *)
(* the way the strings YYYY-MM-DD do; a month is the number yyyymm.        *)
(***************************************************************************)
EXTENDS Integers, Sequences, SequencesExt

Least(a, b) == IF a <= b THEN a ELSE b

format(year, month, day) == year * 10000 + month * 100 + day
YearOf(date)  == date \div 10000
MonthOf(date) == (date \div 100) % 100
DayOf(date)   == date % 100

Leap(year) == year % 4 = 0 /\ (year % 100 # 0 \/ year % 400 = 0)

daysInMonth(year, month) ==
    CASE month = 2 -> IF Leap(year) THEN 29 ELSE 28
      [] month \in {4, 6, 9, 11} -> 30
      [] OTHER -> 31

(***************************************************************************)
(* Date.UTC, in days, and the way back.                                    *)
(***************************************************************************)
DaysBeforeMonth == <<0, 31, 59, 90, 120, 151, 181, 212, 243, 273, 304, 334>>
DaysBeforeYear(year) ==
    LET y == year - 1 IN 365 * y + y \div 4 - y \div 100 + y \div 400
MonthStart(year, month) ==
    DaysBeforeYear(year) + DaysBeforeMonth[month]
        + IF month > 2 /\ Leap(year) THEN 1 ELSE 0

UTCDay(date) == MonthStart(YearOf(date), MonthOf(date)) + DayOf(date)

DateOfDay(n) ==
    LET guess == (n * 400) \div 146097
        year == CHOOSE y \in guess - 1 .. guess + 2 :
                    DaysBeforeYear(y) < n /\ n <= DaysBeforeYear(y + 1)
        month == CHOOSE m \in 1 .. 12 :
                    /\ MonthStart(year, m) < n
                    /\ n <= MonthStart(year, m) + daysInMonth(year, m)
    IN  format(year, month, n - MonthStart(year, month))

addDays(date, days) == DateOfDay(UTCDay(date) + days)

addMonths(date, months) ==
    LET absolute == YearOf(date) * 12 + (MonthOf(date) - 1) + months
        year == absolute \div 12
        month == (absolute % 12) + 1
    IN  format(year, month, Least(DayOf(date), daysInMonth(year, month)))

daysBetween(from, to) == UTCDay(to) - UTCDay(from)

monthKey(date) == date \div 100
startOfMonth(date) == format(YearOf(date), MonthOf(date), 1)
endOfMonth(date) ==
    format(YearOf(date), MonthOf(date), daysInMonth(YearOf(date), MonthOf(date)))
currentMonth(today) == [from |-> startOfMonth(today), to |-> endOfMonth(today)]
shiftMonth(range, delta) == currentMonth(addMonths(startOfMonth(range.from), delta))

within(date, range) == date >= range.from /\ date <= range.to

\* The walk of monthsIn stops after this many months.
MONTHS_GUARD == 1200

monthsIn(range) ==
    LET months == (YearOf(range.to) - YearOf(range.from)) * 12
                    + (MonthOf(range.to) - MonthOf(range.from)) + 1
    IN  IF range.to < range.from THEN <<>>
        ELSE [i \in 1 .. Least(months, MONTHS_GUARD) |->
                monthKey(addMonths(startOfMonth(range.from), i - 1))]

(***************************************************************************)
(* A day field of a form: kept when the month has it, else absent (0).     *)
(***************************************************************************)
\* Mutant: any month has 31 days.
assembleAny(year, month, day) ==
    IF month < 1 \/ month > 12 \/ day < 1 \/ day > 31 THEN 0 ELSE format(year, month, day)
assemble(year, month, day) ==
    IF month < 1 \/ month > 12 \/ day < 1 \/ day > 31 THEN 0
    ELSE IF day > daysInMonth(year, month) THEN 0
    ELSE format(year, month, day)

normaliseYear(year) ==
    IF year >= 100 THEN year ELSE year + (IF year <= 68 THEN 2000 ELSE 1900)

\* Two numbers and a year of an imported cell, read day first or month first.
parseSlashDate(first, second, year, dayFirst) ==
    IF dayFirst \/ first > 12
    THEN assemble(normaliseYear(year), second, first)
    ELSE assemble(normaliseYear(year), first, second)
=============================================================================
