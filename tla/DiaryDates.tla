------------------------------ MODULE DiaryDates -----------------------------
(***************************************************************************)
(* The dates of CalendarDiaryViewController and how its two buttons move   *)
(* them: Int(date) minus or plus one, then checkCalendarDateException.     *)
(*                                                                         *)
(* A date is the key of a diary, the string the code calls `date`.  The    *)
(* code converts it to and from Int at each step, so it is modelled as the *)
(* number: eight digits yyyyMMdd as the calendar writes it, seven digits   *)
(* yyyyMMd when the code appends String(day) without a leading zero.       *)
(***************************************************************************)
EXTENDS Integers, Sequences

\* date[...3], date[4...5] and date[6...]: the day is what is left, one digit
\* of a seven-digit date.
EightDigits(n) == n >= 10000000

YearOf(n)  == IF EightDigits(n) THEN n \div 10000 ELSE n \div 1000
MonthOf(n) == IF EightDigits(n) THEN (n \div 100) % 100 ELSE (n \div 10) % 100
DayOf(n)   == IF EightDigits(n) THEN n % 100 ELSE n % 10

\* String(year) + monthString + String(day): the month has two digits, the day
\* as many as it needs.
Joined(y, m, d) ==
    IF d < 10 THEN y * 1000 + m * 10 + d ELSE y * 10000 + m * 100 + d

\* The key the calendar and the writing screen use for the same day.
Padded(y, m, d) == y * 10000 + m * 100 + d

\* The index expression monthDates[month-1] has no element.
Trap == -1

monthDates == <<31, 28, 31, 30, 31, 30, 31, 31, 30, 31, 30, 31>>

ThirtyOneDays == {1, 3, 5, 7, 8, 10, 12}
ThirtyDays == {4, 6, 9, 11}

\* The last day of the month before m; below January it is December's.
\* Mutant: the month's own length is taken.
EndOfSameMonth(y, m) ==
    IF m = 1 THEN Joined(y - 1, 12, 31)
    ELSE IF m \in DOMAIN monthDates THEN Joined(y, m - 1, monthDates[m])
    ELSE Trap

EndOfPreviousMonth(y, m) ==
    IF m = 1 THEN Joined(y - 1, 12, 31)
    ELSE IF m - 1 \in DOMAIN monthDates THEN Joined(y, m - 1, monthDates[m - 1])
    ELSE Trap

\* Mutant: a day 31 is not checked against the month.
CheckDayZeroAndThirtyTwo(n) ==
    LET y == YearOf(n)
        m == MonthOf(n)
        d == DayOf(n)
    IN  CASE d \in 1..30 -> n
          [] d = 32 /\ m \in ThirtyOneDays -> Joined(y, m + 1, 1)
          [] d = 0 -> EndOfPreviousMonth(y, m)
          [] OTHER -> Joined(y, m, d)

\* checkCalendarDateException.  A day from 1 to 30 is taken as it is, in any
\* month.  The tests of the month come in the order of the code; the February
\* one is reached by day 31 and 32 only.
CheckCalendarDateException(n) ==
    LET y == YearOf(n)
        m == MonthOf(n)
        d == DayOf(n)
    IN  IF d \in 1..30 THEN n
        ELSE IF m = 2 /\ d > 28 THEN Joined(y, 3, 1)
        ELSE IF d = 32 /\ m \in ThirtyOneDays THEN Joined(y, m + 1, 1)
        ELSE IF d = 31 /\ m \in ThirtyDays THEN Joined(y, m + 1, 1)
        ELSE IF d = 0 THEN EndOfPreviousMonth(y, m)
        ELSE Joined(y, m, d)

Before(n) == CheckCalendarDateException(n - 1)
After(n)  == CheckCalendarDateException(n + 1)

-----------------------------------------------------------------------------
(* The Gregorian calendar, the reference                                   *)

IsLeap(y) == y % 4 = 0 /\ (y % 100 # 0 \/ y % 400 = 0)

MonthLength(y, m) ==
    IF m = 2 THEN IF IsLeap(y) THEN 29 ELSE 28
    ELSE IF m \in ThirtyDays THEN 30 ELSE 31

\* n is the key of a day, as DateFormatter("yyyyMMdd") writes it.
IsDate(n) ==
    /\ EightDigits(n)
    /\ MonthOf(n) \in 1..12
    /\ DayOf(n) \in 1..MonthLength(YearOf(n), MonthOf(n))

DatesOfYear(y) ==
    UNION {{Padded(y, m, d) : d \in 1..MonthLength(y, m)} : m \in 1..12}

NextDay(n) ==
    LET y == YearOf(n)
        m == MonthOf(n)
        d == DayOf(n)
    IN  IF d < MonthLength(y, m) THEN Padded(y, m, d + 1)
        ELSE IF m < 12 THEN Padded(y, m + 1, 1)
        ELSE Padded(y + 1, 1, 1)

PreviousDay(n) ==
    LET y == YearOf(n)
        m == MonthOf(n)
        d == DayOf(n)
    IN  IF d > 1 THEN Padded(y, m, d - 1)
        ELSE IF m > 1 THEN Padded(y, m - 1, MonthLength(y, m - 1))
        ELSE Padded(y - 1, 12, 31)

=============================================================================
