------------------------------ MODULE DiaryWalk -----------------------------
(***************************************************************************)
(* A reader who opens CalendarDiaryViewController on a day picked in the   *)
(* calendar and then presses the two buttons any number of times.  Only    *)
(* the date moves here; the diary it selects is in CalendarDiary.          *)
(***************************************************************************)
EXTENDS DiaryDates

CONSTANTS FirstYear, LastYear   \* years in which the reader picks a day

ASSUME YearsAssumption ==
    /\ FirstYear \in 1001..9999
    /\ LastYear \in FirstYear..9999

VARIABLES
    date,       \* the key of the diary shown, or Trap
    newYear     \* history: the After button was pressed on a 31 December

vars == <<date, newYear>>

\* A key has a year of the calendar, a month that may be the thirteenth, and
\* a day of some month: setDate and the next step can take it apart again.
TypeOK ==
    /\ \/ date = Trap
       \/ /\ YearOf(date) \in FirstYear..LastYear
          /\ MonthOf(date) \in 1..13
          /\ DayOf(date) \in 1..31
    /\ newYear \in BOOLEAN

\* didSelect: DateFormatter("yyyyMMdd") of a day of the calendar.
Init ==
    /\ date \in UNION {DatesOfYear(y) : y \in FirstYear..LastYear}
    /\ newYear = FALSE

\* The walk is bounded to the years picked.
BeforeDiaryButtonClicked ==
    /\ date # Trap
    /\ YearOf(Before(date)) >= FirstYear
    /\ date' = Before(date)
    /\ UNCHANGED newYear

AfterDiaryButtonClicked ==
    /\ date # Trap
    /\ date' = After(date)
    /\ newYear' = (newYear \/ (MonthOf(date) = 12 /\ DayOf(date) = 31))

Next == BeforeDiaryButtonClicked \/ AfterDiaryButtonClicked

Spec == Init /\ [][Next]_vars

-----------------------------------------------------------------------------
\* Calendar order, which the keys themselves do not have once they lose a
\* digit: 2021101 follows 20210930.
Earlier(a, b) ==
    \/ YearOf(a) < YearOf(b)
    \/ YearOf(a) = YearOf(b) /\ MonthOf(a) < MonthOf(b)
    \/ YearOf(a) = YearOf(b) /\ MonthOf(a) = MonthOf(b) /\ DayOf(a) < DayOf(b)

\* A 29th of February; the code gives it to no year (monthDates).
IsLeapDay(n) == MonthOf(n) = 2 /\ DayOf(n) = 29

\* The comment on the Before button: it shows the previous diary.  Going back
\* from a real day shows the day before it, across months and years, from
\* every day but the 1st of March of a leap year.
BeforeShowsThePreviousDay ==
    [][BeforeDiaryButtonClicked /\ IsDate(date) /\ ~IsLeapDay(PreviousDay(date))
          => date' = PreviousDay(date)]_vars

\* However malformed the dates of a walk become, each press moves the reader
\* in the direction of its button: no walk in one direction comes back to a
\* diary it has shown.
ButtonsKeepTheirDirection ==
    [][/\ BeforeDiaryButtonClicked => Earlier(date', date)
       /\ AfterDiaryButtonClicked /\ date' # Trap => Earlier(date, date')
      ]_vars

\* The array index of checkCalendarDateException is out of range only for a
\* reader who went past a 31 December, into a thirteenth month.
OnlyNewYearTraps == date = Trap => newYear

\* README.md: the diary of the date one wants is read through the calendar,
\* and the comments on the buttons: they show the previous and the next diary.
\* From a real day they show the day before and the day after.
ButtonsShowTheNeighbouringDay ==
    [][IsDate(date)
          => /\ BeforeDiaryButtonClicked => date' = PreviousDay(date)
             /\ AfterDiaryButtonClicked => date' = NextDay(date)]_vars

=============================================================================
