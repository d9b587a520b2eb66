--------------------------- MODULE DiaryWalkProofs --------------------------
(***************************************************************************)
(* What holds of every walk with the date buttons, in any years of four    *)
(* digits.                                                                 *)
(*                                                                         *)
(* The keys a walk reaches are of two forms.  An eight-digit key is a day  *)
(* of a 31-day calendar whose short months end with the 30th: the code     *)
(* repairs a day 31 and 32 only, so the 29th and 30th of February occur.   *)
(* A seven-digit key is one of the first nine days of a month that the     *)
(* After button entered from the month before.  WalkInv says so, and that  *)
(* the thirteenth month is behind a 31 December.                           *)
(***************************************************************************)
EXTENDS DiaryWalk, TLAPS

\* Named, so that a step can use a lemma without the numbers.
FourDigits == 1000..9999
Years == 1001..9999

Short(y, m, d) == y * 1000 + m * 10 + d

\* The digits of an eight-digit key.
LEMMA EightDigitFields ==
    ASSUME NEW y \in FourDigits, NEW m \in 0..99, NEW d \in 0..99
    PROVE  /\ Padded(y, m, d) \in Nat
           /\ EightDigits(Padded(y, m, d))
           /\ YearOf(Padded(y, m, d)) = y
           /\ MonthOf(Padded(y, m, d)) = m
           /\ DayOf(Padded(y, m, d)) = d
<1> DEFINE n == y * 10000 + m * 100 + d
<1> USE DEF FourDigits
<1>1. n \in Nat /\ n >= 10000000  BY SMT
<1>2. n \div 10000 = y  BY SMT
<1>3. (n \div 100) = y * 100 + m  BY SMT
<1>4. (y * 100 + m) % 100 = m  BY SMT
<1>5. n % 100 = d  BY SMT
<1> QED  BY <1>1, <1>2, <1>3, <1>4, <1>5, SMT DEF Padded, EightDigits, YearOf, MonthOf, DayOf

\* The digits of a seven-digit key.
LEMMA SevenDigitFields ==
    ASSUME NEW y \in FourDigits, NEW m \in 0..99, NEW d \in 0..9
    PROVE  /\ Short(y, m, d) \in Nat
           /\ ~EightDigits(Short(y, m, d))
           /\ YearOf(Short(y, m, d)) = y
           /\ MonthOf(Short(y, m, d)) = m
           /\ DayOf(Short(y, m, d)) = d
<1> DEFINE n == y * 1000 + m * 10 + d
<1> USE DEF FourDigits
<1>0. y <= 9999 /\ m <= 99 /\ d <= 9 /\ y \in Int /\ m \in Int /\ d \in Int  BY SMT
<1>1. n \in Nat /\ ~(n >= 10000000)  BY <1>0, SMT
<1>2. n \div 1000 = y  BY SMT
<1>3. n \div 10 = y * 100 + m  BY SMT
<1>4. (y * 100 + m) % 100 = m  BY SMT
<1>5. n % 10 = d  BY SMT
<1> QED  BY <1>1, <1>2, <1>3, <1>4, <1>5, SMT DEF Short, EightDigits, YearOf, MonthOf, DayOf

\* The table of month lengths, which gives February 28 days.
LEMMA MonthDates ==
    /\ DOMAIN monthDates = 1..12
    /\ \A m \in 1..12 : /\ monthDates[m] \in 28..31
                        /\ monthDates[m] = 31 <=> m \in ThirtyOneDays
                        /\ monthDates[m] = 30 <=> m \in ThirtyDays
                        /\ monthDates[m] = 28 <=> m = 2
BY SMT DEF monthDates, ThirtyOneDays, ThirtyDays

-----------------------------------------------------------------------------
(* The two buttons, by the form of the key                                 *)

\* The last day of the month before, which January takes from December.
DayBeforeFirst(y, m) ==
    IF m = 1 THEN Padded(y - 1, 12, 31) ELSE Padded(y, m - 1, monthDates[m - 1])

LEMMA EndOfMonthBefore ==
    ASSUME NEW y \in Years, NEW m \in 1..13
    PROVE  EndOfPreviousMonth(y, m) = DayBeforeFirst(y, m)
<1>1. CASE m = 1
  BY <1>1, SMT DEF EndOfPreviousMonth, DayBeforeFirst, Joined, Padded, Years
<1>2. CASE m # 1
  <2>1. m - 1 \in 1..12  BY <1>2, SMT
  <2>2. m - 1 \in DOMAIN monthDates /\ monthDates[m - 1] \in 28..31
    BY <2>1, MonthDates, SMT
  <2> QED  BY <1>2, <2>1, <2>2, SMT DEF EndOfPreviousMonth, DayBeforeFirst, Joined, Padded, Years
<1> QED  BY <1>1, <1>2, SMT

LEMMA BeforeEight ==
    ASSUME NEW y \in Years, NEW m \in 1..12, NEW d \in 1..31
    PROVE  Before(Padded(y, m, d)) =
             IF d > 1 THEN Padded(y, m, d - 1) ELSE DayBeforeFirst(y, m)
<1> DEFINE n == Padded(y, m, d - 1)
<1>1. Padded(y, m, d) - 1 = n  BY SMT DEF Padded, Years
<1>2. y \in FourDigits /\ m \in 0..99 /\ d - 1 \in 0..99  BY SMT DEF Years, FourDigits
<1>3. YearOf(n) = y /\ MonthOf(n) = m /\ DayOf(n) = d - 1  BY <1>2, EightDigitFields, Zenon
<1>4. CheckCalendarDateException(n) = IF d > 1 THEN n ELSE EndOfPreviousMonth(y, m)
  <2> HIDE DEF n
  <2>1. CASE d > 1
    <3>1. d - 1 \in 1..30  BY <2>1, SMT
    <3> QED  BY <1>3, <2>1, <3>1, SMT DEF CheckCalendarDateException
  <2>2. CASE ~(d > 1)
    <3>1. d - 1 = 0  BY <2>2, SMT
    <3> QED  BY <1>3, <2>2, <3>1, SMT DEF CheckCalendarDateException
  <2> QED  BY <2>1, <2>2
<1>5. EndOfPreviousMonth(y, m) = DayBeforeFirst(y, m)
  <2>1. m \in 1..13  BY SMT
  <2> QED  BY <2>1, EndOfMonthBefore, Zenon
<1> QED  BY <1>1, <1>4, <1>5, SMT DEF Before

LEMMA BeforeSeven ==
    ASSUME NEW y \in Years, NEW m \in 2..13, NEW d \in 1..9
    PROVE  Before(Short(y, m, d)) =
             IF d > 1 THEN Short(y, m, d - 1) ELSE DayBeforeFirst(y, m)
<1> DEFINE n == Short(y, m, d - 1)
<1>1. Short(y, m, d) - 1 = n  BY SMT DEF Short, Years
<1>2. y \in FourDigits /\ m \in 0..99 /\ d - 1 \in 0..9  BY SMT DEF Years, FourDigits
<1>3. YearOf(n) = y /\ MonthOf(n) = m /\ DayOf(n) = d - 1  BY <1>2, SevenDigitFields, Zenon
<1>4. CheckCalendarDateException(n) = IF d > 1 THEN n ELSE EndOfPreviousMonth(y, m)
  <2> HIDE DEF n
  <2>1. CASE d > 1
    <3>1. d - 1 \in 1..30  BY <2>1, SMT
    <3> QED  BY <1>3, <2>1, <3>1, SMT DEF CheckCalendarDateException
  <2>2. CASE ~(d > 1)
    <3>1. d - 1 = 0  BY <2>2, SMT
    <3> QED  BY <1>3, <2>2, <3>1, SMT DEF CheckCalendarDateException
  <2> QED  BY <2>1, <2>2
<1>5. EndOfPreviousMonth(y, m) = DayBeforeFirst(y, m)
  <2>1. m \in 1..13  BY SMT
  <2> QED  BY <2>1, EndOfMonthBefore, Zenon
<1> QED  BY <1>1, <1>4, <1>5, SMT DEF Before

\* After the 30th the months without a 31st are left; their next day, and the
\* day after a 31st, loses a digit.
LEMMA AfterEight ==
    ASSUME NEW y \in Years, NEW m \in 1..12, NEW d \in 1..31,
           d = 31 => m \in ThirtyOneDays
    PROVE  After(Padded(y, m, d)) =
             IF d < 30 \/ (d = 30 /\ m \in ThirtyOneDays) THEN Padded(y, m, d + 1)
             ELSE Short(y, m + 1, 1)
<1> DEFINE n == Padded(y, m, d + 1)
<1>1. Padded(y, m, d) + 1 = n  BY SMT DEF Padded, Years
<1>2. y \in FourDigits /\ m \in 0..99 /\ d + 1 \in 0..99  BY SMT DEF Years, FourDigits
<1>3. YearOf(n) = y /\ MonthOf(n) = m /\ DayOf(n) = d + 1  BY <1>2, EightDigitFields, Zenon
<1>4. n = Padded(y, m, d + 1)  OBVIOUS
<1> HIDE DEF n
<1>5. CASE d < 30
  <2>1. d + 1 \in 1..30  BY <1>5, SMT
  <2>2. CheckCalendarDateException(n) = n
    BY <1>3, <2>1, SMT DEF CheckCalendarDateException
  <2> QED  BY <1>1, <1>4, <1>5, <2>2, SMT DEF After
<1>6. CASE d = 30 /\ m \in ThirtyOneDays
  <2>1. /\ d + 1 = 31 /\ m # 2 /\ m \notin ThirtyDays
    BY <1>6, SMT DEF ThirtyOneDays, ThirtyDays
  <2>2. CheckCalendarDateException(n) = Joined(y, m, d + 1)
    BY <1>3, <2>1, SMT DEF CheckCalendarDateException
  <2>3. Joined(y, m, d + 1) = n  BY <1>4, <2>1, SMT DEF Joined, Padded
  <2> QED  BY <1>1, <1>4, <1>6, <2>2, <2>3, SMT DEF After
<1>7. CASE d >= 30 /\ ~(d = 30 /\ m \in ThirtyOneDays)
  <2>1. \/ d + 1 = 31 /\ (m = 2 \/ m \in ThirtyDays)
        \/ d + 1 = 32 /\ m \in ThirtyOneDays /\ m # 2
    BY <1>7, SMT DEF ThirtyOneDays, ThirtyDays
  <2>2. CheckCalendarDateException(n) = Joined(y, m + 1, 1)
    BY <1>3, <2>1, SMT DEF CheckCalendarDateException
  <2>3. Joined(y, m + 1, 1) = Short(y, m + 1, 1)  BY SMT DEF Joined, Short
  <2>4. ~(d < 30)  BY <1>7, SMT
  <2> QED  BY <1>1, <1>7, <2>2, <2>3, <2>4, SMT DEF After
<1> QED  BY <1>5, <1>6, <1>7, SMT

\* From the ninth day of a seven-digit key the carry changes the month, the
\* day becomes 0 and the button goes to the end of the month it is in.
LEMMA AfterSeven ==
    ASSUME NEW y \in Years, NEW m \in 2..13, NEW d \in 1..9
    PROVE  After(Short(y, m, d)) =
             IF d < 9 THEN Short(y, m, d + 1)
             ELSE IF m = 13 THEN Trap ELSE Padded(y, m, monthDates[m])
<1>1. CASE d < 9
  <2> DEFINE n == Short(y, m, d + 1)
  <2>1. Short(y, m, d) + 1 = n  BY SMT DEF Short, Years
  <2>2. y \in FourDigits /\ m \in 0..99 /\ d + 1 \in 0..9 /\ d + 1 \in 1..30
    BY <1>1, SMT DEF Years, FourDigits
  <2>3. DayOf(n) = d + 1  BY <2>2, SevenDigitFields, Zenon
  <2>4. CheckCalendarDateException(n) = n
    <3> HIDE DEF n
    <3> QED  BY <2>2, <2>3, SMT DEF CheckCalendarDateException
  <2> QED  BY <1>1, <2>1, <2>4, SMT DEF After
<1>2. CASE d = 9
  <2> DEFINE n == Short(y, m + 1, 0)
  <2>1. Short(y, m, d) + 1 = n  BY <1>2, SMT DEF Short, Years
  <2>2. y \in FourDigits /\ m + 1 \in 0..99 /\ 0 \in 0..9  BY SMT DEF Years, FourDigits
  <2>3. YearOf(n) = y /\ MonthOf(n) = m + 1 /\ DayOf(n) = 0
    BY <2>2, SevenDigitFields, Zenon
  <2>4. CheckCalendarDateException(n) = EndOfPreviousMonth(y, m + 1)
    <3> HIDE DEF n
    <3> QED  BY <2>3, SMT DEF CheckCalendarDateException
  <2>5. CASE m = 13
    <3>1. m + 1 # 1 /\ (m + 1) - 1 \notin 1..12  BY <2>5, SMT
    <3>2. EndOfPreviousMonth(y, m + 1) = Trap
      BY <3>1, MonthDates, SMT DEF EndOfPreviousMonth
    <3> QED  BY <1>2, <2>1, <2>4, <2>5, <3>2, SMT DEF After
  <2>6. CASE m # 13
    <3>1. m + 1 \in 1..13 /\ m + 1 # 1 /\ (m + 1) - 1 = m  BY <2>6, SMT
    <3>2. EndOfPreviousMonth(y, m + 1) = Padded(y, m, monthDates[m])
      BY <3>1, EndOfMonthBefore, Zenon DEF DayBeforeFirst
    <3> QED  BY <1>2, <2>1, <2>4, <2>6, <3>2, SMT DEF After
  <2> QED  BY <2>5, <2>6
<1> QED  BY <1>1, <1>2, SMT

IsEight(n) ==
    \E y \in FirstYear..LastYear, m \in 1..12, d \in 1..31 :
        /\ n = Padded(y, m, d)
        /\ d = 31 => m \in ThirtyOneDays

IsSeven(n) ==
    \E y \in FirstYear..LastYear, m \in 2..13, d \in 1..9 : n = Short(y, m, d)

Key(n) == IsEight(n) \/ IsSeven(n)

WalkInv ==
    /\ date = Trap \/ Key(date)
    /\ newYear \in BOOLEAN
    /\ date = Trap \/ MonthOf(date) = 13 => newYear

-----------------------------------------------------------------------------
(* The walk keeps to the two forms                                         *)

LEMMA YearBounds ==
    ASSUME NEW y \in FirstYear..LastYear
    PROVE  y \in Years /\ y \in FourDigits /\ y \in Int
<1>1. FirstYear \in Int /\ FirstYear >= 1001
  BY YearsAssumption, SMT DEF YearsAssumption
<1>2. LastYear \in Int /\ LastYear <= 9999
  BY YearsAssumption, <1>1, SMT DEF YearsAssumption
<1>3. y \in Int /\ FirstYear <= y /\ y <= LastYear  BY <1>1, <1>2, SMT
<1>4. y >= 1001 /\ y <= 9999  BY <1>1, <1>2, <1>3, SMT
<1>5. y \in Years  BY <1>1, <1>2, <1>3, <1>4, SMTT(30) DEF Years
<1>6. y \in FourDigits  BY <1>1, <1>2, <1>3, <1>4, SMT DEF FourDigits
<1> QED  BY <1>3, <1>5, <1>6, Zenon

LEMMA PaddedIsEight ==
    ASSUME NEW y \in FirstYear..LastYear, NEW m \in 1..12, NEW d \in 1..31,
           d = 31 => m \in ThirtyOneDays
    PROVE  /\ IsEight(Padded(y, m, d))
           /\ YearOf(Padded(y, m, d)) = y
           /\ MonthOf(Padded(y, m, d)) = m
           /\ DayOf(Padded(y, m, d)) = d
           /\ Padded(y, m, d) # Trap
<1>1. IsEight(Padded(y, m, d))  BY Zenon DEF IsEight
<1>2. y \in FourDigits /\ m \in 0..99 /\ d \in 0..99
  <2>1. m \in 0..99 /\ d \in 0..99  BY SMT
  <2> QED  BY <2>1, YearBounds, Zenon
<1>3. Trap \notin Nat  BY SMT DEF Trap
<1>4. /\ Padded(y, m, d) \in Nat
      /\ YearOf(Padded(y, m, d)) = y
      /\ MonthOf(Padded(y, m, d)) = m
      /\ DayOf(Padded(y, m, d)) = d
  BY <1>2, EightDigitFields, Zenon
<1>5. Padded(y, m, d) # Trap  BY <1>3, <1>4, Zenon
<1> QED  BY <1>1, <1>4, <1>5, Zenon

LEMMA ShortIsSeven ==
    ASSUME NEW y \in FirstYear..LastYear, NEW m \in 2..13, NEW d \in 1..9
    PROVE  /\ IsSeven(Short(y, m, d))
           /\ YearOf(Short(y, m, d)) = y
           /\ MonthOf(Short(y, m, d)) = m
           /\ DayOf(Short(y, m, d)) = d
           /\ Short(y, m, d) # Trap
<1>1. IsSeven(Short(y, m, d))  BY Zenon DEF IsSeven
<1>2. y \in FourDigits /\ m \in 0..99 /\ d \in 0..9
  <2>1. m \in 0..99 /\ d \in 0..9  BY SMT
  <2> QED  BY <2>1, YearBounds, Zenon
<1>3. Trap \notin Nat  BY SMT DEF Trap
<1>4. /\ Short(y, m, d) \in Nat
      /\ YearOf(Short(y, m, d)) = y
      /\ MonthOf(Short(y, m, d)) = m
      /\ DayOf(Short(y, m, d)) = d
  BY <1>2, SevenDigitFields, Zenon
<1>5. Short(y, m, d) # Trap  BY <1>3, <1>4, Zenon
<1> QED  BY <1>1, <1>4, <1>5, Zenon

\* The days the calendar offers.
LEMMA DatesAreEight ==
    ASSUME NEW y \in FirstYear..LastYear, NEW n \in DatesOfYear(y)
    PROVE  IsEight(n) /\ n # Trap /\ MonthOf(n) # 13
<1>1. PICK m \in 1..12 : n \in {Padded(y, m, e) : e \in 1..MonthLength(y, m)}
  BY Zenon DEF DatesOfYear
<1>2. PICK d \in 1..MonthLength(y, m) : n = Padded(y, m, d)
  BY <1>1, Zenon
<1>3. d \in 1..31 /\ (d = 31 => m \in ThirtyOneDays)
  BY SMT DEF MonthLength, ThirtyDays, ThirtyOneDays
<1>4. m # 13  BY SMT
<1> QED  BY <1>2, <1>3, <1>4, PaddedIsEight, Zenon

\* The last day of the month before, as the walk reaches it.
LEMMA DayBeforeFirstIsEight ==
    ASSUME NEW y \in FirstYear..LastYear, NEW m \in 1..13,
           m = 1 => y - 1 \in FirstYear..LastYear
    PROVE  \E z \in FirstYear..LastYear, k \in 1..12, d \in 28..31 :
             /\ DayBeforeFirst(y, m) = Padded(z, k, d)
             /\ d = 31 => k \in ThirtyOneDays
             /\ IF m = 1 THEN z = y - 1 ELSE z = y /\ k = m - 1
<1>1. CASE m = 1
  <2>1. 12 \in ThirtyOneDays /\ 12 \in 1..12 /\ 31 \in 28..31
    BY SMT DEF ThirtyOneDays
  <2> QED  BY <1>1, <2>1, Zenon DEF DayBeforeFirst
<1>2. CASE m # 1
  <2>1. m - 1 \in 1..12  BY <1>2, SMT
  <2>2. monthDates[m - 1] \in 28..31 /\ (monthDates[m - 1] = 31 => m - 1 \in ThirtyOneDays)
    BY <2>1, MonthDates, Zenon
  <2> QED  BY <1>2, <2>1, <2>2, Zenon DEF DayBeforeFirst
<1> QED  BY <1>1, <1>2, Zenon

\* The day before the first of a month is a key of the walk, in the order of
\* the calendar, if its year is one of the walk.
LEMMA DayBeforeFirstIsKey ==
    ASSUME NEW y \in FirstYear..LastYear, NEW m \in 1..13, NEW n,
           YearOf(n) = y, MonthOf(n) = m,
           YearOf(DayBeforeFirst(y, m)) >= FirstYear
    PROVE  LET b == DayBeforeFirst(y, m)
           IN  Key(b) /\ b # Trap /\ MonthOf(b) # 13 /\ Earlier(b, n)
<1>1. y \in Years /\ y \in Int  BY YearBounds, Zenon
<1>2. m = 1 => y - 1 \in FirstYear..LastYear
  <2>1. SUFFICES ASSUME m = 1 PROVE y - 1 \in FirstYear..LastYear
    OBVIOUS
  <2>2. DayBeforeFirst(y, m) = Padded(y - 1, 12, 31)  BY <2>1, Zenon DEF DayBeforeFirst
  <2>3. y - 1 \in FourDigits /\ 12 \in 0..99 /\ 31 \in 0..99
    BY <1>1, SMT DEF Years, FourDigits
  <2>4. YearOf(Padded(y - 1, 12, 31)) = y - 1  BY ONLY <2>3, EightDigitFields, Zenon
  <2>5. y - 1 >= FirstYear  BY <2>2, <2>4, Zenon
  <2>6. FirstYear \in Int /\ LastYear \in Int
    <3>1. FirstYear \in Int  BY YearsAssumption, SMT DEF YearsAssumption
    <3> QED  BY <3>1, YearsAssumption, SMT DEF YearsAssumption
  <2> QED  BY <1>1, <2>5, <2>6, SMT
<1>3. PICK z \in FirstYear..LastYear, k \in 1..12, d \in 28..31 :
        /\ DayBeforeFirst(y, m) = Padded(z, k, d)
        /\ d = 31 => k \in ThirtyOneDays
        /\ IF m = 1 THEN z = y - 1 ELSE z = y /\ k = m - 1
  BY <1>2, DayBeforeFirstIsEight, ZenonT(60)
<1>4. d \in 1..31 /\ k # 13  BY SMT
<1>5. /\ IsEight(Padded(z, k, d))
      /\ YearOf(Padded(z, k, d)) = z
      /\ MonthOf(Padded(z, k, d)) = k
      /\ Padded(z, k, d) # Trap
  BY <1>3, <1>4, PaddedIsEight, ZenonT(60)
<1>6. z < y \/ (z = y /\ k < m)  BY <1>1, <1>3, SMT
<1>7. Earlier(Padded(z, k, d), n)  BY <1>5, <1>6, Zenon DEF Earlier
<1> QED  BY <1>3, <1>4, <1>5, <1>7, Zenon DEF Key

LEMMA BeforeKeeps ==
    ASSUME NEW n, Key(n), YearOf(Before(n)) >= FirstYear
    PROVE  LET b == Before(n)
           IN  /\ Key(b) /\ b # Trap
               /\ MonthOf(b) = 13 => MonthOf(n) = 13
               /\ Earlier(b, n)
<1>1. CASE IsEight(n)
  <2>1. PICK y \in FirstYear..LastYear, m \in 1..12, d \in 1..31 :
          n = Padded(y, m, d) /\ (d = 31 => m \in ThirtyOneDays)
    BY <1>1, Zenon DEF IsEight
  <2>2. y \in Years /\ m \in 1..13  
    <3>1. m \in 1..13  BY SMT
    <3> QED  BY <3>1, YearBounds, Zenon
  <2>3. YearOf(n) = y /\ MonthOf(n) = m /\ DayOf(n) = d
    BY <2>1, PaddedIsEight, Zenon
  <2>4. CASE d > 1
    <3>1. Before(n) = Padded(y, m, d - 1)  BY <2>1, <2>2, <2>4, BeforeEight, Zenon
    <3>2. d - 1 \in 1..31 /\ d - 1 # 31 /\ d - 1 < d /\ m # 13  BY <2>4, SMT
    <3>3. /\ IsEight(Padded(y, m, d - 1))
          /\ YearOf(Padded(y, m, d - 1)) = y
          /\ MonthOf(Padded(y, m, d - 1)) = m
          /\ DayOf(Padded(y, m, d - 1)) = d - 1
          /\ Padded(y, m, d - 1) # Trap
      BY <3>2, PaddedIsEight, Zenon
    <3> QED  BY <2>3, <3>1, <3>2, <3>3, Zenon DEF Key, Earlier
  <2>5. CASE ~(d > 1)
    <3>1. Before(n) = DayBeforeFirst(y, m)  BY <2>1, <2>2, <2>5, BeforeEight, Zenon
    <3> QED  BY <2>2, <2>3, <3>1, DayBeforeFirstIsKey, Zenon
  <2> QED  BY <2>4, <2>5, Zenon
<1>2. CASE IsSeven(n)
  <2>1. PICK y \in FirstYear..LastYear, m \in 2..13, d \in 1..9 : n = Short(y, m, d)
    BY <1>2, Zenon DEF IsSeven
  <2>2. y \in Years /\ m \in 1..13  
    <3>1. m \in 1..13  BY SMT
    <3> QED  BY <3>1, YearBounds, Zenon
  <2>3. YearOf(n) = y /\ MonthOf(n) = m /\ DayOf(n) = d
    BY <2>1, ShortIsSeven, Zenon
  <2>4. CASE d > 1
    <3>1. Before(n) = Short(y, m, d - 1)  BY <2>1, <2>2, <2>4, BeforeSeven, Zenon
    <3>2. d - 1 \in 1..9 /\ d - 1 < d  BY <2>4, SMT
    <3>3. /\ IsSeven(Short(y, m, d - 1))
          /\ YearOf(Short(y, m, d - 1)) = y
          /\ MonthOf(Short(y, m, d - 1)) = m
          /\ DayOf(Short(y, m, d - 1)) = d - 1
          /\ Short(y, m, d - 1) # Trap
      BY <3>2, ShortIsSeven, Zenon
    <3> QED  BY <2>3, <3>1, <3>2, <3>3, Zenon DEF Key, Earlier
  <2>5. CASE ~(d > 1)
    <3>1. Before(n) = DayBeforeFirst(y, m)  BY <2>1, <2>2, <2>5, BeforeSeven, Zenon
    <3> QED  BY <2>2, <2>3, <3>1, DayBeforeFirstIsKey, Zenon
  <2> QED  BY <2>4, <2>5, Zenon
<1> QED  BY <1>1, <1>2, Zenon DEF Key

LEMMA AfterKeeps ==
    ASSUME NEW n, Key(n)
    PROVE  LET a == After(n)
           IN  \/ a = Trap /\ MonthOf(n) = 13
               \/ /\ Key(a) /\ a # Trap
                  /\ MonthOf(a) = 13
                       => MonthOf(n) = 13 \/ (MonthOf(n) = 12 /\ DayOf(n) = 31)
                  /\ Earlier(n, a)
<1>1. CASE IsEight(n)
  <2>1. PICK y \in FirstYear..LastYear, m \in 1..12, d \in 1..31 :
          n = Padded(y, m, d) /\ (d = 31 => m \in ThirtyOneDays)
    BY <1>1, Zenon DEF IsEight
  <2>2. y \in Years  BY YearBounds, Zenon
  <2>3. YearOf(n) = y /\ MonthOf(n) = m /\ DayOf(n) = d
    BY <2>1, PaddedIsEight, Zenon
  <2>4. CASE d < 30 \/ (d = 30 /\ m \in ThirtyOneDays)
    <3>1. After(n) = Padded(y, m, d + 1)  BY <2>1, <2>2, <2>4, AfterEight, Zenon
    <3>2. d + 1 \in 1..31 /\ (d + 1 = 31 => m \in ThirtyOneDays) /\ d < d + 1 /\ m # 13
      BY <2>4, SMT
    <3>3. /\ IsEight(Padded(y, m, d + 1))
          /\ YearOf(Padded(y, m, d + 1)) = y
          /\ MonthOf(Padded(y, m, d + 1)) = m
          /\ DayOf(Padded(y, m, d + 1)) = d + 1
          /\ Padded(y, m, d + 1) # Trap
      BY <3>2, PaddedIsEight, Zenon
    <3> QED  BY <2>3, <3>1, <3>2, <3>3, Zenon DEF Key, Earlier
  <2>5. CASE ~(d < 30 \/ (d = 30 /\ m \in ThirtyOneDays))
    <3>1. After(n) = Short(y, m + 1, 1)  BY <2>1, <2>2, <2>5, AfterEight, Zenon
    <3>2. /\ m + 1 \in 2..13 /\ 1 \in 1..9 /\ m < m + 1
          /\ m + 1 = 13 => m = 12 /\ d = 31
      BY <2>5, SMT DEF ThirtyOneDays
    <3>3. /\ IsSeven(Short(y, m + 1, 1))
          /\ YearOf(Short(y, m + 1, 1)) = y
          /\ MonthOf(Short(y, m + 1, 1)) = m + 1
          /\ Short(y, m + 1, 1) # Trap
      BY <3>2, ShortIsSeven, Zenon
    <3> QED  BY <2>3, <3>1, <3>2, <3>3, Zenon DEF Key, Earlier
  <2> QED  BY <2>4, <2>5, Zenon
<1>2. CASE IsSeven(n)
  <2>1. PICK y \in FirstYear..LastYear, m \in 2..13, d \in 1..9 : n = Short(y, m, d)
    BY <1>2, Zenon DEF IsSeven
  <2>2. y \in Years  BY YearBounds, Zenon
  <2>3. YearOf(n) = y /\ MonthOf(n) = m /\ DayOf(n) = d
    BY <2>1, ShortIsSeven, Zenon
  <2>4. CASE d < 9
    <3>1. After(n) = Short(y, m, d + 1)  BY <2>1, <2>2, <2>4, AfterSeven, Zenon
    <3>2. d + 1 \in 1..9 /\ d < d + 1  BY <2>4, SMT
    <3>3. /\ IsSeven(Short(y, m, d + 1))
          /\ YearOf(Short(y, m, d + 1)) = y
          /\ MonthOf(Short(y, m, d + 1)) = m
          /\ DayOf(Short(y, m, d + 1)) = d + 1
          /\ Short(y, m, d + 1) # Trap
      BY <3>2, ShortIsSeven, Zenon
    <3> QED  BY <2>3, <3>1, <3>2, <3>3, Zenon DEF Key, Earlier
  <2>5. CASE ~(d < 9) /\ m = 13
    BY <2>1, <2>2, <2>3, <2>5, AfterSeven, Zenon
  <2>6. CASE ~(d < 9) /\ m # 13
    <3>1. After(n) = Padded(y, m, monthDates[m])
      BY <2>1, <2>2, <2>6, AfterSeven, Zenon
    <3>2. m \in 1..12  BY <2>6, SMT
    <3>3. monthDates[m] \in 28..31 /\ (monthDates[m] = 31 => m \in ThirtyOneDays)
      BY <3>2, MonthDates, Zenon
    <3>4. PICK e \in 28..31 : e = monthDates[m]  BY <3>3, Zenon
    <3>5. e \in 1..31 /\ d < e  BY SMT
    <3>6. /\ IsEight(Padded(y, m, e))
          /\ YearOf(Padded(y, m, e)) = y
          /\ MonthOf(Padded(y, m, e)) = m
          /\ DayOf(Padded(y, m, e)) = e
          /\ Padded(y, m, e) # Trap
      BY <3>2, <3>3, <3>4, <3>5, PaddedIsEight, Zenon
    <3> QED  BY <2>3, <2>6, <3>1, <3>4, <3>5, <3>6, Zenon DEF Key, Earlier
  <2> QED  BY <2>4, <2>5, <2>6, Zenon
<1> QED  BY <1>1, <1>2, Zenon DEF Key

-----------------------------------------------------------------------------
(* The invariant                                                           *)

LEMMA InitWalks == Init => WalkInv
<1> SUFFICES ASSUME Init PROVE WalkInv
  OBVIOUS
<1>1. PICK y \in FirstYear..LastYear : date \in DatesOfYear(y)  BY Zenon DEF Init
<1>2. IsEight(date) /\ date # Trap /\ MonthOf(date) # 13
  BY <1>1, DatesAreEight, Zenon
<1> QED  BY <1>2, Zenon DEF Init, WalkInv, Key

LEMMA BeforeWalks == WalkInv /\ BeforeDiaryButtonClicked => WalkInv'
<1> SUFFICES ASSUME WalkInv, BeforeDiaryButtonClicked PROVE WalkInv'
  OBVIOUS
<1>1. /\ Key(date) /\ YearOf(Before(date)) >= FirstYear
      /\ date' = Before(date) /\ newYear' = newYear
  BY Zenon DEF WalkInv, BeforeDiaryButtonClicked
<1>2. /\ Key(Before(date)) /\ Before(date) # Trap
      /\ MonthOf(Before(date)) = 13 => MonthOf(date) = 13
  BY <1>1, BeforeKeeps, Zenon
<1> QED  BY <1>1, <1>2, Zenon DEF WalkInv, Key, IsEight, IsSeven

LEMMA AfterWalks == WalkInv /\ AfterDiaryButtonClicked => WalkInv'
<1> SUFFICES ASSUME WalkInv, AfterDiaryButtonClicked PROVE WalkInv'
  OBVIOUS
<1>1. /\ Key(date) /\ date' = After(date)
      /\ newYear' = (newYear \/ (MonthOf(date) = 12 /\ DayOf(date) = 31))
  BY Zenon DEF WalkInv, AfterDiaryButtonClicked
<1>2. \/ After(date) = Trap /\ MonthOf(date) = 13
      \/ /\ Key(After(date)) /\ After(date) # Trap
         /\ MonthOf(After(date)) = 13
              => MonthOf(date) = 13 \/ (MonthOf(date) = 12 /\ DayOf(date) = 31)
  BY <1>1, AfterKeeps, Zenon
<1>3. newYear \in BOOLEAN /\ (MonthOf(date) = 13 => newYear)  BY Zenon DEF WalkInv
<1>4. newYear' \in BOOLEAN  BY <1>1, Zenon
<1>5. date' = Trap \/ MonthOf(date') = 13 => newYear'  BY <1>1, <1>2, <1>3, Zenon
<1>6. date' = Trap \/ Key(date')  BY <1>1, <1>2, Zenon
<1> QED  BY <1>4, <1>5, <1>6, Zenon DEF WalkInv, Key, IsEight, IsSeven

LEMMA StaysWalking == WalkInv /\ UNCHANGED vars => WalkInv'
<1> SUFFICES ASSUME WalkInv, UNCHANGED vars PROVE WalkInv'
  OBVIOUS
<1>1. date' = date /\ newYear' = newYear  BY SMT DEF vars
<1> QED  BY <1>1, Zenon DEF WalkInv, Key, IsEight, IsSeven

LEMMA WalkInvariant == Spec => []WalkInv
<1>1. WalkInv /\ [Next]_vars => WalkInv'
  BY BeforeWalks, AfterWalks, StaysWalking, Zenon DEF Next
<1> QED  BY InitWalks, <1>1, PTL DEF Spec

\* checkCalendarDateException runs out of the month table only after the
\* reader has gone past a 31 December, whatever the years of the walk.
THEOREM OnlyThirteenthMonthTraps == Spec => []OnlyNewYearTraps
<1>1. WalkInv => OnlyNewYearTraps  BY Zenon DEF WalkInv, OnlyNewYearTraps
<1> QED  BY <1>1, WalkInvariant, PTL

\* Every key of a walk can be taken apart into a year of the calendar, a
\* month up to the thirteenth and a day.
THEOREM KeysOfAWalk == Spec => []TypeOK
<1>1. WalkInv => TypeOK
  <2> SUFFICES ASSUME WalkInv, date # Trap
               PROVE  /\ YearOf(date) \in FirstYear..LastYear
                      /\ MonthOf(date) \in 1..13
                      /\ DayOf(date) \in 1..31
    BY Zenon DEF WalkInv, TypeOK
  <2>1. CASE IsEight(date)
    <3>1. PICK y \in FirstYear..LastYear, m \in 1..12, d \in 1..31 :
            date = Padded(y, m, d) /\ (d = 31 => m \in ThirtyOneDays)
      BY <2>1, Zenon DEF IsEight
    <3>2. YearOf(date) = y /\ MonthOf(date) = m /\ DayOf(date) = d
      BY <3>1, PaddedIsEight, Zenon
    <3>3. m \in 1..13  BY SMT
    <3> QED  BY <3>2, <3>3, Zenon
  <2>2. CASE IsSeven(date)
    <3>1. PICK y \in FirstYear..LastYear, m \in 2..13, d \in 1..9 : date = Short(y, m, d)
      BY <2>2, Zenon DEF IsSeven
    <3>2. YearOf(date) = y /\ MonthOf(date) = m /\ DayOf(date) = d
      BY <3>1, ShortIsSeven, Zenon
    <3>3. m \in 1..13 /\ d \in 1..31  BY SMT
    <3> QED  BY <3>2, <3>3, Zenon
  <2> QED  BY <2>1, <2>2, Zenon DEF WalkInv, Key
<1> QED  BY <1>1, WalkInvariant, PTL

-----------------------------------------------------------------------------
(* What a press does                                                       *)

\* Each press moves the reader in the direction of its button.
THEOREM DirectionIsKept == Spec => ButtonsKeepTheirDirection
<1>1. WalkInv => [/\ BeforeDiaryButtonClicked => Earlier(date', date)
                  /\ AfterDiaryButtonClicked /\ date' # Trap => Earlier(date, date')]_vars
  <2> SUFFICES ASSUME WalkInv
               PROVE  /\ BeforeDiaryButtonClicked => Earlier(date', date)
                      /\ AfterDiaryButtonClicked /\ date' # Trap => Earlier(date, date')
    OBVIOUS
  <2>1. ASSUME BeforeDiaryButtonClicked PROVE Earlier(date', date)
    <3>1. /\ Key(date) /\ YearOf(Before(date)) >= FirstYear /\ date' = Before(date)
      BY <2>1, Zenon DEF WalkInv, BeforeDiaryButtonClicked
    <3> QED  BY <3>1, BeforeKeeps, Zenon
  <2>2. ASSUME AfterDiaryButtonClicked, date' # Trap PROVE Earlier(date, date')
    <3>1. Key(date) /\ date' = After(date)
      BY <2>2, Zenon DEF WalkInv, AfterDiaryButtonClicked
    <3> QED  BY <2>2, <3>1, AfterKeeps, Zenon
  <2> QED  BY <2>1, <2>2, Zenon
<1> QED  BY <1>1, WalkInvariant, PTL DEF ButtonsKeepTheirDirection

\* From a real day the Before button shows the day before; from the 1st of
\* March of a leap year, the day before that.
LEMMA BeforeOfADate ==
    ASSUME NEW n, Key(n), IsDate(n)
    PROVE  IF IsLeapDay(PreviousDay(n))
           THEN Before(n) = PreviousDay(PreviousDay(n))
           ELSE Before(n) = PreviousDay(n)
<1>1. IsEight(n)
  <2>1. SUFFICES ASSUME IsSeven(n) PROVE FALSE
    BY Zenon DEF Key
  <2>2. PICK y \in FirstYear..LastYear, m \in 2..13, d \in 1..9 : n = Short(y, m, d)
    BY <2>1, Zenon DEF IsSeven
  <2>3. m \in 0..99 /\ d \in 0..9  BY SMT
  <2>4. ~EightDigits(n)  BY <2>2, <2>3, YearBounds, SevenDigitFields, Zenon
  <2> QED  BY <2>4, Zenon DEF IsDate
<1>2. PICK y \in FirstYear..LastYear, m \in 1..12, d \in 1..31 :
        n = Padded(y, m, d) /\ (d = 31 => m \in ThirtyOneDays)
  BY <1>1, Zenon DEF IsEight
<1>3. YearOf(n) = y /\ MonthOf(n) = m /\ DayOf(n) = d  BY <1>2, PaddedIsEight, Zenon
<1>4. y \in Years /\ y \in FourDigits  BY YearBounds, Zenon
<1>5. CASE d > 1
  <2>1. Before(n) = Padded(y, m, d - 1)  BY <1>2, <1>4, <1>5, BeforeEight, Zenon
  <2>2. PreviousDay(n) = Padded(y, m, d - 1)  BY <1>3, <1>5, Zenon DEF PreviousDay
  <2>3. m \in 0..99 /\ d - 1 \in 0..99  BY <1>5, SMT
  <2>4. MonthOf(PreviousDay(n)) = m /\ DayOf(PreviousDay(n)) = d - 1
    <3>1. MonthOf(Padded(y, m, d - 1)) = m /\ DayOf(Padded(y, m, d - 1)) = d - 1
      BY ONLY <1>4, <2>3, EightDigitFields, ZenonT(60)
    <3> QED  BY <2>2, <3>1, Zenon
  <2>5. m = 2 => d <= 29
    <3>1. d \in 1..MonthLength(y, m)  BY <1>3, Zenon DEF IsDate
    <3> QED  BY <3>1, SMT DEF MonthLength
  <2>6. ~(m = 2 /\ d - 1 = 29)  BY <2>5, SMT
  <2> QED  BY <2>1, <2>2, <2>4, <2>6, Zenon DEF IsLeapDay
<1>6. CASE ~(d > 1) /\ m = 1
  <2>1. Before(n) = Padded(y - 1, 12, 31)
    BY <1>2, <1>4, <1>6, BeforeEight, Zenon DEF DayBeforeFirst
  <2>2. ~(m > 1)  BY <1>6, SMT
  <2>3. PreviousDay(n) = Padded(y - 1, 12, 31)
    BY <1>3, <1>6, <2>2, Zenon DEF PreviousDay
  <2>4. y - 1 \in FourDigits  BY YearsAssumption, SMT DEF FourDigits
  <2>5. 12 \in 0..99 /\ 31 \in 0..99 /\ 12 # 2  BY SMT
  <2>6. MonthOf(PreviousDay(n)) = 12
    <3>1. MonthOf(Padded(y - 1, 12, 31)) = 12
      BY ONLY <2>4, <2>5, EightDigitFields, ZenonT(60)
    <3> QED  BY <2>3, <3>1, Zenon
  <2> QED  BY <2>1, <2>3, <2>5, <2>6, Zenon DEF IsLeapDay
<1>7. CASE ~(d > 1) /\ m # 1
  <2> DEFINE k == m - 1
             l == MonthLength(y, k)
  <2>1. m > 1 /\ k \in 1..12 /\ k \in 0..99  BY <1>7, SMT
  <2>2. Before(n) = Padded(y, k, monthDates[k])
    BY <1>2, <1>4, <1>7, BeforeEight, Zenon DEF DayBeforeFirst
  <2>3. PreviousDay(n) = Padded(y, k, l)
    BY <1>3, <1>7, <2>1, Zenon DEF PreviousDay
  <2>4. l \in 0..99  BY SMT DEF MonthLength
  <2>5. /\ YearOf(PreviousDay(n)) = y
        /\ MonthOf(PreviousDay(n)) = k
        /\ DayOf(PreviousDay(n)) = l
    <3> HIDE DEF k, l
    <3>1. /\ YearOf(Padded(y, k, l)) = y
          /\ MonthOf(Padded(y, k, l)) = k
          /\ DayOf(Padded(y, k, l)) = l
      BY ONLY <1>4, <2>1, <2>4, EightDigitFields, ZenonT(60)
    <3> QED  BY <2>3, <3>1, Zenon
  <2>6. IF k = 2 /\ l = 29 THEN monthDates[k] = 28 ELSE monthDates[k] = l
    <3> HIDE DEF k
    <3>1. /\ monthDates[k] \in 28..31
          /\ monthDates[k] = 31 <=> k \in ThirtyOneDays
          /\ monthDates[k] = 30 <=> k \in ThirtyDays
          /\ monthDates[k] = 28 <=> k = 2
      BY <2>1, MonthDates, Zenon
    <3> QED  BY <2>1, <3>1, SMT DEF MonthLength, ThirtyDays, ThirtyOneDays
  <2> HIDE DEF k, l
  <2>7. CASE k = 2 /\ l = 29
    <3>1. 29 > 1 /\ 29 - 1 = 28  BY SMT
    <3>2. PreviousDay(PreviousDay(n)) = Padded(y, k, 28)
      BY <2>5, <2>7, <3>1, Zenon DEF PreviousDay
    <3> QED  BY <2>2, <2>5, <2>6, <2>7, <3>2, Zenon DEF IsLeapDay
  <2>8. CASE ~(k = 2 /\ l = 29)
    BY <2>2, <2>3, <2>5, <2>6, <2>8, Zenon DEF IsLeapDay
  <2> QED  BY <2>7, <2>8, Zenon
<1> QED  BY <1>5, <1>6, <1>7, Zenon

\* The comment on the Before button: it shows the day before in every walk,
\* across months and years, from every real day whose day before is not a
\* 29th of February.
THEOREM PreviousDayIsShown == Spec => BeforeShowsThePreviousDay
<1>1. WalkInv => [BeforeDiaryButtonClicked /\ IsDate(date) /\ ~IsLeapDay(PreviousDay(date))
                    => date' = PreviousDay(date)]_vars
  <2> SUFFICES ASSUME WalkInv, BeforeDiaryButtonClicked, IsDate(date),
                      ~IsLeapDay(PreviousDay(date))
               PROVE  date' = PreviousDay(date)
    OBVIOUS
  <2>1. Key(date) /\ date' = Before(date)
    BY Zenon DEF WalkInv, BeforeDiaryButtonClicked
  <2> QED  BY <2>1, BeforeOfADate, Zenon
<1> QED  BY <1>1, WalkInvariant, PTL DEF BeforeShowsThePreviousDay

\* checkCalendarDateException gives February 28 days: from the 1st of March of
\* a leap year the Before button always skips the diary of the 29th.
THEOREM LeapDayIsSkipped ==
    Spec => [][BeforeDiaryButtonClicked /\ IsDate(date) /\ IsLeapDay(PreviousDay(date))
                  => date' = PreviousDay(PreviousDay(date))]_vars
<1>1. WalkInv => [BeforeDiaryButtonClicked /\ IsDate(date) /\ IsLeapDay(PreviousDay(date))
                    => date' = PreviousDay(PreviousDay(date))]_vars
  <2> SUFFICES ASSUME WalkInv, BeforeDiaryButtonClicked, IsDate(date),
                      IsLeapDay(PreviousDay(date))
               PROVE  date' = PreviousDay(PreviousDay(date))
    OBVIOUS
  <2>1. Key(date) /\ date' = Before(date)
    BY Zenon DEF WalkInv, BeforeDiaryButtonClicked
  <2> QED  BY <2>1, BeforeOfADate, Zenon
<1> QED  BY <1>1, WalkInvariant, PTL

=============================================================================
