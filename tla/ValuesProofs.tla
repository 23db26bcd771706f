----------------------------- MODULE ValuesProofs -----------------------------
(***************************************************************************)
(* The conversions keep the order of dates, times and integers, whatever   *)
(* number a column begins with and however long it is.                     *)
(***************************************************************************)
EXTENDS Values, TLAPS

Year(x) == GregYear(x \div 10000)
Day(x) == x % 100
Accepted(x) == IsDate(Year(x), Month(x), Day(x))

\* The last day of the calendar not after a number, dates or not; it begins again
\* with the years.
Latest(y, m, d) ==
  IF y < 1400 THEN FirstDay - 1
  ELSE IF y > 9999 THEN LastDay
  ELSE IF m = 0 THEN DayNumber(y, 1, 1) - REpoch - 1
  ELSE IF m > 12 THEN DayNumber(y, 12, 31) - REpoch
  ELSE DayNumber(y, m, IF d <= DaysOf(y, m) THEN d ELSE DaysOf(y, m)) - REpoch
LatestOf(x) == Latest(Year(x), Month(x), Day(x))

\* The years began again since the last date.
BeganAgain == prev.v = LastDay /\ LatestOf(in) = FirstDay - 1

\* While numbers are refused the last date is the latest there is.
ColumnInv ==
  /\ in \in Int
  /\ out = Converted(kind, in)
  /\ kind = "date" => in >= 0
  /\ kind \in {"number", "date"} /\ prev.ok =>
       /\ prev.v \in Int /\ in >= 0
       /\ ~out.ok => prev.v = LatestOf(in) \/ BeganAgain
       /\ out.ok => out.v = prev.v + 1 \/ (prev.v = LastDay /\ out.v = FirstDay)

-----------------------------------------------------------------------------
(* The calendar *)

LEMMA DayNumberType ==
  ASSUME NEW y \in Int, NEW m \in Int, NEW d \in Int
  PROVE  DayNumber(y, m, d) \in Int
  BY DEF DayNumber

LEMMA CalendarEnds ==
  /\ LastDay = DayNumber(9999, 12, 31) - REpoch /\ LastDay \in Int
  /\ FirstDay = DayNumber(1400, 1, 1) - REpoch /\ FirstDay \in Int
  /\ REpoch \in Int /\ FirstDay < LastDay
  BY DEF FirstDay, LastDay, REpoch, DayNumber

LEMMA DaysOfType ==
  ASSUME NEW y \in Int, NEW m \in Int
  PROVE  DaysOf(y, m) \in 28 .. 31
  BY DEF DaysOf

\* A day later in the month is that many days later.
LEMMA WithinMonth ==
  ASSUME NEW y \in Int, NEW m \in Int, NEW d \in Int
  PROVE  DayNumber(y, m, d + 1) = DayNumber(y, m, d) + 1
  BY DEF DayNumber

\* The first of March is the day after the last of February, in leap years and in
\* the others.
LEMMA March ==
  ASSUME NEW y \in Int
  PROVE  DayNumber(y, 3, 1) = DayNumber(y, 2, DaysOf(y, 2)) + 1
  <1>1. /\ DayNumber(y, 3, 1) = 1 + 365 * (y + 4800) + (y + 4800) \div 4 - (y + 4800) \div 100
                                  + (y + 4800) \div 400 - 32045
        /\ DayNumber(y, 2, DaysOf(y, 2)) =
             DaysOf(y, 2) + 337 + 365 * (y + 4799) + (y + 4799) \div 4 - (y + 4799) \div 100
                          + (y + 4799) \div 400 - 32045
    BY DaysOfType DEF DayNumber
  <1>2. (y + 4800) \div 4 = (y + 4799) \div 4 + (IF y % 4 = 0 THEN 1 ELSE 0)
    OBVIOUS
  <1>3. (y + 4800) \div 100 = (y + 4799) \div 100 + (IF y % 100 = 0 THEN 1 ELSE 0)
    OBVIOUS
  <1>4. (y + 4800) \div 400 = (y + 4799) \div 400 + (IF y % 400 = 0 THEN 1 ELSE 0)
    OBVIOUS
  <1>5. /\ y % 400 = 0 => y % 100 = 0
        /\ y % 100 = 0 => y % 4 = 0
    OBVIOUS
  <1>6. DaysOf(y, 2) = IF y % 4 = 0 /\ (y % 100 # 0 \/ y % 400 = 0) THEN 29 ELSE 28
    BY DEF DaysOf, Leap
  <1>7. CASE y % 4 # 0
    BY <1>1, <1>2, <1>3, <1>4, <1>5, <1>6, <1>7
  <1>8. CASE y % 4 = 0 /\ y % 100 # 0
    BY <1>1, <1>2, <1>3, <1>4, <1>5, <1>6, <1>8
  <1>9. CASE y % 100 = 0 /\ y % 400 # 0
    BY <1>1, <1>2, <1>3, <1>4, <1>5, <1>6, <1>9
  <1>10. CASE y % 400 = 0
    BY <1>1, <1>2, <1>3, <1>4, <1>5, <1>6, <1>10
  <1> QED BY <1>7, <1>8, <1>9, <1>10

\* The first of a month is the day after the last of the month before.
LEMMA NextMonth ==
  ASSUME NEW y \in Int, NEW m \in 1 .. 11
  PROVE  DayNumber(y, m + 1, 1) = DayNumber(y, m, DaysOf(y, m)) + 1
  <1>1. CASE m = 2
    BY <1>1, March
  <1>2. CASE m # 2
    <2>1. m \in {1, 3, 4, 5, 6, 7, 8, 9, 10, 11}
      BY <1>2
    <2> QED BY <2>1 DEF DayNumber, DaysOf
  <1> QED BY <1>1, <1>2

LEMMA NextYear ==
  ASSUME NEW y \in Int
  PROVE  DayNumber(y + 1, 1, 1) = DayNumber(y, 12, 31) + 1
  BY DEF DayNumber

-----------------------------------------------------------------------------
(* One number more *)

LEMMA Digits ==
  ASSUME NEW x \in Int, x >= 0
  PROVE  Year(x) \in Nat /\ Month(x) \in 0 .. 99 /\ Day(x) \in 0 .. 99
  <1>1. x \div 10000 \in Int /\ x \div 100 \in Int
    OBVIOUS
  <1>2. \A n \in Int : n % 65536 \in Nat /\ n % 100 \in 0 .. 99
    OBVIOUS
  <1> QED BY <1>1, <1>2 DEF Year, Month, Day, GregYear

LEMMA EpochDigits ==
  ASSUME NEW x \in Int, x = 19700101
  PROVE  x >= 0 /\ Year(x) = 1970 /\ Month(x) = 1 /\ Day(x) = 1
  <1>1. x >= 0 /\ x \div 10000 = 1970 /\ (x \div 100) % 100 = 1 /\ x % 100 = 1
    BY SMT
  <1>2. 1970 % 65536 = 1970
    OBVIOUS
  <1> QED BY <1>1, <1>2, SMT DEF Year, Month, Day, GregYear

LEMMA NextDigits ==
  ASSUME NEW x \in Int, x >= 0
  PROVE  \/ /\ Year(x + 1) = Year(x) /\ Month(x + 1) = Month(x) /\ Day(x + 1) = Day(x) + 1
         \/ /\ Year(x + 1) = Year(x) /\ Month(x + 1) = Month(x) + 1
            /\ Day(x + 1) = 0 /\ Day(x) = 99
         \/ /\ Year(x + 1) = IF Year(x) = 65535 THEN 0 ELSE Year(x) + 1
            /\ Month(x + 1) = 0 /\ Day(x + 1) = 0 /\ Month(x) = 99 /\ Day(x) = 99
  <1>1. CASE x % 100 # 99
    <2>1. (x + 1) % 100 = (x % 100) + 1 /\ (x + 1) \div 100 = x \div 100
      BY <1>1
    <2>2. (x + 1) \div 10000 = x \div 10000
      BY <1>1
    <2> QED BY <2>1, <2>2 DEF Year, Month, Day, GregYear
  <1>2. CASE x % 100 = 99 /\ (x \div 100) % 100 # 99
    <2>1. (x + 1) % 100 = 0 /\ (x + 1) \div 100 = x \div 100 + 1
      BY <1>2
    <2>2. (x \div 100 + 1) % 100 = ((x \div 100) % 100) + 1 /\ (x + 1) \div 10000 = x \div 10000
      BY <1>2
    <2> QED BY <1>2, <2>1, <2>2 DEF Year, Month, Day, GregYear
  <1>3. CASE x % 100 = 99 /\ (x \div 100) % 100 = 99
    <2>1. (x + 1) \div 10000 = x \div 10000 + 1
      BY <1>3
    <2> QED BY <1>3, <2>1 DEF Year, Month, Day, GregYear
  <1> QED BY <1>1, <1>2, <1>3

\* A date is the latest there is,
LEMMA DateIsLatest ==
  ASSUME NEW y \in Int, NEW m \in Int, NEW d \in Int, IsDate(y, m, d)
  PROVE  Latest(y, m, d) = DayNumber(y, m, d) - REpoch
  <1>1. y >= 1400 /\ y <= 9999 /\ m > 0 /\ m <= 12 /\ d <= DaysOf(y, m)
    BY DaysOfType DEF IsDate
  <1> QED BY <1>1 DEF Latest

LEMMA AcceptedIsLatest ==
  ASSUME NEW x \in Int, x >= 0, Accepted(x)
  PROVE  LatestOf(x) = DayNumber(Year(x), Month(x), Day(x)) - REpoch
  <1>1. Year(x) \in Int /\ Month(x) \in Int /\ Day(x) \in Int
    BY Digits
  <1> QED BY <1>1, DateIsLatest DEF Accepted, LatestOf

\* and the next number is the day after or none, but where the years begin again.
LEMMA LatestStep ==
  ASSUME NEW x \in Int, x >= 0
  PROVE  /\ LatestOf(x) \in Int
         /\ \/ LatestOf(x + 1) = LatestOf(x) + (IF Accepted(x + 1) THEN 1 ELSE 0)
            \/ LatestOf(x) = LastDay /\ LatestOf(x + 1) = FirstDay - 1 /\ ~Accepted(x + 1)
  <1> DEFINE y == Year(x)
             m == Month(x)
             d == Day(x)
             days == DaysOf(y, m)
  <1>1. y \in Nat /\ m \in 0 .. 99 /\ d \in 0 .. 99 /\ days \in 28 .. 31
    <2>1. y \in Nat /\ m \in 0 .. 99 /\ d \in 0 .. 99
      BY Digits
    <2> QED BY <2>1, DaysOfType
  <1>2. /\ LastDay = DayNumber(9999, 12, 31) - REpoch /\ LastDay \in Int
        /\ FirstDay = DayNumber(1400, 1, 1) - REpoch /\ FirstDay \in Int
        /\ REpoch \in Int
    BY CalendarEnds
  <1>3. LatestOf(x) = Latest(y, m, d) /\ Latest(y, m, d) \in Int
    <2>1. \A j \in 0 .. 99, k \in Int : DayNumber(y, j, k) \in Int
      BY <1>1, DayNumberType
    <2> HIDE DEF y, m, d, days
    <2>2. Latest(y, m, d) \in Int
      <3>1. (IF d <= days THEN d ELSE days) \in Int
        BY <1>1
      <3>2. CASE m > 12 \/ m = 0
        <4>1. DayNumber(y, 1, 1) \in Int /\ DayNumber(y, 12, 31) \in Int
          BY <2>1
        <4> QED BY <1>1, <1>2, <3>2, <4>1 DEF Latest
      <3>3. CASE m \in 1 .. 12
        <4>1. DayNumber(y, m, IF d <= days THEN d ELSE days) \in Int
          BY <1>1, <2>1, <3>1
        <4> QED BY <1>1, <1>2, <3>3, <4>1 DEF Latest, days
      <3> QED BY <1>1, <3>2, <3>3
    <2> QED BY <2>2 DEF LatestOf, y, m, d
  <1>4. /\ LatestOf(x + 1) = Latest(Year(x + 1), Month(x + 1), Day(x + 1))
        /\ Accepted(x + 1) <=> IsDate(Year(x + 1), Month(x + 1), Day(x + 1))
    BY DEF LatestOf, Accepted
  <1> HIDE DEF y, m, d, days
  <1>5. CASE Year(x + 1) = y /\ Month(x + 1) = m /\ Day(x + 1) = d + 1
    <2>1. CASE y \in 1400 .. 9999 /\ m \in 1 .. 12
      <3>1. \A k \in Int : DayNumber(y, m, k + 1) = DayNumber(y, m, k) + 1 /\ DayNumber(y, m, k) \in Int
        BY <1>1, WithinMonth, DayNumberType
      <3>2. /\ Latest(y, m, d) = DayNumber(y, m, IF d <= days THEN d ELSE days) - REpoch
            /\ Latest(y, m, d + 1) = DayNumber(y, m, IF d + 1 <= days THEN d + 1 ELSE days) - REpoch
            /\ IsDate(y, m, d + 1) <=> d + 1 <= days
        BY <1>1, <2>1 DEF Latest, IsDate, days
      <3>3. CASE d + 1 <= days
        BY <1>1, <1>2, <1>3, <1>4, <1>5, <3>1, <3>2, <3>3
      <3>4. CASE d + 1 > days
        <4>1. (IF d <= days THEN d ELSE days) = days
          BY <1>1, <3>4
        <4> QED BY <1>1, <1>2, <1>3, <1>4, <1>5, <3>1, <3>2, <3>4, <4>1
      <3> QED BY <1>1, <3>3, <3>4
    <2>2. CASE ~(y \in 1400 .. 9999 /\ m \in 1 .. 12)
      <3>1. ~IsDate(y, m, d + 1) /\ Latest(y, m, d + 1) = Latest(y, m, d)
        BY <1>1, <2>2 DEF Latest, IsDate
      <3> QED BY <1>3, <1>4, <1>5, <3>1
    <2> QED BY <2>1, <2>2
  <1>6. CASE Year(x + 1) = y /\ Month(x + 1) = m + 1 /\ Day(x + 1) = 0 /\ d = 99
    <2>1. ~IsDate(y, m + 1, 0)
      BY DEF IsDate
    <2>2. Latest(y, m + 1, 0) = Latest(y, m, 99)
      <3>1. CASE y \in 1400 .. 9999 /\ m = 0
        <4>1. DayNumber(y, 1, 1) = DayNumber(y, 1, 0) + 1 /\ DayNumber(y, 1, 0) \in Int
          BY <1>1, WithinMonth, DayNumberType
        <4>2. Latest(y, 1, 0) = DayNumber(y, 1, 0) - REpoch
          BY <3>1, DaysOfType DEF Latest
        <4> QED BY <1>2, <3>1, <4>1, <4>2 DEF Latest
      <3>2. CASE y \in 1400 .. 9999 /\ m \in 1 .. 11
        <4>1. /\ DayNumber(y, m + 1, 1) = DayNumber(y, m, days) + 1
              /\ DayNumber(y, m + 1, 1) = DayNumber(y, m + 1, 0) + 1
              /\ DayNumber(y, m + 1, 0) \in Int /\ DayNumber(y, m, days) \in Int
          <5>1. y \in Int /\ m + 1 \in Int /\ m \in Int /\ days \in Int
            BY <1>1, <3>2
          <5>2. DayNumber(y, m + 1, 0 + 1) = DayNumber(y, m + 1, 0) + 1
            BY <5>1, WithinMonth
          <5>3. DayNumber(y, m + 1, 0) \in Int /\ DayNumber(y, m, days) \in Int
            BY <5>1, DayNumberType
          <5>4. DayNumber(y, m + 1, 1) = DayNumber(y, m, days) + 1
            BY <3>2, <5>1, NextMonth DEF days
          <5> QED BY <5>2, <5>3, <5>4
        <4>2. DaysOf(y, m + 1) \in 28 .. 31
          BY <1>1, DaysOfType
        <4>3. /\ Latest(y, m + 1, 0) = DayNumber(y, m + 1, 0) - REpoch
              /\ Latest(y, m, 99) = DayNumber(y, m, days) - REpoch
          BY <1>1, <3>2, <4>2 DEF Latest, days
        <4> QED BY <4>1, <4>3
      <3>3. CASE y \in 1400 .. 9999 /\ m = 12
        <4>1. days = 31
          BY <3>3 DEF days, DaysOf
        <4> QED BY <3>3, <4>1 DEF Latest, days
      <3>4. CASE y < 1400 \/ y > 9999
        BY <3>4 DEF Latest
      <3>5. CASE m > 12
        <4>1. m # 0 /\ m + 1 # 0 /\ m + 1 > 12
          BY <1>1, <3>5
        <4> QED BY <3>5, <4>1 DEF Latest
      <3> QED BY <1>1, <3>1, <3>2, <3>3, <3>4, <3>5
    <2> QED BY <1>3, <1>4, <1>6, <2>1, <2>2
  <1>7. CASE /\ Year(x + 1) = IF y = 65535 THEN 0 ELSE y + 1
             /\ Month(x + 1) = 0 /\ Day(x + 1) = 0 /\ m = 99 /\ d = 99
    <2>1. ~IsDate(Year(x + 1), 0, 0)
      BY DEF IsDate
    <2>2. CASE y = 65535
      <3>1. Latest(y, 99, 99) = LastDay /\ Latest(0, 0, 0) = FirstDay - 1
        BY <2>2 DEF Latest
      <3> QED BY <1>3, <1>4, <1>7, <2>1, <2>2, <3>1
    <2>3. CASE y \in 1400 .. 9998
      <3>1. DayNumber(y + 1, 1, 1) = DayNumber(y, 12, 31) + 1 /\ DayNumber(y, 12, 31) \in Int
        BY <1>1, NextYear, DayNumberType
      <3>2. Latest(y + 1, 0, 0) = Latest(y, 99, 99)
        BY <1>2, <2>3, <3>1 DEF Latest
      <3> QED BY <1>1, <1>3, <1>4, <1>7, <2>1, <2>3, <3>2
    <2>4. CASE y = 9999
      <3>1. Latest(10000, 0, 0) = LastDay /\ Latest(9999, 99, 99) = LastDay
        BY <1>2 DEF Latest
      <3> QED BY <1>3, <1>4, <1>7, <2>1, <2>4, <3>1
    <2>5. CASE y = 1399
      <3>1. Latest(1400, 0, 0) = FirstDay - 1 /\ Latest(1399, 99, 99) = FirstDay - 1
        BY <1>2 DEF Latest
      <3> QED BY <1>3, <1>4, <1>7, <2>1, <2>5, <3>1
    <2>6. CASE y < 1399 \/ (y > 9999 /\ y # 65535)
      <3>1. Latest(y + 1, 0, 0) = Latest(y, 99, 99)
        BY <1>1, <2>6 DEF Latest
      <3> QED BY <1>1, <1>3, <1>4, <1>7, <2>1, <2>6, <3>1
    <2> QED BY <1>1, <2>2, <2>3, <2>4, <2>5, <2>6
  <1> QED BY <1>3, <1>5, <1>6, <1>7, NextDigits DEF y, m, d

-----------------------------------------------------------------------------
(* Columns *)

LEMMA ConvertedDate ==
  ASSUME NEW k \in {"number", "date"}, NEW x \in Int, x >= 0
  PROVE  /\ Accepted(x) => Converted(k, x) = Gives(LatestOf(x)) /\ LatestOf(x) \in Int
         /\ ~Accepted(x) => Converted(k, x) = Refused
  <1>1. Converted(k, x) = DaysSince1970(x \div 10000, Month(x), Day(x))
    <2>1. CASE k = "number"
      BY <2>1 DEF Converted, NumberToRDate, Month, Day
    <2>2. CASE k = "date"
      BY <2>2 DEF Converted, DateToRDate, Month, Day
    <2> QED BY <2>1, <2>2
  <1>2. DaysSince1970(x \div 10000, Month(x), Day(x)) =
          IF Accepted(x) THEN Gives(DayNumber(Year(x), Month(x), Day(x)) - REpoch) ELSE Refused
    BY DEF DaysSince1970, Accepted, Year
  <1> QED BY <1>1, <1>2, AcceptedIsLatest, LatestStep

LEMMA EpochIsZero ==
  ASSUME NEW k \in {"number", "date"}, NEW x \in Int, x >= 0, Year(x) = 1970, Month(x) = 1, Day(x) = 1
  PROVE  Converted(k, x) = Gives(0)
  <1>1. Accepted(x)
    BY DaysOfType DEF Accepted, IsDate
  <1>2. LatestOf(x) = DayNumber(1970, 1, 1) - REpoch
    BY <1>1, AcceptedIsLatest
  <1>3. LatestOf(x) = 0
    BY <1>2, CalendarEnds DEF REpoch
  <1> QED BY <1>1, <1>3, ConvertedDate

LEMMA ColumnInit == Init => ColumnInv
  <1> SUFFICES ASSUME Init PROVE ColumnInv
    OBVIOUS
  <1>1. \A x \in Datetimes : x \in Int /\ x \div 10000 >= 0
    BY ValuesAssumption, SMT DEF Datetimes
  <1>2. \A x \in Int : x \div 10000 >= 0 => x >= 0
    BY SMT
  <1>3. /\ in \in Dates \/ in \in Datetimes \/ in \in Instants \/ in \in Integers64
        /\ kind = "date" => in \in Datetimes
    BY DEF Init
  <1>4. kind = "date" => in >= 0
    BY <1>1, <1>2, <1>3, SMT
  <1>5. out = Converted(kind, in) /\ ~prev.ok
    BY DEF Init, Refused
  <1>6. in \in Int
    <2>1. \A x \in Dates \cup Instants \cup Integers64 : x \in Int
      BY ValuesAssumption
    <2>2. \A x \in Datetimes : x \in Int
      BY <1>1
    <2> QED BY <1>3, <2>1, <2>2
  <1> QED BY <1>4, <1>5, <1>6 DEF ColumnInv

LEMMA DateStep ==
  ASSUME ColumnInv, NextDate
  PROVE  ColumnInv'
  <1>1. /\ kind \in {"number", "date"} /\ in \in Int /\ in + 1 \in Int
        /\ in' = in + 1 /\ kind' = kind /\ out = Converted(kind, in) /\ out' = Converted(kind, in + 1)
        /\ prev' = IF out.ok THEN out ELSE prev
        /\ kind = "date" => in >= 0
    BY DEF ColumnInv, NextDate
  <1>2. CASE in < 0
    <2>1. kind = "number" /\ (prev.ok => in >= 0)
      BY <1>1, <1>2 DEF ColumnInv
    <2>2. Converted("number", in) = Refused
      BY <1>1, <1>2 DEF Converted, NumberToRDate
    <2>3. ~out.ok /\ ~prev'.ok
      BY <1>1, <1>2, <2>1, <2>2 DEF Refused
    <2> QED BY <1>1, <2>1, <2>3 DEF ColumnInv
  <1>3. CASE in >= 0
    <2>1. LatestOf(in) \in Int /\ LatestOf(in + 1) \in Int /\ FirstDay \in Int /\ FirstDay < LastDay
          /\ LastDay \in Int
      BY <1>1, <1>3, LatestStep, CalendarEnds
    <2>2. /\ out.ok <=> Accepted(in)
          /\ out.ok => out.v = LatestOf(in)
          /\ out'.ok <=> Accepted(in + 1)
          /\ out'.ok => out'.v = LatestOf(in + 1)
      BY <1>1, <1>3, ConvertedDate DEF Gives, Refused
    <2>3. \/ LatestOf(in + 1) = LatestOf(in) + (IF out'.ok THEN 1 ELSE 0)
          \/ LatestOf(in) = LastDay /\ LatestOf(in + 1) = FirstDay - 1 /\ ~out'.ok
      BY <1>1, <1>3, <2>2, LatestStep
    <2>4. BeganAgain' <=> prev'.v = LastDay /\ LatestOf(in + 1) = FirstDay - 1
      BY <1>1 DEF BeganAgain, LatestOf, Year, Month, Day
    <2>5. LatestOf(in)' = LatestOf(in + 1)
      BY <1>1 DEF LatestOf, Year, Month, Day
    <2>6. ASSUME prev'.ok
          PROVE  /\ prev'.v \in Int
                 /\ \/ prev'.v = LatestOf(in)
                    \/ prev'.v = LastDay /\ LatestOf(in) = FirstDay - 1
      BY <1>1, <2>1, <2>2, <2>6 DEF ColumnInv, BeganAgain
    <2>7. ASSUME prev'.ok
          PROVE  /\ ~out'.ok => prev'.v = LatestOf(in + 1) \/ BeganAgain'
                 /\ out'.ok => out'.v = prev'.v + 1 \/ (prev'.v = LastDay /\ out'.v = FirstDay)
      <3>1. CASE prev'.v = LatestOf(in)
        BY <2>1, <2>2, <2>3, <2>4, <3>1
      <3>2. CASE prev'.v = LastDay /\ LatestOf(in) = FirstDay - 1
        BY <2>1, <2>2, <2>3, <2>4, <3>2
      <3> QED BY <2>6, <2>7, <3>1, <3>2
    <2> QED BY <1>1, <1>3, <2>5, <2>6, <2>7 DEF ColumnInv
  <1> QED BY <1>1, <1>2, <1>3

LEMMA ColumnNext == ColumnInv /\ [Next]_vars => ColumnInv'
  <1> SUFFICES ASSUME ColumnInv, [Next]_vars PROVE ColumnInv'
    OBVIOUS
  <1>1. CASE NextDate
    BY <1>1, DateStep
  <1>2. CASE NextNumber
    BY <1>2 DEF ColumnInv, NextNumber
  <1>3. CASE UNCHANGED vars
    BY <1>3 DEF ColumnInv, BeganAgain, LatestOf, Year, Month, Day, vars
  <1> QED BY <1>1, <1>2, <1>3 DEF Next

LEMMA ColumnAlways == Spec => []ColumnInv
  BY ColumnInit, ColumnNext, PTL DEF Spec

\* Through months, leap years, centuries, numbers that are no dates and the years
\* beyond 65535, the numbers that are taken for dates are consecutive days, and
\* the only break is from the last day of the calendar to its first.
THEOREM ConsecutiveDates == Spec => []DatesAreConsecutive
  <1>1. ASSUME ColumnInv, kind \in {"number", "date"}, in = 19700101
        PROVE  out = Gives(0)
    BY <1>1, EpochDigits, EpochIsZero, SMT DEF ColumnInv
  <1>2. ColumnInv => DatesAreConsecutive
    BY <1>1, SMT DEF ColumnInv, DatesAreConsecutive
  <1> QED BY <1>2, ColumnAlways, PTL

-----------------------------------------------------------------------------
(* Times and integers *)

\* Going on by a millisecond moves the second by one at most.
LEMMA SecondsStep ==
  ASSUME NEW ms \in Int
  PROVE  /\ TotalSeconds(ms + 1) \in {TotalSeconds(ms), TotalSeconds(ms) + 1}
         /\ ms \div 1000 \in {TotalSeconds(ms) - 1, TotalSeconds(ms)}
  BY DEF TotalSeconds

LEMMA TimeSeconds ==
  ASSUME NEW x \in Int
  PROVE  Converted("time", x).v = TotalSeconds(x)
  <1>1. PICK d \in Int, r \in Int : d = x \div MsPerDay /\ r = x % MsPerDay
    BY SMT DEF MsPerDay
  <1>2. d * MsPerDay + r = x
    BY <1>1, SMT DEF MsPerDay
  <1>3. Converted("time", x) = DatetimeToUTC(d, r)
    BY <1>1 DEF Converted
  <1>4. DatetimeToUTC(d, r) = Gives(TotalSeconds(x))
    BY <1>2, Zenon DEF DatetimeToUTC
  <1> QED BY <1>3, <1>4 DEF Gives

\* Times keep their order, before 1970 and after, and are off by less than a second.
THEOREM TimesInOrder == Spec => TimesKeepOrder
  <1>1. ASSUME ColumnInv, [Next]_vars
        PROVE  [kind = "time" => /\ out'.v \in {out.v, out.v + 1}
                                 /\ in' \div 1000 \in {out'.v - 1, out'.v}]_vars
    <2> SUFFICES ASSUME NextNumber, kind = "time"
                 PROVE  /\ out'.v \in {out.v, out.v + 1}
                        /\ in' \div 1000 \in {out'.v - 1, out'.v}
      BY <1>1 DEF Next, NextDate
    <2>1. /\ in \in Int /\ in' = in + 1 /\ in + 1 \in Int
          /\ out = Converted("time", in) /\ out' = Converted("time", in + 1)
      BY <1>1 DEF ColumnInv, NextNumber
    <2>2. Converted("time", in).v = TotalSeconds(in) /\ Converted("time", in + 1).v = TotalSeconds(in + 1)
      BY <2>1, TimeSeconds
    <2> QED BY <2>1, <2>2, SecondsStep
  <1>2. ColumnInv /\ [Next]_vars =>
          [kind = "time" => /\ out'.v \in {out.v, out.v + 1}
                            /\ in' \div 1000 \in {out'.v - 1, out'.v}]_vars
    BY <1>1
  <1> QED BY <1>2, ColumnAlways, PTL DEF Spec, TimesKeepOrder

\* From R's least integer on the narrowing is the integer itself, or the greatest.
LEMMA Narrowed ==
  ASSUME NEW v \in Int, v >= -Half
  PROVE  Int64ToInteger(v) = IF v > Half - 1 THEN Half - 1 ELSE v
  <1>1. Half \in Nat /\ Half > 0
    BY HalfAssumption
  <1>2. CASE v <= Half - 1
    <2>1. v + Half \in 0 .. 2 * Half - 1
      BY <1>1, <1>2
    <2>2. (v + Half) % (2 * Half) = v + Half
      BY <1>1, <2>1
    <2> QED BY <1>1, <1>2, <2>2 DEF Int64ToInteger, LowBits
  <1> QED BY <1>1, <1>2 DEF Int64ToInteger

\* Integers of 64 bits keep their order in a column of R's, whatever R's range.
THEOREM IntegersInOrder == Spec => IntegersKeepOrder
  <1>1. ASSUME ColumnInv, [Next]_vars
        PROVE  [kind = "int64" /\ in >= -Half => out' >= out /\ (out' = in' \/ in' > Half - 1)]_vars
    <2> SUFFICES ASSUME NextNumber, kind = "int64", in >= -Half
                 PROVE  out' >= out /\ (out' = in' \/ in' > Half - 1)
      BY <1>1 DEF Next, NextDate
    <2>1. /\ in \in Int /\ in' = in + 1 /\ in + 1 \in Int /\ Half \in Nat
          /\ out = Converted("int64", in) /\ out' = Converted("int64", in + 1)
      BY <1>1, HalfAssumption DEF ColumnInv, NextNumber
    <2>2. in + 1 >= -Half
      BY <2>1
    <2>3. /\ out = IF in > Half - 1 THEN Half - 1 ELSE in
          /\ out' = IF in + 1 > Half - 1 THEN Half - 1 ELSE in + 1
      BY <2>1, <2>2, Narrowed DEF Converted
    <2> QED BY <2>1, <2>3
  <1>2. ColumnInv /\ [Next]_vars =>
          [kind = "int64" /\ in >= -Half => out' >= out /\ (out' = in' \/ in' > Half - 1)]_vars
    BY <1>1
  <1> QED BY <1>2, ColumnAlways, PTL DEF Spec, IntegersKeepOrder
=============================================================================
