------------------------------- MODULE Values --------------------------------
(***************************************************************************)
(* The conversions at work: numbers of one kind converted one after the    *)
(* other in increasing order, as down a sorted column.                     *)
(***************************************************************************)
EXTENDS Conversions

CONSTANTS
  Dates,      \* yyyymmdd numbers a column begins with
  DateSteps,  \* bound: numbers after the first
  Instants,   \* milliseconds since 1970
  Integers64  \* 64-bit integers

ASSUME ValuesAssumption ==
  /\ Dates \subseteq Int /\ Instants \subseteq Int /\ Integers64 \subseteq Int
  /\ DateSteps \in Nat

VARIABLES
  kind,   \* "number" (a date as one), "date", "time" or "int64"
  in,     \* the value before the conversion
  out,    \* and after
  steps,  \* dates: numbers converted since the column's first
  prev    \* history: the last date of the column that was not refused

vars == <<kind, in, out, steps, prev>>

Converted(k, x) ==
  IF k = "number" THEN NumberToRDate(x, TRUE)
  ELSE IF k = "date" THEN DateToRDate(x \div 10000, (x \div 100) % 100, x % 100, FALSE)
  ELSE IF k = "time" THEN DatetimeToUTC(x \div MsPerDay, x % MsPerDay)
  ELSE Int64ToInteger(x)

\* Those that have the year, month and day of a Datetime.
Datetimes == {x \in Dates : x \div 10000 \in 0 .. 9999}

Init ==
  /\ \/ kind = "number" /\ in \in Dates
     \/ kind = "date" /\ in \in Datetimes
     \/ kind = "time" /\ in \in Instants
     \/ kind = "int64" /\ in \in Integers64
  /\ out = Converted(kind, in)
  /\ steps = 0
  /\ prev = Refused

NextDate ==
  /\ kind \in {"number", "date"}
  /\ steps < DateSteps
  /\ steps' = steps + 1
  /\ in' = in + 1
  /\ out' = Converted(kind, in')
  /\ prev' = IF out.ok THEN out ELSE prev
  /\ UNCHANGED kind

NextNumber ==
  /\ \/ kind = "time" /\ in + 1 \in Instants
     \/ kind = "int64" /\ in + 1 \in Integers64
  /\ in' = in + 1
  /\ out' = Converted(kind, in')
  /\ UNCHANGED <<kind, steps, prev>>

Next == NextDate \/ NextNumber

Spec == Init /\ [][Next]_vars

-----------------------------------------------------------------------------
\* Whatever digits a number has, and whatever parts a date, it becomes a day or is
\* refused: of numbers in increasing order, those that are not refused become
\* consecutive days, with 19700101 day 0.  (A month 13 or a 30 February is never
\* taken for a day of the next month; but a year past 65535 begins again, so that
\* long numbers are not all refused, and the day after the calendar's last is then
\* its first.)
DatesAreConsecutive ==
  kind \in {"number", "date"} =>
    /\ out.ok /\ prev.ok => \/ out.v = prev.v + 1
                            \/ prev.v = LastDay /\ out.v = FirstDay
    /\ in = 19700101 => out = Gives(0)

\* Times keep their order and are off by less than a second, before 1970 too.
TimesKeepOrder ==
  [][kind = "time" =>
       /\ out'.v \in {out.v, out.v + 1}
       /\ in' \div 1000 \in {out'.v - 1, out'.v}]_vars

\* INT64 values keep their order in an integer column, and are themselves unless
\* too large for one, as long as none is below what an integer can be.
IntegersKeepOrder ==
  [][kind = "int64" /\ in >= -Half =>
       /\ out' >= out
       /\ out' = in' \/ in' > Half - 1]_vars
=============================================================================
