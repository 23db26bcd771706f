----------------------------- MODULE Conversions -----------------------------
(***************************************************************************)
(* How the package turns Bloomberg's dates, times and 64-bit integers into *)
(* R's numbers: bbgDateToRDate and bbgDatetimeToUTC (blpapi_utils.cpp) and *)
(* the INT64 of populateDfRowBDS (bds.cpp).  boost's calendar is external: *)
(* an exception of its constructors is an R error, here Refused.           *)
(* bbgDateToPOSIX and bbgDatetimeToPOSIX differ from bbgDatetimeToUTC by   *)
(* mktime(), the C library's, and are left out.                            *)
(***************************************************************************)
EXTENDS Integers

CONSTANT Half    \* 2^31: R's integers are -Half (NA) .. Half - 1

ASSUME HalfAssumption == Half \in Nat \ {0}

Refused == [ok |-> FALSE, v |-> 0]
Gives(n) == [ok |-> TRUE, v |-> n]

-----------------------------------------------------------------------------
\* boost::gregorian::date.  Its year is an unsigned short.
GregYear(y) == y % 65536

Leap(y) == y % 4 = 0 /\ (y % 100 # 0 \/ y % 400 = 0)

DaysOf(y, m) ==
  CASE m = 2               -> IF Leap(y) THEN 29 ELSE 28
    [] m \in {4, 6, 9, 11} -> 30
    [] OTHER               -> 31

IsDate(y, m, d) == y \in 1400 .. 9999 /\ m \in 1 .. 12 /\ d \in 1 .. DaysOf(y, m)

\* gregorian_calendar::day_number, years beginning in March.
DayNumber(y, m, d) ==
  LET a  == (14 - m) \div 12
      y1 == y + 4800 - a
      m1 == m + 12 * a - 3
  IN  d + (153 * m1 + 2) \div 5 + 365 * y1 + y1 \div 4 - y1 \div 100 + y1 \div 400 - 32045

REpoch == DayNumber(1970, 1, 1)

\* The calendar's ends, as days of R.
FirstDay == DayNumber(1400, 1, 1) - REpoch
LastDay  == DayNumber(9999, 12, 31) - REpoch

DaysSince1970(y, m, d) ==
  LET year == GregYear(y) IN
  IF IsDate(year, m, d) THEN Gives(DayNumber(year, m, d) - REpoch) ELSE Refused

\* bbgDateToRDate(const double): x is whole, or has a fraction (a time of day).
\* Above 2^31 the casts to int have no defined value; such x are left out.
Month_Tm(x) == ((x \div 100) % 100) + 1     \* mutant: months counted as in struct tm
Month(x) == (x \div 100) % 100

NumberToRDate(x, whole) ==
  IF x < 0 \/ ~whole THEN Refused
  ELSE DaysSince1970(x \div 10000, Month(x), x % 100)

\* bbgDateToRDate(const Datetime&).
DateToRDate(y, m, d, hasTime) == IF hasTime THEN Refused ELSE DaysSince1970(y, m, d)

-----------------------------------------------------------------------------
\* time_duration::total_seconds() drops the fraction, whatever the sign.
TotalSeconds(ms) == IF ms >= 0 THEN ms \div 1000 ELSE -((-ms) \div 1000)

MsPerDay == 86400000

\* bbgDatetimeToUTC: a day since 1970 and the milliseconds of its time.
DatetimeToUTC_Seconds(day, ms) == Gives(TotalSeconds(day * MsPerDay) + ms)   \* mutant: the unit
DatetimeToUTC(day, ms) == Gives(TotalSeconds(day * MsPerDay + ms))

-----------------------------------------------------------------------------
\* static_cast<int> of a 64-bit integer keeps its low bits.
LowBits(v) == ((v + Half) % (2 * Half)) - Half

\* BLPAPI_DATATYPE_INT64 in populateDfRowBDS: clamped above only.
Int64ToInteger_Cast(v) == LowBits(v)      \* mutant: no clamp
Int64ToInteger(v) == IF v > Half - 1 THEN Half - 1 ELSE LowBits(v)
=============================================================================
