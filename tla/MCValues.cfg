\* Columns of dates, times and integers, and messages two levels deep.
SPECIFICATION ValueSpec
CONSTANTS
  Half = 16
  Dates <- DateStarts
  DateSteps = 12000
  Instants <- AroundEpoch
  Integers64 <- AroundInteger
  Inbox <- TwoLevels
INVARIANTS
  DatesAreConsecutive
  ParsedKeepsItsPlaces
  LostForACause
PROPERTIES
  TimesKeepOrder
  IntegersKeepOrder
\* A column ends, a message is parsed.
CHECK_DEADLOCK FALSE
