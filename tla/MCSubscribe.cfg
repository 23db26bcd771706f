\* Two calls over lists whose correlation ids clash.
SPECIFICATION FairSpec
CONSTANTS
  a = a  b = b
  Securities = {a, b}
  SecLists <- Lists
  MaxSubs = 2
  MaxTicks = 2
  MaxQueue = 1
INVARIANTS
  FreshNamesAreRight
  InterruptUnsubscribes
PROPERTIES
  FreshDeliversInOrder
  NoForeignNoWrongName
  InterruptNoticed
\* nextEvent() blocks for ever when no event arrives.
CHECK_DEADLOCK FALSE
