\* Calls of every loop shape inside the user's function of a subscription.
SPECIFICATION FairSharedSpec
CONSTANTS
  s1 = s1  b1 = b1
  Securities = {s1}
  Fields = {}
  BulkFields = {b1}
  SecLists <- OneSecurity
  FieldLists <- NoLists
  FailingClasses <- NoClasses
  ErrorClasses <- ErringClasses
  MayTerminate = FALSE
  MaxPartials = 1
  MaxRequests = 2
  MaxTicks = 2
  Fns = {"bds", "getPortfolio", "getTicks", "lookupSecurity", "beqs", "fieldSearch",
         "authenticateWithId", "authenticateWithApp"}
INVARIANT
  InStep
PROPERTIES
  OnlyGivingUpFallsBehind
  TickLostOnlyToACall
  OnlySubscribeHeals
  WaitingHeals
  CallEndsAmongTicks
  KeepsPromiseWhenShared
\* The user may stop calling.
CHECK_DEADLOCK FALSE
