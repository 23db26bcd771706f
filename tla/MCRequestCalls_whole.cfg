\* what the documentation promises of bds and beqs.
SPECIFICATION FairSpec
CONSTANTS
  s1 = s1  s2 = s2  f1 = f1  f2 = f2  b1 = b1
  Securities = {s1, s2}
  Fields = {f1, f2}
  BulkFields = {b1}
  SecLists <- OneSecurity
  FieldLists <- OneField
  FailingClasses <- NoClasses
  ErrorClasses <- NoClasses
  MayTerminate = FALSE
  MaxPartials = 1
  MaxRequests = 2
  Fns = {"bds", "beqs"}
INVARIANTS
  ReturnsTheWholeAnswer
\* The user may stop calling, and a refused request may leave a loop waiting for ever.
CHECK_DEADLOCK FALSE
