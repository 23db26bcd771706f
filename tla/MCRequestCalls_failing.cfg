\* requests may end with REQUEST_STATUS and the session may terminate.
SPECIFICATION FairSpec
CONSTANTS
  s1 = s1  s2 = s2  f1 = f1  f2 = f2  b1 = b1
  Securities = {s1, s2}
  Fields = {f1, f2}
  BulkFields = {b1}
  SecLists <- OneOrTwoSecurities
  FieldLists <- OneField
  FailingClasses <- RefusedClasses
  ErrorClasses <- ReferenceClasses
  MayTerminate = TRUE
  MaxPartials = 1
  MaxRequests = 4
  Fns = {"bdp", "bdh", "getBars", "bsrch", "authenticateWithApp"}
INVARIANTS
  CleanCallReturnsItsOwnAnswer
PROPERTIES
  TerminationEndsCollecting
  RefusalEndsBdh
\* The user may stop calling, and a refused request may leave a loop waiting for ever.
CHECK_DEADLOCK FALSE
