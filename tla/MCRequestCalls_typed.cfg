\* bdp, bdh, fieldInfo and fieldSearch: field information, then data.
SPECIFICATION FairSpec
CONSTANTS
  s1 = s1  s2 = s2  f1 = f1  f2 = f2  b1 = b1
  Securities = {s1, s2}
  Fields = {f1, f2}
  BulkFields = {b1}
  SecLists <- OneOrTwoSecurities
  FieldLists <- OneOrTwoFields
  FailingClasses <- NoClasses
  ErrorClasses <- SearchAndDataClasses
  MayTerminate = FALSE
  MaxPartials = 1
  MaxRequests = 4
  Fns = {"bdp", "bdh", "fieldInfo", "fieldSearch"}
INVARIANTS
  TypeOK
  CleanCallReturnsItsOwnAnswer
  CleanCallRejectsOnlyErrors
PROPERTIES
  KeepsPromise
  SlipNeverHeals
  EveryCallEnds
\* The user may stop calling.
CHECK_DEADLOCK FALSE
