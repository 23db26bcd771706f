\* A column of every kind of datatype, with nulls, beside one of numbers: every order of three rows.
SPECIFICATION Spec
CONSTANTS
  c1 = c1  c2 = c2
  Fields <- AnythingAndNumber
  Loaders = {"typed", "bulk", "screen", "grid"}
  InferRows = 2
  MaxRows = 3
INVARIANTS
  TypeOK
  ReturnedKeepsEveryValue
  MisreadNeedsMixedTypes
  OneTypeIsNeverRefused
  ScanFindsFirst
\* A loader ends.
CHECK_DEADLOCK FALSE
