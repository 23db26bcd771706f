\* "the vectors are already initialized to NAs".
SPECIFICATION Spec
CONSTANTS
  c1 = c1  c2 = c2
  Fields <- AnythingAlone
  Loaders = {"typed"}
  InferRows = 2
  MaxRows = 3
INVARIANT EmptyCellsAreNA
\* A loader ends.
CHECK_DEADLOCK FALSE
