\* "these will all set to fallback NA".
SPECIFICATION Spec
CONSTANTS
  c1 = c1  c2 = c2
  Fields <- TwoScreened
  Loaders = {"screen"}
  InferRows = 2
  MaxRows = 3
INVARIANT UnresolvedFallBack
\* A loader ends.
CHECK_DEADLOCK FALSE
