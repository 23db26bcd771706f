\* Lists of one to three securities, an older request of up to three.
SPECIFICATION Spec
CONSTANTS
  ibm = ibm
  spy = spy
  tsla = tsla
  Securities <- SecuritySet
  MaxAsked = 3
  MaxOlder = 3
SYMMETRY Interchangeable
INVARIANTS
  RowsHoldTheirSecurity
  OwnEndIsComplete
  FramesAreNamed
  BeyondNeedsALongerRequest
\* The call ends.
CHECK_DEADLOCK FALSE
