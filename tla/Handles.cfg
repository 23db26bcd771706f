\* Every history of up to four sessions and identities.
SPECIFICATION FairSpec
CONSTANT MaxObjects = 4
INVARIANTS
  TypeOK
  ReachableIsLive
  DeletedOnce
PROPERTIES
  DefaultsPartOneAtATime
  ExitFreesOwned
\* R ends.
CHECK_DEADLOCK FALSE
