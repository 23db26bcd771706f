\* blpConnect: "automatically used for all future calls".
SPECIFICATION Spec
CONSTANT MaxObjects = 2
PROPERTY DefaultConnectionStays
CHECK_DEADLOCK FALSE
