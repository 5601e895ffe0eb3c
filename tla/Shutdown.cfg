SPECIFICATION ServerSpec
CONSTANTS
  Days = {monday, tuesday}
  Amounts = {0, 1, 2}
  MaxTotal = 2
  Callers = {c1, c2}
INVARIANT TypeOK
INVARIANT ServerTypeOK
INVARIANT SaveCatchesUp
INVARIANT ShutdownLeavesNothing
 
PROPERTY FileStaysReadable
PROPERTY SignalEndsProcess
CHECK_DEADLOCK FALSE
