SPECIFICATION ServerSpec
CONSTANTS
  Days = {monday, tuesday}
  Amounts = {0, 1, 2}
  MaxTotal = 2
  Callers = {c1}
PROPERTY InFlightRequestsComplete
CHECK_DEADLOCK FALSE
