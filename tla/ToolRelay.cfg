SPECIFICATION RelaySpec
CONSTANTS
  s1 = s1
  c1 = c1
  c2 = c2
  r1 = r1
  r2 = r2
  r3 = r3
  s2 = s2
  NoSession = NoSession
  Sessions <- MCSessions
  Calls <- MCCalls
  Requests <- MCRequests
  SignatureOf <- MCSignatureOf
  MaxSessions = 1
  MaxBatch = 2
  Concurrency = 2
  EventCap = 1
  Retries = TRUE
SYMMETRY Symmetric
INVARIANT RelayTypeOK
 
 
INVARIANT OrphansAreInert
INVARIANT ResultsReachTheirCall
 
CHECK_DEADLOCK FALSE
