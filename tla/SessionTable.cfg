SPECIFICATION FairSpec
CONSTANTS
  s1 = s1
  s2 = s2
  c1 = c1
  c2 = c2
  NoSession = NoSession
  Sessions <- MCSessions
  Calls <- MCCalls
  SignatureOf <- MCSignatureOf
  MaxSessions = 2
  MaxBatch = 2
INVARIANT TypeOK
INVARIANT NoCallParkedOnDeadSession
INVARIANT IndexIsFaithful
INVARIANT StaleHitsAreBrief
INVARIANT ClaimsInOrder
 
PROPERTY CallsSettle
CHECK_DEADLOCK FALSE
