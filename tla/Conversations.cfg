SPECIFICATION FairSpec
CONSTANTS
  Requests = {1, 2, 3}
  Strict = {2}
  Models = {m1, m2}
  Slots = 1
  Capacity = 2
INVARIANT TypeOK
INVARIANT RecordedTurnsHappened
INVARIANT LinearResumesAreExact
INVARIANT OutcomeIsWhatWasSaid
 
CHECK_DEADLOCK FALSE
