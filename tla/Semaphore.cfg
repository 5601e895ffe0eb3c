SPECIFICATION FairSpec
CONSTANTS
  Requests = {r1, r2, r3, r4}
  Concurrency = 2
INVARIANT TypeOK
INVARIANT SlotConservation
INVARIANT NoIdleSlotWhileQueued
PROPERTY FirstComeFirstServed
PROPERTY HeadIsServed
CHECK_DEADLOCK FALSE
