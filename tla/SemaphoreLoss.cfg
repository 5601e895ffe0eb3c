\* Concurrency 0: NewSemaphore makes it one slot.
SPECIFICATION Spec
CONSTANTS
  Requests = {r1, r2, r3}
  Concurrency = 0
INVARIANT AllSlotsComeBack
CHECK_DEADLOCK FALSE
