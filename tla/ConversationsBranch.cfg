SPECIFICATION Spec
CONSTANTS
  Requests = {1, 2, 3}
  Strict = {2}
  Models = {m1, m2}
  Slots = 1
  Capacity = 2
INVARIANT ResumesThePrefix
CHECK_DEADLOCK FALSE
