\* One retention and one task update.
SPECIFICATION Spec
CONSTANTS
  First = 1
  MaxTask = 2
  MaxOps = 1
  MaxEdits = 1
  MaxFaults = 0
  Absent = Absent
  Idle = Idle
INVARIANT ActiveOrRetained
CHECK_DEADLOCK FALSE
