\* Two operations, two applies, two failures or deaths and two changes by others, but not all four.
SPECIFICATION FairSpec
CONSTANTS
  MaxOps = 2
  MaxCalls = 2
  MaxEdits = 2
  MaxFaults = 2
  MaxTroubles = 3
  Absent = Absent
  Idle = Idle
  Torn = Torn
\* Nobody has to do anything more.
CHECK_DEADLOCK FALSE

  
PROPERTIES
  OnlyOwnWithdrawn
  RolledBackStays
  RollbackEnds
