\* A task that is there, one that is added, two retentions, two failures or deaths, one edit.
SPECIFICATION FairSpec
CONSTANTS
  First = 1
  MaxTask = 2
  MaxOps = 2
  MaxEdits = 1
  MaxFaults = 2
  Absent = Absent
  Idle = Idle
\* Nobody has to do anything more.
CHECK_DEADLOCK FALSE
INVARIANTS
  EveryTaskKept
  
PROPERTIES
  ListIsComplete
  RecoveryEnds
