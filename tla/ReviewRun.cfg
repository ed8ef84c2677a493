\* Two processes, two requests under one run id, two heads of the control.
SPECIFICATION FairSpec
CONSTANTS
  Workers = {w1, w2}
  Requests = {q1, q2}
  Configs = {c1, c2}
  Marks = {m1}
  MaxHead = 2
  MaxEvents = 2
  NoConfig = NoConfig
  None = None
\* A run that is retained, or whose owner is gone, is over.
CHECK_DEADLOCK FALSE
INVARIANTS
  JournalSound
  SentAsPlanned
  TerminalOnce
PROPERTIES
  CalledOnce
  ReclaimFreezes
  SavedIsRetained
