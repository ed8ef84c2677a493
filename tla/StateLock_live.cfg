\* Two calls of one process and one of another, whose file-system calls may fail transiently
\* any number of times, under an operator who removes locks of live owners too.
SPECIFICATION FairSpec
CONSTANTS
  a = a
  b = b
  c = c
  p = p
  Ops = {a, b, c}
  Procs = {p, c}
  ProcOf <- SharedProcess
  FailOpen = {b}
  MaxAttempts = 1
  MaxReleaseTries = 2
  NoDir = NoDir
  Crashes = FALSE
  Stalls = FALSE
  Transient = TRUE
  Forced = TRUE
  InodeIdentity = TRUE
INVARIANTS
  RevokedNeverSucceeds
PROPERTIES
  EveryCallEnds
