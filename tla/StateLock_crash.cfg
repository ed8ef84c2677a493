\* Three processes with one call each, that may die and stall; an operator clears the locks
\* of dead owners.  No inode numbers: the owner listing alone has to keep calls apart.
SPECIFICATION Spec
CONSTANTS
  a = a
  b = b
  c = c
  p = p
  Ops = {a, b, c}
  Procs = {a, b, c}
  ProcOf <- OneCallPerProcess
  FailOpen = {}
  MaxAttempts = 1
  MaxReleaseTries = 1
  NoDir = NoDir
  Crashes = TRUE
  Stalls = TRUE
  Transient = FALSE
  Forced = FALSE
  InodeIdentity = FALSE
SYMMETRY Symmetry
INVARIANTS
  MutualExclusion
  QuiescentLockIsFree
PROPERTIES
  NoTakeover
  ImplementsMutex
