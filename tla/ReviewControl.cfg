\* Two callers, and two workers that meet in one worktree or run in two; each request may run
\* many times.
SPECIFICATION Spec
CONSTANTS
  k1 = k1
  k2 = k2
  k3 = k3
  s1 = s1
  s2 = s2
  w1 = w1
  w2 = w2
  t1 = t1
  t2 = t2
  Keys = {k1, k2, k3}
  Sessions = {s1, s2}
  Trees = {t1, t2}
  MaxOperations = 3
  MaxBatch = 1
  NoOwner = NoOwner
  Workers = {w1, w2}
  MaxRequests = 3
  MaxAnswers = 2
  NoTask = NoTask
SYMMETRY Symmetry
INVARIANTS
  HistorySound
  AcknowledgedStays
  RefusalIsFinal
PROPERTIES
  ImplementsLease
