\* Three commands, each a migration or a write, over three files and three workspaces.
SPECIFICATION Spec
CONSTANTS
  marker = marker
  store = store
  plain = plain
  old = old
  new = new
  Procs = {p1, p2, p3}
  Files = {marker, store, plain}
  Markers = {marker}
  Substrate = {store}
  Texts = {old, new}
  Rewritten <- OldToNew
  Starts <- Workspaces
  Commands <- CommandLines
  Missing = Missing
  Torn = Torn
  NoFolder = NoFolder
  NoOne = NoOne
SYMMETRY Symmetry
\* Every command ends.
CHECK_DEADLOCK FALSE
INVARIANTS
  ConflictIsReal
  UsedIsWhole
  BackupIgnored
PROPERTIES
  MigratedCarriesAll
  RollbackRestores
