\* A memory output and a role store's save, one after the other, among editors.
SPECIFICATION Spec
CONSTANTS
  memory = memory
  roles = roles
  old = old
  mine = mine
  theirs = theirs
  Calls = {memory, roles}
  Inodes = {i1, i2, i3, i4, i5}
  Contents = {old, mine, theirs}
  Old = old
  Value <- Values
  Kind <- Kinds
  MaxForeign = 2
  None = None
  Empty = Empty
SYMMETRY Symmetry
\* Both publications end.
CHECK_DEADLOCK FALSE
PROPERTIES
  NothingLost
  RefusalLatches
  ImplementsRegister
