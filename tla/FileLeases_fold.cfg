\* Names that fold to one key, each of which may be a file of its own.
SPECIFICATION Spec
CONSTANTS
  p1 = p1
  p2 = p2
  p3 = p3
  Sessions = {s1, s2}
  Paths = {p1, p2, p3}
  Inodes = {i1, i2}
  Ids = {l1, l2, l3}
  TTLs = {1}
  MaxTime = 1
  MaxLeases = 3
  Worlds <- FoldingWorld
  Racing = FALSE
  Missing = Missing
  Directory = Directory
  NoInode = NoInode
  NoSection = NoSection
SYMMETRY Symmetry
INVARIANTS
  StoreStaysReadable
