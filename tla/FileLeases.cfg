\* Two sessions, three paths and two inodes; files change between critical sections.
SPECIFICATION Spec
CONSTANTS
  p1 = p1
  p2 = p2
  p3 = p3
  Sessions = {s1, s2}
  Paths = {p1, p2, p3}
  Inodes = {i1, i2}
  Ids = {l1, l2, l3}
  TTLs = {1}
  MaxTime = 1
  MaxLeases = 3
  Worlds <- AllWorlds
  Racing = FALSE
  Missing = Missing
  Directory = Directory
  NoInode = NoInode
  NoSection = NoSection
SYMMETRY Symmetry
INVARIANTS
  ReadableUnlessNamesFold
  OneLeasePerPath
PROPERTIES
  GrantKeepsReadable
  ForeignLeaseKept
