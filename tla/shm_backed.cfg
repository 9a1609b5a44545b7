SPECIFICATION Spec
CONSTANTS
  p1 = p1
  p2 = p2
  x1 = x1
  x2 = x2
  y1 = y1
  Proc = {p1, p2}
  Object = {x1, y1}
  Owner <- MCOwner
  Stem <- MCStem
  StemLength <- MCStemLength
  Clamp <- MCClamp
  Name <- OneName
  Size = {0, 1, 2}
  Inode = {i1, i2, i3}
  Handles = 3
  Calls <- MCAllExclusive
  Faults = TRUE
  OneCreator = FALSE
  NoInode = NoInode
  NoName = NoName
INVARIANTS
  Backed
SYMMETRY Symmetry
