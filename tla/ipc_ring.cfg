SPECIFICATION Spec
CONSTANTS
  A = A
  B = B
  C = C
  z = z
  a = a
  s1 = s1
  s2 = s2
  NoItem = NoItem
  NoSegment = NoSegment
  Types = {A, B, C}
  Traits <- MCTraits
  Payload = {z, a}
  Fresh = z
  Crc <- MCCrc
  Capacity = 2
  MaxHead = 3
  Created = {A}
  Opened <- MCOpened
  Segment = {s1, s2}
SYMMETRY Symmetry
INVARIANTS
  TypeOK
  CountersOrdered
  SameLayout
  RefusesOnlyOtherTypes
PROPERTIES
  ViewStable
  ImplementsFifo
