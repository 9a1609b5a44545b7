SPECIFICATION Spec
CONSTANTS
  z = z
  a = a
  b = b
  NoItem = NoItem
  T = T
  Types = {T}
  Payload <- MCPayload
  Fresh = z
  Crc <- MCCrc
  Traits <- MCTraits
  Uninit <- MCUninit
  Capacity = 2
  Modulus = 4
INVARIANTS
  SizeCountsMessages
