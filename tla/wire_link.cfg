SPECIFICATION Spec
CONSTANTS
  z = z
  a = a
  b = b
  c = c
  Types <- MCTypes
  Traits <- MCTraits
  Payload <- MCPayload
  Fresh = z
  Crc <- MCCrc
  Addr = {0, 1, 4, 8}
  Extent = {0, 24, 36, 40}
  Foreign <- MCForeign
  NoType = NoType
INVARIANTS
  TypeOK
  RoundTrip
  NoTypeConfusion
  AlterationDetected
