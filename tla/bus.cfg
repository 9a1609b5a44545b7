SPECIFICATION FairSpec
CONSTANTS
  A = A
  B = B
  M = M
  z = z
  a = a
  NoItem = NoItem
  NoPacket = NoPacket
  Types = {A, B, M}
  Traits <- MCTraits
  Payload = {z, a}
  Fresh = z
  Crc <- MCCrc
  Capacity = 2
  MaxPayloadSize = 48
  MaxHead = 3
  Handled <- MCHandled
INVARIANTS
  TypeOK
  PacketViewHolds
  RefusesOnlyUnknown
PROPERTIES
  ImplementsFifo
  NothingBlocks
