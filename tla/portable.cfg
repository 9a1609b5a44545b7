SPECIFICATION Spec
CONSTANTS
  VecCapacity = 2
  StrCapacity = 3
  Elem <- MCElem
  ZeroElem <- MCZero
  Char = {120, 121}
  Texts <- MCTexts
  Id = 202
  Version = 1
  PayloadSize = 22
  Reflected = {"seq", "device_id", "voltages", "raw"}
  Crc <- MCCrc
  Changed <- MCChanged
  Scalar <- MCScalar
INVARIANTS
  CStringIsView
  RoundTrip
  DamageDetected
  CrcIsRemainder
PROPERTIES
  ActsAsString
  ActsAsVector
