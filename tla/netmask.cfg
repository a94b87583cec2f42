CONSTANTS
  Words = 2
  WordBits = 4
  ByteBits = 2
  BigEndian = FALSE
SPECIFICATION Spec
CHECK_DEADLOCK FALSE
INVARIANTS
  TypeOK
  HostPartCleared
  MaskInBounds
