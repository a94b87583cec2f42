\* Every prefix of three hosts of each family, room for two networks.
CONSTANTS
  V4Bits = 2
  V6Bytes = 2
  ByteBits = 2
  TableLimit = 2
  Host <- MCHost
  NoRequest = NoRequest
SPECIFICATION Spec
INVARIANTS
  TypeOK
  BanInForce
PROPERTIES
  OnlyBannedKilled
