\* Every kind of message, four of them in a row, around every bound of a prefix.
CONSTANTS
  Prefixes = {0, 1, 32, 33, 64, 128, 129}
  ULongMax = 300
  NoPrefix = NoPrefix
  NoError = NoError
  MaxMsgs = 4
SPECIFICATION Spec
INVARIANTS
  TypeOK
  HandlesMessage
  SlotCause
  AbortCause
CHECK_DEADLOCK FALSE
