CONSTANTS
  Available <- MCAvailable
  Addr <- MCAddr
  NoAddr = NoAddr
  MaxSignals = 2
  MaxRotations = 2
SPECIFICATION Spec
CHECK_DEADLOCK FALSE
INVARIANTS
  TypeOK
  CrashCause
  RecordWritten
  LogFollows
  SuccessListed
