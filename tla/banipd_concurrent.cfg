CONSTANTS
  Owner = {d1, d2}
  Sender = {}
  Msg <- MCMsg
  MsgLen <- MCMsgLen
  Valid = {"addr"}
  DefaultMaxMsg = 1
  DefaultMsgSize = 2
  NoQueue = NoQueue
  NoPid = NoPid
  Concurrent = TRUE
  Privileged = TRUE
  DropPrivileges = TRUE
  Options = {}
  WithPidfile = {TRUE, FALSE}
  MaxSent = 2
  MaxSignals = 3
SPECIFICATION Spec
SYMMETRY Symmetry
CHECK_DEADLOCK FALSE
INVARIANTS
  ExclusiveReader
  StaleQueueCause
  StalePidfileCause
