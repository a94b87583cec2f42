CONSTANTS
  Owner = {d1, d2}
  Sender = {}
  Msg <- MCMsg
  MsgLen <- MCMsgLen
  Valid = {"addr"}
  DefaultMaxMsg = 1
  DefaultMsgSize = 2
  NoQueue = NoQueue
  NoPid = NoPid
  Concurrent = TRUE
  Privileged = FALSE
  DropPrivileges = TRUE
  Options = {}
  WithPidfile = {TRUE, FALSE}
  MaxSent = 2
  MaxSignals = 2
SPECIFICATION Spec
CHECK_DEADLOCK FALSE
PROPERTIES
  OnlyOwnerUnlinks
