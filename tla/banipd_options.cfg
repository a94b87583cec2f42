CONSTANTS
  Owner = {d1}
  Sender = {}
  Msg <- MCMsg
  MsgLen <- MCMsgLen
  Valid = {"addr"}
  DefaultMaxMsg = 1
  DefaultMsgSize = 2
  NoQueue = NoQueue
  NoPid = NoPid
  Concurrent = FALSE
  Privileged = FALSE
  DropPrivileges = TRUE
  Options = {3}
  WithPidfile = {TRUE, FALSE}
  MaxSent = 2
  MaxSignals = 2
SPECIFICATION Spec
SYMMETRY Symmetry
CHECK_DEADLOCK FALSE
INVARIANTS
  OptionsEffective
