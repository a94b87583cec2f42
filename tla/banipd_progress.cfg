CONSTANTS
  Owner = {d1}
  Sender = {c1, c2}
  Msg <- MCTaken
  MsgLen <- MCTakenLen
  Valid = {"addr"}
  DefaultMaxMsg = 2
  DefaultMsgSize = 2
  NoQueue = NoQueue
  NoPid = NoPid
  Concurrent = FALSE
  Privileged = FALSE
  DropPrivileges = TRUE
  Options = {}
  WithPidfile = {FALSE}
  MaxSent = 3
  MaxSignals = 2
SPECIFICATION FairSpec
CHECK_DEADLOCK FALSE
INVARIANTS
  InOrder
PROPERTIES
  StopCompletes
  Drained
  SendReturns
  ServiceSpec
