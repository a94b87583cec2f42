CONSTANTS
  Owner = {d1, d2, d3}
  Sender = {c1}
  Msg <- MCMsg
  MsgLen <- MCMsgLen
  Valid = {"addr"}
  DefaultMaxMsg = 1
  DefaultMsgSize = 2
  NoQueue = NoQueue
  NoPid = NoPid
  Concurrent = FALSE
  Privileged = TRUE
  DropPrivileges = TRUE
  Options = {}
  WithPidfile = {TRUE, FALSE}
  MaxSent = 1
  MaxSignals = 2
SPECIFICATION Spec
SYMMETRY Symmetry
CHECK_DEADLOCK FALSE
INVARIANTS
  ServingLinked
  ServingPidfile
  TypeOK
  TerminatorInBounds
PROPERTIES
  ServiceSpec
