\* Two runs of the daemon and a sender: files, queues, signals, crashes.
CONSTANTS
  Owner = {d1, d2}
  Sender = {s1}
  Php = {}
  Ino = {i1, i2}
  Id = {b, x}
  TheId = b
  a = a
  bb = bb
  ccc = ccc
  Msg <- MCMsg
  MsgLen <- MCMsgLen
  QBytes = 4
  Share = 2
  Privileged = FALSE
  MaxStops = 2
  MaxSent = 0
  Empty = Empty
  NoFile = NoFile
  NoQueue = NoQueue
  Cut = Cut
SYMMETRY Symmetry
SPECIFICATION Spec
INVARIANTS
  ServingIntact
  StaleFileCause
  StaleQueueCause
PROPERTIES
  SendersFindServer
CHECK_DEADLOCK FALSE
