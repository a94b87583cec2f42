\* A daemon started by root, a sender and a script, which may read the file too
\* early; the kernel queue holds two messages of the library.
CONSTANTS
  Owner = {d1}
  Sender = {s1, s2}
  Php = {s2}
  Ino = {i1, i2}
  Id = {b, x}
  TheId = b
  a = a
  bb = bb
  ccc = ccc
  Msg <- MCMsg
  MsgLen <- MCMsgLen
  QBytes = 4
  Share = 2
  Privileged = TRUE
  MaxStops = 1
  MaxSent = 3
  Empty = Empty
  NoFile = NoFile
  NoQueue = NoQueue
  Cut = Cut
SPECIFICATION Spec
INVARIANTS
  TypeOK
  Delivered
CHECK_DEADLOCK FALSE
