SPECIFICATION Spec
CONSTANTS
  Keys = {k1}
  Publishers = {a, b}
  Players = {}
  StreamIds = {s1}
  Nil = Nil
  PktCap = 1
  MaxUnread = 1
INVARIANT OnlyReaderPackets
CHECK_DEADLOCK FALSE
