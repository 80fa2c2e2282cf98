SPECIFICATION Spec
CONSTANTS
  Keys = {k1}
  Publishers = {a}
  Players = {p}
  StreamIds = {s1}
  Nil = Nil
  PktCap = 1
  MaxUnread = 1
INVARIANT NoOrphan
CHECK_DEADLOCK FALSE
