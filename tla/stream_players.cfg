SPECIFICATION FairSpec
CONSTANTS
  Keys = {k1}
  Publishers = {a}
  Players = {p}
  StreamIds = {s1, s2}
  Nil = Nil
  PktCap = 1
  MaxUnread = 1
INVARIANTS NoLeak MapConsistent
PROPERTIES DeadPlayerClosed
CHECK_DEADLOCK FALSE
