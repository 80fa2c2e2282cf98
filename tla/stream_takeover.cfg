SPECIFICATION FairSpec
CONSTANTS
  Keys = {k1}
  Publishers = {a, b}
  Players = {}
  StreamIds = {s1}
  Nil = Nil
  PktCap = 1
  MaxUnread = 1
INVARIANTS TypeOK TakeoverClean
PROPERTIES TakeoverCompletes StreamReclaimed
CHECK_DEADLOCK FALSE
