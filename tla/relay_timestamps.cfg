SPECIFICATION Spec
CONSTANTS
  Kinds = {"aseq", "audio"}
  MaxPubs = 2
  MaxPkts = 3
  PktCap = 1
  QCap = 3
  TsMod = 64
INVARIANT Monotone
CHECK_DEADLOCK FALSE
