SPECIFICATION Spec
CONSTANTS
  Kinds = {"meta", "vseq", "aseq", "key", "inter", "audio"}
  MaxPubs = 2
  MaxPkts = 3
  PktCap = 1
  QCap = 3
  TsMod = 64
INVARIANTS TypeOK HeaderFirst GopIntact MonotoneIfDrained
CHECK_DEADLOCK FALSE
