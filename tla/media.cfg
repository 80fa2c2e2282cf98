SPECIFICATION Spec
CONSTANTS
  Pictures <- MCPictures
  Sounds <- MCSounds
  Foreign <- MCForeign
  MaxPackets = 3
  MaxWire = 1
  TsDataLen = 24
  CcMax = 3
  ClockMax = 119
INVARIANTS UnitsKept SplitSafe HeaderKept ParamsCurrent AnnexbRight AudioRight TsReassembles Continuity
CHECK_DEADLOCK FALSE
