SPECIFICATION FairSpec
CONSTANTS
  Kinds = {"video", "meta", "cmd", "size", "window"}
  Senders = {"own", "peer"}
  CmdCsid = 320
  FirstSize = 1
  ChunkSizes = {1, 2}
  Lens = {0, 1, 3}
  MaxLen = 3
  ExtTs = 4
  MaxTs = 2
  MaxMsgs = 3
  MaxWire = 1
  Window = 4
  Windows = {2, 4}
INVARIANTS TypeOK Framed PtsRight DataStable AckAccounts
PROPERTY ImplementsChannel
CHECK_DEADLOCK FALSE
