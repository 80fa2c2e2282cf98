SPECIFICATION Spec
CONSTANTS
  Ends <- AllEnds
  Apps = {"live", "vod"}
  Names = {"a"}
  Packets = {"h264", "h264sps", "aac"}
  Unsolicited = {"shared", "onBWDone", "media"}
  MaxSent = 5
  MaxReplies = 5
  MaxPackets = 3
  MaxUnread = 5
INVARIANTS TypeOK Agreement NoMisunderstanding Granted HeadersFirst
PROPERTIES SessionSettles ServerLetsGo PlayerTold
CHECK_DEADLOCK FALSE
