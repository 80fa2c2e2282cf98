SPECIFICATION Spec
CONSTANTS
  Messages <- MCMessages
  Amf3Only <- MCAmf3Only
  Foreign <- MCForeign
  Keys <- MCKeys
  StringMax = 2
  Word = 3
  MaxMessages = 2
INVARIANTS RoundTrip CutSafe ForeignRead MetadataKept
CHECK_DEADLOCK FALSE
