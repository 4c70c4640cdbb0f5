CONSTANTS
  Len7Limit = 4
  Len16Max = 6
  ByteXor <- BitXor
  WEBSOCKET_HEADER_MIN_SIZE = 5
  Frames <- ShortFrames
  MaxFrames = 3
SPECIFICATION Spec
CHECK_DEADLOCK FALSE
INVARIANTS
  TypeOK
  FrameSync
  NothingLongDelayed
  SingleFrameTextsIntact
  PingsAnswered
  NoOutOfRange
PROPERTIES
  LongFramesDecoded
  ChannelSpec
