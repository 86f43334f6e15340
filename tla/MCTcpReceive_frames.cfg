CONSTANTS
  HeadLen = 4
  Base = 2
  BufLen = 9
  Platforms = {"xnux", "win32"}
  NoPacket = NoPacket
  Payloads <- MCPayloads
  MaxFrames = 4
SPECIFICATION Spec
INVARIANTS BufferFits Whole HeaderCut
PROPERTY Frames
CHECK_DEADLOCK FALSE
