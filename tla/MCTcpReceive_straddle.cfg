CONSTANTS
  HeadLen = 4
  Base = 2
  BufLen = 9
  Platforms = {"win32"}
  NoPacket = NoPacket
  Payloads <- MCPayloads
  MaxFrames = 4
SPECIFICATION Spec
INVARIANT HeaderComplete
