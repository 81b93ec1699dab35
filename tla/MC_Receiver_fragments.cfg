CONSTANTS
  CompressionEnabled = FALSE
  ServerNoContextTakeover = {FALSE}
  InflateInitCanFail = FALSE
  SizeBits = 20
  Chunks <- MCChunks
  PingChunks <- MCPingChunks
  Pads <- MCNoPads
  CloseFrames <- MCNormalClose
  BadFrames <- MCNoFrames
  PeerRsv1 = {FALSE}
  PeerCtlRsv1 = {FALSE}
  MaxFrames = 3
SPECIFICATION Spec
INVARIANT TypeOK
INVARIANT MessagesIntact
INVARIANT ErrorsJustified
PROPERTY EventuallySettled
CHECK_DEADLOCK FALSE
