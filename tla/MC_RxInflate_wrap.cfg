CONSTANTS
  UBits <- MCUBits
  ChunkSize <- MCChunk
  Msgs <- MCWrapMsgs
  NoCtxModes = {FALSE}
  MaxMsgs = 1
INIT InflInit
NEXT InflNext
INVARIANT RoundTrip
\* The server sends one message.
CHECK_DEADLOCK FALSE
