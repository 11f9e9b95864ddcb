SPECIFICATION MCSpec
CONSTANTS
  Writer = {"w1", "w2"}
  Message <- TwoBytesEach
  Incoming <- EveryEnd
  Awaited = 1
  Uses = {"http1", "client"}
  File = {f1, f2}
  Loop = {l1}
  None = None
  Numbers = {0, 1}
  CloseFails = FALSE
  Deadlines = {0, 1}
  Input <- EveryPlace
  SrcInput <- LongLines
  CR = "CR"
  LF = "LF"
  Sizes = {1, 3}
  RECVBUF_SIZE = 2
  LineSize = 5
  Retries = 2
  Junk = "junk"
  Chunk = 4
  maxLineBytes = 5
  Wire <- EveryStream
  LINEN_ZLIB_CHUNK = 2
  Bad = Bad
  End = End
INVARIANT FreedWithItsHandle
CHECK_DEADLOCK FALSE
