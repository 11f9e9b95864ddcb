SPECIFICATION ServicesSpec
CONSTANTS
  Writer = {"w1", "w2"}
  Message <- TwoBytesEach
  Incoming <- EveryEnd
  Awaited = 1
  Uses = {"http1", "http2", "client"}
  File = {f1, f2}
  Loop = {l1}
  None = None
  Numbers = {0, 1}
  CloseFails = FALSE
  Deadlines = {0, 1}
  Input <- EveryPlace
  SrcInput <- LongLines
  CR = "CR"
  LF = "LF"
  Sizes = {1, 3}
  RECVBUF_SIZE = 2
  LineSize = 5
  Retries = 2
  Junk = "junk"
  Chunk = 4
  maxLineBytes = 5
  Wire <- EveryStream
  LINEN_ZLIB_CHUNK = 2
  Bad = Bad
  End = End
  Handle = {h1, h2}
  Timeout = 1
  MaxClock = 3
  MaxArmed = 2
INVARIANT WritesAreWhole
INVARIANT NoWaitOnDecrypted
INVARIANT SocketsAreTheirOwn
INVARIANT NothingWithheld
PROPERTY HandlesKeepContract
PROPERTY IsByteSource
PROPERTY OrderlyShutdown
PROPERTY CallsReturn
PROPERTY TrackedHandleTimesOut
CHECK_DEADLOCK FALSE
