SPECIFICATION Spec
CONSTANTS
  Writer = {"w1", "w2"}
  Message <- TwoBytesEach
  Incoming <- EveryEnd
  Awaited = 1
  Uses = {"http2"}
INVARIANT NothingWritesBetween
CHECK_DEADLOCK FALSE
