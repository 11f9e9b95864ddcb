SPECIFICATION Spec
CONSTANTS
  Writer = {"w1", "w2"}
  Message <- TwoBytesEach
  Incoming <- EveryEnd
  Awaited = 1
  Uses = {"subscriber"}
PROPERTY WritersGetTheLock
CHECK_DEADLOCK FALSE
