SPECIFICATION MCSpec
CONSTANTS
  Ids = {1, 3}
  InitialWindow = 4
  ConnWindow = 5
  MaxConcurrent = 1
  MaxClientResets = 1
  Lengths = {{}, {1}}
  MaxFrames = 4
  Handle = {h1, h2}
  Timeout = 1
  MaxClock = 3
  MaxArmed = 2
INVARIANTS BodyIntact CreditIsKept NobodySleepsOnData
INVARIANTS FiresOncePerArming SafeHandlesStayTracked
PROPERTIES NeverReopened
CHECK_DEADLOCK FALSE
