SPECIFICATION Spec
CONSTANTS
  Ids = {1, 3}
  InitialWindow = 4
  ConnWindow = 5
  MaxConcurrent = 1
  MaxClientResets = 1
  Lengths = {{}, {1}}
  MaxFrames = 4
INVARIANT NoByteLost
CHECK_DEADLOCK FALSE
