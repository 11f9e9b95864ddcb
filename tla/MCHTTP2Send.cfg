SPECIFICATION MCSpec
CONSTANTS
  subject = i1
  companion = i3
  Ids = {i1, i3}
  Body = 2
  ConnWindow = 2
  Initials = {0, 1}
  MaxFrame = 1
  MaxWindow = 2
  MaxUpdates = 1
INVARIANTS WindowsRespected WholeResponses NobodySleepsOnWindow QuietAfterClose
PROPERTIES HandlersEnd
CHECK_DEADLOCK FALSE
