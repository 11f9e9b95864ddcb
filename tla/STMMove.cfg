SPECIFICATION Spec
CONSTANTS
  slotA = c1
  slotB = c2
  Queue = q
  Thread = {t1, t2}
  Cell = {c1, c2}
  Val = {v1, v2}
  Empty = Empty
  Programs <- Move
PROPERTIES RetryLeavesNoTrace
CHECK_DEADLOCK FALSE
