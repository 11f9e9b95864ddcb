SPECIFICATION MCSpec
CONSTANTS
  first = w1
  second = w2
  Waiters = {w1, w2}
INVARIANTS ResolvedOnce NeverDeaf
PROPERTIES DeadlineHonoured SameDirectionWakes ShutdownEnds
CHECK_DEADLOCK FALSE
