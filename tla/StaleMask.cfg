SPECIFICATION Spec
CONSTANT Waiters = {w1, w2, w3}
INVARIANT CarriesEveryDirection
CHECK_DEADLOCK FALSE
