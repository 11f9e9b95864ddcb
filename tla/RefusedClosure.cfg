SPECIFICATION Spec
CONSTANTS
  Stmt = {s1}
  Closure = {f, g}
  Name = {n1}
  Db = db
  None = None
INVARIANT RefusedClosureCounted
CHECK_DEADLOCK FALSE
