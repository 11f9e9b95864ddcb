SPECIFICATION MCSpec
CONSTANTS
  Op = {o1, o2, o3, o4}
  Val = {v1, v2}
  None = None
  Client = {c1, c2, c3, c4}
  Initial = 2
  MaxPosts = 1
  MaxAmount = 2
  MaxPosted = 1
  Endpoint = {e1, e2, e3}
  First = e1
  Write = {w1, w2}
  Reading = {r1, r2}
  Thread = {t1, t2, t3}
  Cell = {x1, x2}
  Queue = q
  StmVal = {v1, v2, v3}
  Programs <- WriteLast
  Empty = Empty
  User = {u1, u2, u3}
  Conn = {k1, k2, k3, k4, k5, k6}
  NoConn = NoConn
  MaxSize = 2
  MaxFailures = 2
  Stmt = {s1, s2}
  Closure = {f, g}
  Name = {n1}
  Db = db
  PgConn = {p1, p2}
  Res = {res1, res2}
  Database = {dd}
  Connection = {dc}
  Statement = {ds}
  Appender = {da}
  Result = {dr}
  Chunk = {dk}
  Vector = {dv}
  MaxMade = 4
  Worker = {worker1, worker2}
  MaxTaken = 3
INVARIANT Structural
INVARIANT NoIdlePermit
INVARIANT PermitsConserved
INVARIANT UnitsWellSpent
INVARIANT EndpointIsStream
INVARIANT RealTimeOrder
INVARIANT SubscribersMissNothing
INVARIANT ValuesConserved
INVARIANT OnePlaceEach
INVARIANT PoolStaysInBounds
INVARIANT NothingStranded
INVARIANT ClosureCounted
PROPERTY ContractsKept
PROPERTY TransactionsAreClean
PROPERTY ServedInTurn
CHECK_DEADLOCK FALSE
