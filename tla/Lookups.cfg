SPECIFICATION LookupsSpec
CONSTANTS
  t1 = t1
  t2 = t2
  x1 = x1
  x2 = x2
  Threads = {t1, t2}
  NoThread = NoThread
  Outlined <- NothingOutlined
  UsedHandlers <- ProblemUsers
  Objects = {x1, x2}
  Owner <- OneConfined
INVARIANTS
  UnitHandlersExclude
  OwnPointersAreValid
  PointersAreValid
PROPERTY OwnCallsAreExact
