SPECIFICATION FlushSpec
CONSTANTS
  Threads = {t1, t2, t3}
  NoThread = NoThread
  Items = {i1, i2}
  Outlined <- NothingOutlined
  Raisers <- GoalRaisers
  Flusher <- GoalFlusher
  CalledHandlers <- GoalHandlers
INVARIANTS
  NothingLost
