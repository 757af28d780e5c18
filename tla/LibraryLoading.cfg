SPECIFICATION FairSpec
CONSTANTS
  Threads = {t1, t2, t3}
  Classes = {problem, domain}
  Function = Function
  NoThread = NoThread
  MaxFailures = 1
INVARIANTS
  LoadedOnce
  LoadedBeforeUse
PROPERTY LoadingEnds
