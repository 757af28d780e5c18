SPECIFICATION Spec
CONSTANTS
  Problems = {p1, p2}
  Trackers = {t1, t2}
  Goals = {g1, g2}
  NoObject = NoObject
  MaxId = 2
  Tidy = FALSE
INVARIANT FlushReturns
