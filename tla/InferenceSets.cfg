SPECIFICATION Spec
CONSTANTS
  MaxId = 2
  Problems = {p1, p2}
  Sets = {s1, s2, s3}
  Inferences = {i1}
  NoSet = NoSet
  Tidy = TRUE
INVARIANTS
  TypeOK
  AttachedUnderOwnId
PROPERTY ImplementsAttachedSets
