SPECIFICATION FairConstructionSpec
CONSTANTS
  h1 = h1
  h2 = h2
  h3 = h3
  t1 = t1
  t2 = t2
  Nobody = Nobody
  Orphan = Orphan
  Handles = {h1, h2, h3}
  Threads = {t1, t2}
  MayDispose <- OwnerDisposes
  MaxId = 3
  MaxOrphans = 1
INVARIANTS
  ConstructionTypeOK
  Visited
  ReturnsMissingKey
  LiveHandleOwnsItsObject
  EntriesAreOwned
PROPERTIES
  ImplementsHandles
  ImplementsObjectStore
  DisposeCompletes
