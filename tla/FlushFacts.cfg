SPECIFICATION FlushSpec
CONSTANTS
  Threads = {t1, t2, t3}
  NoThread = NoThread
  Items = {i1, i2}
  Outlined <- AllButTheFlush
  Raisers <- FactRaisers
  Flusher <- FactFlusher
  CalledHandlers <- FactHandlers
INVARIANTS
  OwnerIsInside
  VoidHandlersExclude
  TrackersUndisturbed
  NothingLost
  DeliveredOnce
SYMMETRY Symmetry
