SPECIFICATION MCSpec
CONSTANTS
  Procs = {p1, p2}
  Keys = {k1, k2}
  Schemas = {"s1"}
  RootLists <- MCRootLists
  MaxDumps = 1
  Queries <- MCQueries
  Buffers <- MCBuffers
  MaxWrites = 2
  Reader = p2
INVARIANTS
  OpenedIsWritten
  FlushedIsFound
  ItemsAreOfCall
  WipedIsGone
PROPERTY
  RemovedAsAsked
