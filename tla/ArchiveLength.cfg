SPECIFICATION MCSpec
CONSTANTS
  Procs = {p1, p2}
  Keys = {k1}
  Schemas = {"s1"}
  RootLists <- MCRootLists
  MaxDumps = 0
  Queries <- MCQueries
  Buffers <- MCAnyBuffers
  MaxWrites = 1
  Reader = p2
INVARIANT
  ArchivedIsWhole
