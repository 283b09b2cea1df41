SPECIFICATION Spec
CONSTANTS
  Versions = {1, 2}
  PackageVersion = 2
  MaxFiles = 2
  Threads = {t1, t2}
  Functions = {"f", "g"}
  Lackable = {"g"}
  MaxLoads = 3
CHECK_DEADLOCK FALSE
INVARIANTS
  ReadyIsComplete
  OwnMessage
