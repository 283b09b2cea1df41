SPECIFICATION MCSpec
CONSTANTS
  Clients = {c1, c2}
  Companion = c1
  Keys <- MCKeys
  Names <- MCNames
  NameOf <- MCNameOf
  Payloads = {"x", "y"}
  Filters <- MCFilters
INVARIANTS
  UploadedIsComplete
  MissingIsReported
  OneUploader
  ArchivedIsFound
  EachOnce
PROPERTIES
  ArchiveEnds
  IterationEnds
