SPECIFICATION AnySpec
CONSTANTS
  Results <- MCResults
  MaxRead = 3
  MaxCount = 3
  MaxLen = 2
INVARIANTS
  ItemsOwnBytes
  AllAccountedFor
  RaisesOnlyEmpty
  CompleteReadsAll
  NoByteLost
PROPERTIES
  StopIsFinal
  IterationEnds
  IsCursor
