SPECIFICATION FairSpec
CONSTANTS
  MaxElements = 3
  MaxThrows = 2
INVARIANTS
  WipeValueFresh
  PyItemsExact
  StopMeansAll
PROPERTIES
  IsCursor
  IterationEnds
