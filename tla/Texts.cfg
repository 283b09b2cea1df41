SPECIFICATION TextSpec
CONSTANTS
  Word = {"a", "b", "empty"}
  Other = {"/", "=", ","}
  Alphabets <- MCAlphabets
INVARIANTS
  KeyMatchesQuery
  ComponentIsSafe
