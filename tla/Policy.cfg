SPECIFICATION Spec
CONSTANTS
  Clients = {c1, c2}
  Databases = {d1, d2}
  Dicts <- MCDicts
INVARIANTS
  ElementsAreOwn
  SetIsReported
PROPERTY
  OnlyAsAsked
