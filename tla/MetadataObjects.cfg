SPECIFICATION FairSpec
CONSTANTS
  Vars = {v1, v2}
  Blocks = {b1, b2}
  Wrappers = {w1, w2}
  Keywords = {1, 2}
  Values = {1, 2}
  MaxValues = 1
INVARIANTS
  NoDangling
  OneOwner
  CompareIsOrder
PROPERTY
  Collected
