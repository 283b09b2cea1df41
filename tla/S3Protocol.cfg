SPECIFICATION Spec
CONSTANTS
  Clients = {c1, c2}
  Keys = {k1, k2}
  Data = {d1, d2}
  None = None
  MayRefuse = TRUE
  MaxTemps = 1
PROPERTIES
  DataOnlyMoves
  StatSound
