SPECIFICATION Spec
CONSTANTS
  Tags = {g1, g2}
  Projects = {p1}
  Checks = {c1}
  Deletes = {d1}
  Endpoints = {e1}
  MaxDigest = 2
  MaxMoves = 2
  None = None
SYMMETRY Symmetry
INVARIANT TypeOK

  
  
CHECK_DEADLOCK FALSE
