SPECIFICATION Spec
CONSTANTS
  Tags = {g1}
  Projects = {p1}
  Checks = {c1}
  Deletes = {d1}
  Endpoints = {e1}
  MaxDigest = 2
  MaxMoves = 1
  None = None
PROPERTY
  ClearedStaysClear
CHECK_DEADLOCK FALSE
