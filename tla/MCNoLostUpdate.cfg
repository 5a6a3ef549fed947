SPECIFICATION Spec
CONSTANTS
  Callers = {a1, a2}
  Contents = {v1, v2, bad}
  Valid = {v1, v2}
  Outsiders = {}
  Crashes = FALSE
  None = None
SYMMETRY Symmetry
PROPERTY NoLostUpdate
