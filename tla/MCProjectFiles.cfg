SPECIFICATION Spec
CONSTANTS
  Callers = {a1, a2}
  Contents = {v1, v2, bad}
  Valid = {v1, v2}
  Outsiders = {bad}
  Crashes = TRUE
  None = None
SYMMETRY Symmetry
INVARIANTS
  TypeOK
  RowsHaveBackups
  SuccessUndoable
  
PROPERTIES
  OnlyValidInstalled
  FileNeverVanishes
