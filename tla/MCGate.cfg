SPECIFICATION Spec
CONSTANTS
  Projects = {p1, p2}
  Requests = {r1, r2}
  Tasks = {t1, t2}
  Limit = 1
  None = None
SYMMETRY Symmetry
INVARIANTS
  TypeOK
  UpdatedProjectExists
  DeletionAlone
  IInv
  ActiveIffUnfinished
  SuccessIsRecorded
PROPERTIES
  ImplementsLedger
  FinishedIsFinal
  TableBounded
