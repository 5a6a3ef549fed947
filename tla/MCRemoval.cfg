SPECIFICATION Spec
CONSTANTS
  Tokens = {t1, t2}
  Own = {c1}
  Other = {o1}
  Images = {i1}
  Volumes = {v1}
  Uses <- AllUsed
  Contents = {x1, x2}
  TicketLimit = 1
  MaxMoves = 2
  None = None
SYMMETRY Symmetry
INVARIANTS
  TypeOK
  OnlyConfirmed
  RemovedInOrder
  LeavesTrace
  NewContainerKeepsFile
  SharedDirectoryIsKept
  ReferencedIsKept
PROPERTY ImplementsContract
CHECK_DEADLOCK FALSE
