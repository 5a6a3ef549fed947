SPECIFICATION FairSpec
CONSTANTS
  Projects = {p1}
  Requests = {r1, r2}
  Tasks = {t1}
  Limit = 1
  None = None
PROPERTIES
  EveryTaskEnds
  EveryRequestEnds
