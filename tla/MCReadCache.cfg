SPECIFICATION FairSpec
CONSTANTS
  Lists = {l1, l2}
  Changers = {c1}
  MaxVersion = 1
  Files = files
  Containers = {k1}
  None = None
INVARIANT TypeOK
PROPERTIES
  ShowsWhatWasAnswered
  EveryoneReturns
