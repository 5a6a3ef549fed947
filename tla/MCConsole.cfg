SPECIFICATION Spec
CONSTANTS
  r1 = r1
  r2 = r2
  r3 = r3
  proxy = proxy
  timeout = timeout
  nasIP = nasIP
  a = a
  b = b
  p1 = p1
  p2 = p2
  Tokens = {t1, t2}
  First = t1
  TTL = 2
  MaxTime = 5
  Requests <- MCRequests
  Keys = {proxy, timeout, nasIP}
  Live <- MCLive
  Values = {a, b}
  Env <- MCEnv
  Saves <- MCSaves
  Ports = {p1, p2}
  App <- MCApp
  NasIP = nasIP
  Addresses = {a}
  None = None
SYMMETRY Symmetry
INVARIANTS
  TypeOK
  SavedIsInForce
PROPERTIES
  SessionsEndInTime
  AddressWasListed
CHECK_DEADLOCK FALSE
