SPECIFICATION Spec
CONSTANTS
  Clients = {c1, c2, c3}
  Addresses = {a1, a2}
  Names = {n1}
  AddressLimit = 2
  AccountLimit = 1
  CleanAt = 1
  MaxFailures = 5
  None = None
SYMMETRY Symmetry
INVARIANTS
  TypeOK
  OneAdministrator
  TokenIsSpent
  OvershootBounded
PROPERTY LockoutHolds
