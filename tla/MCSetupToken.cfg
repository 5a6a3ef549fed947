SPECIFICATION Spec
CONSTANTS
  Clients = {c1}
  Addresses = {a1}
  Names = {n1}
  AddressLimit = 1
  AccountLimit = 1
  CleanAt = 1
  MaxFailures = 2
  None = None
SYMMETRY Symmetry
INVARIANT SetupIsPossible
