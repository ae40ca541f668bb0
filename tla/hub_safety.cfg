CONSTANTS
  Ids = {a, b}
  Sockets = {s1, s2, s3}
  None = None
  HighWater = 1
  MaxRequests = 1
SPECIFICATION Spec
SYMMETRY HubSymmetry
INVARIANTS
  TypeOK
  RegistryOwned
  DirectoryConverges
PROPERTIES
  ImplementsRegistry
