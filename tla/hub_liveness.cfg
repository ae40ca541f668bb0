CONSTANTS
  Ids = {a, b}
  Sockets = {s1, s2}
  None = None
  HighWater = 1
  MaxRequests = 1
SPECIFICATION FairSpec
PROPERTIES
  RegistrationSettles
  DeadPeersForgotten
