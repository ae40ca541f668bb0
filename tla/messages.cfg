CONSTANTS
  Clients = {n, m, f}
  Native = {n, m}
  Foreign <- ForeignPayloads
  Texts <- SomeTexts
  Descriptions = {d}
  NoName = NoName
  MaxSends = 2
SPECIFICATION Spec
INVARIANTS
  TypeOK
  ListenersSurvive
  NativeKept
  HandedWasSent
