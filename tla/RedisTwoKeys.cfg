SPECIFICATION ObservedSpec
CONSTANTS
  p1 = p1
  p2 = p2
  k1 = k1
  k2 = k2
  a = a
  Proc = {p1, p2}
  Key = {k1, k2}
  Criterion = {a}
  Whole = Whole
  None = None
  MaxVersion = 1
  MinVersion <- Least
  Sent <- SomeSent
  Scope <- AllKeys
SYMMETRY ProcessesAndKeys
CONSTRAINT OneList
INVARIANTS
  TypeOK
  IndexComplete
  IndexExact
  VersionSucceeds
PROPERTY
  ImplementsObjectStore
