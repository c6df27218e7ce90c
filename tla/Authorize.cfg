SPECIFICATION Spec
CONSTANTS
  p = p
  q = q
  b1 = b1
  b2 = b2
  g1 = g1
  Account <- alice
  Role <- deployer
  Fields = {"kind", "name"}
  Policies = {p, q}
  PolicyBindings = {b1, b2}
  GroupBindings = {g1}
  Bound <- SomeBound
  Joined <- SomeJoined
  Leftovers <- LeftInList
  None = None
  MaxWrites = 1
CHECK_DEADLOCK FALSE
INVARIANTS
  TypeOK
  AllowedWasEntitled
  QuietAnswer
