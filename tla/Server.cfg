SPECIFICATION Spec
CONSTANTS
  p1 = p1
  p2 = p2
  Procs = {p1, p2}
  Tokens = {"t1", "t2"}
  Accounts = {"alice", "bob"}
  Sessions = {"dev"}
  Covers <- SomeCovers
  Secrets = {"a"}
  SessionKeys = {"s1", "s2"}
  Contents <- SomeContents
  Finds <- SomeFinds
  Leftovers <- LeftInList
  Values = {"v"}
  Requests <- AllRequests
  Facts = {"listed", "names"}
  Grounds <- AllGrounds
  Starts <- SomeStarts
  Granted <- AliceFirst
  Small <- Case
  MaxChanges = 1
  None = None
  Gone = Gone
SYMMETRY Sym
CONSTRAINT IamOrSts
INVARIANTS
  TypeOK
  AnswerFits
PROPERTIES
  WrittenByAllowed
  TokenOfSigner
