SPECIFICATION WalkSpec
CONSTANTS
  alice = alice
  admins = admins
  Wild = "*"
  Statements <- ListsUpTo3
  Requests <- AllRequests
CHECK_DEADLOCK FALSE
INVARIANTS
  WalkTypeOK
  FirstDecisiveAnswers
  AllowedByStatement
