SPECIFICATION Spec
CONSTANTS
  p1 = p1
  p2 = p2
  Procs = {p1, p2}
  Names <- TwoNames
  Covers <- PrefixKeys
  Roles = {"r1"}
  Durations = {0, 2}
  PlainLife = 3
  Never = Never
  MaxCredentials = 2
  MaxTokens = 1
  MaxNow = 3
SYMMETRY Sym
CHECK_DEADLOCK FALSE
INVARIANTS
  TypeOK
  AssumeReplaces
  NeverReplacedRole
  TokenLife
