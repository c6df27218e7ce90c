SPECIFICATION Spec
CONSTANTS
  Procs = {"p1"}
  Keys = {"k1", "k2"}
  Params = {"a", "ab", "c"}
  Contents <- SomeContents
  Queries <- SomeQueries
  Covers <- Unanchored
  None = None
  MaxWrites = 3
  MaxStarts = 2
CHECK_DEADLOCK FALSE
INVARIANTS
  TypeOK
  IndexFitsStore
  CopyFollows
  ListMissesNothing
PROPERTY
  CatchesUp
