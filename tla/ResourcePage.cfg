SPECIFICATION Spec
CONSTANTS
  eu = eu
  us = us
  Kinds <- SomeKinds
  Namespaces = {eu, us}
  Names = {"x"}
  Contents = {"text"}
  MaxCalls = 2
  MaxVersion = 2
  MaxActs = 3
  None = None
SYMMETRY Sym
CHECK_DEADLOCK FALSE
INVARIANTS
  TypeOK
  QuietShowsStore
  EditorHoldsItem
  BindingsAreOwn
