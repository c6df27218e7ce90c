SPECIFICATION FormsSpec
CONSTANTS
  Routes <- SomeRoutes
  eu = eu
  us = us
  x = x
  y = y
  Namespaces = {eu, us}
  Shown = {eu, us}
  Pickers <- SomePickers
  Names = {x, y}
  MaxRefs = 2
  MaxGiven = 1
  GivenKinds = {"account"}
  MaxLoads = 2
  a1 = a1
  a2 = a2
  b1 = b1
  r = r
  half = half
  Items = {a1, a2, b1}
  LoadOf <- Order
  Loads = 2
  Queries <- SomeQueries
  PolicyOf <- Policies
  Stored <- InStore
  StoredTags <- InStoreTags
  Words = {"y"}
  TypedRefs = {r, half}
  Incomplete = {half}
  Keys = {"Bool"}
  TagKeys = {"k"}
  Fields <- SomeFields
  MaxStatements = 2
  MaxEntries = 2
  MaxTags = 4
  MaxTaggings = 1
  MaxSaves = 1
  MaxActs = 2
  None = None
SYMMETRY Sym
CONSTRAINT AccountFirst
INVARIANTS
  FormsTypeOK
  RefsDistinct
  CapturedIsCurrent
  StatementsAreOwn
PROPERTIES
  PickedWasOffered
  DialogEditsOne
CHECK_DEADLOCK FALSE
