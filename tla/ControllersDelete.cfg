SPECIFICATION Spec
CONSTANTS
  p1 = p1
  p2 = p2
  s1 = s1
  s2 = s2
  Procs = {p1, p2}
  Servers = {s1, s2}
  Urls <- SomeUrls
  Bodies <- SomeBodies
  None = None
  MaxStarts = 2
CHECK_DEADLOCK FALSE
PROPERTY DeleteDeletes
