CONSTANTS
  r = r
  q = q
  x = x
  c = c
  s = s
  h = h
  p = p
  l = l
  m = m
  n = n
  o = o
  None = None
  Id = {r, q, x, c, s, h, p, l, m, n, o}
  Name <- Names
  Label <- Labels
  Designs <- SensorsOnly
  Versions <- SomeVersions
  MaxEdits = 0
  MaxCompiles = 1
  MaxLost = 1
SPECIFICATION Spec
CHECK_DEADLOCK FALSE
INVARIANTS CheckedCompiles
