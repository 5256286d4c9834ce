SPECIFICATION Spec
CONSTANTS
  x = x
  y = y
  z = z
  g = g
  h = h
  NULL = NULL
  Entries = {x, y, z}
  Heads = {g, h}
INVARIANT Rings
PROPERTY ImplementsDeques
