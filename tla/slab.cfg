SPECIFICATION Spec
CONSTANTS
  p = p
  q = q
  r = r
  NULL = NULL
  Blocks = {p, q, r}
  Requests <- Sizes
  PAGE_SIZE = 16
  HEADER = 6
  NODE = 1
  MIN_SLAB_NODES = 2
INVARIANTS ObjectsFit Chains Partials NoAssertion
PROPERTY ImplementsPool
SYMMETRY Pages
