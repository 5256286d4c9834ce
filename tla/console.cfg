SPECIFICATION Spec
CONSTANTS
  a = a
  b = b
  c = c
  NULL = NULL
  Threads = {a, b, c}
  CHAR_BITS = 2
  SHORT_BITS = 3
  INT_BITS = 4
  LONG_BITS = 5
  POINTER_WIDTH = 2
  Jobs <- SomeJobs
INVARIANTS Lines SectionsApart Strings
PROPERTY CallsReturn
