SPECIFICATION MSpec
CONSTANTS
  m = m
  i = i
  a = a
  b = b
  c = c
  NULL = NULL
  RunHead = RunHead
  SleepHead = SleepHead
  MutexHead = MutexHead
  Threads = {m, i, a, b}
  Main = m
  Idle = i
  QueueReady = TRUE
  MaxDepth = 1
  TickFree <- NoMutexWindows
  Phases = {"two", "chain", "sleeper"}
  Count = 1
  Depth = 1
  Wakes = 1
  Workers = 1
  Iterations = 1
INVARIANTS Joined
PROPERTIES MainOutcome EveryThreadRuns
