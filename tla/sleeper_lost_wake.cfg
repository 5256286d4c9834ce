SPECIFICATION MSpec
CONSTANTS
  m = m
  i = i
  a = a
  b = b
  c = c
  NULL = NULL
  RunHead = RunHead
  SleepHead = SleepHead
  MutexHead = MutexHead
  Threads = {m, i, a}
  Main = m
  Idle = i
  QueueReady = TRUE
  MaxDepth = 1
  TickFree <- Windows
  Phases = {"sleeper"}
  Count = 0
  Depth = 0
  Wakes = 1
  Workers = 1
  Iterations = 1
PROPERTIES MainFinishes
