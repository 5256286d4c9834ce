SPECIFICATION MSpec
CONSTANTS
  m = m
  i = i
  a = a
  b = b
  c = c
  NULL = NULL
  RunHead = RunHead
  SleepHead = SleepHead
  MutexHead = MutexHead
  Threads = {m, i, a, b}
  Main = m
  Idle = i
  QueueReady = TRUE
  MaxDepth = 1
  TickFree <- ButExit
  Phases = {"two"}
  Count = 1
  Depth = 0
  Wakes = 1
  Workers = 1
  Iterations = 1
PROPERTIES MainFinishes
