SPECIFICATION MSpec
CONSTANTS
  m = m
  i = i
  a = a
  b = b
  c = c
  NULL = NULL
  RunHead = RunHead
  SleepHead = SleepHead
  MutexHead = MutexHead
  Threads = {m, i, a, b}
  Main = m
  Idle = i
  QueueReady = FALSE
  MaxDepth = 1
  TickFree <- Windows
  Phases = {"mutex"}
  Count = 1
  Depth = 1
  Wakes = 2
  Workers = 2
  Iterations = 2
PROPERTIES MainFinishes
