SPECIFICATION MSpec
CONSTANTS
  m = m
  i = i
  a = a
  b = b
  c = c
  NULL = NULL
  RunHead = RunHead
  SleepHead = SleepHead
  MutexHead = MutexHead
  Threads = {m, i, a, b, c}
  Main = m
  Idle = i
  QueueReady = FALSE
  MaxDepth = 1
  TickFree <- ButPrinting
  Phases = {"mutex"}
  Count = 1
  Depth = 0
  Wakes = 1
  Workers = 3
  Iterations = 1
INVARIANTS NeverStops
