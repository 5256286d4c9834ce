SPECIFICATION Spec
CONSTANTS
  m = m
  i = i
  a = a
  NULL = NULL
  RunHead = RunHead
  SleepHead = SleepHead
  MutexHead = MutexHead
  Threads = {m, i, a}
  Main = m
  Idle = i
  QueueReady = FALSE
  MaxDepth = 2
  TickFree <- Anywhere
INVARIANTS TypeOK SpinExclusion FlagRestored MutexExclusion NeverDies
