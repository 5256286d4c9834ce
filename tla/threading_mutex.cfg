SPECIFICATION Spec
CONSTANTS
  m = m
  i = i
  a = a
  NULL = NULL
  RunHead = RunHead
  SleepHead = SleepHead
  MutexHead = MutexHead
  Threads = {m, i, a}
  Main = m
  Idle = i
  QueueReady = TRUE
  MaxDepth = 2
  TickFree <- Windows
INVARIANTS NoOrphanLock ListsWellFormed Placement NoBlockedHolder ExitedNeverRuns NoLostWakeup
PROPERTY Implements
