SPECIFICATION Spec
CONSTANTS
  ROWS = 3
  COLS = 4
  ENTRIES = 8
  Machines <- AllMachines
  Messages <- Texts
  main_ = main_
  idle_ = idle_
  th1 = th1
  th2 = th2
  Main <- main_
  Idle <- idle_
  Thread1 <- th1
  Thread2 <- th2
  Threads <- FourThreads
  Vectors <- FewVectors
  int_handlers_asm <- Stubs
  HALF = 16
  LPIC_MASTER_ICW = 32
  LPIC_SLAVE_ICW = 40
  Devices <- PitAndKeyboard
  ENTRIES_PER_TABLE = 3
  PAGE = 3
  HIGH_BASE <- High
  KERNEL_BASE <- KernelAt
  KERNEL_SIZE <- KernelSize
  MemoryEnds <- Ends
INVARIANTS Mapped BootScreen BootTables Delivered Context
PROPERTY BootOutcome
