CONSTANTS
  t1 = t1  t2 = t2  t3 = t3
  p1 = p1  p2 = p2  p3 = p3
  h0 = h0
  NULL = NULL
  BootPageDir = BootPageDir
  Threads <- MCThreads
  Tasks <- MCTasks
  Procs <- MCProcs
  ProcOf <- MCProcOf
  READY_QUEUE_LEN = 1
  ReadyQueue <- MCReadyQueue
  Priorities = {0}
  Quantum = 20
  TickNsec = 10
  MaxFile = 2
  MaxWork = 3
  Val <- MCVal
  Zero <- MCZero
  RetOk <- MCRetOk
  RetErr <- MCRetErr
  Entry <- MCEntry
  Files <- MCFiles
  Pid <- MCPid
  DeviceLines = {}
  SpuriousPossible = FALSE
SPECIFICATION TrapFairSpec
INVARIANT RegistersKept
PROPERTY TasksKeepRunning
CHECK_DEADLOCK FALSE
