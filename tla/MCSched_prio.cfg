CONSTANTS
  t1 = t1  t2 = t2  t3 = t3  t4 = t4
  p1 = p1  p2 = p2  p3 = p3  p4 = p4
  h0 = h0  h1 = h1  h2 = h2
  NULL = NULL
  BootPageDir = BootPageDir
  Threads <- MCThreads4
  Tasks <- MCTasks4
  Procs <- MCProcs
  ProcOf <- MCProcOf4
  READY_QUEUE_LEN = 3
  ReadyQueue <- MCReadyQueue
  Priorities = {0, 1, 2}
  Quantum = 25
  TickNsec = 10
SPECIFICATION FairSpec
INVARIANTS TypeOK QueuesSound MostUrgentRuns SelectedIsCurrent
PROPERTIES MostUrgentNeverStarve ImplementsRoundRobin
