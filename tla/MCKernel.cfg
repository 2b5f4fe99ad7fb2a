CONSTANTS
  NR_TASKS = 4
  DEFAULT_QUANTUM = 1
  MAX_TIDS_PER_PROCESS = 2
  TickMod = 2
  MaxPending = 1
  MaxPid = 3
  ThreadsExit = FALSE
  MasterLeaves = FALSE
  ThreadsFork = FALSE
  FramesRunOut = {"data", "threadstack"}
SPECIFICATION Spec
INVARIANTS ListsLinked ThreadTable ProcessTree OwnAddressSpace
PROPERTIES ImplementsSched
