CONSTANTS
  NR_TASKS = 4
  DEFAULT_QUANTUM = 2
  TickMod = 2
  MaxPending = 1
SPECIFICATION FairSpec
INVARIANT SchedInv
PROPERTIES NoOvertaking BlockedUntilUnblocked WaitersRun
