SPECIFICATION Spec
CONSTANTS
  NR_TASKS = 3
  TOTAL_PAGES = 18
  NUM_PAG_KERNEL = 2
  NUM_PAG_DATA = 1
  NUM_PAG_CODE = 2
  THREAD_STACK_REGION_PAGES = 2
  THREAD_STACK_INITIAL_PAGES = 1
  MAX_TIDS_PER_PROCESS = 3
INVARIANTS OwnedOnce StacksApart NoFrameLost HandlerHasItsStack
CHECK_DEADLOCK FALSE
