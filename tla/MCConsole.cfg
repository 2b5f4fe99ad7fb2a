CONSTANTS
  NUM_COLUMNS = 3  NUM_ROWS = 3
  BootText <- MC_BootText
  SYS_BUFFER_SIZE = 2
  PAGE_SIZE = 4  USER_FIRST_PAGE = 2  TOTAL_PAGES = 4
  WORD = 64
  UserByte <- MC_UserByte
  Calls <- MC_Calls
  KernelTexts <- MC_KernelTexts
  TIME_WIDTH = 1  FPS_WIDTH = 1
  FPS_UPDATE_INTERVAL = 2
  MAX_LINES = 5  MAX_TICKS = 4  MAX_FRAMES = 2
SPECIFICATION Spec
INVARIANTS WindowShowsPaper EveryByteOnce
CHECK_DEADLOCK FALSE
