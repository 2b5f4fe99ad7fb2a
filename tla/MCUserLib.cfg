CONSTANTS
  Threads = {1, 2}
  Calls <- MC_Calls
  PRINTF_BUFFER_SIZE = 4
  MAX_CALLS = 2
  KnownErrors = {9}
  OtherErrors = {11}
SPECIFICATION Spec
INVARIANTS WholeMessages
