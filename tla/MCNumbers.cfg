CONSTANTS
  WIDTH = 8
  RATE_STEP = 431
  TICKS_PER_SECOND = 320
  Beginnings = {0, 9999}
  MAX_TICKS = 400
SPECIFICATION Spec
INVARIANTS TextsReadBack
