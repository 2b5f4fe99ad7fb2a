SPECIFICATION FairSpec
CONSTANTS
  Keys = {"W", "SPACE", "P"}
  HOLD_THRESHOLD = 2
INVARIANTS HeldIsDown PressKept OneMovePerPress
PROPERTIES PressServed
