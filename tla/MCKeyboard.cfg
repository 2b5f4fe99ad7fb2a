SPECIFICATION FairSpec
CONSTANTS
  Tasks = {t1, t2}
  Dirs = {"P", "Q"}
  Idle = Idle
  Keys = {"A", "B"}
  Points = 2
INVARIANTS Transparent CallbackGetsItsKey
PROPERTIES GoesOnWhereInterrupted HandlerEnds
