SPECIFICATION FairPathSpec
CONSTANTS
  MAP_WIDTH = 80
  MAP_HEIGHT = 24
  ROW_SKY_START = 1
  ROW_SKY_END = 2
  ROW_BORDER = 23
  Rounds = {0, 1, 2, 3, 4, 5, 6}
  MAX_ENEMIES = 8
  MAX_ROCKS = 10
  MAX_TUNNELS = 16
  POOKA_SPEED = 16
  FYGAR_SPEED = 12
  MAX_PRIORITY_QUEUE_SIZE = 256
  INFINITY = 9999
  WALL_COST = 10
  Plays <- MC_Plays
INVARIANTS LevelsFit PathsRight
PROPERTIES LevelLoads SearchProgresses
