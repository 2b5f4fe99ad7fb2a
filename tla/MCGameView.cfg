SPECIFICATION FairSpec
CONSTANTS
  SCREEN_WIDTH = 5
  SCREEN_HEIGHT = 6
  STATUS_TOP_ROW = 0
  STATUS_BOTTOM_ROW = 5
  LayerOfRow <- MC_LayerOfRow
  MAP_WIDTH = 5
  MAP_HEIGHT = 5
  ROW_SKY_START = 1
  ROW_SKY_END = 1
  ROW_BORDER = 4
  InitMap <- MC_InitMap
  PlayerStart <- MC_Start
  PLAYER_START <- MC_Start
  EnemySpawns <- MC_Fygar
  RockSpawns <- MC_OneRock
  InitialLives = 2
  PLAYER_SPEED = 1
  ENEMY_SPEED = 0
  GHOST_MODE_THRESHOLD = 1
  RESPAWN_DELAY = 1
  ROCK_WOBBLE_TICKS = 1
  ROCK_BLINK_COUNT = 1
  ROCK_BLINK_DURATION = 1
  BLINKS = 1
  BLINK_TICKS = 1
  INFLATE_LEVELS = 2
  ATTACK_RANGE_V = 1
  ATTACK_RANGE_H = 2
  FYGAR_FIRE_RANGE = 2
  FYGAR_FIRE_DURATION = 2
  FYGAR_FIRE_COOLDOWN = 1
  LayerPoints <- MC_NoWorth
  ROCK_KILL_MULTIPLIER = 2
  BONUS_POINTS = 0
  MAX_SCORE = 4
  FirstDirs <- MC_FirstDirs
  Inputs <- MC_Inputs
INVARIANTS RemainingCounts OnOpenGround PictureTrue
PROPERTIES RocksCrush RocksComeDown
CHECK_DEADLOCK FALSE
