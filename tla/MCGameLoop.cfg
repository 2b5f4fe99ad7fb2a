SPECIFICATION FairSpec
CONSTANTS
  Keys = {"ENTER", "P", "ESC", "C"}
  HOLD_THRESHOLD = 1
  MAX_ROUNDS = 2
  INITIAL_LIVES = 2
  Enemies = 1
  MaxDeaths = 2
  RoundStartDelay = 1
  RespawnDelay = 1
  LevelClearDelay = 1
  GameOverDelay = 1
  ClearedDelay = 1
INVARIANTS CopiesAgree VictoryEarned Playable
PROPERTIES SceneShown
