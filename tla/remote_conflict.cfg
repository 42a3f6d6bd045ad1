SPECIFICATION Spec
CONSTANTS
  Volumes = {v1, v2}
  Edit = Edit
  NoMirror = NoMirror
  NoIntent = NoIntent
  MaxSessions = 1
  MaxLost = 0
  MaxLocal = 1
  MaxMoves = 0
  MaxToggles = 0
  MaxLimited = 0
  MaxRestarts = 0
  MaxPending = 2
  MaxSubmits = 2
  MaxRetries = 0
  MaxDisturbances = 9
PROPERTIES
  NoBlindOverwrite
CHECK_DEADLOCK FALSE
