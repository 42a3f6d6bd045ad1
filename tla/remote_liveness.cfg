SPECIFICATION FairFromOneVolume
CONSTANTS
  Volumes = {v1, v2}
  Edit = Edit
  NoMirror = NoMirror
  NoIntent = NoIntent
  MaxSessions = 2
  MaxLost = 1
  MaxLocal = 1
  MaxMoves = 1
  MaxToggles = 1
  MaxLimited = 1
  MaxRestarts = 1
  MaxPending = 1
  MaxSubmits = 2
  MaxRetries = 0
  MaxDisturbances = 2
PROPERTIES
  EventuallyInSync
CONSTRAINT FewDisturbances
CHECK_DEADLOCK FALSE
