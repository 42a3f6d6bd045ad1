SPECIFICATION Spec
CONSTANTS
  Volumes = {v1, v2}
  Edit = Edit
  NoMirror = NoMirror
  NoIntent = NoIntent
  MaxSessions = 2
  MaxLost = 1
  MaxLocal = 1
  MaxMoves = 0
  MaxToggles = 1
  MaxLimited = 1
  MaxRestarts = 1
  MaxPending = 2
  MaxSubmits = 2
  MaxRetries = 1
  MaxDisturbances = 3
INVARIANTS
  TypeOK
  MirrorIsCurrent
  ChangesAreCaptured
  AnswersAreTrue
  InflightIsSomewhere
  RequestIsOpen
  PermissionIsTold
PROPERTIES
  ReadYourWrites
SYMMETRY VolumeSymmetry
CONSTRAINT FewDisturbances
CHECK_DEADLOCK FALSE
