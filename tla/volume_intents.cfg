SPECIFICATION Spec
CONSTANTS
  Channels = {ch1, ch2}
  Volumes = {low, high}
  NoVolume = none
  Keys <- MCKeys
  Values <- MCValues
  Groupings <- MCGroupings
  Workers = {w1, w2}
  MaxAbandoned = 1
  MaxGeneration = 1
  MaxSequence = 3
  MaxRegroups = 1
  Hung = {}
INVARIANTS
  TypeOK
  QueueConsistent
  NoLostWakeup
  WorkersAccounted
  StallWatched
  LatestIsCarried
  PendingIsLatest
  FadersShowLatest
PROPERTIES
  NoStaleStart
  NewestWrittenLastInGroup
SYMMETRY Symmetric
