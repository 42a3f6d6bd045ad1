SPECIFICATION Spec
CONSTANTS
  Channels = {ch1, ch2}
  Volumes = {low}
  NoVolume = none
  Keys <- MCKeys
  Values <- MCValues
  Groupings <- MCGroupings
  Workers = {w1, w2}
  MaxAbandoned = 1
  MaxGeneration = 0
  MaxSequence = 3
  MaxRegroups = 2
  Hung = {}
PROPERTIES
  NewestWrittenLast
SYMMETRY Symmetric
