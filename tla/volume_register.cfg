SPECIFICATION ObservedSpec
CONSTANTS
  Channels = {ch1, ch2}
  Volumes = {low, high}
  NoVolume = none
  Keys <- MCKeys
  Values <- MCValues
  Groupings <- MCGroupings
  Workers = {w1, w2}
  MaxAbandoned = 1
  MaxGeneration = 1
  MaxSequence = 2
  MaxRegroups = 0
  Hung = {}
PROPERTIES
  ImplementsRegister
SYMMETRY Symmetric
