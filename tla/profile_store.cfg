SPECIFICATION Spec
CONSTANTS
  HwCounts = {1, 2}
  MaxProfiles = 2
  MaxIds = 7
  MaxHandlers = 6
  MaxStrips = 4
  MaxAssigned = 1
  MaxFaults = 1
INVARIANTS
  TypeOK
  ActiveProfileExists
  ProfilesAreApart
  AssignmentsAreSaved
PROPERTIES
  StripsSurvive
CHECK_DEADLOCK FALSE
