SPECIFICATION Spec
CONSTANTS
  Hardware = {1, 2}
  ModuleIds = {1, 2, 3, 4}
  MaxEvents = 2
  MaxFailures = 1
INVARIANTS LoopbacksHaveTheirSource AppsAreHeard
PROPERTIES ForeignUntouched Settles
CHECK_DEADLOCK FALSE
