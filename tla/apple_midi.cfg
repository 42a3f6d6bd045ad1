SPECIFICATION Spec
CONSTANTS
  Bindings = {1, 2}
  Tokens = {1, 2, 3, 4}
  SequenceBits = 4
  SequenceWindow = 4
  OutgoingCapacity = 2
  InvitationInterval = 1
  MaxInvitations = 2
  SyncInterval = 1
  InactivityTimeout = 3
  MaxBackoff = 2
  RecoveryInitial = 1
  RecoveryMax = 2
  ReannounceLimit = 2
  MaxCC = 2
  MaxFaults = 1
INVARIANTS
  TypeOK
  Agreement
  NewestArrives
PROPERTIES
  InOrderOnce
  Reconnects
