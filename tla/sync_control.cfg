SPECIFICATION Spec
CONSTANTS
  Conns = {1, 2}
  MaxOutboundQueue = 2
  MaxInboundQueue = 2
  Window = 2
  HandshakeTimeout = 1
  HeartbeatInterval = 1
  InactivityTimeout = 3
  ReconnectMin = 1
  ReconnectMax = 2
  MaxAttempts = 2
  MaxSessions = 3
  MaxSaid = 1
  MaxFaults = 1
INVARIANTS
  TypeOK
  NoFalseAlarm
  NeverStuck
PROPERTIES
  ImplementsChannel
  Relinks
