SPECIFICATION MCFairSpec
CONSTANTS
  c1 = c1 c2 = c2 nil = nil
  Clients <- MCClients
  Calls <- MCCalls
  Conns = {1, 2}
  MaxCalls <- MCMaxCalls
  None = nil
  Byte = 3
CHECK_DEADLOCK FALSE
INVARIANTS
  TypeOK
  ExecutedAsSent
  StopDrains
  CodecExact
  FlagsAnywhere
PROPERTIES
  ImplementsRemoteCall
  CallsReturn
  ShutdownEnds
