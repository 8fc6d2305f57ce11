CONSTANTS
  Inbound = {alice, bob}
  Outbound = {bob}
  Main = main
  Accepter = accepter
  Nobody = nobody
  MaxSockets = 3
SPECIFICATION Spec
INVARIANTS
  TypeOK ReferenceValid SocketsAccounted StopFinal PeersServed
PROPERTIES
  StopReturns
CHECK_DEADLOCK FALSE
