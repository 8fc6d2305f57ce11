CONSTANTS
  Inbound = {}
  Outbound = {seed}
  Main = main
  Accepter = accepter
  Nobody = nobody
  MaxSockets = 3
SPECIFICATION Spec
PROPERTIES
  CountReturns
CHECK_DEADLOCK FALSE
