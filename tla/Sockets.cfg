\* One datagram in a socket makes the next writer wait.
CONSTANTS
  engine = engine
  apps = apps
  Clients <- TwoClients
  Room = 1
  MaxSent <- EngineTwice
  MaxDials <- EngineTwice
SPECIFICATION FairSpec
PROPERTIES
  ImplementsExchange
  RequestHandled
  CloseReturns
CHECK_DEADLOCK FALSE
