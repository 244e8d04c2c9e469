SPECIFICATION FairClientSpec
CONSTANTS
  None = None
  Gateways = {g1}
  Callers = {c1, c2, c3}
  MaxAttempts = 2
  DelayedAttempts = 3
INVARIANTS
  TypeOK
  OneConnector
  GreetedHasSocket
PROPERTIES
  SessionSpec
  BackoffGrows
  DownIsLeft
  ConnectEnds
  DisconnectEndsEventually
