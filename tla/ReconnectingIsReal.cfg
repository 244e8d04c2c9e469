SPECIFICATION ClientSpec
CONSTANTS
  None = None
  Gateways = {g1, g2}
  Callers = {c1, c2}
  MaxAttempts = 1
  DelayedAttempts = 1
SYMMETRY Symmetry
INVARIANT
  ReconnectingIsReal
