SPECIFICATION TrackedSpec
CONSTANTS
  None = None
  bkA = bkA
  bkB = bkB
  a1 = a1
  b1 = b1
  x1 = x1
  y1 = y1
  m1 = m1
  m2 = m2
  p1 = p1
  p2 = p2
  Prices = {100, 104, 108}
  DriftPercent = 5
  Addresses = {p1, p2}
  MaxWire = 1
  Sources <- MCSources
  SportEventIds <- MCSportEventIds
  SelectionIds <- MCSelectionIds
  SourceOf <- MCSourceOf
  EventOf <- MCEventOf
  MarketOf <- MCMarketOf
  Unreadable <- MCUnreadable
SYMMETRY Symmetry
INVARIANTS
  TrackerTypeOK
  BaselinesCurrent
PROPERTY
  NoMissedMove
