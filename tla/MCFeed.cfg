SPECIFICATION Spec
CONSTANTS
  None = None
  a1 = a1
  a2 = a2
  b1 = b1
  bkA = bkA
  bkB = bkB
  x1 = x1
  m1 = m1
  Prices = {p, q}
  Addresses = {p1, p2, p3}
  MaxWire = 2
  Sources <- MCSources
  SportEventIds <- MCSportEventIds
  SelectionIds <- MCSelectionIds
  SourceOf <- MCSourceOf
  EventOf <- MCEventOf
  MarketOf <- MCMarketOf
  Unreadable <- MCUnreadable
SYMMETRY Symmetry
INVARIANTS
  FeedTypeOK
  MirrorsServer
  BookWithinStores
  EventsTellBook
PROPERTY
  AddedOnce
