SPECIFICATION Spec
CONSTANTS
  None = None
  bkA = bkA
  bkB = bkB
  SportEventIds <- MCSportEventIds
  MarketIds <- MCMarketIds
  SelectionIds <- MCSelectionIds
  Bookmakers <- MCBookmakers
  Segments <- MCSegments
  SportEvents <- MCSportEvents
  BookmakerOf <- MCBookmakerOf
INVARIANTS
  TypeOK
  IndexesExact
  LookupsExact
  NavigationAgrees
PROPERTY
  ViewSpec
