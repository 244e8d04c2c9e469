SPECIFICATION Spec
CONSTANTS
  None = None
  x1 = x1
  x2 = x2
  x3 = x3
  SelectionIds <- MCSelectionIds
  Prices <- MCPrices
  Unit = 5
  Whole = 16
  OfferedSize <- MCOfferedSize
  OrderBooks <- MCOrderBooks
  WireMarkets <- MCWireMarkets
INVARIANTS
  MarketTypeOK
  SizeIsOfItsPrice
  FairOddsAddUp
  FairOddsSane
  FairOddAnswered
  DepthIsExact
