CONSTANTS
  EURUSD = EURUSD
  GBPUSD = GBPUSD
  Buy = Buy
  Sell = Sell
  None = None
  Pairs <- MCPairs
  Directions <- MCOneDirection
  Ids = {i1, i2}
  PairSets <- MCOnePairSet
  MaxOpen = 1
  MinGap = 2
  MaxRuns = 2
  MaxClock = 1
  MaxByHand = 0
  ByHandFrom = 0

SPECIFICATION Spec

INVARIANTS
  EnteredOncePerWindow

CHECK_DEADLOCK FALSE
