CONSTANTS
  EURUSD = EURUSD
  GBPUSD = GBPUSD
  Buy = Buy
  Sell = Sell
  None = None
  Pairs <- MCPairs
  Directions <- MCOneDirection
  Ids = {i1, i2, i3}

  PairSets <- MCTwoPairSets
  MaxOpen = 2
  MinGap = 1
  MaxRuns = 2
  MaxClock = 1
  MaxByHand = 1
  ByHandFrom = 1

SPECIFICATION FairSpec

INVARIANTS
  TypeOK
  OwnPositionsCapped
  OwnPositionsSpaced
  EveryOwnPositionWatched
  IInv
PROPERTIES
  InvocationEnds
  FillsAreLogged
  ImplementsPositionBook

CHECK_DEADLOCK FALSE
