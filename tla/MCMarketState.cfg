CONSTANTS
  EURUSD = EURUSD
  GBPUSD = GBPUSD
  None = None
  Symbols <- MCSymbols
  Quotes <- MCQuotes
  PairSets <- MCPairSets
  Instants <- MCInstants

SPECIFICATION Spec

INVARIANTS
  TypeOK
  SessionInsideDaily
  NothingEverFires
  IInv

  

CHECK_DEADLOCK FALSE
