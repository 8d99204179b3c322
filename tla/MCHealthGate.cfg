SPECIFICATION Spec
CONSTANTS
  EURUSD = EURUSD
  GBPUSD = GBPUSD
  USDJPY = USDJPY
  None = None
  Symbols <- MCSymbols
  PairSets <- MCPairSets
  Spreads <- MCSpreads
  Instants <- MCInstants
  MaxSamples = 2
  MaxSpreadSamples = 3
  CorrelationLimit = 30
  SpreadLimit = 30
  SpreadMultiplier = 150
INVARIANTS
  TypeOK
  SilenceIsReported
  UnfitMachineNeverEnters
  RejectedIsWider
  IInv
\* No invocation starts after the last instant.
CHECK_DEADLOCK FALSE
