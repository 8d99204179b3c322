SPECIFICATION Spec
CONSTANTS
  EURUSD = EURUSD
  GBPUSD = GBPUSD
  USDJPY = USDJPY
  EUR = EUR
  GBP = GBP
  USD = USD
  JPY = JPY
  None = None
  Pairs <- MCPairs
  CurrencyPair <- MCCurrencyPair
  Configs <- MCConfigs
  Closes <- MCCloses
  Doubles = {FALSE}
  HalfSpread = 1
  StartEquity = 10000
  Days = 3
  FirstWeekday = 1
  MaxTrades = 3
  BasePercent = 2
  MaxPercent = 3
  DailyLossPercent = 5
  WeeklyLossPercent = 10
  MaxOpen = 3
  MaxCurrencyPercent = 4
  MaxCorrelationPercent = 4
INVARIANTS
  TypeOK
  ReportAddsUp
  OneEntryPerPairAndBar
  ForeignSymbolSilencesReplay
  LossWithinRisk
  IInv
PROPERTIES
  EveryBarIsTraded
  ReplayEnds
\* The replay ends.
CHECK_DEADLOCK FALSE
