CONSTANTS
  EURUSD = EURUSD
  USDJPY = USDJPY
  None = None
  Symbols <- MCOneSymbol
  Primaries <- MCOnePrimary
  Quotes <- MCQuotes
  Instants <- MCInstants

SPECIFICATION Spec

INVARIANTS
  IInv
  LevelOfItsPeriod
  PartialWeekHasNoLevel
  EntryFollowsTheFiles
PROPERTIES
  PushedLevelsHold

CHECK_DEADLOCK FALSE
