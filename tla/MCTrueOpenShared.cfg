CONSTANTS
  EURUSD = EURUSD
  USDJPY = USDJPY
  None = None
  Symbols <- MCSymbols
  Primaries <- MCPrimaries
  Quotes <- MCQuotes
  Instants <- MCInstants

SPECIFICATION Spec

INVARIANTS
  BiasOfOwnLevel

CHECK_DEADLOCK FALSE
